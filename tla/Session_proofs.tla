---------------------------- MODULE Session_proofs ----------------------------
(***************************************************************************)
(* What the members of a session work with, for any number of them: the    *)
(* datagrams of UdpTunnel, whatever the programs, fragments and limits of  *)
(* the tables, the health of a peer of PeerHealth, and the ports of        *)
(* SharedPorts.                                                            *)
(***************************************************************************)
EXTENDS UdpTunnel, PeerHealth, SharedPorts, SequenceTheorems, FiniteSetTheorems,
        WellFoundedInduction, TLAPS

-----------------------------------------------------------------------------
(* Sequences and sets *)

\* Adding to and taking from a table, seen as the set of its entries.
LEMMA TableSteps ==
  ASSUME NEW S, NEW q \in Seq(S), NEW e \in S
  PROVE  /\ Append(q, e) \in Seq(S) /\ Len(Append(q, e)) = Len(q) + 1
         /\ ToSet(Append(q, e)) = ToSet(q) \cup {e}
         /\ q # <<>> => /\ Tail(q) \in Seq(S) /\ Len(Tail(q)) = Len(q) - 1
                        /\ ToSet(Tail(q)) \subseteq ToSet(q)
<1>1. /\ Append(q, e) \in Seq(S) /\ Len(Append(q, e)) = Len(q) + 1
      /\ \A i \in 1 .. Len(q) : Append(q, e)[i] = q[i]
      /\ Append(q, e)[Len(q) + 1] = e
  OBVIOUS
<1>2. ToSet(Append(q, e)) = ToSet(q) \cup {e}
  <2>1. DOMAIN Append(q, e) = 1 .. Len(q) + 1 /\ DOMAIN q = 1 .. Len(q) /\ Len(q) \in Nat
    BY <1>1
  <2>2. \A i \in 1 .. Len(q) + 1 : i \in 1 .. Len(q) \/ i = Len(q) + 1
    BY <2>1
  <2>3. 1 .. Len(q) \subseteq 1 .. Len(q) + 1 /\ Len(q) + 1 \in 1 .. Len(q) + 1
    BY <2>1
  <2> QED BY <1>1, <2>1, <2>2, <2>3, Zenon DEF ToSet
<1>3. ASSUME q # <<>>
      PROVE  /\ Tail(q) \in Seq(S) /\ Len(Tail(q)) = Len(q) - 1
             /\ ToSet(Tail(q)) \subseteq ToSet(q)
  <2>1. /\ Tail(q) \in Seq(S) /\ Len(Tail(q)) = Len(q) - 1 /\ Len(q) \in Nat
        /\ \A i \in 1 .. Len(q) - 1 : Tail(q)[i] = q[i + 1]
    BY <1>3
  <2>2. DOMAIN Tail(q) = 1 .. Len(q) - 1 /\ DOMAIN q = 1 .. Len(q)
    BY <2>1
  <2>3. \A i \in 1 .. Len(q) - 1 : i + 1 \in 1 .. Len(q)
    BY <2>1
  <2>4. ToSet(Tail(q)) \subseteq ToSet(q)
    BY <2>1, <2>2, <2>3, Zenon DEF ToSet
  <2> QED BY <2>1, <2>4
<1> QED BY <1>1, <1>2, <1>3

\* Taking one entry out of a table.
LEMMA TableRemoval ==
  ASSUME NEW S, NEW q \in Seq(S), NEW i \in DOMAIN q
  PROVE  /\ RemoveAt(q, i) \in Seq(S) /\ Len(RemoveAt(q, i)) = Len(q) - 1
         /\ ToSet(RemoveAt(q, i)) \subseteq ToSet(q)
<1> DEFINE a == SubSeq(q, 1, i - 1)
           b == SubSeq(q, i + 1, Len(q))
<1>1. Len(q) \in Nat /\ DOMAIN q = 1 .. Len(q) /\ i \in 1 .. Len(q)
  OBVIOUS
<1>2. /\ a \in Seq(S) /\ Len(a) = i - 1
      /\ \A j \in 1 .. i - 1 : a[j] = q[j]
  <2>1. \A j \in 1 .. i - 1 : q[j] \in S
    BY <1>1
  <2>2. /\ a \in Seq(S)
        /\ Len(a) = IF 1 <= i - 1 THEN i - 1 - 1 + 1 ELSE 0
        /\ \A j \in 1 .. i - 1 - 1 + 1 : a[j] = q[1 + j - 1]
    BY <1>1, SubSeqProperties
  <2> QED BY <1>1, <2>2
<1>3. /\ b \in Seq(S) /\ Len(b) = Len(q) - i
      /\ \A j \in 1 .. Len(q) - i : b[j] = q[i + j]
  <2>2. /\ b \in Seq(S)
        /\ Len(b) = IF i + 1 <= Len(q) THEN Len(q) - (i + 1) + 1 ELSE 0
        /\ \A j \in 1 .. Len(q) - (i + 1) + 1 : b[j] = q[i + 1 + j - 1]
    BY <1>1, SubSeqProperties
  <2> QED BY <1>1, <2>2
<1> HIDE DEF a, b
<1>4. /\ a \o b \in Seq(S) /\ Len(a \o b) = Len(a) + Len(b)
      /\ \A j \in 1 .. Len(a) + Len(b) :
            (a \o b)[j] = IF j <= Len(a) THEN a[j] ELSE b[j - Len(a)]
  BY <1>2, <1>3, ConcatProperties, Zenon
<1>5. Len(a) + Len(b) = Len(q) - 1
  BY <1>1, <1>2, <1>3
<1> DEFINE c == a \o b
<1>6. /\ c \in Seq(S) /\ Len(c) = Len(q) - 1
      /\ \A j \in 1 .. Len(q) - 1 : c[j] = IF j <= Len(a) THEN a[j] ELSE b[j - Len(a)]
  BY <1>4, <1>5, Zenon
<1>7. RemoveAt(q, i) = c
  BY DEF RemoveAt, a, b
<1> HIDE DEF c
<1>8. \A j \in 1 .. Len(q) - 1 : \E k \in 1 .. Len(q) : c[j] = q[k]
  <2> TAKE j \in 1 .. Len(q) - 1
  <2>1. CASE j <= i - 1
    <3>1. c[j] = q[j] /\ j \in 1 .. Len(q)
      BY <1>1, <1>2, <1>6, <2>1
    <3> QED BY <3>1
  <2>2. CASE ~(j <= i - 1)
    <3>1. j - (i - 1) \in 1 .. Len(q) - i /\ j + 1 \in 1 .. Len(q)
          /\ i + (j - (i - 1)) = j + 1
      BY <1>1, <2>2
    <3>2. c[j] = b[j - (i - 1)]
      BY <1>2, <1>6, <2>2
    <3>3. c[j] = q[j + 1]
      BY <1>3, <3>1, <3>2
    <3> QED BY <3>1, <3>3
  <2> QED BY <2>1, <2>2
<1>9. DOMAIN c = 1 .. Len(q) - 1
  BY <1>1, <1>6
<1>10. ToSet(c) \subseteq ToSet(q)
  BY <1>1, <1>8, <1>9, Zenon DEF ToSet
<1> QED BY <1>6, <1>7, <1>10

\* As many packets of one datagram as it has fragments, at different places, are
\* all of it.
LEMMA AllPlaces ==
  ASSUME NEW got, NEW total \in Nat \ {0}, NEW f \in [got -> 0 .. total - 1],
         IsFiniteSet(got), Cardinality(got) = total,
         \A p, q \in got : f[p] = f[q] => p = q
  PROVE  \A i \in 0 .. total - 1 : \E p \in got : f[p] = i
<1>1. IsFiniteSet(0 .. total - 1) /\ Cardinality(0 .. total - 1) = total
  BY FS_Interval
<1>2. f \in Injection(got, 0 .. total - 1)
  BY DEF Injection, IsInjective
<1>3. f \in Surjection(got, 0 .. total - 1)
  BY <1>1, <1>2, FS_Injection
<1> QED BY <1>3 DEF Surjection

-----------------------------------------------------------------------------
(* The inductive invariant *)

\* A packet carries the fragment its place names.
AirSound ==
    \A s \in Sides : \A p \in air[s] :
        p.index = p.piece.part /\ p.total = p.piece.of /\ p.index < p.total

\* An entry holds fragments that were sent, of one datagram and one length, at
\* different places.
EntrySound(s, e) ==
    /\ e.got # {} /\ IsFiniteSet(e.got) /\ e.got \subseteq air[s]
    /\ \A p \in e.got : p.stream = e.stream /\ p.id = e.id /\ p.total > 1
    /\ \A p, q \in e.got : p.total = q.total /\ (p.index = q.index => p = q)

EntriesSound == \A s \in Sides : \A e \in ToSet(partial[s]) : EntrySound(s, e)

\* A stream is numbered with a datagram at the latest.
Counted ==
    /\ newStream <= numbered["client"] + 1
    /\ numbered["client"] <= load.sends

Sound == UdpTypeOK /\ AirSound /\ EntriesSound /\ Counted

-----------------------------------------------------------------------------
(* Sending *)

\* The bounds of a behaviour are within the constants.
LEMMA LoadBounds ==
  ASSUME UdpTypeOK
  PROVE  /\ load.sends \in Nat /\ load.sends <= MaxSends /\ MaxSends \in Nat
         /\ load.fragments \in 1 .. MaxFragments /\ MaxFragments \in Nat \ {0}
<1>1. load \in [sends : 0 .. MaxSends, replies : Nat,
               fragments : 1 .. MaxFragments, reopenings : Nat]
  BY UdpAssumption DEF UdpTypeOK
<1>2. load.sends \in 0 .. MaxSends /\ load.fragments \in 1 .. MaxFragments
  BY <1>1
<1> QED BY <1>2, UdpAssumption

\* What a datagram adds to the air.
Fresh(s, stream, who, total, q) ==
    /\ q.stream = stream /\ q.total = total
    /\ q.index = q.piece.part /\ q.total = q.piece.of /\ q.index < q.total
    /\ q.piece.who = who /\ q.piece.n = numbered[s] + 1
    /\ q.id = IF total = 1 THEN 0 ELSE newId[s]

LEMMA Transmission ==
  ASSUME UdpTypeOK, NEW s \in Sides, NEW stream \in Streams, NEW who \in Programs,
         NEW total \in Sizes, Transmit(s, stream, who, total)
  PROVE  /\ air' \in [Sides -> SUBSET Packet]
         /\ newId' \in [Sides -> Nat \ {0}] /\ numbered' \in [Sides -> Nat]
         /\ numbered' = [numbered EXCEPT ![s] = numbered[s] + 1]
         /\ newId' = [newId EXCEPT ![s] = IF total = 1 THEN newId[s] ELSE newId[s] + 1]
         /\ \A r \in Sides : air[r] \subseteq air'[r]
         /\ \A r \in Sides : \A q \in air'[r] :
                q \notin air[r] => r = Far(s) /\ Fresh(s, stream, who, total, q)
<1>1. /\ air \in [Sides -> SUBSET Packet] /\ newId \in [Sides -> Nat \ {0}]
      /\ numbered \in [Sides -> Nat]
  BY DEF UdpTypeOK
<1>2. Far(s) \in Sides
  BY DEF Far, Sides
<1>3. total \in Nat \ {0} /\ MaxFragments \in Nat /\ total <= MaxFragments
  BY UdpAssumption DEF Sizes
<1> DEFINE packet(i) ==
             [stream |-> stream, id |-> IF total = 1 THEN 0 ELSE newId[s],
              index |-> i, total |-> total,
              piece |-> [who |-> who, n |-> numbered[s] + 1, part |-> i, of |-> total]]
<1>4. ASSUME NEW i \in 0 .. total - 1
      PROVE  packet(i) \in Packet /\ Fresh(s, stream, who, total, packet(i))
  <2>1. i \in Places /\ i < total
    BY <1>3 DEF Places
  <2>2. numbered[s] + 1 \in Nat /\ (IF total = 1 THEN 0 ELSE newId[s]) \in Nat
    BY <1>1
  <2>3. packet(i).piece \in Piece
    BY <2>1, <2>2 DEF Piece
  <2>4. packet(i) \in Packet
    BY <2>1, <2>2, <2>3 DEF Packet, Piece
  <2>5. Fresh(s, stream, who, total, packet(i))
    BY <2>1 DEF Fresh
  <2> QED BY <2>4, <2>5
<1>5. air' = [air EXCEPT ![Far(s)] = air[Far(s)] \cup {packet(i) : i \in 0 .. total - 1}]
  BY DEF Transmit
<1>6. /\ newId' = [newId EXCEPT ![s] = IF total = 1 THEN newId[s] ELSE newId[s] + 1]
      /\ numbered' = [numbered EXCEPT ![s] = numbered[s] + 1]
  BY DEF Transmit
<1> HIDE DEF packet
<1>7. {packet(i) : i \in 0 .. total - 1} \subseteq Packet
  BY <1>4
<1>8. air' \in [Sides -> SUBSET Packet]
  BY <1>1, <1>2, <1>5, <1>7
<1>9. newId' \in [Sides -> Nat \ {0}] /\ numbered' \in [Sides -> Nat]
  BY <1>1, <1>6
<1>10. \A r \in Sides : air[r] \subseteq air'[r]
  BY <1>1, <1>2, <1>5
<1>11. ASSUME NEW r \in Sides, NEW q \in air'[r], q \notin air[r]
       PROVE  r = Far(s) /\ Fresh(s, stream, who, total, q)
  <2>1. r = Far(s)
    BY <1>1, <1>2, <1>5, <1>11
  <2>2. q \in {packet(i) : i \in 0 .. total - 1}
    BY <1>1, <1>2, <1>5, <1>11, <2>1
  <2> QED BY <1>4, <2>1, <2>2
<1> QED BY <1>6, <1>8, <1>9, <1>10, <1>11

\* What a step adds to the air or takes from the tables leaves the rest sound.
LEMMA Grown ==
  ASSUME UdpTypeOK, AirSound, EntriesSound,
         NEW s \in Sides, NEW stream, NEW who, NEW total,
         \A r \in Sides : air[r] \subseteq air'[r],
         \A r \in Sides : \A q \in air'[r] :
             q \notin air[r] => r = Far(s) /\ Fresh(s, stream, who, total, q),
         UNCHANGED partial
  PROVE  AirSound' /\ EntriesSound'
<1>1. AirSound'
  <2> SUFFICES ASSUME NEW r \in Sides, NEW p \in air'[r]
               PROVE  p.index = p.piece.part /\ p.total = p.piece.of /\ p.index < p.total
    BY DEF AirSound
  <2>1. CASE p \in air[r]
    BY <2>1 DEF AirSound
  <2>2. CASE p \notin air[r]
    BY <2>2 DEF Fresh
  <2> QED BY <2>1, <2>2
<1>2. EntriesSound'
  BY DEF EntriesSound, EntrySound
<1> QED BY <1>1, <1>2

\* One more datagram of a side that may send.
LEMMA CountedTypes ==
  ASSUME Sound
  PROVE  /\ newStream \in Nat /\ numbered["client"] \in Nat /\ load.sends \in Nat
         /\ MaxSends \in Nat /\ "client" \in Sides /\ "host" \in Sides
         /\ Far("client") = "host" /\ Far("host") = "client"
         /\ newStream <= numbered["client"] + 1 /\ numbered["client"] <= load.sends
         /\ load.sends <= MaxSends
<1>1. "client" \in Sides /\ "host" \in Sides
  BY DEF Sides
<1>2. Far("client") = "host" /\ Far("host") = "client"
  BY DEF Far
<1>3. newStream \in Nat /\ numbered["client"] \in Nat
  BY <1>1, UdpAssumption DEF Sound, UdpTypeOK
<1> QED BY <1>1, <1>2, <1>3, LoadBounds DEF Sound, Counted

\* A number of fragments that the bounds allow.
LEMMA SizeOfDatagram ==
  ASSUME UdpTypeOK, NEW total \in 1 .. load.fragments
  PROVE  total \in Sizes
BY LoadBounds DEF Sizes

LEMMA ProgramSendsSound ==
  ASSUME Sound, UNCHANGED load,
         NEW p \in Programs, NEW total \in 1 .. load.fragments, ProgramSends(p, total)
  PROVE  Sound'
<1>1. total \in Sizes
  BY SizeOfDatagram DEF Sound
<1>2. PICK stream \in Streams : Transmit("client", stream, p, total)
  <2>1. CASE streamOf[p] # 0
    BY <2>1 DEF Sound, UdpTypeOK, ProgramSends
  <2>2. CASE streamOf[p] = 0
    <3>1. newStream \in Streams
      <4>1. newStream \in 1 .. MaxSends + 1 /\ numbered["client"] < load.sends
        BY DEF Sound, UdpTypeOK, ProgramSends
      <4> QED BY <4>1, CountedTypes DEF Streams
    <3> QED BY <2>2, <3>1 DEF ProgramSends
  <2> QED BY <2>1, <2>2
<1>3. /\ air' \in [Sides -> SUBSET Packet]
      /\ newId' \in [Sides -> Nat \ {0}] /\ numbered' \in [Sides -> Nat]
      /\ numbered' = [numbered EXCEPT !["client"] = numbered["client"] + 1]
      /\ \A r \in Sides : air[r] \subseteq air'[r]
      /\ \A r \in Sides : \A q \in air'[r] :
             q \notin air[r] => r = Far("client") /\ Fresh("client", stream, p, total, q)
  BY <1>1, <1>2, Transmission, CountedTypes DEF Sound
<1>4. AirSound' /\ EntriesSound'
  BY <1>3, Grown, CountedTypes DEF Sound, ProgramSends
<1>5. numbered'["client"] = numbered["client"] + 1
  BY <1>3, CountedTypes DEF Sound, UdpTypeOK
<1>6. numbered["client"] < load.sends
  BY DEF ProgramSends
<1>7. CASE streamOf[p] # 0
  <2>1. UNCHANGED <<streamOf, clientOf, newStream, sockets, partial, delivered, reopened>>
    BY <1>7 DEF ProgramSends
  <2>2. UdpTypeOK'
    BY <1>3, <2>1 DEF UdpTypeOK, Sound
  <2>3. Counted'
    BY <1>5, <1>6, <2>1, CountedTypes DEF Counted
  <2> QED BY <1>4, <2>2, <2>3 DEF Sound
<1>8. CASE streamOf[p] = 0
  <2>1. /\ streamOf' = [streamOf EXCEPT ![p] = newStream]
        /\ clientOf' = [clientOf EXCEPT ![newStream] = p]
        /\ newStream' = newStream + 1
        /\ UNCHANGED <<sockets, partial, delivered, reopened>>
    BY <1>8 DEF ProgramSends
  <2>2. newStream \in Streams /\ newStream + 1 \in 1 .. MaxSends + 1
    <3>1. newStream \in 1 .. MaxSends + 1
      BY DEF Sound, UdpTypeOK
    <3> QED BY <1>6, <3>1, CountedTypes DEF Streams
  <2>3. UdpTypeOK'
    <3>1. streamOf' \in [Programs -> Streams \cup {0}]
      BY <2>1, <2>2 DEF Sound, UdpTypeOK
    <3>2. clientOf' \in [Streams -> Programs \cup {Nobody}]
      BY <2>1, <2>2 DEF Sound, UdpTypeOK
    <3> QED BY <1>3, <2>1, <2>2, <3>1, <3>2 DEF UdpTypeOK, Sound
  <2>4. Counted'
    BY <1>5, <1>6, <2>1, CountedTypes DEF Counted
  <2> QED BY <1>4, <2>3, <2>4 DEF Sound
<1> QED BY <1>7, <1>8

LEMMA ServerSendsSound ==
  ASSUME Sound, UNCHANGED load,
         NEW k \in sockets, NEW total \in 1 .. load.fragments, ServerSends(k, total)
  PROVE  Sound'
<1>1. total \in Sizes
  BY SizeOfDatagram DEF Sound
<1>2. k.stream \in Streams /\ k.who \in Programs
  BY DEF Sound, UdpTypeOK
<1>3. /\ Transmit("host", k.stream, k.who, total)
      /\ UNCHANGED <<streamOf, clientOf, newStream, sockets, partial, delivered, reopened>>
  BY DEF ServerSends
<1>4. /\ air' \in [Sides -> SUBSET Packet]
      /\ newId' \in [Sides -> Nat \ {0}] /\ numbered' \in [Sides -> Nat]
      /\ numbered' = [numbered EXCEPT !["host"] = numbered["host"] + 1]
      /\ \A r \in Sides : air[r] \subseteq air'[r]
      /\ \A r \in Sides : \A q \in air'[r] :
             q \notin air[r] =>
                 r = Far("host") /\ Fresh("host", k.stream, k.who, total, q)
  BY <1>1, <1>2, <1>3, Transmission, CountedTypes DEF Sound
<1>5. AirSound' /\ EntriesSound'
  BY <1>3, <1>4, Grown, CountedTypes DEF Sound
<1>6. numbered'["client"] = numbered["client"]
  BY <1>4, CountedTypes DEF Sound, UdpTypeOK
<1>7. UdpTypeOK'
  BY <1>3, <1>4 DEF UdpTypeOK, Sound
<1>8. Counted'
  BY <1>3, <1>6 DEF Counted, Sound
<1> QED BY <1>5, <1>7, <1>8 DEF Sound

-----------------------------------------------------------------------------
(* Receiving *)

\* The table without an entry.
LEMMA OthersSound ==
  ASSUME Sound, NEW s \in Sides, NEW packet
  PROVE  /\ Others(s, packet) \in Seq(Entry)
         /\ Len(Others(s, packet)) <= Len(partial[s])
         /\ ToSet(Others(s, packet)) \subseteq ToSet(partial[s])
<1>1. partial[s] \in Seq(Entry) /\ Len(partial[s]) \in Nat
  BY DEF Sound, UdpTypeOK
<1>2. CASE Mine(s, packet) = {}
  BY <1>1, <1>2 DEF Others
<1>3. CASE Mine(s, packet) # {}
  <2> DEFINE i == CHOOSE i \in Mine(s, packet) : TRUE
  <2>1. i \in Mine(s, packet)
    BY <1>3
  <2>2. i \in DOMAIN partial[s]
    BY <2>1 DEF Mine
  <2>3. Others(s, packet) = RemoveAt(partial[s], i)
    BY <1>3 DEF Others
  <2> HIDE DEF i
  <2> QED BY <1>1, <2>2, <2>3, TableRemoval
<1> QED BY <1>2, <1>3

\* The fragments a table has of a datagram.
LEMMA HeldSound ==
  ASSUME Sound, NEW s \in Sides, NEW packet
  PROVE  \/ Held(s, packet) = {}
         \/ \E e \in ToSet(partial[s]) :
                /\ EntrySound(s, e) /\ Held(s, packet) = e.got
                /\ e.stream = packet.stream /\ e.id = packet.id
<1>1. CASE Mine(s, packet) = {}
  BY <1>1 DEF Held
<1>2. CASE Mine(s, packet) # {}
  <2> DEFINE i == CHOOSE i \in Mine(s, packet) : TRUE
  <2>1. i \in Mine(s, packet)
    BY <1>2
  <2>2. i \in DOMAIN partial[s] /\ Same(partial[s][i], packet)
    BY <2>1 DEF Mine
  <2>3. Held(s, packet) = partial[s][i].got
    BY <1>2 DEF Held
  <2> HIDE DEF i
  <2>4. partial[s][i] \in ToSet(partial[s])
    BY <2>2 DEF ToSet
  <2> QED BY <2>2, <2>3, <2>4 DEF Sound, EntriesSound, Same
<1> QED BY <1>1, <1>2

\* The fragments of a datagram with a new one are an entry.
LEMMA JoinedSound ==
  ASSUME Sound, NEW s \in Sides, NEW packet \in air[s], packet.total > 1,
         ~Conflicting(s, packet),
         NEW entry,
         entry = [stream |-> packet.stream, id |-> packet.id, got |-> Joined(s, packet)]
  PROVE  /\ entry \in Entry /\ EntrySound(s, entry)
         /\ \A p \in Joined(s, packet) : p.total = packet.total
<1> DEFINE got == Joined(s, packet)
           held == Held(s, packet)
<1>1. packet \in Packet /\ air[s] \subseteq Packet
  BY DEF Sound, UdpTypeOK
<1>2. /\ IsFiniteSet(held) /\ held \subseteq air[s]
      /\ \A p \in held : p.stream = packet.stream /\ p.id = packet.id /\ p.total > 1
      /\ \A p, q \in held : p.index = q.index => p = q
  <2>1. CASE held = {}
    BY <2>1, FS_EmptySet
  <2>2. CASE held # {}
    BY <2>2, HeldSound DEF EntrySound
  <2> QED BY <2>1, <2>2
<1>3. \A p \in held : p.total = packet.total
  BY DEF Conflicting
<1>4. CASE \E p \in held : p.index = packet.index
  <2>1. got = held
    BY <1>4 DEF Joined
  <2>2. got # {}
    BY <1>4, <2>1
  <2> QED BY <1>1, <1>2, <1>3, <2>1, <2>2 DEF EntrySound, Entry, Packet
<1>5. CASE ~ \E p \in held : p.index = packet.index
  <2>1. got = held \cup {packet}
    BY <1>5 DEF Joined
  <2>2. IsFiniteSet(got) /\ got # {} /\ got \subseteq air[s]
    BY <1>2, <2>1, FS_AddElement
  <2>3. \A p \in got : /\ p.stream = packet.stream /\ p.id = packet.id
                        /\ p.total > 1 /\ p.total = packet.total
    BY <1>2, <1>3, <2>1
  <2>4. \A p, q \in got : p.index = q.index => p = q
    BY <1>2, <1>5, <2>1
  <2> HIDE DEF got, held
  <2>5. entry \in Entry
    BY <1>1, <2>2 DEF Entry, Packet, got
  <2>6. EntrySound(s, entry)
    BY <2>2, <2>3, <2>4 DEF EntrySound, got
  <2> QED BY <2>3, <2>5, <2>6 DEF got
<1> QED BY <1>4, <1>5

\* The table with an entry.
LEMMA EnteredSound ==
  ASSUME Sound, NEW s \in Sides, NEW packet, NEW entry \in Entry
  PROVE  /\ Entered(s, packet, entry) \in Seq(Entry)
         /\ Len(partial[s]) <= MaxPartial => Len(Entered(s, packet, entry)) <= MaxPartial
         /\ ToSet(Entered(s, packet, entry)) \subseteq ToSet(partial[s]) \cup {entry}
<1> DEFINE q == partial[s]
<1>1. /\ q \in Seq(Entry) /\ Len(q) \in Nat /\ DOMAIN q = 1 .. Len(q)
      /\ MaxPartial \in Nat \ {0}
  BY UdpAssumption DEF Sound, UdpTypeOK
<1>2. CASE Mine(s, packet) # {}
  <2> DEFINE r == [i \in 1 .. Len(q) |-> IF i \in Mine(s, packet) THEN entry ELSE q[i]]
  <2>1. Entered(s, packet, entry) = r
    BY <1>1, <1>2 DEF Entered
  <2>2. \A i \in 1 .. Len(q) : q[i] \in Entry
    BY <1>1
  <2>3. r \in Seq(Entry) /\ Len(r) = Len(q) /\ DOMAIN r = 1 .. Len(q)
    BY <1>1, <2>2
  <2>4. ToSet(r) \subseteq ToSet(q) \cup {entry}
    BY <1>1, <2>3, Zenon DEF ToSet
  <2> QED BY <2>1, <2>3, <2>4
<1>3. CASE Mine(s, packet) = {}
  <2> DEFINE t == IF Len(q) < MaxPartial THEN q ELSE Tail(q)
  <2>1. Entered(s, packet, entry) = Append(t, entry)
    BY <1>3 DEF Entered
  <2>2. /\ t \in Seq(Entry) /\ ToSet(t) \subseteq ToSet(q)
        /\ Len(q) <= MaxPartial => Len(t) < MaxPartial
    <3>1. CASE Len(q) < MaxPartial
      BY <1>1, <3>1
    <3>2. CASE ~(Len(q) < MaxPartial)
      <4>1. q # <<>>
        BY <1>1, <3>2
      <4> QED BY <1>1, <3>2, <4>1, TableSteps
    <3> QED BY <3>1, <3>2
  <2> HIDE DEF t
  <2>3. /\ Append(t, entry) \in Seq(Entry) /\ Len(Append(t, entry)) = Len(t) + 1
        /\ ToSet(Append(t, entry)) = ToSet(t) \cup {entry}
    BY <2>2, TableSteps
  <2>4. Len(t) \in Nat
    BY <2>2
  <2> QED BY <1>1, <2>1, <2>2, <2>3, <2>4
<1> QED BY <1>2, <1>3

\* What is handed over, and the sockets it leaves.
LEMMA HandingOver ==
  ASSUME UdpTypeOK, NEW s \in Sides, NEW stream \in Streams, NEW pieces \in Seq(Piece),
         pieces # <<>>, HandOver(s, stream, pieces)
  PROVE  /\ delivered' \in [to : Sides, who : Programs \cup {Nobody}, pieces : Seq(Piece)]
         /\ sockets' \subseteq [stream : Streams, who : Programs]
<1>1. Head(pieces) \in Piece
  BY HeadTailProperties
<1>2. Head(pieces).who \in Programs
  BY <1>1 DEF Piece
<1>3. \A k \in sockets : k \in [stream : Streams, who : Programs] /\ k.who \in Programs
  BY DEF UdpTypeOK
<1>4. clientOf[stream] \in Programs \cup {Nobody}
  BY DEF UdpTypeOK
<1>5. delivered \in [to : Sides, who : Programs \cup {Nobody}, pieces : Seq(Piece)]
  BY DEF UdpTypeOK
<1>6. \A w \in Programs \cup {Nobody} :
        [to |-> s, who |-> w, pieces |-> pieces]
            \in [to : Sides, who : Programs \cup {Nobody}, pieces : Seq(Piece)]
  OBVIOUS
<1>7. delivered' \in [to : Sides, who : Programs \cup {Nobody}, pieces : Seq(Piece)]
  <2>1. \/ delivered' = delivered
        \/ \E w \in Programs \cup {Nobody} :
              delivered' = [to |-> s, who |-> w, pieces |-> pieces]
    BY <1>2, <1>3, <1>4 DEF HandOver
  <2> QED BY <1>5, <1>6, <2>1
<1>8. sockets' \subseteq [stream : Streams, who : Programs]
  <2>1. \/ sockets' = sockets
        \/ sockets' = sockets \cup {[stream |-> stream, who |-> Head(pieces).who]}
    BY DEF HandOver
  <2> QED BY <1>2, <1>3, <2>1
<1> QED BY <1>7, <1>8

\* The pieces of a datagram whose fragments are all there, in their order.
Complete(got, total) ==
    [i \in 1 .. total |-> (CHOOSE p \in got : p.index = i - 1).piece]

LEMMA CompletePieces ==
  ASSUME Sound, NEW s \in Sides, NEW e, EntrySound(s, e),
         NEW total \in Sizes, \A p \in e.got : p.total = total,
         Cardinality(e.got) = total
  PROVE  /\ Complete(e.got, total) \in Seq(Piece)
         /\ Len(Complete(e.got, total)) = total /\ Complete(e.got, total) # <<>>
         /\ \A i \in 1 .. total : \E p \in e.got :
                /\ p \in air[s] /\ p.index = i - 1
                /\ Complete(e.got, total)[i] = p.piece
<1> DEFINE got == e.got
           f == [p \in got |-> p.index]
<1>1. total \in Nat \ {0}
  BY UdpAssumption DEF Sizes
<1>2. got \subseteq air[s] /\ air[s] \subseteq Packet
  BY DEF EntrySound, Sound, UdpTypeOK
<1>3. \A p \in got : p.index \in 0 .. total - 1
  <2> TAKE p \in got
  <2>1. p.index < total /\ p \in Packet
    BY <1>2 DEF Sound, AirSound
  <2>2. p.index \in Nat
    BY <2>1, UdpAssumption DEF Packet, Places
  <2> QED BY <1>1, <2>1, <2>2
<1>4. f \in [got -> 0 .. total - 1]
  BY <1>3
<1>5. \A p, q \in got : f[p] = f[q] => p = q
  BY DEF EntrySound
<1>6. IsFiniteSet(got) /\ Cardinality(got) = total
  BY DEF EntrySound
<1>7. \A i \in 0 .. total - 1 : \E p \in got : f[p] = i
  <2> HIDE DEF f, got
  <2> QED BY <1>1, <1>4, <1>5, <1>6, AllPlaces
<1>8. ASSUME NEW i \in 1 .. total
      PROVE  /\ (CHOOSE p \in got : p.index = i - 1) \in got
             /\ (CHOOSE p \in got : p.index = i - 1).index = i - 1
  <2>1. i - 1 \in 0 .. total - 1
    BY <1>1
  <2>2. \E p \in got : p.index = i - 1
    BY <1>7, <2>1
  <2> QED BY <2>2
<1>9. ASSUME NEW i \in 1 .. total
      PROVE  (CHOOSE p \in got : p.index = i - 1).piece \in Piece
  BY <1>2, <1>8 DEF Packet
<1> DEFINE c == Complete(got, total)
<1>10. c = [i \in 1 .. total |-> (CHOOSE p \in got : p.index = i - 1).piece]
  BY DEF Complete
<1>11. c \in [1 .. total -> Piece]
  BY <1>9, <1>10
<1>12. c \in Seq(Piece) /\ Len(c) = total
  BY <1>1, <1>11
<1>13. c # <<>>
  BY <1>1, <1>12
<1>14. \A i \in 1 .. total : \E p \in got :
          p \in air[s] /\ p.index = i - 1 /\ c[i] = p.piece
  BY <1>2, <1>8, <1>10
<1> QED BY <1>12, <1>13, <1>14

LEMMA ReceiveWholeSound ==
  ASSUME Sound, UNCHANGED load, NEW s \in Sides, NEW packet \in air[s],
         ReceiveWhole(s, packet)
  PROVE  Sound'
<1>1. packet \in Packet
  BY DEF Sound, UdpTypeOK
<1>2. packet.stream \in Streams /\ packet.piece \in Piece
  BY <1>1 DEF Packet
<1>3. <<packet.piece>> \in Seq(Piece) /\ <<packet.piece>> # <<>>
  BY <1>2
<1>4. HandOver(s, packet.stream, <<packet.piece>>)
  BY DEF ReceiveWhole
<1>5. /\ delivered' \in [to : Sides, who : Programs \cup {Nobody}, pieces : Seq(Piece)]
      /\ sockets' \subseteq [stream : Streams, who : Programs]
  BY <1>2, <1>3, <1>4, HandingOver DEF Sound
<1>6. UNCHANGED <<streamOf, clientOf, newStream, partial, newId, air, numbered, reopened>>
  BY DEF ReceiveWhole
<1>7. UdpTypeOK'
  BY <1>5, <1>6 DEF Sound, UdpTypeOK
<1> QED BY <1>6, <1>7 DEF Sound, AirSound, EntriesSound, EntrySound, Counted

\* What a fragment does: the table loses its datagram, or has one more fragment,
\* or the datagram is complete and handed over.
LEMMA FragmentCases ==
  ASSUME Sound, NEW s \in Sides, NEW packet \in air[s], ReceiveFragment(s, packet)
  PROVE  /\ packet.total > 1
         /\ UNCHANGED <<streamOf, clientOf, newStream, newId, air, numbered, reopened>>
         /\ \/ /\ partial' = [partial EXCEPT ![s] = Others(s, packet)]
               /\ UNCHANGED <<sockets, delivered>>
            \/ \E e \in Entry :
                 /\ EntrySound(s, e)
                 /\ partial' = [partial EXCEPT ![s] = Entered(s, packet, e)]
                 /\ UNCHANGED <<sockets, delivered>>
            \/ \E e \in Entry :
                 /\ EntrySound(s, e) /\ e.stream = packet.stream
                 /\ \A p \in e.got : p.total = packet.total
                 /\ Cardinality(e.got) = packet.total
                 /\ partial' = [partial EXCEPT ![s] = Others(s, packet)]
                 /\ HandOver(s, packet.stream, Complete(e.got, packet.total))
<1> DEFINE got == Joined(s, packet)
           entry == [stream |-> packet.stream, id |-> packet.id, got |-> got]
<1>1. /\ packet.total > 1
      /\ UNCHANGED <<streamOf, clientOf, newStream, newId, air, numbered, reopened>>
  BY DEF ReceiveFragment
<1>2. CASE Conflicting(s, packet)
  BY <1>1, <1>2 DEF ReceiveFragment
<1>3. CASE ~Conflicting(s, packet)
  <2>1. /\ entry \in Entry /\ EntrySound(s, entry)
        /\ \A p \in got : p.total = packet.total
    BY <1>1, <1>3, JoinedSound
  <2>2. entry.got = got /\ entry.stream = packet.stream
    OBVIOUS
  <2>3. \/ /\ partial' = [partial EXCEPT ![s] = Entered(s, packet, entry)]
           /\ UNCHANGED <<sockets, delivered>>
        \/ /\ Cardinality(got) = packet.total
           /\ partial' = [partial EXCEPT ![s] = Others(s, packet)]
           /\ HandOver(s, packet.stream, Complete(got, packet.total))
    BY <1>3 DEF ReceiveFragment, Complete
  <2> HIDE DEF got, entry
  <2> QED BY <1>1, <2>1, <2>2, <2>3
<1> QED BY <1>2, <1>3

\* A changed table is sound if its entries are.
LEMMA TableSound ==
  ASSUME Sound, NEW s \in Sides, NEW q \in Seq(Entry),
         \A e \in ToSet(q) : EntrySound(s, e),
         partial' = [partial EXCEPT ![s] = q], UNCHANGED air
  PROVE  partial' \in [Sides -> Seq(Entry)] /\ EntriesSound' /\ AirSound'
<1>1. partial \in [Sides -> Seq(Entry)]
  BY DEF Sound, UdpTypeOK
<1>2. partial' \in [Sides -> Seq(Entry)]
  BY <1>1
<1>3. \A r \in Sides : partial'[r] = IF r = s THEN q ELSE partial[r]
  BY <1>1
<1>4. \A r \in Sides : \A e \in ToSet(partial'[r]) : EntrySound(r, e)
  BY <1>3 DEF Sound, EntriesSound
<1>5. EntriesSound'
  BY <1>4 DEF EntriesSound, EntrySound
<1> QED BY <1>2, <1>5 DEF Sound, AirSound

LEMMA ReceiveFragmentSound ==
  ASSUME Sound, UNCHANGED load, NEW s \in Sides, NEW packet \in air[s],
         ReceiveFragment(s, packet)
  PROVE  Sound'
<1>1. UNCHANGED <<streamOf, clientOf, newStream, newId, air, numbered, reopened>>
  BY FragmentCases
<1>2. packet \in Packet
  BY DEF Sound, UdpTypeOK
<1>3. \A e \in ToSet(partial[s]) : EntrySound(s, e)
  BY DEF Sound, EntriesSound
<1>4. /\ partial' \in [Sides -> Seq(Entry)] /\ EntriesSound' /\ AirSound'
      /\ delivered' \in [to : Sides, who : Programs \cup {Nobody}, pieces : Seq(Piece)]
      /\ sockets' \subseteq [stream : Streams, who : Programs]
  <2>0. /\ delivered \in [to : Sides, who : Programs \cup {Nobody}, pieces : Seq(Piece)]
        /\ sockets \subseteq [stream : Streams, who : Programs]
    BY DEF Sound, UdpTypeOK
  <2>1. CASE /\ partial' = [partial EXCEPT ![s] = Others(s, packet)]
             /\ UNCHANGED <<sockets, delivered>>
    <3>1. /\ Others(s, packet) \in Seq(Entry)
          /\ \A e \in ToSet(Others(s, packet)) : EntrySound(s, e)
      BY <1>3, OthersSound
    <3> QED BY <1>1, <2>0, <2>1, <3>1, TableSound
  <2>2. ASSUME NEW e \in Entry, EntrySound(s, e),
               partial' = [partial EXCEPT ![s] = Entered(s, packet, e)],
               UNCHANGED <<sockets, delivered>>
        PROVE  /\ partial' \in [Sides -> Seq(Entry)] /\ EntriesSound' /\ AirSound'
               /\ delivered' = delivered /\ sockets' = sockets
    <3>1. /\ Entered(s, packet, e) \in Seq(Entry)
          /\ \A x \in ToSet(Entered(s, packet, e)) : EntrySound(s, x)
      BY <1>3, <2>2, EnteredSound
    <3> QED BY <1>1, <2>2, <3>1, TableSound
  <2>3. ASSUME NEW e \in Entry, EntrySound(s, e),
               \A p \in e.got : p.total = packet.total,
               Cardinality(e.got) = packet.total,
               partial' = [partial EXCEPT ![s] = Others(s, packet)],
               HandOver(s, packet.stream, Complete(e.got, packet.total))
        PROVE  /\ partial' \in [Sides -> Seq(Entry)] /\ EntriesSound' /\ AirSound'
               /\ delivered' \in [to : Sides, who : Programs \cup {Nobody},
                                  pieces : Seq(Piece)]
               /\ sockets' \subseteq [stream : Streams, who : Programs]
    <3>1. /\ Others(s, packet) \in Seq(Entry)
          /\ \A x \in ToSet(Others(s, packet)) : EntrySound(s, x)
      BY <1>3, OthersSound
    <3>2. /\ Complete(e.got, packet.total) \in Seq(Piece)
          /\ Complete(e.got, packet.total) # <<>>
      BY <1>2, <2>3, CompletePieces DEF Packet
    <3>3. packet.stream \in Streams
      BY <1>2 DEF Packet
    <3> QED BY <1>1, <2>3, <3>1, <3>2, <3>3, TableSound, HandingOver DEF Sound
  <2> QED BY <2>0, <2>1, <2>2, <2>3, FragmentCases
<1>5. UdpTypeOK'
  BY <1>1, <1>4 DEF Sound, UdpTypeOK
<1> QED BY <1>1, <1>4, <1>5 DEF Sound, Counted

LEMMA DropOldestSound ==
  ASSUME Sound, UNCHANGED load, NEW s \in Sides, DropOldest(s)
  PROVE  Sound' /\ Len(partial'[s]) <= Len(partial[s])
                /\ \A r \in Sides : r # s => partial'[r] = partial[r]
<1>1. /\ partial[s] # <<>>
      /\ partial' = [partial EXCEPT ![s] = Tail(partial[s])]
      /\ UNCHANGED <<streamOf, clientOf, newStream, sockets, newId, air, delivered,
                     numbered, reopened>>
  BY DEF DropOldest
<1>2. partial \in [Sides -> Seq(Entry)] /\ partial[s] \in Seq(Entry)
  BY DEF Sound, UdpTypeOK
<1>3. /\ Tail(partial[s]) \in Seq(Entry) /\ Len(Tail(partial[s])) = Len(partial[s]) - 1
      /\ ToSet(Tail(partial[s])) \subseteq ToSet(partial[s])
  <2>1. \E e : e \in Entry
    <3>1. Head(partial[s]) \in Entry
      BY <1>1, <1>2, HeadTailProperties
    <3> QED BY <3>1
  <2> QED BY <1>1, <1>2, <2>1, TableSteps
<1>4. partial' \in [Sides -> Seq(Entry)] /\ EntriesSound' /\ AirSound'
  BY <1>1, <1>3, TableSound DEF Sound, EntriesSound
<1>5. UdpTypeOK'
  BY <1>1, <1>4 DEF Sound, UdpTypeOK
<1>6. Sound'
  BY <1>1, <1>4, <1>5 DEF Sound, Counted
<1>7. /\ partial'[s] = Tail(partial[s])
      /\ \A r \in Sides : r # s => partial'[r] = partial[r]
  BY <1>1, <1>2
<1>8. Len(partial[s]) \in Nat
  BY <1>2
<1> QED BY <1>3, <1>6, <1>7, <1>8

-----------------------------------------------------------------------------
(* Every step *)

LEMMA OtherStepsSound ==
  ASSUME Sound, UNCHANGED load,
         \/ \E p \in Programs : Expire(p)
         \/ \E k \in sockets : CloseSocket(k)
         \/ Reopen
  PROVE  Sound'
<1>1. ASSUME NEW p \in Programs, Expire(p)
      PROVE  Sound'
  <2>1. /\ clientOf' = [clientOf EXCEPT ![streamOf[p]] = Nobody]
        /\ streamOf' = [streamOf EXCEPT ![p] = 0]
        /\ UNCHANGED <<newStream, sockets, partial, newId, air, delivered, numbered,
                       reopened>>
    BY <1>1 DEF Expire
  <2>2. UdpTypeOK'
    BY <2>1 DEF Sound, UdpTypeOK
  <2> QED BY <2>1, <2>2 DEF Sound, AirSound, EntriesSound, EntrySound, Counted
<1>2. ASSUME NEW k \in sockets, CloseSocket(k)
      PROVE  Sound'
  <2>1. /\ sockets' = sockets \ {k}
        /\ UNCHANGED <<streamOf, clientOf, newStream, partial, newId, air, delivered,
                       numbered, reopened>>
    BY <1>2 DEF CloseSocket
  <2>2. UdpTypeOK'
    BY <2>1 DEF Sound, UdpTypeOK
  <2> QED BY <2>1, <2>2 DEF Sound, AirSound, EntriesSound, EntrySound, Counted
<1>3. ASSUME Reopen
      PROVE  Sound'
  <2>1. /\ streamOf' = [p \in Programs |-> 0]
        /\ clientOf' = [x \in Streams |-> Nobody]
        /\ newStream' = 1 /\ reopened' = reopened + 1
        /\ partial' = [partial EXCEPT !["client"] = <<>>]
        /\ newId' = [newId EXCEPT !["client"] = 1]
        /\ UNCHANGED <<sockets, air, delivered, numbered>>
    BY <1>3 DEF Reopen
  <2>2. <<>> \in Seq(Entry) /\ ToSet(<<>>) = {}
    BY DEF ToSet
  <2>3. partial' \in [Sides -> Seq(Entry)] /\ EntriesSound' /\ AirSound'
    BY <2>1, <2>2, TableSound, CountedTypes
  <2>4. 1 \in 1 .. MaxSends + 1
    BY CountedTypes
  <2>5. newId' \in [Sides -> Nat \ {0}]
    <3>1. newId \in [Sides -> Nat \ {0}] /\ 1 \in Nat \ {0}
      BY DEF Sound, UdpTypeOK
    <3> QED BY <2>1, <3>1, Zenon
  <2>6. streamOf' \in [Programs -> Streams \cup {0}]
    BY <2>1
  <2>7. clientOf' \in [Streams -> Programs \cup {Nobody}]
    BY <2>1
  <2>8. UdpTypeOK'
    BY <2>1, <2>3, <2>4, <2>5, <2>6, <2>7 DEF Sound, UdpTypeOK
  <2>9. Counted'
    BY <2>1, CountedTypes DEF Counted
  <2> QED BY <2>3, <2>8, <2>9 DEF Sound
<1> QED BY <1>1, <1>2, <1>3

LEMMA SoundInit == UdpInit => Sound
<1> SUFFICES ASSUME UdpInit PROVE Sound
  OBVIOUS
<1>1. /\ load.sends \in Nat /\ MaxSends \in Nat
  <2>1. load \in [sends : 0 .. MaxSends, replies : Nat,
                 fragments : 1 .. MaxFragments, reopenings : Nat]
    BY UdpAssumption DEF UdpInit
  <2> QED BY <2>1, UdpAssumption
<1>2. <<>> \in Seq(Entry) /\ ToSet(<<>>) = {} /\ <<>> \in Seq(Piece)
  BY DEF ToSet
<1>3. "host" \in Sides /\ "client" \in Sides
  BY DEF Sides
<1>4. delivered \in [to : Sides, who : Programs \cup {Nobody}, pieces : Seq(Piece)]
  BY <1>2, <1>3 DEF UdpInit
<1>5. 1 \in 1 .. MaxSends + 1
  BY <1>1
<1>6. streamOf \in [Programs -> Streams \cup {0}]
  BY DEF UdpInit
<1>7. clientOf \in [Streams -> Programs \cup {Nobody}]
  BY DEF UdpInit
<1>8. partial \in [Sides -> Seq(Entry)] /\ air \in [Sides -> SUBSET Packet]
  BY <1>2 DEF UdpInit
<1>9. newId \in [Sides -> Nat \ {0}] /\ numbered \in [Sides -> Nat]
  BY DEF UdpInit
<1>10. UdpTypeOK
  BY <1>4, <1>5, <1>6, <1>7, <1>8, <1>9 DEF UdpInit, UdpTypeOK
<1>11. AirSound /\ EntriesSound
  BY <1>2 DEF UdpInit, AirSound, EntriesSound
<1>12. Counted
  BY <1>1, <1>3 DEF UdpInit, Counted
<1> QED BY <1>10, <1>11, <1>12 DEF Sound

LEMMA SoundNext == Sound /\ [UdpNext]_udpVars => Sound'
<1> SUFFICES ASSUME Sound, [UdpNext]_udpVars PROVE Sound'
  OBVIOUS
<1>1. CASE UdpNext
  <2>1. UNCHANGED load
    BY <1>1 DEF UdpNext
  <2> QED
    BY <1>1, <2>1, ProgramSendsSound, ServerSendsSound, OtherStepsSound,
       ReceiveWholeSound, ReceiveFragmentSound, DropOldestSound, Zenon DEF UdpNext
<1>2. CASE UNCHANGED udpVars
  BY <1>2 DEF udpVars, Sound, UdpTypeOK, AirSound, EntriesSound, EntrySound, Counted
<1> QED BY <1>1, <1>2

\* The types hold for any number of programs and datagrams, and any limits.
THEOREM UdpTypes == UdpSpec => []UdpTypeOK
<1>1. UdpSpec => []Sound
  BY SoundInit, SoundNext, PTL DEF UdpSpec
<1>2. Sound => UdpTypeOK
  BY DEF Sound
<1> QED BY <1>1, <1>2, PTL

-----------------------------------------------------------------------------
(* The tables agree *)

Agree ==
    /\ IsFiniteSet(Senders) /\ IsFiniteSet(sockets)
    /\ UdpTablesAgree
    /\ \A s \in Streams : newStream <= s => clientOf[s] = Nobody

LEMMA AgreeInit == UdpInit => Agree
<1> SUFFICES ASSUME UdpInit PROVE Agree
  OBVIOUS
<1>1. Senders = {}
  BY DEF UdpInit, Senders
<1>2. IsFiniteSet({}) /\ Cardinality({}) = 0 /\ MaxUdp \in Nat /\ MaxPartial \in Nat
  BY FS_EmptySet, UdpAssumption
<1>3. \A p \in Programs, s \in Streams : streamOf[p] # s /\ clientOf[s] # p
  <2>1. \A s \in Streams : s # 0
    BY UdpAssumption DEF Streams
  <2> QED BY <2>1, UdpAssumption DEF UdpInit
<1>4. UdpTablesAgree
  BY <1>1, <1>2, <1>3 DEF UdpInit, UdpTablesAgree
<1> QED BY <1>1, <1>2, <1>4 DEF Agree, UdpInit

LEMMA ProgramSendsAgree ==
  ASSUME Sound, Agree,
         NEW p \in Programs, NEW total \in 1 .. load.fragments, ProgramSends(p, total)
  PROVE  Agree'
<1>1. UNCHANGED <<sockets, partial>>
  BY DEF ProgramSends
<1>2. CASE streamOf[p] # 0
  <2>1. UNCHANGED <<streamOf, clientOf, newStream>>
    BY <1>2 DEF ProgramSends
  <2> QED BY <1>1, <2>1 DEF Agree, UdpTablesAgree, Senders
<1>3. CASE streamOf[p] = 0
  <2>1. /\ streamOf' = [streamOf EXCEPT ![p] = newStream]
        /\ clientOf' = [clientOf EXCEPT ![newStream] = p]
        /\ newStream' = newStream + 1
        /\ Cardinality(Senders) < MaxUdp /\ numbered["client"] < load.sends
    BY <1>3 DEF ProgramSends
  <2>2. newStream \in Streams /\ newStream # 0
    <3>1. newStream \in 1 .. MaxSends + 1
      BY DEF Sound, UdpTypeOK
    <3> QED BY <2>1, <3>1, CountedTypes DEF Streams
  <2>3. streamOf \in [Programs -> Streams \cup {0}] /\ clientOf \in [Streams -> Programs \cup {Nobody}]
    BY DEF Sound, UdpTypeOK
  <2>4. Senders' = Senders \cup {p}
    BY <2>1, <2>2, <2>3 DEF Senders
  <2>5. p \notin Senders
    BY <1>3 DEF Senders
  <2>6. IsFiniteSet(Senders') /\ Cardinality(Senders') <= MaxUdp
    <3>1. Cardinality(Senders) \in Nat
      BY FS_CardinalityType DEF Agree
    <3>2. IsFiniteSet(Senders') /\ Cardinality(Senders') = Cardinality(Senders) + 1
      BY <2>4, <2>5, FS_AddElement DEF Agree
    <3> QED BY <2>1, <3>1, <3>2, UdpAssumption
  <2>7. clientOf[newStream] = Nobody /\ Nobody # p
    <3>1. newStream <= newStream
      BY CountedTypes
    <3> QED BY <2>2, <3>1, UdpAssumption DEF Agree
  <2>8. ASSUME NEW w \in Programs, NEW s \in Streams
        PROVE  streamOf'[w] = s <=> clientOf'[s] = w
    <3>0. streamOf[w] = s <=> clientOf[s] = w
      BY DEF Agree, UdpTablesAgree
    <3>1. CASE s = newStream
      BY <2>1, <2>2, <2>3, <2>7, <3>0, <3>1, UdpAssumption
    <3>2. CASE s # newStream
      <4>1. s # 0
        BY UdpAssumption DEF Streams
      <4> QED BY <1>3, <2>1, <2>2, <2>3, <3>0, <3>2, <4>1
    <3> QED BY <3>1, <3>2
  <2>9. ASSUME NEW s \in Streams, newStream + 1 <= s
        PROVE  clientOf'[s] = Nobody
    <3>1. newStream <= s /\ s # newStream
      BY <2>9, CountedTypes DEF Streams
    <3> QED BY <2>1, <2>3, <3>1 DEF Agree
  <2>10. UdpTablesAgree'
    BY <1>1, <2>6, <2>8 DEF Agree, UdpTablesAgree
  <2> QED BY <1>1, <2>1, <2>6, <2>9, <2>10 DEF Agree
<1> QED BY <1>2, <1>3

LEMMA ExpireAgree ==
  ASSUME Sound, Agree, NEW p \in Programs, Expire(p)
  PROVE  Agree'
<1>1. /\ streamOf[p] # 0
      /\ clientOf' = [clientOf EXCEPT ![streamOf[p]] = Nobody]
      /\ streamOf' = [streamOf EXCEPT ![p] = 0]
      /\ UNCHANGED <<newStream, sockets, partial>>
  BY DEF Expire
<1>2. /\ streamOf \in [Programs -> Streams \cup {0}]
      /\ clientOf \in [Streams -> Programs \cup {Nobody}]
  BY DEF Sound, UdpTypeOK
<1>3. \A s \in Streams : s # 0
  BY UdpAssumption DEF Streams
<1>4. Senders' \subseteq Senders
  BY <1>1, <1>2 DEF Senders
<1>5. IsFiniteSet(Senders') /\ Cardinality(Senders') <= MaxUdp
  <2>1. IsFiniteSet(Senders') /\ Cardinality(Senders') <= Cardinality(Senders)
    BY <1>4, FS_Subset DEF Agree
  <2>2. Cardinality(Senders) \in Nat /\ Cardinality(Senders') \in Nat
    BY <2>1, FS_CardinalityType DEF Agree
  <2> QED BY <2>1, <2>2, UdpAssumption DEF Agree, UdpTablesAgree
<1>6. ASSUME NEW w \in Programs, NEW s \in Streams
      PROVE  streamOf'[w] = s <=> clientOf'[s] = w
  <2>1. (streamOf[w] = s <=> clientOf[s] = w) /\ (streamOf[p] = s <=> clientOf[s] = p)
    BY DEF Agree, UdpTablesAgree
  <2> QED BY <1>1, <1>2, <1>3, <2>1, UdpAssumption
<1>7. \A s \in Streams : newStream' <= s => clientOf'[s] = Nobody
  BY <1>1, <1>2 DEF Agree
<1>8. UdpTablesAgree'
  BY <1>1, <1>5, <1>6 DEF Agree, UdpTablesAgree
<1> QED BY <1>1, <1>5, <1>7, <1>8 DEF Agree

\* Opening a socket keeps them apart and within the limit.
LEMMA HandOverAgree ==
  ASSUME Sound, Agree, NEW s \in Sides, NEW stream, NEW pieces,
         HandOver(s, stream, pieces)
  PROVE  /\ IsFiniteSet(sockets') /\ Cardinality(sockets') <= MaxUdp
         /\ \A j, k \in sockets' : j.stream = k.stream => j = k
<1>1. CASE UNCHANGED sockets
  BY <1>1 DEF Agree, UdpTablesAgree
<1>2. CASE sockets' # sockets
  <2> DEFINE new == [stream |-> stream, who |-> Head(pieces).who]
  <2>1. /\ sockets' = sockets \cup {new} /\ Cardinality(sockets) < MaxUdp
        /\ \A k \in sockets : k.stream # stream
    BY <1>2 DEF HandOver
  <2>2. Cardinality(sockets) \in Nat
    BY FS_CardinalityType DEF Agree
  <2>3. new \notin sockets /\ new.stream = stream
    BY <2>1
  <2> HIDE DEF new
  <2>4. IsFiniteSet(sockets') /\ Cardinality(sockets') = Cardinality(sockets) + 1
    BY <2>1, <2>3, FS_AddElement DEF Agree
  <2>5. \A j, k \in sockets' : j.stream = k.stream => j = k
    BY <2>1, <2>3 DEF Agree, UdpTablesAgree
  <2> QED BY <2>1, <2>2, <2>4, <2>5, UdpAssumption
<1> QED BY <1>1, <1>2

LEMMA ReceiveAgree ==
  ASSUME Sound, Agree, NEW s \in Sides, NEW packet \in air[s],
         ReceiveWhole(s, packet) \/ ReceiveFragment(s, packet)
  PROVE  Agree'
<1>1. /\ UNCHANGED <<streamOf, clientOf, newStream>>
      /\ IsFiniteSet(sockets') /\ Cardinality(sockets') <= MaxUdp
      /\ \A j, k \in sockets' : j.stream = k.stream => j = k
  <2>1. CASE ReceiveWhole(s, packet)
    BY <2>1, HandOverAgree DEF ReceiveWhole
  <2>2. CASE ReceiveFragment(s, packet)
    <3>1. \/ UNCHANGED sockets
          \/ \E pieces : HandOver(s, packet.stream, pieces)
      BY <2>2 DEF ReceiveFragment
    <3> QED BY <2>2, <3>1, HandOverAgree DEF ReceiveFragment, Agree, UdpTablesAgree
  <2> QED BY <2>1, <2>2
<1>2. ASSUME NEW r \in Sides
      PROVE  Len(partial'[r]) <= MaxPartial
  <2>0. /\ partial \in [Sides -> Seq(Entry)] /\ Len(partial[s]) <= MaxPartial
        /\ Len(partial[r]) <= MaxPartial /\ MaxPartial \in Nat
    BY UdpAssumption DEF Sound, UdpTypeOK, Agree, UdpTablesAgree
  <2>1. CASE UNCHANGED partial
    BY <2>0, <2>1
  <2>2. CASE partial' # partial
    <3>1. ReceiveFragment(s, packet)
      BY <2>2 DEF ReceiveWhole
    <3>2. \/ partial' = [partial EXCEPT ![s] = Others(s, packet)]
          \/ \E e \in Entry : partial' = [partial EXCEPT ![s] = Entered(s, packet, e)]
      BY <3>1, FragmentCases
    <3>3. ASSUME NEW q \in Seq(Entry), Len(q) <= MaxPartial,
                 partial' = [partial EXCEPT ![s] = q]
          PROVE  Len(partial'[r]) <= MaxPartial
      BY <2>0, <3>3
    <3>4. CASE partial' = [partial EXCEPT ![s] = Others(s, packet)]
      <4>1. /\ Others(s, packet) \in Seq(Entry)
            /\ Len(Others(s, packet)) <= Len(partial[s])
        BY OthersSound
      <4>2. Len(Others(s, packet)) \in Nat /\ Len(partial[s]) \in Nat
        BY <2>0, <4>1
      <4>3. Len(Others(s, packet)) <= MaxPartial
        BY <2>0, <4>1, <4>2
      <4> QED BY <3>3, <3>4, <4>1, <4>3
    <3>5. ASSUME NEW e \in Entry, partial' = [partial EXCEPT ![s] = Entered(s, packet, e)]
          PROVE  Len(partial'[r]) <= MaxPartial
      <4>1. /\ Entered(s, packet, e) \in Seq(Entry)
            /\ Len(Entered(s, packet, e)) <= MaxPartial
        BY <2>0, EnteredSound
      <4> QED BY <3>3, <3>5, <4>1
    <3> QED BY <3>2, <3>4, <3>5
  <2> QED BY <2>1, <2>2
<1>3. Senders' = Senders
  BY <1>1 DEF Senders
<1>4. UdpTablesAgree'
  BY <1>1, <1>2, <1>3 DEF Agree, UdpTablesAgree
<1> QED BY <1>1, <1>3, <1>4 DEF Agree

LEMMA OtherStepsAgree ==
  ASSUME Sound, Agree, UNCHANGED load,
         \/ \E k \in sockets, total \in 1 .. load.fragments : ServerSends(k, total)
         \/ \E k \in sockets : CloseSocket(k)
         \/ Reopen
         \/ \E s \in Sides : DropOldest(s)
  PROVE  Agree'
<1>1. ASSUME NEW k \in sockets, NEW total \in 1 .. load.fragments, ServerSends(k, total)
      PROVE  Agree'
  BY <1>1 DEF ServerSends, Agree, UdpTablesAgree, Senders
<1>2. ASSUME NEW k \in sockets, CloseSocket(k)
      PROVE  Agree'
  <2>1. /\ sockets' = sockets \ {k} /\ sockets' \subseteq sockets
        /\ UNCHANGED <<streamOf, clientOf, newStream, partial>>
    BY <1>2 DEF CloseSocket
  <2>2. IsFiniteSet(sockets') /\ Cardinality(sockets') <= Cardinality(sockets)
    BY <2>1, FS_Subset DEF Agree
  <2>3. Cardinality(sockets) \in Nat /\ Cardinality(sockets') \in Nat
    BY <2>2, FS_CardinalityType DEF Agree
  <2>4. Cardinality(sockets') <= MaxUdp
    BY <2>2, <2>3, UdpAssumption DEF Agree, UdpTablesAgree
  <2>5. Senders' = Senders
    BY <2>1 DEF Senders
  <2>6. \A i, j \in sockets' : i.stream = j.stream => i = j
    BY <2>1 DEF Agree, UdpTablesAgree
  <2>7. UdpTablesAgree'
    BY <2>1, <2>4, <2>5, <2>6 DEF Agree, UdpTablesAgree
  <2> QED BY <2>1, <2>2, <2>5, <2>7 DEF Agree
<1>3. ASSUME Reopen
      PROVE  Agree'
  <2>1. /\ streamOf' = [p \in Programs |-> 0]
        /\ clientOf' = [s \in Streams |-> Nobody]
        /\ partial' = [partial EXCEPT !["client"] = <<>>]
        /\ UNCHANGED sockets
    BY <1>3 DEF Reopen
  <2>2. Senders' = {}
    BY <2>1 DEF Senders
  <2>3. IsFiniteSet(Senders') /\ Cardinality(Senders') <= MaxUdp
    BY <2>2, FS_EmptySet, UdpAssumption
  <2>4. \A p \in Programs, s \in Streams : streamOf'[p] # s /\ clientOf'[s] # p
    <3>1. \A s \in Streams : s # 0
      BY UdpAssumption DEF Streams
    <3> QED BY <2>1, <3>1, UdpAssumption
  <2>5. \A r \in Sides : Len(partial'[r]) <= MaxPartial
    <3>1. partial \in [Sides -> Seq(Entry)] /\ MaxPartial \in Nat /\ Len(<<>>) = 0
      BY UdpAssumption DEF Sound, UdpTypeOK
    <3> QED BY <2>1, <3>1 DEF Agree, UdpTablesAgree
  <2>6. UdpTablesAgree'
    BY <2>1, <2>3, <2>4, <2>5 DEF Agree, UdpTablesAgree
  <2> QED BY <2>1, <2>3, <2>6 DEF Agree
<1>4. ASSUME NEW s \in Sides, DropOldest(s)
      PROVE  Agree'
  <2>1. UNCHANGED <<streamOf, clientOf, newStream, sockets>>
    BY <1>4 DEF DropOldest
  <2>2. \A r \in Sides : Len(partial'[r]) <= MaxPartial
    <3>1. /\ Sound' /\ Len(partial'[s]) <= Len(partial[s])
          /\ \A r \in Sides : r # s => partial'[r] = partial[r]
      BY <1>4, DropOldestSound
    <3>2. Len(partial[s]) \in Nat /\ Len(partial'[s]) \in Nat /\ MaxPartial \in Nat
      <4>1. UdpTypeOK /\ UdpTypeOK'
        BY <3>1 DEF Sound
      <4>2. partial[s] \in Seq(Entry)
        BY <4>1 DEF UdpTypeOK
      <4>3. partial'[s] \in Seq(Entry)
        BY <4>1 DEF UdpTypeOK
      <4> QED BY <4>2, <4>3, UdpAssumption
    <3>3. \A r \in Sides : Len(partial[r]) <= MaxPartial
      BY DEF Agree, UdpTablesAgree
    <3>4. Len(partial'[s]) <= MaxPartial
      BY <3>1, <3>2, <3>3
    <3> QED BY <3>1, <3>3, <3>4
  <2>3. Senders' = Senders
    BY <2>1 DEF Senders
  <2>4. UdpTablesAgree'
    BY <2>1, <2>2, <2>3 DEF Agree, UdpTablesAgree
  <2> QED BY <2>1, <2>3, <2>4 DEF Agree
<1> QED BY <1>1, <1>2, <1>3, <1>4

LEMMA AgreeNext == Sound /\ Agree /\ [UdpNext]_udpVars => Agree'
<1> SUFFICES ASSUME Sound, Agree, [UdpNext]_udpVars PROVE Agree'
  OBVIOUS
<1>1. CASE UdpNext
  <2>1. UNCHANGED load
    BY <1>1 DEF UdpNext
  <2> QED
    BY <1>1, <2>1, ProgramSendsAgree, ExpireAgree, ReceiveAgree, OtherStepsAgree, Zenon
    DEF UdpNext
<1>2. CASE UNCHANGED udpVars
  BY <1>2 DEF udpVars, Agree, UdpTablesAgree, Senders
<1> QED BY <1>1, <1>2

\* The tables of streams, clients, sockets and fragments stay within their limits
\* and agree with each other, for any number of programs and any limits.
THEOREM TablesAgree == UdpSpec => []UdpTablesAgree
<1>1. UdpSpec => []Sound
  BY SoundInit, SoundNext, PTL DEF UdpSpec
<1>2. Agree => UdpTablesAgree
  BY DEF Agree
<1> QED BY <1>1, <1>2, AgreeInit, AgreeNext, PTL DEF UdpSpec

-----------------------------------------------------------------------------
(* What is handed over is what was sent *)

\* While the client has its first engine, a stream has one owner, whom every
\* table and packet of the stream agrees about.
TablesOwned(o) ==
    /\ o \in [Streams -> Programs \cup {Nobody}]
    /\ \A p \in Programs :
          streamOf[p] # 0 => streamOf[p] < newStream /\ o[streamOf[p]] = p
    /\ \A k \in sockets : k.stream < newStream /\ o[k.stream] = k.who

AirOwned(o) ==
    \A s \in Sides : \A q \in air[s] :
        /\ q.stream < newStream /\ o[q.stream] = q.piece.who
        /\ q.total > 1 => q.id < newId[Far(s)]

\* Fragments with one number are of one datagram.
Apart ==
    \A s \in Sides : \A p, q \in air[s] :
        p.total > 1 /\ q.total > 1 /\ p.id = q.id => p.piece.n = q.piece.n

Traced ==
    reopened = 0 =>
        Apart /\ \E o \in [Streams -> Programs \cup {Nobody}] : TablesOwned(o) /\ AirOwned(o)

LEMMA SendingTraced ==
  ASSUME Sound, NEW s \in Sides, NEW stream \in Streams, NEW who \in Programs,
         NEW total \in Sizes, Transmit(s, stream, who, total),
         NEW o, NEW o2, AirOwned(o), Apart,
         newStream <= newStream', newStream' \in Nat,
         stream < newStream', o2[stream] = who,
         \A x \in Streams : x < newStream => o2[x] = o[x]
  PROVE  AirOwned(o2)' /\ Apart'
<1>1. /\ air' \in [Sides -> SUBSET Packet]
      /\ newId' = [newId EXCEPT ![s] = IF total = 1 THEN newId[s] ELSE newId[s] + 1]
      /\ \A r \in Sides : \A q \in air'[r] :
             q \notin air[r] => r = Far(s) /\ Fresh(s, stream, who, total, q)
  BY Transmission DEF Sound
<1>2. /\ newId \in [Sides -> Nat \ {0}] /\ air \in [Sides -> SUBSET Packet]
      /\ newStream \in Nat
  BY CountedTypes DEF Sound, UdpTypeOK
<1>3. Far(Far(s)) = s /\ Far(s) \in Sides /\ \A r \in Sides : Far(r) \in Sides
  BY DEF Far, Sides
<1>4. total \in Nat \ {0}
  BY UdpAssumption DEF Sizes
<1>5. \A r \in Sides : newId[r] <= newId'[r] /\ newId'[r] \in Nat /\ newId[r] \in Nat
  BY <1>1, <1>2
<1>6. ASSUME NEW r \in Sides, NEW q \in air'[r], q \notin air[r]
      PROVE  /\ q.stream = stream /\ q.piece.who = who /\ q.piece.n = numbered[s] + 1
             /\ r = Far(s) /\ Far(r) = s /\ q.total = total
             /\ total > 1 => q.id = newId[s] /\ q.id < newId'[s]
  <2>1. /\ r = Far(s) /\ Fresh(s, stream, who, total, q)
    BY <1>1, <1>6
  <2>2. total > 1 => q.id = newId[s]
    <3>1. total > 1 => total # 1
      BY <1>4
    <3>2. q.id = IF total = 1 THEN 0 ELSE newId[s]
      BY <2>1 DEF Fresh
    <3> QED BY <3>1, <3>2
  <2>3. total > 1 => newId'[s] = newId[s] + 1
    <3>1. total > 1 => total # 1
      BY <1>4
    <3>2. newId'[s] = IF total = 1 THEN newId[s] ELSE newId[s] + 1
      BY <1>1, <1>2
    <3> QED BY <3>1, <3>2
  <2>4. total > 1 => q.id < newId'[s]
    BY <1>2, <2>2, <2>3
  <2> QED BY <1>3, <2>1, <2>2, <2>4 DEF Fresh
<1>7. AirOwned(o2)'
  <2> SUFFICES ASSUME NEW r \in Sides, NEW q \in air'[r]
               PROVE  /\ q.stream < newStream' /\ o2[q.stream] = q.piece.who
                      /\ q.total > 1 => q.id < newId'[Far(r)]
    BY DEF AirOwned
  <2>1. CASE q \in air[r]
    <3>1. q \in Packet
      BY <1>2, <2>1
    <3>2. q.stream \in Streams /\ q.id \in Nat /\ q.stream \in Nat
      BY <3>1, UdpAssumption DEF Packet, Streams
    <3>3. /\ q.stream < newStream /\ o[q.stream] = q.piece.who
          /\ q.total > 1 => q.id < newId[Far(r)]
      BY <2>1 DEF AirOwned
    <3>4. newId[Far(r)] <= newId'[Far(r)] /\ newId'[Far(r)] \in Nat /\ newId[Far(r)] \in Nat
      BY <1>3, <1>5
    <3>5. q.total > 1 => q.id < newId'[Far(r)]
      BY <3>2, <3>3, <3>4
    <3> QED BY <1>2, <3>2, <3>3, <3>5
  <2>2. CASE q \notin air[r]
    BY <1>6, <2>2
  <2> QED BY <2>1, <2>2
<1>8. Apart'
  <2> SUFFICES ASSUME NEW r \in Sides, NEW p \in air'[r], NEW q \in air'[r],
                      p.total > 1, q.total > 1, p.id = q.id
               PROVE  p.piece.n = q.piece.n
    BY DEF Apart
  <2>1. \A x \in air[r] : x.id \in Nat /\ (x.total > 1 => x.id < newId[Far(r)])
    BY <1>2 DEF AirOwned, Packet
  <2>2. CASE p \in air[r] /\ q \in air[r]
    BY <2>2 DEF Apart
  <2>3. CASE p \notin air[r] /\ q \notin air[r]
    BY <1>6, <2>3
  <2>4. CASE p \in air[r] /\ q \notin air[r]
    <3>1. p.id < newId[s] /\ q.id = newId[s] /\ newId[s] \in Nat
      BY <1>2, <1>6, <2>1, <2>4
    <3> QED BY <2>1, <2>4, <3>1
  <2>5. CASE p \notin air[r] /\ q \in air[r]
    <3>1. q.id < newId[s] /\ p.id = newId[s] /\ newId[s] \in Nat
      BY <1>2, <1>6, <2>1, <2>5
    <3> QED BY <2>1, <2>5, <3>1
  <2> QED BY <2>2, <2>3, <2>4, <2>5
<1> QED BY <1>7, <1>8

LEMMA ProgramSendsTraced ==
  ASSUME Sound, Traced, NEW p \in Programs, NEW total \in 1 .. load.fragments,
         ProgramSends(p, total)
  PROVE  Traced'
<1> SUFFICES ASSUME reopened' = 0
             PROVE  Apart' /\ \E o \in [Streams -> Programs \cup {Nobody}] :
                                   TablesOwned(o)' /\ AirOwned(o)'
  BY DEF Traced
<1>1. reopened = 0 /\ UNCHANGED sockets
  BY DEF ProgramSends
<1>2. PICK o \in [Streams -> Programs \cup {Nobody}] : TablesOwned(o) /\ AirOwned(o)
  BY <1>1 DEF Traced
<1>3. Apart
  BY <1>1 DEF Traced
<1>4. total \in Sizes /\ "client" \in Sides
  BY SizeOfDatagram, CountedTypes DEF Sound
<1>5. newStream \in Nat
  BY CountedTypes
<1>6. CASE streamOf[p] # 0
  <2>1. /\ Transmit("client", streamOf[p], p, total)
        /\ UNCHANGED <<streamOf, clientOf, newStream>>
    BY <1>6 DEF ProgramSends
  <2>2. streamOf[p] \in Streams /\ streamOf[p] < newStream /\ o[streamOf[p]] = p
    BY <1>2, <1>6 DEF TablesOwned, Sound, UdpTypeOK
  <2>3. newStream <= newStream' /\ newStream' \in Nat /\ streamOf[p] < newStream'
    BY <1>5, <2>1, <2>2
  <2>4. AirOwned(o)' /\ Apart'
    BY <1>2, <1>3, <1>4, <2>1, <2>2, <2>3, SendingTraced
  <2>5. TablesOwned(o)'
    BY <1>1, <1>2, <2>1 DEF TablesOwned
  <2> QED BY <2>4, <2>5
<1>7. CASE streamOf[p] = 0
  <2>1. /\ Transmit("client", newStream, p, total) /\ numbered["client"] < load.sends
        /\ streamOf' = [streamOf EXCEPT ![p] = newStream] /\ newStream' = newStream + 1
    BY <1>7 DEF ProgramSends
  <2>2. newStream \in Streams
    <3>1. newStream \in 1 .. MaxSends + 1
      BY DEF Sound, UdpTypeOK
    <3> QED BY <2>1, <3>1, CountedTypes DEF Streams
  <2>3. PICK o2 \in [Streams -> Programs \cup {Nobody}] :
           o2[newStream] = p /\ \A x \in Streams : x # newStream => o2[x] = o[x]
    <3>1. [o EXCEPT ![newStream] = p] \in [Streams -> Programs \cup {Nobody}]
      OBVIOUS
    <3> QED BY <2>2, <3>1
  <2>4. \A x \in Streams : x < newStream => o2[x] = o[x]
    <3>1. \A x \in Streams : x \in Nat
      BY UdpAssumption DEF Streams
    <3> QED BY <1>5, <2>3, <3>1
  <2>5. newStream <= newStream' /\ newStream' \in Nat /\ newStream < newStream'
    BY <1>5, <2>1
  <2>6. AirOwned(o2)' /\ Apart'
    BY <1>2, <1>3, <1>4, <2>1, <2>2, <2>3, <2>4, <2>5, SendingTraced
  <2>7. TablesOwned(o2)'
    <3>1. streamOf \in [Programs -> Streams \cup {0}]
      BY DEF Sound, UdpTypeOK
    <3>2. \A k \in sockets' : k.stream < newStream' /\ o2[k.stream] = k.who
      <4> TAKE k \in sockets'
      <4>1. k \in sockets /\ k.stream \in Streams /\ k.stream \in Nat
        BY <1>1, UdpAssumption DEF Sound, UdpTypeOK, Streams
      <4>2. k.stream < newStream /\ o[k.stream] = k.who
        BY <1>2, <4>1 DEF TablesOwned
      <4> QED BY <1>5, <2>1, <2>4, <4>1, <4>2
    <3>3. ASSUME NEW w \in Programs, streamOf'[w] # 0
          PROVE  streamOf'[w] < newStream' /\ o2[streamOf'[w]] = w
      <4>1. CASE w = p
        BY <2>1, <2>3, <2>5, <3>1, <4>1
      <4>2. CASE w # p
        <5>1. streamOf'[w] = streamOf[w]
          BY <2>1, <3>1, <4>2
        <5>2. streamOf[w] < newStream /\ o[streamOf[w]] = w
          BY <1>2, <3>3, <5>1 DEF TablesOwned
        <5>3. streamOf[w] \in Streams /\ streamOf[w] \in Nat
          BY <3>1, <3>3, <5>1, UdpAssumption DEF Streams
        <5> QED BY <1>5, <2>1, <2>4, <5>1, <5>2, <5>3
      <4> QED BY <4>1, <4>2
    <3> QED BY <2>3, <3>2, <3>3 DEF TablesOwned
  <2> QED BY <2>3, <2>6, <2>7
<1> QED BY <1>6, <1>7

LEMMA ServerSendsTraced ==
  ASSUME Sound, Traced, NEW k \in sockets, NEW total \in 1 .. load.fragments,
         ServerSends(k, total)
  PROVE  Traced'
<1> SUFFICES ASSUME reopened' = 0
             PROVE  Apart' /\ \E o \in [Streams -> Programs \cup {Nobody}] :
                                   TablesOwned(o)' /\ AirOwned(o)'
  BY DEF Traced
<1>1. /\ reopened = 0 /\ UNCHANGED <<streamOf, newStream, sockets>>
      /\ Transmit("host", k.stream, k.who, total)
  BY DEF ServerSends
<1>2. PICK o \in [Streams -> Programs \cup {Nobody}] : TablesOwned(o) /\ AirOwned(o)
  BY <1>1 DEF Traced
<1>3. Apart
  BY <1>1 DEF Traced
<1>4. total \in Sizes /\ "host" \in Sides
  BY SizeOfDatagram, CountedTypes DEF Sound
<1>5. newStream \in Nat
  BY CountedTypes
<1>6. /\ k.stream \in Streams /\ k.who \in Programs
      /\ k.stream < newStream /\ o[k.stream] = k.who
  BY <1>2 DEF TablesOwned, Sound, UdpTypeOK
<1>7. newStream <= newStream' /\ newStream' \in Nat /\ k.stream < newStream'
  BY <1>1, <1>5, <1>6
<1>8. AirOwned(o)' /\ Apart'
  BY <1>1, <1>2, <1>3, <1>4, <1>6, <1>7, SendingTraced
<1>9. TablesOwned(o)'
  BY <1>1, <1>2 DEF TablesOwned
<1> QED BY <1>8, <1>9

\* A whole datagram of a stream's owner is handed to the owner.
LEMMA HandOverTraced ==
  ASSUME Sound, Agree, DeliveredAsSent, UNCHANGED reopened,
         NEW o, TablesOwned(o), UNCHANGED newStream,
         NEW s \in Sides, NEW stream \in Streams, stream < newStream,
         NEW pieces \in Seq(Piece), pieces # <<>>,
         \A i \in 1 .. Len(pieces) :
             /\ pieces[i].who = o[stream] /\ pieces[i].n = pieces[1].n
             /\ pieces[i].part = i - 1 /\ pieces[i].of = Len(pieces),
         HandOver(s, stream, pieces)
  PROVE  /\ DeliveredAsSent'
         /\ \A k \in sockets' : k.stream < newStream' /\ o[k.stream] = k.who
<1>1. Len(pieces) \in Nat \ {0} /\ DOMAIN pieces = 1 .. Len(pieces)
      /\ Head(pieces) = pieces[1] /\ \A i \in 1 .. Len(pieces) : pieces[i] \in Piece
  BY HeadTailProperties
<1>2. 1 \in 1 .. Len(pieces)
  BY <1>1
<1>3. Head(pieces).who = o[stream]
  BY <1>1, <1>2
<1>4. \A k \in sockets : k.stream = stream => k.who = o[stream]
  BY DEF TablesOwned
<1>5. clientOf[stream] # Nobody => clientOf[stream] = o[stream]
  <2> SUFFICES ASSUME clientOf[stream] # Nobody PROVE clientOf[stream] = o[stream]
    OBVIOUS
  <2>1. clientOf[stream] \in Programs
    BY DEF Sound, UdpTypeOK
  <2>2. streamOf[clientOf[stream]] = stream
    BY <2>1 DEF Agree, UdpTablesAgree
  <2>3. stream # 0
    BY UdpAssumption DEF Streams
  <2> QED BY <2>1, <2>2, <2>3 DEF TablesOwned
<1>6. \/ delivered' = delivered
      \/ delivered' = [to |-> s, who |-> o[stream], pieces |-> pieces]
  BY <1>3, <1>4, <1>5 DEF HandOver
<1>7. DeliveredAsSent'
  <2>1. CASE delivered' = delivered
    BY <2>1 DEF DeliveredAsSent
  <2>2. CASE delivered' = [to |-> s, who |-> o[stream], pieces |-> pieces]
    <3>1. delivered'.pieces = pieces /\ delivered'.who = o[stream]
      BY <2>2
    <3>2. ASSUME NEW i \in 1 .. Len(pieces)
          PROVE  pieces[i] = [who |-> o[stream], n |-> pieces[1].n, part |-> i - 1,
                              of |-> Len(pieces)]
      <4>1. pieces[i] \in Piece
        BY <1>1
      <4>2. pieces[i] = [who |-> pieces[i].who, n |-> pieces[i].n,
                         part |-> pieces[i].part, of |-> pieces[i].of]
        BY <4>1 DEF Piece
      <4>3. /\ pieces[i].who = o[stream] /\ pieces[i].n = pieces[1].n
            /\ pieces[i].part = i - 1 /\ pieces[i].of = Len(pieces)
        OBVIOUS
      <4> QED BY <4>2, <4>3, Zenon
    <3> QED BY <1>1, <3>1, <3>2 DEF DeliveredAsSent
  <2> QED BY <1>6, <2>1, <2>2
<1>8. \/ sockets' = sockets
      \/ sockets' = sockets \cup {[stream |-> stream, who |-> o[stream]]}
  BY <1>3 DEF HandOver
<1>9. \A k \in sockets' : k.stream < newStream' /\ o[k.stream] = k.who
  BY <1>8 DEF TablesOwned
<1> QED BY <1>7, <1>9

\* The pieces of one packet, and of all fragments of a datagram.
LEMMA ReceiveTraced ==
  ASSUME Sound, Agree, Traced, DeliveredAsSent,
         NEW s \in Sides, NEW packet \in air[s],
         ReceiveWhole(s, packet) \/ ReceiveFragment(s, packet)
  PROVE  Traced' /\ DeliveredAsSent'
<1>1. /\ UNCHANGED <<streamOf, clientOf, newStream, newId, air, reopened>>
      /\ \/ UNCHANGED <<sockets, delivered>>
         \/ ReceiveWhole(s, packet)
         \/ \E e \in Entry :
              /\ EntrySound(s, e) /\ e.stream = packet.stream
              /\ \A p \in e.got : p.total = packet.total
              /\ Cardinality(e.got) = packet.total
              /\ HandOver(s, packet.stream, Complete(e.got, packet.total))
  <2>1. CASE ReceiveWhole(s, packet)
    BY <2>1 DEF ReceiveWhole
  <2>2. CASE ReceiveFragment(s, packet)
    BY <2>2, FragmentCases
  <2> QED BY <2>1, <2>2
<1>2. CASE reopened # 0
  BY <1>1, <1>2 DEF Traced, DeliveredAsSent
<1>3. CASE reopened = 0
  <2>1. PICK o \in [Streams -> Programs \cup {Nobody}] : TablesOwned(o) /\ AirOwned(o)
    BY <1>3 DEF Traced
  <2>2. Apart /\ Apart' /\ AirOwned(o)'
    BY <1>1, <1>3, <2>1 DEF Traced, Apart, AirOwned
  <2>3. /\ packet \in Packet /\ packet.stream \in Streams /\ packet.total \in Sizes
        /\ packet.stream < newStream /\ packet.piece \in Piece
        /\ packet.piece.who = o[packet.stream]
    BY <2>1 DEF Sound, UdpTypeOK, Packet, AirOwned
  <2>4. /\ DeliveredAsSent'
        /\ \A k \in sockets' : k.stream < newStream' /\ o[k.stream] = k.who
    <3>1. CASE UNCHANGED <<sockets, delivered>>
      BY <1>1, <2>1, <3>1 DEF TablesOwned, DeliveredAsSent
    <3>2. CASE ReceiveWhole(s, packet)
      <4> DEFINE pieces == <<packet.piece>>
      <4>1. /\ pieces \in Seq(Piece) /\ pieces # <<>> /\ Len(pieces) = 1
            /\ pieces[1] = packet.piece
        BY <2>3
      <4>2. /\ packet.total = 1 /\ HandOver(s, packet.stream, pieces)
        BY <3>2 DEF ReceiveWhole
      <4>3. /\ packet.piece.part = 0 /\ packet.piece.of = 1
        <5>1. /\ packet.index = packet.piece.part /\ packet.total = packet.piece.of
              /\ packet.index < packet.total
          BY DEF Sound, AirSound
        <5>2. packet.index \in Nat
          BY <2>3, UdpAssumption DEF Packet, Places
        <5> QED BY <4>2, <5>1, <5>2
      <4>4. \A i \in 1 .. Len(pieces) :
              /\ pieces[i].who = o[packet.stream] /\ pieces[i].n = pieces[1].n
              /\ pieces[i].part = i - 1 /\ pieces[i].of = Len(pieces)
        <5> TAKE i \in 1 .. Len(pieces)
        <5>1. i = 1
          BY <4>1
        <5> QED BY <2>3, <4>1, <4>3, <5>1
      <4> HIDE DEF pieces
      <4> QED BY <1>1, <2>1, <2>3, <4>1, <4>2, <4>4, HandOverTraced
    <3>3. ASSUME NEW e \in Entry,
                 EntrySound(s, e), e.stream = packet.stream,
                 \A p \in e.got : p.total = packet.total,
                 Cardinality(e.got) = packet.total,
                 HandOver(s, packet.stream, Complete(e.got, packet.total))
          PROVE  /\ DeliveredAsSent'
                 /\ \A k \in sockets' : k.stream < newStream' /\ o[k.stream] = k.who
      <4> DEFINE pieces == Complete(e.got, packet.total)
      <4>1. /\ pieces \in Seq(Piece) /\ Len(pieces) = packet.total /\ pieces # <<>>
            /\ \A i \in 1 .. packet.total : \E p \in e.got :
                  p \in air[s] /\ p.index = i - 1 /\ pieces[i] = p.piece
        BY <2>3, <3>3, CompletePieces
      <4> HIDE DEF pieces
      <4>2. ASSUME NEW p \in e.got, p \in air[s], NEW q \in e.got, q \in air[s]
            PROVE  /\ p.piece.n = q.piece.n /\ p.piece.who = o[packet.stream]
                   /\ p.piece.part = p.index /\ p.piece.of = packet.total
        <5>1. /\ p.total > 1 /\ q.total > 1 /\ p.id = q.id
              /\ p.stream = packet.stream /\ p.total = packet.total
          BY <3>3, <4>2 DEF EntrySound
        <5>2. p.piece.n = q.piece.n
          BY <2>2, <4>2, <5>1 DEF Apart
        <5>3. p.piece.who = o[packet.stream]
          BY <2>1, <4>2, <5>1 DEF AirOwned
        <5>4. p.piece.part = p.index /\ p.piece.of = packet.total
          BY <4>2, <5>1 DEF Sound, AirSound
        <5> QED BY <5>2, <5>3, <5>4
      <4>3. 1 \in 1 .. packet.total
        <5>1. packet.total \in Nat \ {0}
          BY <2>3, UdpAssumption DEF Sizes
        <5> QED BY <5>1
      <4>4. PICK first \in e.got : first \in air[s] /\ pieces[1] = first.piece
        BY <4>1, <4>3
      <4>5. \A i \in 1 .. Len(pieces) :
              /\ pieces[i].who = o[packet.stream] /\ pieces[i].n = pieces[1].n
              /\ pieces[i].part = i - 1 /\ pieces[i].of = Len(pieces)
        <5> TAKE i \in 1 .. Len(pieces)
        <5>1. i \in 1 .. packet.total
          BY <4>1
        <5>2. PICK p \in e.got : p \in air[s] /\ p.index = i - 1 /\ pieces[i] = p.piece
          BY <4>1, <5>1
        <5> QED BY <4>1, <4>2, <4>4, <5>2
      <4>6. HandOver(s, packet.stream, pieces)
        BY <3>3 DEF pieces
      <4> QED BY <1>1, <2>1, <2>3, <4>1, <4>5, <4>6, HandOverTraced
    <3> QED BY <1>1, <3>1, <3>2, <3>3
  <2>5. TablesOwned(o)'
    BY <1>1, <2>1, <2>4 DEF TablesOwned
  <2> QED BY <2>2, <2>4, <2>5 DEF Traced
<1> QED BY <1>2, <1>3

LEMMA OtherStepsTraced ==
  ASSUME Sound, Traced,
         \/ \E p \in Programs : Expire(p)
         \/ \E k \in sockets : CloseSocket(k)
         \/ Reopen
         \/ \E s \in Sides : DropOldest(s)
  PROVE  Traced'
<1>1. CASE Reopen
  <2>1. reopened' # 0
    BY <1>1 DEF Reopen, Sound, UdpTypeOK
  <2> QED BY <2>1 DEF Traced
<1>2. CASE /\ UNCHANGED <<newStream, newId, air, reopened>>
           /\ sockets' \subseteq sockets
           /\ streamOf \in [Programs -> Streams \cup {0}]
           /\ \A p \in Programs : streamOf'[p] # 0 => streamOf'[p] = streamOf[p]
  <2> SUFFICES ASSUME reopened' = 0
               PROVE  Apart' /\ \E o \in [Streams -> Programs \cup {Nobody}] :
                                     TablesOwned(o)' /\ AirOwned(o)'
    BY DEF Traced
  <2>1. PICK o \in [Streams -> Programs \cup {Nobody}] : TablesOwned(o) /\ AirOwned(o)
    BY <1>2 DEF Traced
  <2>2. Apart' /\ AirOwned(o)'
    BY <1>2, <2>1 DEF Traced, Apart, AirOwned
  <2>3. TablesOwned(o)'
    BY <1>2, <2>1 DEF TablesOwned
  <2> QED BY <2>2, <2>3
<1>3. streamOf \in [Programs -> Streams \cup {0}]
  BY DEF Sound, UdpTypeOK
<1>4. ASSUME NEW p \in Programs, Expire(p)
      PROVE  Traced'
  <2>1. /\ streamOf' = [streamOf EXCEPT ![p] = 0]
        /\ UNCHANGED <<newStream, newId, air, reopened, sockets>>
    BY <1>4 DEF Expire
  <2>2. \A w \in Programs : streamOf'[w] # 0 => streamOf'[w] = streamOf[w]
    BY <1>3, <2>1
  <2> QED BY <1>2, <1>3, <2>1, <2>2
<1>5. ASSUME NEW k \in sockets, CloseSocket(k)
      PROVE  Traced'
  BY <1>2, <1>3, <1>5 DEF CloseSocket
<1>6. ASSUME NEW s \in Sides, DropOldest(s)
      PROVE  Traced'
  BY <1>2, <1>3, <1>6 DEF DropOldest
<1> QED BY <1>1, <1>4, <1>5, <1>6

LEMMA TracedInit == UdpInit => Traced /\ DeliveredAsSent
<1> SUFFICES ASSUME UdpInit PROVE Traced /\ DeliveredAsSent
  OBVIOUS
<1> DEFINE o == [s \in Streams |-> Nobody]
<1>1. o \in [Streams -> Programs \cup {Nobody}]
  OBVIOUS
<1>2. Apart /\ TablesOwned(o) /\ AirOwned(o)
  BY <1>1 DEF UdpInit, Apart, TablesOwned, AirOwned
<1>3. DeliveredAsSent
  BY DEF UdpInit, DeliveredAsSent
<1> QED BY <1>1, <1>2, <1>3 DEF Traced

LEMMA TracedNext ==
  Sound /\ Agree /\ Traced /\ DeliveredAsSent /\ [UdpNext]_udpVars
      => Traced' /\ DeliveredAsSent'
<1> SUFFICES ASSUME Sound, Agree, Traced, DeliveredAsSent, [UdpNext]_udpVars
             PROVE  Traced' /\ DeliveredAsSent'
  OBVIOUS
<1>1. CASE UdpNext
  <2>1. Traced'
    BY <1>1, ProgramSendsTraced, ServerSendsTraced, ReceiveTraced, OtherStepsTraced, Zenon
    DEF UdpNext
  <2>2. DeliveredAsSent'
    <3>1. CASE \E s \in Sides : \E packet \in air[s] :
                  ReceiveWhole(s, packet) \/ ReceiveFragment(s, packet)
      BY <3>1, ReceiveTraced
    <3>2. CASE Reopen
      <4>1. reopened' # 0
        BY <3>2 DEF Reopen, Sound, UdpTypeOK
      <4> QED BY <4>1 DEF DeliveredAsSent
    <3>3. CASE UNCHANGED <<delivered, reopened>>
      BY <3>3 DEF DeliveredAsSent
    <3>4. \/ UNCHANGED <<delivered, reopened>>
          \/ Reopen
          \/ \E s \in Sides : \E packet \in air[s] :
                ReceiveWhole(s, packet) \/ ReceiveFragment(s, packet)
      BY <1>1 DEF UdpNext, ProgramSends, ServerSends, Expire, CloseSocket, DropOldest
    <3> QED BY <3>1, <3>2, <3>3, <3>4
  <2> QED BY <2>1, <2>2
<1>2. CASE UNCHANGED udpVars
  BY <1>2 DEF udpVars, Traced, Apart, TablesOwned, AirOwned, DeliveredAsSent
<1> QED BY <1>1, <1>2

\* Whatever is handed to a program or the server is a datagram that was sent by
\* or to it, whole and unmixed, as long as the client has its first engine: for
\* any number of programs, datagrams and fragments, lost, doubled and reordered
\* in any way, and any limits of the tables.
THEOREM Delivered == UdpSpec => []DeliveredAsSent
<1>1. UdpInit => Sound /\ Agree /\ Traced /\ DeliveredAsSent
  BY SoundInit, AgreeInit, TracedInit
<1>2. Sound /\ Agree /\ Traced /\ DeliveredAsSent /\ [UdpNext]_udpVars
          => (Sound /\ Agree /\ Traced /\ DeliveredAsSent)'
  BY SoundNext, AgreeNext, TracedNext
<1> QED BY <1>1, <1>2, PTL DEF UdpSpec

-----------------------------------------------------------------------------
(* The health of a peer.  ShownIsKnown speaks of moments when nothing is to be  *)
(* reported; what leads to them is that the newest report, taken or not, is     *)
(* what the table says, or some thread still has to queue one.                  *)

Newest == IF reports = <<>> THEN shown ELSE reports[Len(reports)].state

NewestIsKnown ==
    health # Nothing /\ ~overtaken /\ (\A t \in Threads : Quiet(t)) =>
        Newest \in {health.state, NoWord}

LinkedIsKnown == linked => health # Nothing

Newly == HealthTypeOK /\ LinkedIsKnown /\ NewestIsKnown

LEMMA ReportFacts ==
  ASSUME NEW ping \in Pings \cup {NoPing}, NEW state \in States
  PROVE  /\ [ping |-> ping, state |-> state] \in Report
         /\ [ping |-> ping, state |-> state] # Nothing
BY DEF Report, States, Nothing

\* Reports that were taken.
LEMMA Taken ==
  ASSUME reports \in Seq(Report), reports # <<>>
  PROVE  /\ Head(reports) \in Report /\ Tail(reports) \in Seq(Report)
         /\ Tail(reports) = <<>> => Len(reports) = 1 /\ Head(reports) = reports[1]
         /\ Tail(reports) # <<>> =>
                Tail(reports)[Len(Tail(reports))] = reports[Len(reports)]
<1>1. /\ Head(reports) \in Report /\ Tail(reports) \in Seq(Report)
      /\ Len(Tail(reports)) = Len(reports) - 1
      /\ \A i \in 1 .. Len(Tail(reports)) : Tail(reports)[i] = reports[i + 1]
  BY HeadTailProperties
<1>2. Head(reports) = reports[1] /\ Len(reports) \in Nat /\ Len(reports) > 0
  OBVIOUS
<1>3. Tail(reports) = <<>> <=> Len(Tail(reports)) = 0
  BY <1>1, EmptySeq
<1>4. ASSUME Tail(reports) # <<>>
      PROVE  Tail(reports)[Len(Tail(reports))] = reports[Len(reports)]
  <2>1. /\ Len(Tail(reports)) \in 1 .. Len(Tail(reports))
        /\ Len(Tail(reports)) + 1 = Len(reports)
    BY <1>1, <1>2, <1>3, <1>4
  <2> QED BY <1>1, <2>1
<1> QED BY <1>1, <1>2, <1>3, <1>4

\* A report keeps the types, and leaves something to queue if it changes the table.
LEMMA Telling ==
  ASSUME HealthTypeOK, NEW t \in Threads, NEW ping \in Pings \cup {NoPing},
         NEW state \in States, Tells(t, ping, state)
  PROVE  /\ health' \in Report \cup {Nothing} /\ health' # Nothing
         /\ saying' \in [Threads -> Report \cup {Nothing}]
         /\ (health' = health /\ saying' = saying) \/ saying'[t] # Nothing
<1> DEFINE report == [ping |-> ping, state |-> state]
<1>1. report \in Report /\ report # Nothing
  BY ReportFacts
<1>2. /\ saying[t] = Nothing /\ health' = report
      /\ saying' = [saying EXCEPT ![t] = IF report = health THEN Nothing ELSE report]
  BY DEF Tells, Quiet
<1>3. saying \in [Threads -> Report \cup {Nothing}]
  BY DEF HealthTypeOK
<1> HIDE DEF report
<1>4. CASE report = health
  <2>1. saying' = saying BY <1>2, <1>3, <1>4
  <2> QED BY <1>1, <1>2, <1>3, <1>4, <2>1
<1>5. CASE report # health
  BY <1>1, <1>2, <1>3, <1>5
<1> QED BY <1>4, <1>5

\* What a report does to the invariant.
LEMMA TellingKeeps ==
  ASSUME Newly, NEW t \in Threads, NEW ping \in Pings \cup {NoPing},
         NEW state \in States, Tells(t, ping, state),
         UNCHANGED <<reports, shown, overtaken>>
  PROVE  /\ health' \in Report \cup {Nothing}
         /\ saying' \in [Threads -> Report \cup {Nothing}]
         /\ LinkedIsKnown' /\ NewestIsKnown'
<1>1. /\ health' \in Report \cup {Nothing} /\ health' # Nothing
      /\ saying' \in [Threads -> Report \cup {Nothing}]
      /\ (health' = health /\ saying' = saying) \/ saying'[t] # Nothing
  BY Telling DEF Newly
<1>2. LinkedIsKnown'
  BY <1>1 DEF LinkedIsKnown
<1>3. ASSUME health' = health, saying' = saying PROVE NewestIsKnown'
  <2>1. Newest' = Newest BY DEF Newest
  <2>2. (\A u \in Threads : Quiet(u))' => \A u \in Threads : Quiet(u) BY <1>3 DEF Quiet
  <2>3. overtaken' = overtaken OBVIOUS
  <2> QED BY <1>3, <2>1, <2>2, <2>3 DEF Newly, NewestIsKnown
<1>4. ASSUME saying'[t] # Nothing PROVE NewestIsKnown'
  <2>1. ~ Quiet(t)' BY <1>4 DEF Quiet
  <2> QED BY <2>1 DEF NewestIsKnown
<1> QED BY <1>1, <1>2, <1>3, <1>4

LEMMA NewlyInit == HealthInit => Newly
<1> SUFFICES ASSUME HealthInit PROVE Newly
  OBVIOUS
<1>1. /\ started = FALSE /\ answering = TRUE /\ linked = FALSE /\ ack = "none"
      /\ seen = Unheard /\ health = Nothing /\ beating = Resting /\ hearing = Nothing
      /\ saying = [t \in Threads |-> Nothing] /\ reports = <<>> /\ shown = NoWord
      /\ overtaken = FALSE /\ late = {}
  BY DEF HealthInit
<1>2. Resting \in Beat /\ Unheard \in 0 .. Unheard
  BY HealthAssumption DEF Resting, Beat, Unheard
<1>3. HealthTypeOK
  <2>1. saying \in [Threads -> Report \cup {Nothing}] BY <1>1
  <2>2. reports \in Seq(Report) BY <1>1
  <2> QED BY <1>1, <1>2, <2>1, <2>2 DEF HealthTypeOK
<1>4. LinkedIsKnown /\ NewestIsKnown
  BY <1>1 DEF LinkedIsKnown, NewestIsKnown
<1> QED BY <1>3, <1>4 DEF Newly

\* Passing on a report: it is the table's and the last, or an older one is marked.
LEMMA SayKeeps ==
  ASSUME Newly, NEW t \in Threads, Say(t)
  PROVE  Newly'
<1>1. /\ saying[t] # Nothing /\ saying' = [saying EXCEPT ![t] = Nothing]
      /\ UNCHANGED <<started, answering, linked, ack, seen, health, beating, hearing, late>>
  BY DEF Say, Quiet
<1>2. /\ reports \in Seq(Report) /\ saying \in [Threads -> Report \cup {Nothing}]
      /\ shown \in States \cup {NoWord}
  BY DEF Newly, HealthTypeOK
<1>3. saying[t] \in Report /\ saying[t].state \in States
  BY <1>1, <1>2 DEF Report
<1>4. saying' \in [Threads -> Report \cup {Nothing}]
  BY <1>1, <1>2
<1>5. /\ reports' \in Seq(Report) /\ shown' \in States \cup {NoWord} /\ overtaken' \in BOOLEAN
      /\ ~overtaken' => saying[t] = health /\ Newest' = saying[t].state
  <2>1. CASE /\ shown' = saying[t].state /\ reports' = reports
             /\ overtaken' = (saying[t] # health \/ reports # <<>>)
    BY <1>2, <1>3, <2>1 DEF Newest
  <2>2. CASE /\ reports' = Append(reports, saying[t]) /\ shown' = shown
             /\ overtaken' = (saying[t] # health)
    <3>1. /\ reports' \in Seq(Report) /\ reports' # <<>>
          /\ reports'[Len(reports')] = saying[t]
      BY <1>2, <1>3, <2>2
    <3> QED BY <1>2, <2>2, <3>1 DEF Newest
  <2> QED BY <2>1, <2>2 DEF Say
<1>6. HealthTypeOK'
  BY <1>1, <1>4, <1>5 DEF Newly, HealthTypeOK
<1>7. LinkedIsKnown'
  BY <1>1 DEF Newly, LinkedIsKnown
<1>8. NewestIsKnown'
  BY <1>1, <1>5 DEF NewestIsKnown
<1> QED BY <1>6, <1>7, <1>8 DEF Newly

\* What a thread of an earlier link still says is marked, unless it is the truth.
LEMMA SayLateKeeps ==
  ASSUME Newly, NEW t \in Threads, SayLate(t)
  PROVE  Newly'
<1>1. PICK report \in Report :
          reports' = Append(reports, report) /\ overtaken' = (report # health)
  BY DEF SayLate
<1>2. /\ late' \subseteq late
      /\ UNCHANGED <<started, answering, linked, ack, seen, health, beating, hearing,
                     saying, shown>>
  BY DEF SayLate
<1>3. reports \in Seq(Report)
  BY DEF Newly, HealthTypeOK
<1>4. /\ reports' \in Seq(Report) /\ reports' # <<>>
      /\ reports'[Len(reports')] = report
  BY <1>1, <1>3
<1>5. HealthTypeOK'
  BY <1>1, <1>2, <1>4 DEF Newly, HealthTypeOK
<1>6. LinkedIsKnown'
  BY <1>2 DEF Newly, LinkedIsKnown
<1>7. NewestIsKnown'
  BY <1>1, <1>2, <1>4 DEF NewestIsKnown, Newest
<1> QED BY <1>5, <1>6, <1>7 DEF Newly

LEMMA HandleReportKeeps ==
  ASSUME Newly, HandleReport
  PROVE  Newly'
<1>1. /\ reports # <<>> /\ shown' = Head(reports).state /\ reports' = Tail(reports)
      /\ UNCHANGED <<started, answering, linked, ack, seen, health, beating, hearing,
                     saying, overtaken, late>>
  BY DEF HandleReport
<1>2. reports \in Seq(Report) BY DEF Newly, HealthTypeOK
<1>3. /\ Head(reports) \in Report /\ Tail(reports) \in Seq(Report)
      /\ Tail(reports) = <<>> => Len(reports) = 1 /\ Head(reports) = reports[1]
      /\ Tail(reports) # <<>> =>
                Tail(reports)[Len(Tail(reports))] = reports[Len(reports)]
  BY <1>1, <1>2, Taken
<1>4. Head(reports).state \in States
  BY <1>3 DEF Report
<1>5. HealthTypeOK'
  BY <1>1, <1>3, <1>4 DEF Newly, HealthTypeOK
<1>6. Newest' = Newest
  BY <1>1, <1>3 DEF Newest
<1> QED BY <1>1, <1>5, <1>6 DEF Newly, LinkedIsKnown, NewestIsKnown, Quiet

\* The heartbeat thread.
LEMMA BeatKeeps ==
  ASSUME Newly, BeatReads \/ BeatJudges \/ BeatSends \/ BeatFails
  PROVE  Newly'
<1>1. /\ health \in Report \cup {Nothing} /\ beating \in Beat /\ seen \in 0 .. Unheard
      /\ ack \in {"none", "awaited", "outdated"} /\ linked \in BOOLEAN
      /\ "heartbeat" \in Threads
  BY DEF Newly, HealthTypeOK, Threads
<1>2. /\ health.ping \in Pings \cup {NoPing}
      /\ beating.ping \in Pings \cup {NoPing} /\ beating.seen \in 0 .. Unheard
      /\ \A next \in {"rest", "judge", "send", "failed"} : [beating EXCEPT !.next = next] \in Beat
      /\ Resting \in Beat
  BY <1>1, HealthAssumption DEF Report, Nothing, Beat, Resting, Unheard
<1>3. CASE BeatReads
  <2>1. /\ seen' = Older /\ ack' \in {ack, Outdated}
        /\ beating' = [next |-> "judge", linked |-> linked, seen |-> Older, ping |-> health.ping]
        /\ UNCHANGED <<started, answering, linked, health, hearing, saying, reports,
                       shown, overtaken, late>>
    BY <1>3 DEF BeatReads
  <2>2. Older \in 0 .. Unheard /\ Outdated \in {"none", "awaited", "outdated"}
    BY <1>1, HealthAssumption DEF Older, Outdated, Unheard
  <2>3. beating' \in Beat
    BY <1>1, <1>2, <2>1, <2>2 DEF Beat
  <2>4. HealthTypeOK'
    BY <1>1, <2>1, <2>2, <2>3 DEF Newly, HealthTypeOK
  <2> QED BY <2>1, <2>4 DEF Newly, LinkedIsKnown, NewestIsKnown, Newest, Quiet
<1>4. CASE BeatJudges
  <2>1. /\ beating' = [beating EXCEPT !.next = IF beating.linked THEN "send" ELSE "rest"]
        /\ IF Judged THEN Tells("heartbeat", beating.ping, "unresponsive")
           ELSE UNCHANGED <<health, saying>>
        /\ UNCHANGED <<started, answering, linked, ack, seen, hearing, reports, shown, overtaken, late>>
    BY <1>4 DEF BeatJudges
  <2>2. beating' \in Beat
    BY <1>2, <2>1
  <2>3. "unresponsive" \in States BY DEF States
  <2>4. /\ health' \in Report \cup {Nothing}
        /\ saying' \in [Threads -> Report \cup {Nothing}]
        /\ LinkedIsKnown' /\ NewestIsKnown'
    <3>1. CASE Judged
      BY <1>1, <1>2, <2>1, <2>3, <3>1, TellingKeeps
    <3>2. CASE ~Judged
      BY <1>1, <2>1, <3>2 DEF Newly, HealthTypeOK, LinkedIsKnown, NewestIsKnown, Newest, Quiet
    <3> QED BY <3>1, <3>2
  <2>5. HealthTypeOK'
    BY <2>1, <2>2, <2>4 DEF Newly, HealthTypeOK
  <2> QED BY <2>4, <2>5 DEF Newly
<1>5. CASE BeatSends
  <2>1. /\ ack' \in {ack, "awaited"}
        /\ beating' = Resting \/ beating' = [beating EXCEPT !.next = "failed"]
        /\ UNCHANGED <<started, answering, linked, seen, health, hearing, saying, reports,
                       shown, overtaken, late>>
    BY <1>5 DEF BeatSends
  <2>2. beating' \in Beat
    BY <1>2, <2>1
  <2>3. HealthTypeOK'
    BY <1>1, <2>1, <2>2 DEF Newly, HealthTypeOK
  <2> QED BY <2>1, <2>3 DEF Newly, LinkedIsKnown, NewestIsKnown, Newest, Quiet
<1>6. CASE BeatFails
  <2>1. /\ Tells("heartbeat", NoPing, "connecting") /\ beating' = Resting
        /\ UNCHANGED <<started, answering, linked, ack, seen, hearing, reports, shown, overtaken, late>>
    BY <1>6 DEF BeatFails
  <2>2. "connecting" \in States BY DEF States
  <2>3. /\ health' \in Report \cup {Nothing}
        /\ saying' \in [Threads -> Report \cup {Nothing}]
        /\ LinkedIsKnown' /\ NewestIsKnown'
    BY <1>1, <2>1, <2>2, TellingKeeps
  <2>4. HealthTypeOK'
    BY <1>2, <2>1, <2>3 DEF Newly, HealthTypeOK
  <2> QED BY <2>3, <2>4 DEF Newly
<1> QED BY <1>3, <1>4, <1>5, <1>6

\* The receive thread.
LEMMA HearKeeps ==
  ASSUME Newly, HearPeer \/ HearAck \/ HearTells
  PROVE  Newly'
<1>1. /\ health \in Report \cup {Nothing} /\ hearing \in Report \cup {Nothing}
      /\ "receive" \in Threads /\ 0 \in 0 .. Unheard
  BY HealthAssumption DEF Newly, HealthTypeOK, Threads, Unheard
<1>2. /\ health.ping \in Pings \cup {NoPing} /\ hearing.ping \in Pings \cup {NoPing}
      /\ "connected" \in States
      /\ \A ping \in Pings \cup {NoPing} : [ping |-> ping, state |-> "connected"] \in Report
  BY <1>1 DEF Report, Nothing, States
<1>3. CASE HearPeer \/ HearAck
  <2>1. /\ UNCHANGED <<started, answering, linked, health, beating, saying, reports, shown,
                       overtaken, late>>
        /\ ack' \in {ack, "none"}
        /\ seen' \in {seen, 0}
        /\ hearing' = hearing \/ \E ping \in Pings \cup {NoPing} :
                                     hearing' = [ping |-> ping, state |-> "connected"]
    BY <1>2, <1>3 DEF HearPeer, HearAck, Hears
  <2>2. hearing' \in Report \cup {Nothing}
    BY <1>1, <1>2, <2>1
  <2>3. HealthTypeOK'
    BY <1>1, <2>1, <2>2 DEF Newly, HealthTypeOK
  <2> QED BY <2>1, <2>3 DEF Newly, LinkedIsKnown, NewestIsKnown, Newest, Quiet
<1>4. CASE HearTells
  <2>1. /\ Tells("receive", hearing.ping, "connected") /\ hearing' = Nothing
        /\ UNCHANGED <<started, answering, linked, ack, seen, beating, reports, shown, overtaken, late>>
    BY <1>4 DEF HearTells
  <2>2. /\ health' \in Report \cup {Nothing}
        /\ saying' \in [Threads -> Report \cup {Nothing}]
        /\ LinkedIsKnown' /\ NewestIsKnown'
    BY <1>1, <1>2, <2>1, TellingKeeps
  <2>3. HealthTypeOK'
    BY <2>1, <2>2 DEF Newly, HealthTypeOK
  <2> QED BY <2>2, <2>3 DEF Newly
<1> QED BY <1>3, <1>4

\* The Qt thread, and the network.
LEMMA LinkKeeps ==
  ASSUME Newly, NEW t \in Threads, Link(t) \/ (t = "qt" /\ Reconnect)
  PROVE  Newly'
<1>1. /\ Tells(t, NoPing, "connecting") /\ linked' = TRUE
      /\ UNCHANGED <<started, answering, ack, seen, beating, hearing, reports, shown, overtaken, late>>
  BY DEF Link, Reconnect, Newly, HealthTypeOK
<1>2. NoPing \in Pings \cup {NoPing} /\ "connecting" \in States
  BY DEF States
<1>3. /\ health' \in Report \cup {Nothing}
      /\ saying' \in [Threads -> Report \cup {Nothing}]
      /\ LinkedIsKnown' /\ NewestIsKnown'
  BY <1>1, <1>2, TellingKeeps
<1>4. HealthTypeOK'
  BY <1>1, <1>3 DEF Newly, HealthTypeOK
<1> QED BY <1>3, <1>4 DEF Newly

LEMMA ForgetKeeps ==
  ASSUME Newly, Stop \/ Unlink
  PROVE  Newly'
<1>1. /\ linked' = FALSE /\ seen' = Unheard /\ health' = Nothing /\ shown' = NoWord
      /\ ack' = Outdated /\ started' \in BOOLEAN
      /\ UNCHANGED <<answering, beating, hearing, saying, reports, overtaken, late>>
  <2>1. ASSUME Stop PROVE started' \in BOOLEAN
    BY <2>1 DEF Stop
  <2>2. ASSUME Unlink PROVE started' \in BOOLEAN
    BY <2>2 DEF Unlink, Newly, HealthTypeOK
  <2>3. /\ linked' = FALSE /\ seen' = Unheard /\ health' = Nothing /\ shown' = NoWord
        /\ ack' = Outdated
        /\ UNCHANGED <<answering, beating, hearing, saying, reports, overtaken, late>>
    BY DEF Stop, Unlink
  <2> QED BY <2>1, <2>2, <2>3
<1>2. Unheard \in 0 .. Unheard
  BY HealthAssumption DEF Unheard
<1>3. ack' \in {"none", "awaited", "outdated"}
  BY <1>1 DEF Outdated, Newly, HealthTypeOK
<1>4. HealthTypeOK'
  BY <1>1, <1>2, <1>3 DEF Newly, HealthTypeOK
<1> QED BY <1>1, <1>4 DEF Newly, LinkedIsKnown, NewestIsKnown

LEMMA StartKeeps ==
  ASSUME Newly, Start
  PROVE  Newly'
<1>1. /\ started' = TRUE /\ beating' = Resting /\ hearing' = Nothing
      /\ seen' = Unheard /\ ack' = "none"
      /\ UNCHANGED <<answering, reports, shown, overtaken>>
      /\ late' \subseteq late \cup {"heartbeat", "receive"}
  BY DEF Start
<1> DEFINE report == [ping |-> NoPing, state |-> "connecting"]
           quiet == [t \in Threads |-> Nothing]
<1>2. report \in Report /\ report # Nothing
  BY ReportFacts DEF States
<1>3. \/ linked' = FALSE /\ health' = Nothing /\ saying' = quiet
      \/ linked' = TRUE /\ health' = report /\ saying' = [quiet EXCEPT !["qt"] = report]
  BY DEF Start
<1> HIDE DEF report
<1>4. /\ linked' \in BOOLEAN /\ health' \in Report \cup {Nothing}
      /\ saying' \in [Threads -> Report \cup {Nothing}]
      /\ LinkedIsKnown'
      /\ health' # Nothing => saying'["qt"] # Nothing
  BY <1>2, <1>3 DEF Threads, LinkedIsKnown
<1>5. NewestIsKnown'
  BY <1>4 DEF NewestIsKnown, Quiet, Threads
<1>6. Resting \in Beat /\ Unheard \in 0 .. Unheard
  BY HealthAssumption DEF Resting, Beat, Unheard
<1>7. HealthTypeOK'
  BY <1>1, <1>4, <1>6 DEF Newly, HealthTypeOK
<1> QED BY <1>4, <1>5, <1>7 DEF Newly

LEMMA OtherHealthKeeps ==
  ASSUME Newly, Rebuild \/ Network \/ UNCHANGED healthVars
  PROVE  Newly'
<1>1. /\ UNCHANGED <<linked, seen, health, beating, hearing, saying, reports, overtaken, late>>
      /\ started' \in BOOLEAN /\ answering' \in BOOLEAN
      /\ ack' \in {ack, "none"} /\ shown' \in {shown, NoWord}
  BY DEF Rebuild, Network, healthVars, Newly, HealthTypeOK
<1>2. HealthTypeOK'
  BY <1>1 DEF Newly, HealthTypeOK
<1>3. Newest' \in {Newest, NoWord}
  BY <1>1 DEF Newest
<1> QED BY <1>1, <1>2, <1>3 DEF Newly, LinkedIsKnown, NewestIsKnown, Quiet

LEMMA NewlyNext == Newly /\ [HealthNext]_healthVars => Newly'
<1> SUFFICES ASSUME Newly, [HealthNext]_healthVars PROVE Newly'
  OBVIOUS
<1>1. ASSUME NEW t \in Threads, Say(t) \/ SayLate(t) \/ Link(t) PROVE Newly'
  BY <1>1, SayKeeps, SayLateKeeps, LinkKeeps
<1>2. CASE HandleReport
  BY <1>2, HandleReportKeeps
<1>3. CASE BeatReads \/ BeatJudges \/ BeatSends \/ BeatFails
  BY <1>3, BeatKeeps
<1>4. CASE HearPeer \/ HearAck \/ HearTells
  BY <1>4, HearKeeps
<1>5. CASE Reconnect
  BY <1>5, LinkKeeps DEF Threads
<1>6. CASE Stop \/ Unlink
  BY <1>6, ForgetKeeps
<1>7. CASE Start
  BY <1>7, StartKeeps
<1>8. CASE Rebuild \/ Network \/ UNCHANGED healthVars
  BY <1>8, OtherHealthKeeps
<1> QED BY <1>1, <1>2, <1>3, <1>4, <1>5, <1>6, <1>7, <1>8 DEF HealthNext

\* What the control link, its threads and the session hold of a peer is of its
\* kind, for any time limit and any round-trip times.
THEOREM HealthTypes == HealthSpec => []HealthTypeOK
<1>1. Newly => HealthTypeOK BY DEF Newly
<1> QED BY <1>1, NewlyInit, NewlyNext, PTL DEF HealthSpec

\* Once all reports are taken the session shows what the link knows of a linked
\* peer, unless an older report was passed on after a newer one or was still queued
\* when the Qt thread showed one of its own: _report_health and _on_peer_health lose
\* no change, however the threads of this link and of one before it take turns.
THEOREM HealthShown == HealthSpec => []ShownIsKnown
<1>1. Newly => ShownIsKnown
  BY DEF Newly, LinkedIsKnown, NewestIsKnown, Newest, ShownIsKnown, Settled
<1> QED BY <1>1, NewlyInit, NewlyNext, PTL DEF HealthSpec

-----------------------------------------------------------------------------
(* The ports of a lobby.  A list of services is proper if its ports differ; *)
(* the identifier of a service names its port.                              *)

Proper(list) ==
    /\ \A i \in DOMAIN list : list[i].id[1] = list[i].port
    /\ \A i, j \in DOMAIN list : list[i].port = list[j].port => i = j

\* The lists that a service can be taken from.
Current(list) ==
    list \in {hosted, published, config} \/ \E k \in DOMAIN net : list = net[k].services

ListsProper == \A list \in Seq(Service) : Current(list) => Proper(list)

\* A port that a list or an engine uses with this channel.
InUse(port, channel) ==
    \/ \E list \in Seq(Service) : Current(list) /\ \E i \in DOMAIN list :
           list[i].port = port /\ list[i].channel = channel
    \/ \E e \in running : e.port = port /\ e.channel = channel

ChannelsDrawn == \A p \in Ports, c \in Nat : InUse(p, c) => c <= channels
ChannelsApart ==
    ~redrawn => \A p, q \in Ports, c \in Nat : InUse(p, c) /\ InUse(q, c) => p = q

\* The host's engines are for the services it has.
HostServes == hostOpen = IF served THEN ToSet(hosted) ELSE {}

\* An open port is that of a service the member has.
Listing(e) == \E i \in DOMAIN config :
    config[i].id = e.id /\ config[i].port = e.port /\ config[i].channel = e.channel
OpenListed ==
    /\ mode = "idle" => engines = {}
    /\ \A e \in engines : Listing(e)

\* The last word on the services that the member has or is sent is the host's.
Quietly(k) == \A j \in DOMAIN net : j > k => net[j].kind # "config"
LastWord ==
    /\ mode = "idle" => net = <<>>
    /\ mode # "idle" /\ ~behind /\ Valid(hosted) =>
           \/ config = hosted /\ Quietly(0)
           \/ \E k \in DOMAIN net :
                  net[k].kind = "config" /\ net[k].services = hosted /\ Quietly(k)

PortsInv ==
    /\ TypeOK /\ ListsProper /\ ChannelsDrawn /\ ChannelsApart
    /\ HostServes /\ OpenListed /\ LastWord /\ WindowTellsTruth

-----------------------------------------------------------------------------
(* Numbers, lists and records *)

\* A bounded set of numbers has a largest one: the least of its bounds.
LEMMA MaxOfBounded ==
  ASSUME NEW S \in SUBSET Nat, S # {}, NEW b \in Nat, \A x \in S : x <= b
  PROVE  Max(S) \in Nat /\ \A x \in S : x <= Max(S)
<1> DEFINE U == {u \in Nat : \A x \in S : x <= u}
           R == {ss \in Nat \X Nat : ss[1] < ss[2]}
<1>1. U \subseteq Nat /\ U # {}
  OBVIOUS
<1>2. IsWellFoundedOn(R, Nat)
  BY NatLessThanWellFounded DEF OpToRel
<1>3. PICK u \in U : \A v \in U : ~ (v < u)
  <2>1. \E u \in U : \A v \in U : <<v, u>> \notin R
    <3> HIDE DEF U, R
    <3> QED BY <1>1, <1>2, WFMin
  <2>2. PICK u \in U : \A v \in U : <<v, u>> \notin R
    BY <2>1
  <2>3. u \in Nat BY <2>2
  <2>4. ASSUME NEW v \in U PROVE ~ (v < u)
    BY <2>2, <2>3
  <2> QED BY <2>2, <2>4
<1>4. u \in Nat /\ \A x \in S : x <= u
  BY <1>3
<1>5. u \in S
  <2> SUFFICES ASSUME u \notin S PROVE FALSE
    OBVIOUS
  <2>1. \A x \in S : x \in Nat /\ x < u
    BY <1>4
  <2>2. \E x \in S : TRUE
    OBVIOUS
  <2>3. u > 0 /\ u - 1 \in Nat
    BY <1>4, <2>1, <2>2
  <2>4. \A x \in S : x <= u - 1
    BY <1>4, <2>1
  <2>5. u - 1 \in U
    BY <2>3, <2>4
  <2> QED BY <1>3, <1>4, <2>5
<1>6. \E m \in S : \A x \in S : m >= x
  BY <1>4, <1>5
<1>7. Max(S) \in S /\ \A x \in S : Max(S) >= x
  BY <1>6 DEF Max
<1> QED BY <1>7

LEMMA ListPlaces ==
  ASSUME NEW S, NEW list \in Seq(S)
  PROVE  /\ DOMAIN list = 1 .. Len(list) /\ Len(list) \in Nat
         /\ \A i \in DOMAIN list : list[i] \in S
         /\ ToSet(list) \subseteq S
         /\ \A x : x \in ToSet(list) <=> \E i \in DOMAIN list : x = list[i]
BY DEF ToSet

LEMMA ServiceFields ==
  ASSUME NEW s \in Service
  PROVE  s.id \in Ids /\ s.port \in Ports /\ s.channel \in Nat
BY DEF Service

LEMMA EngineFields ==
  ASSUME NEW e \in Engine
  PROVE  /\ e.id \in Ids /\ e.port \in Ports /\ e.channel \in Nat /\ e.local \in LocalPorts
         /\ Mapping(e) \in [id : Ids, port : Ports, local : LocalPorts]
         /\ Mapping(e).id = e.id
BY DEF Engine, Mapping

LEMMA OpeningFields ==
  ASSUME NEW s \in Service, NEW local \in LocalPorts
  PROVE  /\ Opening(s, local) \in Engine
         /\ Opening(s, local).id = s.id /\ Opening(s, local).port = s.port
         /\ Opening(s, local).channel = s.channel /\ Opening(s, local).local = local
BY DEF Service, Engine, Opening

LEMMA MessageFields ==
  ASSUME NEW m \in Message
  PROVE  m.kind \in {"granted", "denied", "config"} /\ m.services \in Seq(Service)
BY DEF Message

LEMMA MessageKinds ==
  /\ \A kind \in {"granted", "denied"} :
         Bare(kind) \in Message /\ Bare(kind).kind = kind /\ Bare(kind).services = <<>>
  /\ \A list \in Seq(Service) :
         /\ Update(list) \in Message
         /\ Update(list).kind = "config" /\ Update(list).services = list
<1>1. <<>> \in Seq(Service) OBVIOUS
<1> QED BY <1>1 DEF Bare, Update, Message

\* What the types say of each variable.
LEMMA PortTypes ==
  ASSUME TypeOK
  PROVE  /\ hosted \in Seq(Service) /\ published \in Seq(Service) /\ config \in Seq(Service)
         /\ served \in BOOLEAN /\ redrawn \in BOOLEAN /\ request \in BOOLEAN
         /\ behind \in BOOLEAN /\ asking \in BOOLEAN /\ auto \in BOOLEAN
         /\ leaked \subseteq Engine
         /\ hostOpen \subseteq Service /\ edition \in Nat /\ channels \in Nat
         /\ net \in Seq(Message) /\ mode \in {"idle", "joining", "connected"}
         /\ engines \subseteq Engine /\ running \subseteq Engine
         /\ mappings \subseteq [id : Ids, port : Ports, local : LocalPorts]
         /\ taken \subseteq LocalPorts
BY DEF TypeOK

-----------------------------------------------------------------------------
(* Opening ports *)

LEMMA CandidateFree ==
  ASSUME NEW s \in Service, NEW busy, NEW p \in Candidates(s, busy)
  PROVE  p \in LocalPorts /\ p \notin busy
BY ServiceFields, PortsAssumption DEF Candidates

\* What is opened listens on free ports of its own, and belongs to the services at
\* the places asked for.
LEMMA OpenedFacts ==
  ASSUME NEW list \in Seq(Service), Proper(list), NEW places \in SUBSET DOMAIN list,
         NEW busy, NEW opened \in Opened(list, places, busy)
  PROVE  /\ opened \subseteq Engine
         /\ \A e \in opened :
                /\ e.local \notin busy
                /\ \E i \in places : /\ e.id = list[i].id /\ e.port = list[i].port
                                     /\ e.channel = list[i].channel
         /\ \A d, e \in opened : d.id = e.id \/ d.local = e.local => d = e
<1>1. PICK at \in [places -> LocalPorts] :
          /\ opened = {Opening(list[i], at[i]) : i \in places}
          /\ \A i \in places :
                 at[i] \in Candidates(list[i], busy \cup {at[j] : j \in places \cap (1 .. i - 1)})
  BY DEF Opened
<1>2. /\ DOMAIN list = 1 .. Len(list) /\ Len(list) \in Nat
      /\ \A i \in places : i \in DOMAIN list /\ list[i] \in Service
  BY ListPlaces
<1>3. \A i \in places :
          /\ at[i] \in LocalPorts /\ at[i] \notin busy
          /\ \A j \in places \cap (1 .. i - 1) : at[i] # at[j]
  <2> TAKE i \in places
  <2> DEFINE taking == busy \cup {at[j] : j \in places \cap (1 .. i - 1)}
  <2>1. at[i] \in Candidates(list[i], taking) BY <1>1
  <2>2. at[i] \in LocalPorts /\ at[i] \notin taking
    <3> HIDE DEF taking
    <3> QED BY <1>2, <2>1, CandidateFree
  <2> QED BY <2>2
<1>4. \A i \in places :
          /\ Opening(list[i], at[i]) \in Engine
          /\ Opening(list[i], at[i]).id = list[i].id
          /\ Opening(list[i], at[i]).port = list[i].port
          /\ Opening(list[i], at[i]).channel = list[i].channel
          /\ Opening(list[i], at[i]).local = at[i]
  BY <1>2, <1>3, OpeningFields
<1>5. \A i, j \in places : at[i] = at[j] => i = j
  <2> SUFFICES ASSUME NEW i \in places, NEW j \in places, at[i] = at[j], i # j PROVE FALSE
    OBVIOUS
  <2>1. i \in 1 .. Len(list) /\ j \in 1 .. Len(list) BY <1>2
  <2>2. CASE i < j
    <3>1. i \in places \cap (1 .. j - 1) BY <2>1, <2>2
    <3> QED BY <1>3, <3>1
  <2>3. CASE j < i
    <3>1. j \in places \cap (1 .. i - 1) BY <2>1, <2>3
    <3> QED BY <1>3, <3>1
  <2> QED BY <1>2, <2>1, <2>2, <2>3
<1>6. \A i, j \in places : list[i].id = list[j].id => i = j
  BY <1>2 DEF Proper
<1>7. opened \subseteq Engine
  BY <1>1, <1>4
<1>8. \A e \in opened : \E i \in places : e = Opening(list[i], at[i])
  BY <1>1
<1>9. ASSUME NEW e \in opened
      PROVE  /\ e.local \notin busy
             /\ \E i \in places : /\ e.id = list[i].id /\ e.port = list[i].port
                                  /\ e.channel = list[i].channel
  BY <1>3, <1>4, <1>8
<1>10. ASSUME NEW d \in opened, NEW e \in opened, d.id = e.id \/ d.local = e.local
       PROVE  d = e
  <2>1. PICK i \in places : d = Opening(list[i], at[i]) BY <1>8
  <2>2. PICK j \in places : e = Opening(list[j], at[j]) BY <1>8
  <2>3. i = j BY <1>4, <1>5, <1>6, <1>10, <2>1, <2>2
  <2> QED BY <2>1, <2>2, <2>3
<1> QED BY <1>7, <1>9, <1>10

\* Ports are opened next to the ones that are kept, while the rest still listens.
LEMMA OpeningKeepsTruth ==
  ASSUME WindowTellsTruth, NEW rest \in SUBSET running, NEW kept \in SUBSET (rest \cap engines),
         NEW more,
         \A e \in more : e.local \notin Busy(rest),
         \A d, e \in more : d.id = e.id \/ d.local = e.local => d = e,
         \A d \in kept, e \in more : d.id # e.id,
         engines' = kept \cup more, running' = rest \cup more,
         mappings' = {Mapping(e) : e \in kept \cup more},
         rest = kept \cup leaked', kept \cap leaked' = {},
         taken' = taken
  PROVE  WindowTellsTruth'
<1>1. /\ \A e \in more : e.local \notin taken /\ \A d \in rest : d.local # e.local
      /\ \A e \in rest : e.local \notin taken
      /\ \A d, e \in rest : d.local = e.local => d = e
      /\ \A d, e \in kept : d.id = e.id => d = e
  BY DEF WindowTellsTruth, Busy, Locals
<1>2. mappings' = {Mapping(e) : e \in engines'}
  OBVIOUS
<1>3. \A d, e \in engines' : d.id = e.id => d = e
  BY <1>1
<1>4. \A d, e \in running' : d.local = e.local => d = e
  BY <1>1
<1>5. \A e \in running' : e.local \notin taken'
  BY <1>1
<1>6. running' = engines' \cup leaked'
  OBVIOUS
<1>7. engines' \cap leaked' = {}
  <2>1. \A e \in more : \A d \in leaked' : d # e
    BY <1>1
  <2> QED BY <2>1
<1> QED BY <1>2, <1>3, <1>4, <1>5, <1>6, <1>7 DEF WindowTellsTruth, Locals

-----------------------------------------------------------------------------
(* New lists of services *)

LEMMA SelectionPlaces ==
  ASSUME NEW ports \in Selections
  PROVE  /\ ports \in Seq(Ports)
         /\ \A i, j \in DOMAIN ports : ports[i] = ports[j] => i = j
<1>1. CASE ports \in SetToSeqs(Ports)
  <2>1. Cardinality(Ports) \in Nat
    BY PortsAssumption, FS_CardinalityType
  <2>2. /\ ports \in [1 .. Cardinality(Ports) -> Ports]
        /\ \A i, j \in 1 .. Cardinality(Ports) : i # j => ports[i] # ports[j]
    BY <1>1 DEF SetToSeqs
  <2> QED BY <2>1, <2>2
<1>2. CASE ports \in {<<p>> : p \in Ports}
  <2>1. PICK p \in Ports : ports = <<p>> BY <1>2
  <2>2. DOMAIN ports = 1 .. 1 /\ ports \in Seq(Ports) BY <2>1
  <2>3. \A i \in DOMAIN ports : i = 1 BY <2>2
  <2> QED BY <2>2, <2>3
<1> QED BY <1>1, <1>2 DEF Selections

\* The service at a place is an old one, or has an identifier of this edition and a
\* channel that no place before it has.
FreshAt(list, i) ==
    /\ list[i].id[2] = edition + 1
    /\ \A j \in 1 .. i - 1 : list[j].channel # list[i].channel
OldAt(list, i) == \E j \in DOMAIN hosted : list[i] = hosted[j]

LEMMA ListedFacts ==
  ASSUME TypeOK, ListsProper, ChannelsDrawn, NEW ports \in Selections,
         NEW list \in Listed(ports)
  PROVE  /\ list \in Seq(Service) /\ Proper(list)
         /\ \A i \in DOMAIN list : OldAt(list, i) \/ FreshAt(list, i)
         /\ \E b \in Nat : \A i \in DOMAIN list : list[i].channel <= b
<1> DEFINE most == channels + Len(ports)
           drawn == {New(p, c) : p \in Ports, c \in 1 .. most}
           before(i) == {list[j].channel : j \in 1 .. i - 1}
<1>t. /\ hosted \in Seq(Service) /\ channels \in Nat /\ edition \in Nat
  BY PortTypes
<1>p. /\ ports \in Seq(Ports) /\ DOMAIN ports = 1 .. Len(ports) /\ Len(ports) \in Nat
      /\ \A i \in DOMAIN ports : ports[i] \in Ports
      /\ \A i, j \in DOMAIN ports : ports[i] = ports[j] => i = j
  BY SelectionPlaces, ListPlaces
<1>m. most \in Nat /\ channels <= most
  BY <1>t, <1>p
<1>l. /\ list \in [DOMAIN ports -> ToSet(hosted) \cup drawn]
      /\ \A i \in DOMAIN ports : list[i] \in Endpoint(ports[i], before(i), most)
  BY DEF Listed
<1>h. /\ ToSet(hosted) \subseteq Service
      /\ \A s \in ToSet(hosted) : \E j \in DOMAIN hosted : s = hosted[j]
  BY <1>t, ListPlaces
<1>k. \A s \in ToSet(hosted) : s.id[1] = s.port /\ s.channel <= most
  <2> TAKE s \in ToSet(hosted)
  <2>1. PICK j \in DOMAIN hosted : s = hosted[j] BY <1>h
  <2>2. Current(hosted) BY DEF Current
  <2>3. s.id[1] = s.port BY <1>t, <2>1, <2>2 DEF ListsProper, Proper
  <2>4. s.port \in Ports /\ s.channel \in Nat BY <1>h, ServiceFields
  <2>5. InUse(s.port, s.channel) BY <1>t, <2>1, <2>2 DEF InUse
  <2>6. s.channel <= channels BY <2>4, <2>5 DEF ChannelsDrawn
  <2> QED BY <1>t, <1>m, <2>3, <2>4, <2>6
<1>n. \A p \in Ports, c \in 1 .. most :
          /\ New(p, c) \in Service
          /\ New(p, c).id[1] = p /\ New(p, c).id[2] = edition + 1
          /\ New(p, c).port = p /\ New(p, c).channel = c
  BY <1>t, <1>m DEF New, Service, Ids
<1>1. ASSUME NEW i \in DOMAIN ports
      PROVE  /\ list[i] \in Service /\ list[i].port = ports[i]
             /\ list[i].id[1] = list[i].port /\ list[i].channel <= most
             /\ OldAt(list, i) \/ FreshAt(list, i)
  <2>1. CASE Known(ports[i]) # {}
    <3>1. list[i] \in ToSet(hosted) /\ list[i].port = ports[i]
      BY <1>l, <2>1 DEF Endpoint, Known
    <3> QED BY <1>h, <1>k, <3>1 DEF OldAt
  <2>2. CASE Known(ports[i]) = {}
    <3>0. list[i] \in Endpoint(ports[i], before(i), most)
      BY <1>l
    <3>1. PICK c \in Draws(before(i), most) : list[i] = New(ports[i], c)
      <4> HIDE DEF before, most
      <4> QED BY <2>2, <3>0 DEF Endpoint
    <3>2. c \in 1 .. most /\ c \notin before(i)
      BY DEF Draws
    <3>3. ports[i] \in Ports BY <1>p
    <3>4. /\ list[i] \in Service /\ list[i].port = ports[i]
          /\ list[i].id[1] = ports[i] /\ list[i].id[2] = edition + 1
          /\ list[i].channel = c
      BY <1>n, <3>1, <3>2, <3>3
    <3>5. \A j \in 1 .. i - 1 : list[j].channel # list[i].channel
      BY <3>2, <3>4
    <3>6. c <= most BY <3>2
    <3> QED BY <3>4, <3>5, <3>6 DEF FreshAt
  <2> QED BY <2>1, <2>2
<1>2. list \in Seq(Service) /\ DOMAIN list = DOMAIN ports
  <2>1. list \in [1 .. Len(ports) -> Service]
    BY <1>1, <1>l, <1>p
  <2> QED BY <1>p, <2>1
<1>3. Proper(list)
  BY <1>1, <1>2, <1>p DEF Proper
<1> HIDE DEF most
<1> QED BY <1>1, <1>2, <1>3, <1>m

\* Of what is drawn, the highest number is kept, and whether one was drawn again.
LEMMA DrawnFacts ==
  ASSUME TypeOK, NEW list \in Seq(Service), Drawn(list),
         NEW b \in Nat, \A i \in DOMAIN list : list[i].channel <= b
  PROVE  /\ channels' \in Nat /\ channels <= channels'
         /\ \A i \in DOMAIN list : list[i].channel <= channels'
         /\ edition' = edition + 1
         /\ redrawn' \in BOOLEAN
         /\ ~redrawn' => ~redrawn /\ \A i \in DOMAIN list :
                list[i].id[2] = edition + 1 => list[i].channel > channels
<1> DEFINE S == Numbers(list) \cup {channels}
<1>1. channels \in Nat /\ edition \in Nat /\ redrawn \in BOOLEAN
  BY PortTypes
<1>2. \A i \in DOMAIN list : list[i].channel \in Nat
  BY ListPlaces, ServiceFields
<1>3. S \subseteq Nat /\ channels \in S /\ \A i \in DOMAIN list : list[i].channel \in S
  BY <1>1, <1>2 DEF Numbers
<1>4. \A x \in S : x <= b + channels
  BY <1>1, <1>2 DEF Numbers
<1>5. channels' = Max(S) /\ edition' = edition + 1
      /\ redrawn' = (redrawn \/ \E i \in DOMAIN list :
                       list[i].id[2] = edition + 1 /\ list[i].channel <= channels)
  BY DEF Drawn
<1>6. b + channels \in Nat BY <1>1
<1> HIDE DEF S
<1>7. Max(S) \in Nat /\ \A x \in S : x <= Max(S)
  BY <1>3, <1>4, <1>6, MaxOfBounded
<1>8. redrawn' \in BOOLEAN BY <1>5
<1>9. ASSUME ~redrawn', NEW i \in DOMAIN list, list[i].id[2] = edition + 1
      PROVE  list[i].channel > channels
  <2>1. ~(list[i].channel <= channels) BY <1>5, <1>9
  <2> QED BY <1>1, <1>2, <2>1
<1>10. ~redrawn' => ~redrawn BY <1>5
<1> QED BY <1>3, <1>5, <1>7, <1>8, <1>9, <1>10

\* A list that the host draws, and has or publishes.
LEMMA NewListKeeps ==
  ASSUME TypeOK, ListsProper, ChannelsDrawn, ChannelsApart,
         NEW ports \in Selections, NEW list \in Listed(ports), Drawn(list),
         hosted' \in {hosted, list}, published' = list, UNCHANGED <<config, running>>,
         net' = net \/ net' = Append(net, Update(list))
  PROVE  ListsProper' /\ ChannelsDrawn' /\ ChannelsApart'
<1>t. /\ hosted \in Seq(Service) /\ channels \in Nat /\ net \in Seq(Message)
      /\ running \subseteq Engine
  BY PortTypes
<1>l. /\ list \in Seq(Service) /\ Proper(list)
      /\ \A i \in DOMAIN list : OldAt(list, i) \/ FreshAt(list, i)
      /\ \E b \in Nat : \A i \in DOMAIN list : list[i].channel <= b
  BY ListedFacts
<1>d. /\ channels' \in Nat /\ channels <= channels'
      /\ \A i \in DOMAIN list : list[i].channel <= channels'
      /\ ~redrawn' => ~redrawn /\ \A i \in DOMAIN list :
             list[i].id[2] = edition + 1 => list[i].channel > channels
  BY <1>l, DrawnFacts
<1>1. \A k \in DOMAIN net' : \/ k \in DOMAIN net /\ net'[k] = net[k]
                            \/ net'[k].services = list
  <2>1. Update(list) \in Message /\ Update(list).services = list
    BY <1>l, MessageKinds
  <2> QED BY <1>t, <2>1
<1>2. \A other \in Seq(Service) : Current(other)' => Current(other) \/ other = list
  BY <1>1 DEF Current
<1>3. ListsProper'
  BY <1>2, <1>l DEF ListsProper, Proper
<1>4. Current(hosted) BY DEF Current
<1>i. DOMAIN list = 1 .. Len(list) /\ Len(list) \in Nat
  BY <1>l, ListPlaces
\* What is in use is of old, or is at a place of the new list with a number of its own.
<1>5. ASSUME NEW p \in Ports, NEW c \in Nat, InUse(p, c)'
      PROVE  InUse(p, c) \/ \E i \in DOMAIN list : /\ list[i].port = p /\ list[i].channel = c
                                                  /\ FreshAt(list, i)
  <2>1. CASE \E e \in running' : e.port = p /\ e.channel = c
    BY <2>1 DEF InUse
  <2>2. CASE \E other \in Seq(Service) : Current(other)' /\ \E i \in DOMAIN other :
                 other[i].port = p /\ other[i].channel = c
    <3>1. PICK other \in Seq(Service) : Current(other)' /\ \E i \in DOMAIN other :
                 other[i].port = p /\ other[i].channel = c
      BY <2>2
    <3>2. CASE Current(other) BY <3>1, <3>2 DEF InUse
    <3>3. CASE other = list
      <4>1. PICK i \in DOMAIN list : list[i].port = p /\ list[i].channel = c
        BY <3>1, <3>3
      <4>2. CASE OldAt(list, i) BY <1>4, <1>t, <4>1, <4>2 DEF OldAt, InUse
      <4>3. CASE FreshAt(list, i) BY <4>1, <4>3
      <4> QED BY <1>l, <4>2, <4>3
    <3> QED BY <1>2, <3>1, <3>2, <3>3
  <2> QED BY <1>5, <2>1, <2>2 DEF InUse
<1>6. ChannelsDrawn'
  <2> SUFFICES ASSUME NEW p \in Ports, NEW c \in Nat, InUse(p, c)' PROVE c <= channels'
    BY DEF ChannelsDrawn
  <2>1. CASE InUse(p, c)
    <3>1. c <= channels BY <2>1 DEF ChannelsDrawn
    <3> QED BY <1>t, <1>d, <3>1
  <2>2. CASE \E i \in DOMAIN list : list[i].channel = c
    BY <1>d, <2>2
  <2> QED BY <1>5, <2>1, <2>2
<1>7. ASSUME ~redrawn', NEW p \in Ports, NEW c \in Nat, InUse(p, c)
      PROVE  \A i \in DOMAIN list : FreshAt(list, i) => list[i].channel # c
  <2>1. c <= channels BY <1>7 DEF ChannelsDrawn
  <2> TAKE i \in DOMAIN list
  <2>2. list[i].channel \in Nat BY <1>l, ListPlaces, ServiceFields
  <2> QED BY <1>7, <1>d, <1>t, <2>1, <2>2 DEF FreshAt
<1>8. \A i, j \in DOMAIN list :
          FreshAt(list, i) /\ FreshAt(list, j) /\ list[i].channel = list[j].channel => i = j
  <2> SUFFICES ASSUME NEW i \in DOMAIN list, NEW j \in DOMAIN list, FreshAt(list, i),
                      FreshAt(list, j), list[i].channel = list[j].channel, i < j
               PROVE  FALSE
    BY <1>i
  <2>1. i \in 1 .. j - 1 BY <1>i
  <2> QED BY <2>1 DEF FreshAt
<1>9. ChannelsApart'
  <2> SUFFICES ASSUME ~redrawn', NEW p \in Ports, NEW q \in Ports, NEW c \in Nat,
                      InUse(p, c)', InUse(q, c)'
               PROVE  p = q
    BY DEF ChannelsApart
  <2>1. CASE InUse(p, c) /\ InUse(q, c)
    BY <1>d, <2>1 DEF ChannelsApart
  <2>2. CASE ~InUse(p, c) /\ ~InUse(q, c)
    <3>1. PICK i \in DOMAIN list : list[i].port = p /\ list[i].channel = c /\ FreshAt(list, i)
      BY <1>5, <2>2
    <3>2. PICK j \in DOMAIN list : list[j].port = q /\ list[j].channel = c /\ FreshAt(list, j)
      BY <1>5, <2>2
    <3> QED BY <1>8, <3>1, <3>2
  <2>3. CASE InUse(p, c) /\ ~InUse(q, c)
    BY <1>5, <1>7, <2>3
  <2>4. CASE ~InUse(p, c) /\ InUse(q, c)
    BY <1>5, <1>7, <2>4
  <2> QED BY <2>1, <2>2, <2>3, <2>4
<1> QED BY <1>3, <1>6, <1>9

-----------------------------------------------------------------------------
(* Steps that draw nothing *)

LEMMA TailPlaces ==
  ASSUME NEW S, NEW q \in Seq(S), q # <<>>
  PROVE  /\ Tail(q) \in Seq(S) /\ Head(q) = q[1] /\ q[1] \in S
         /\ 1 \in DOMAIN q
         /\ \A k \in DOMAIN Tail(q) : k + 1 \in DOMAIN q /\ Tail(q)[k] = q[k + 1]
         /\ \A k \in DOMAIN q : k # 1 => k - 1 \in DOMAIN Tail(q) /\ Tail(q)[k - 1] = q[k]
OBVIOUS

LEMMA AppendPlaces ==
  ASSUME NEW S, NEW q \in Seq(S), NEW e \in S
  PROVE  /\ Append(q, e) \in Seq(S)
         /\ Len(q) + 1 \in DOMAIN Append(q, e) /\ Append(q, e)[Len(q) + 1] = e
         /\ \A k \in DOMAIN q : k \in DOMAIN Append(q, e) /\ Append(q, e)[k] = q[k]
         /\ \A k \in DOMAIN Append(q, e) : k \in DOMAIN q \/ k = Len(q) + 1
         /\ \A k \in DOMAIN q : k \in Nat /\ k < Len(q) + 1
OBVIOUS

\* The engines that run use what was in use or what a list says.
FromLists ==
    \A e \in running' :
        \/ e \in running
        \/ \E list \in Seq(Service) : /\ Current(list)
                                      /\ \E i \in DOMAIN list : /\ list[i].port = e.port
                                                                /\ list[i].channel = e.channel

LEMMA NothingDrawn ==
  ASSUME ListsProper, ChannelsDrawn, ChannelsApart,
         \A list \in Seq(Service) : Current(list)' => Current(list) \/ list = <<>>,
         FromLists, UNCHANGED <<channels, redrawn>>
  PROVE  ListsProper' /\ ChannelsDrawn' /\ ChannelsApart'
<1>1. ListsProper'
  BY DEF ListsProper, Proper
<1>2. \A p \in Ports, c \in Nat : InUse(p, c)' => InUse(p, c)
  <2> TAKE p \in Ports, c \in Nat
  <2> SUFFICES ASSUME InUse(p, c)' PROVE InUse(p, c)
    OBVIOUS
  <2>1. CASE \E e \in running' : e.port = p /\ e.channel = c
    BY <2>1 DEF FromLists, InUse
  <2>2. CASE \E list \in Seq(Service) : Current(list)' /\ \E i \in DOMAIN list :
                 list[i].port = p /\ list[i].channel = c
    BY <2>2 DEF InUse
  <2> QED BY <2>1, <2>2 DEF InUse
<1> QED BY <1>1, <1>2 DEF ChannelsDrawn, ChannelsApart

\* Messages are taken or lost.
LEMMA NothingSent ==
  ASSUME TypeOK, ListsProper, ChannelsDrawn, ChannelsApart,
         \/ net' \in {net, <<>>}
         \/ net # <<>> /\ net' = Tail(net),
         \/ config' \in {config, published, <<>>}
         \/ net # <<>> /\ config' = net[1].services,
         FromLists, UNCHANGED <<hosted, published, channels, redrawn>>
  PROVE  ListsProper' /\ ChannelsDrawn' /\ ChannelsApart'
<1>1. net \in Seq(Message) BY PortTypes
<1>2. \A k \in DOMAIN net' : \E j \in DOMAIN net : net'[k] = net[j]
  BY <1>1, TailPlaces
<1>3. net # <<>> => 1 \in DOMAIN net BY <1>1
<1>4. \A list \in Seq(Service) : Current(list)' => Current(list) \/ list = <<>>
  BY <1>2, <1>3 DEF Current
<1> QED BY <1>4, NothingDrawn

\* An answer is sent.
LEMMA AnswerSent ==
  ASSUME TypeOK, ListsProper, ChannelsDrawn, ChannelsApart,
         NEW kind \in {"granted", "denied"}, net' = Sent(Bare(kind)),
         UNCHANGED <<hosted, published, channels, redrawn, config, running>>
  PROVE  net' \in Seq(Message) /\ ListsProper' /\ ChannelsDrawn' /\ ChannelsApart'
<1>1. net \in Seq(Message) BY PortTypes
<1>2. Bare(kind) \in Message /\ Bare(kind).services = <<>> BY MessageKinds
<1>3. net' = net \/ net' = Append(net, Bare(kind)) BY DEF Sent
<1>4. /\ net' \in Seq(Message)
      /\ \A k \in DOMAIN net' : \/ \E j \in DOMAIN net : net'[k] = net[j]
                                \/ net'[k].services = <<>>
  BY <1>1, <1>2, <1>3
<1>5. \A list \in Seq(Service) : Current(list)' => Current(list) \/ list = <<>>
  BY <1>4 DEF Current
<1>6. FromLists BY DEF FromLists
<1> QED BY <1>4, <1>5, <1>6, NothingDrawn

\* The last word, when the first message is taken.
LEMMA WordTaken ==
  ASSUME TypeOK, LastWord, net # <<>>, net' = Tail(net), mode # "idle", mode' # "idle",
         UNCHANGED <<behind, hosted>>,
         IF net[1].kind = "config" /\ Valid(net[1].services) THEN config' = net[1].services
         ELSE config' = config
  PROVE  LastWord'
<1>1. /\ net \in Seq(Message) /\ Tail(net) \in Seq(Message) /\ 1 \in DOMAIN net
      /\ \A k \in DOMAIN Tail(net) : k + 1 \in DOMAIN net /\ Tail(net)[k] = net[k + 1]
      /\ \A k \in DOMAIN net : k # 1 => k - 1 \in DOMAIN Tail(net) /\ Tail(net)[k - 1] = net[k]
      /\ \A k \in DOMAIN Tail(net) : k \in Nat /\ k > 0
      /\ \A k \in DOMAIN net : k \in Nat /\ k > 0
  BY PortTypes, TailPlaces
<1>2. ASSUME NEW k \in Nat, k > 0, Quietly(k)
      PROVE  Quietly(k - 1)'
  <2> SUFFICES ASSUME NEW j \in DOMAIN Tail(net), j > k - 1 PROVE Tail(net)[j].kind # "config"
    BY DEF Quietly
  <2>1. j + 1 > k BY <1>1, <1>2
  <2> QED BY <1>1, <1>2, <2>1 DEF Quietly
<1>3. ASSUME ~behind', Valid(hosted')
      PROVE  \/ config' = hosted' /\ Quietly(0)'
             \/ \E k \in DOMAIN net' :
                    net'[k].kind = "config" /\ net'[k].services = hosted' /\ Quietly(k)'
  <2>0. ~behind /\ Valid(hosted) /\ hosted' = hosted BY <1>3
  <2>1. CASE config = hosted /\ Quietly(0)
    <3>1. net[1].kind # "config" BY <1>1, <2>1 DEF Quietly
    <3>2. config' = hosted' BY <2>0, <2>1, <3>1
    <3>3. Quietly(1) BY <1>1, <2>1 DEF Quietly
    <3>4. Quietly(1 - 1)' BY <1>2, <3>3
    <3>5. 1 - 1 = 0 OBVIOUS
    <3>6. Quietly(0)' BY <3>4, <3>5
    <3> QED BY <3>2, <3>6
  <2>2. ASSUME NEW k \in DOMAIN net, net[k].kind = "config", net[k].services = hosted, Quietly(k)
        PROVE  \/ config' = hosted' /\ Quietly(0)'
               \/ \E j \in DOMAIN net' :
                      net'[j].kind = "config" /\ net'[j].services = hosted' /\ Quietly(j)'
    <3>1. k \in Nat /\ k > 0 BY <1>1
    <3>2. Quietly(k - 1)' BY <1>2, <2>2, <3>1
    <3>3. CASE k = 1
      <4>1. config' = hosted' BY <2>0, <2>2, <3>3
      <4>2. k - 1 = 0 BY <3>3
      <4>3. Quietly(0)' BY <3>2, <4>2
      <4> QED BY <4>1, <4>3
    <3>4. CASE k # 1
      <4>1. k - 1 \in DOMAIN net' /\ net'[k - 1] = net[k]
        BY <1>1, <3>4
      <4> QED BY <2>0, <2>2, <3>2, <4>1
    <3> QED BY <3>3, <3>4
  <2> QED BY <2>0, <2>1, <2>2 DEF LastWord
<1> QED BY <1>3 DEF LastWord

\* When nothing is taken, lost or changed.
LEMMA WordStays ==
  ASSUME LastWord, UNCHANGED <<mode, behind, hosted, config, net>>
  PROVE  LastWord'
<1>1. Valid(hosted)' = Valid(hosted) BY DEF Valid, Numbers
<1>2. \A k : Quietly(k)' = Quietly(k) BY DEF Quietly
<1> QED BY <1>1, <1>2 DEF LastWord

\* When messages are lost.
LEMMA WordLost ==
  ASSUME TypeOK, LastWord, Dropped, UNCHANGED <<mode, hosted, config>>
  PROVE  LastWord'
<1>1. net \in Seq(Message) /\ net' = <<>>
      /\ (~behind' => ~behind /\ \A i \in DOMAIN net : net[i].kind # "config")
  BY PortTypes DEF Dropped
<1>2. DOMAIN net' = {} BY <1>1
<1> QED BY <1>1, <1>2 DEF LastWord, Quietly

\* When an answer is sent.
LEMMA WordAnswered ==
  ASSUME TypeOK, LastWord, NEW kind \in {"granted", "denied"}, net' = Sent(Bare(kind)),
         UNCHANGED <<mode, behind, hosted, config>>
  PROVE  LastWord'
<1>1. net \in Seq(Message) BY PortTypes
<1>2. Bare(kind) \in Message /\ Bare(kind).kind # "config" BY MessageKinds
<1>3. CASE mode = "idle"
  BY <1>3 DEF Sent, LastWord
<1>4. CASE mode # "idle"
  <2>1. /\ \A k \in DOMAIN net : k \in DOMAIN net' /\ net'[k] = net[k]
        /\ \A k \in DOMAIN net' : k \in DOMAIN net \/ net'[k].kind # "config"
    BY <1>1, <1>2, <1>4, AppendPlaces DEF Sent
  <2>2. \A k : Quietly(k) => Quietly(k)'
    BY <2>1 DEF Quietly
  <2> QED BY <1>4, <2>1, <2>2 DEF LastWord
<1> QED BY <1>3, <1>4

\* When the member stops.
LEMMA WordOver ==
  ASSUME mode' = "idle", net' = <<>>
  PROVE  LastWord'
BY DEF LastWord

-----------------------------------------------------------------------------
(* The host's steps *)

\* The parts of the invariant that the host's lists and the messages have no part in.
LEMMA OpenPortsStay ==
  ASSUME OpenListed, WindowTellsTruth, UNCHANGED <<mode, config, openVars, taken>>
  PROVE  OpenListed' /\ WindowTellsTruth'
BY DEF OpenListed, Listing, WindowTellsTruth, openVars

LEMMA EnginesStart ==
  ASSUME NEW list \in Seq(Service), StartEngines(list)
  PROVE  /\ hostOpen' = IF served' THEN ToSet(list) ELSE {}
         /\ hostOpen' \subseteq Service /\ served' \in BOOLEAN
BY ListPlaces DEF StartEngines

LEMMA HostReconfiguresKeeps ==
  ASSUME PortsInv, HostReconfigures
  PROVE  PortsInv'
<1>t. TypeOK /\ ListsProper /\ ChannelsDrawn /\ ChannelsApart /\ HostServes
      /\ OpenListed /\ LastWord /\ WindowTellsTruth
  BY DEF PortsInv
<1>1. PICK ports \in Selections, moved \in BOOLEAN, sent \in {TRUE, limit.heard} :
          \E list \in Listed(ports) : Reconfigure(list, moved, sent)
  BY DEF HostReconfigures
<1>2. PICK list \in Listed(ports) : Reconfigure(list, moved, sent)
  BY <1>1
<1>l. /\ list \in Seq(Service) /\ \E b \in Nat : \A i \in DOMAIN list : list[i].channel <= b
  BY <1>t, ListedFacts
<1>3. /\ Drawn(list) /\ hosted' = list /\ published' = list
      /\ IF served /\ (list # hosted \/ moved)
         THEN StartEngines(list) ELSE UNCHANGED <<limit, served, hostOpen>>
      /\ net' = IF served /\ sent THEN Sent(Update(list)) ELSE net
      /\ behind' = ~(served /\ sent)
      /\ UNCHANGED <<request, memberVars, taken>>
  BY <1>2 DEF Reconfigure
<1>4. UNCHANGED <<mode, config, asking, auto, engines, mappings, running, leaked, openVars>>
  BY <1>3 DEF memberVars, openVars
<1>5. channels' \in Nat /\ edition' \in Nat /\ redrawn' \in BOOLEAN
  <2>1. PICK b \in Nat : \A i \in DOMAIN list : list[i].channel <= b BY <1>l
  <2>2. channels' \in Nat /\ edition' = edition + 1 /\ redrawn' \in BOOLEAN
    BY <1>t, <1>l, <1>3, <2>1, DrawnFacts
  <2> QED BY <1>t, <2>2, PortTypes
<1>6. net' = net \/ net' = Append(net, Update(list))
  BY <1>3 DEF Sent
<1>7. ListsProper' /\ ChannelsDrawn' /\ ChannelsApart'
  BY <1>t, <1>3, <1>4, <1>6, NewListKeeps
<1>8. HostServes' /\ hostOpen' \subseteq Service /\ served' \in BOOLEAN
  <2>1. CASE served /\ (list # hosted \/ moved)
    BY <1>l, <1>3, <2>1, EnginesStart DEF HostServes
  <2>2. CASE ~(served /\ (list # hosted \/ moved))
    BY <1>t, <1>3, <2>2, PortTypes DEF HostServes
  <2> QED BY <2>1, <2>2
<1>9. net' \in Seq(Message)
  <2>1. net \in Seq(Message) /\ Update(list) \in Message
    BY <1>t, <1>l, PortTypes, MessageKinds
  <2> QED BY <1>6, <2>1
<1>10. LastWord'
  <2>1. CASE mode = "idle"
    BY <1>t, <1>3, <1>4, <2>1 DEF LastWord, Sent
  <2>2. CASE mode # "idle" /\ served /\ sent
    <3>1. net' = Append(net, Update(list)) BY <1>3, <2>2 DEF Sent
    <3>2. net \in Seq(Message) /\ Update(list) \in Message
      BY <1>t, <1>l, PortTypes, MessageKinds
    <3>3. /\ Len(net) + 1 \in DOMAIN net' /\ net'[Len(net) + 1] = Update(list)
          /\ \A k \in DOMAIN net' : ~(k > Len(net) + 1)
      BY <3>1, <3>2
    <3>4. Update(list).kind = "config" /\ Update(list).services = list
      BY <1>l, MessageKinds
    <3> QED BY <1>3, <1>4, <2>2, <3>3, <3>4 DEF LastWord, Quietly
  <2>3. CASE mode # "idle" /\ ~(served /\ sent)
    BY <1>3, <1>4, <2>3 DEF LastWord
  <2> QED BY <2>1, <2>2, <2>3
<1>11. TypeOK'
  <2>1. behind' \in BOOLEAN BY <1>t, <1>3, PortTypes
  <2>2. hosted' \in Seq(Service) /\ published' \in Seq(Service) BY <1>l, <1>3
  <2> QED BY <1>t, <1>3, <1>4, <1>5, <1>8, <1>9, <2>1, <2>2, PortTypes DEF TypeOK
<1>12. OpenListed' /\ WindowTellsTruth'
  BY <1>t, <1>3, <1>4, OpenPortsStay
<1> QED BY <1>7, <1>8, <1>10, <1>11, <1>12 DEF PortsInv

LEMMA HostIsRefusedKeeps ==
  ASSUME PortsInv, HostIsRefused
  PROVE  PortsInv'
<1>t. TypeOK /\ ListsProper /\ ChannelsDrawn /\ ChannelsApart /\ HostServes
      /\ OpenListed /\ LastWord /\ WindowTellsTruth
  BY DEF PortsInv
<1>1. PICK ports \in Selections : \E list \in Listed(ports) : published' = list /\ Drawn(list)
  BY DEF HostIsRefused
<1>2. PICK list \in Listed(ports) : published' = list /\ Drawn(list)
  BY <1>1
<1>3. UNCHANGED <<hosted, served, hostOpen, linkVars, memberVars, taken>>
  BY DEF HostIsRefused
<1>4. UNCHANGED <<request, net, behind, mode, config, asking, auto, engines, mappings, running,
                  leaked, openVars>>
  BY <1>3 DEF linkVars, memberVars, openVars
<1>l. /\ list \in Seq(Service) /\ \E b \in Nat : \A i \in DOMAIN list : list[i].channel <= b
  BY <1>t, ListedFacts
<1>5. channels' \in Nat /\ edition' \in Nat /\ redrawn' \in BOOLEAN
  <2>1. PICK b \in Nat : \A i \in DOMAIN list : list[i].channel <= b BY <1>l
  <2>2. channels' \in Nat /\ edition' = edition + 1 /\ redrawn' \in BOOLEAN
    BY <1>t, <1>l, <1>2, <2>1, DrawnFacts
  <2> QED BY <1>t, <2>2, PortTypes
<1>6. ListsProper' /\ ChannelsDrawn' /\ ChannelsApart'
  BY <1>t, <1>2, <1>3, <1>4, NewListKeeps
<1>7. TypeOK'
  BY <1>t, <1>l, <1>2, <1>3, <1>4, <1>5, PortTypes DEF TypeOK
<1>8. HostServes' BY <1>t, <1>3 DEF HostServes
<1>9. LastWord' BY <1>t, <1>3, <1>4 DEF LastWord, Quietly
<1>10. OpenListed' /\ WindowTellsTruth'
  BY <1>t, <1>3, <1>4, OpenPortsStay
<1> QED BY <1>6, <1>7, <1>8, <1>9, <1>10 DEF PortsInv

LEMMA HostGrantsKeeps ==
  ASSUME PortsInv, HostGrants
  PROVE  PortsInv'
<1>t. TypeOK /\ ListsProper /\ ChannelsDrawn /\ ChannelsApart /\ HostServes
      /\ OpenListed /\ LastWord /\ WindowTellsTruth
  BY DEF PortsInv
<1>1. /\ request' = FALSE
      /\ IF served THEN UNCHANGED <<limit, served, hostOpen>> ELSE StartEngines(hosted)
      /\ net' = Sent(Bare(IF served' THEN "granted" ELSE "denied"))
      /\ UNCHANGED <<hosted, published, edition, channels, redrawn, behind, memberVars, taken>>
  BY DEF HostGrants
<1>2. UNCHANGED <<mode, config, asking, auto, engines, mappings, running, leaked, openVars>>
  BY <1>1 DEF memberVars, openVars
<1>3. PICK kind \in {"granted", "denied"} : net' = Sent(Bare(kind))
  BY <1>1
<1>4. net' \in Seq(Message) /\ ListsProper' /\ ChannelsDrawn' /\ ChannelsApart'
  BY <1>t, <1>1, <1>2, <1>3, AnswerSent
<1>5. HostServes' /\ hostOpen' \subseteq Service /\ served' \in BOOLEAN
  <2>1. hosted \in Seq(Service) BY <1>t, PortTypes
  <2>2. CASE served BY <1>t, <1>1, <2>2, PortTypes DEF HostServes
  <2>3. CASE ~served BY <1>1, <2>1, <2>3, EnginesStart DEF HostServes
  <2> QED BY <2>2, <2>3
<1>6. TypeOK'
  BY <1>t, <1>1, <1>2, <1>4, <1>5, PortTypes DEF TypeOK
<1>7. LastWord' BY <1>t, <1>1, <1>2, <1>3, WordAnswered
<1>8. OpenListed' /\ WindowTellsTruth'
  BY <1>t, <1>1, <1>2, OpenPortsStay
<1> QED BY <1>4, <1>5, <1>6, <1>7, <1>8 DEF PortsInv

LEMMA HostMissesMemberKeeps ==
  ASSUME PortsInv, HostMissesMember
  PROVE  PortsInv'
<1>t. TypeOK /\ ListsProper /\ ChannelsDrawn /\ ChannelsApart /\ HostServes
      /\ OpenListed /\ LastWord /\ WindowTellsTruth
  BY DEF PortsInv
<1>1. /\ served' = FALSE /\ hostOpen' = {}
      /\ Dropped \/ UNCHANGED <<net, behind>>
      /\ UNCHANGED <<hosted, published, edition, channels, redrawn, request, memberVars, taken>>
  BY DEF HostMissesMember
<1>2. UNCHANGED <<mode, config, asking, auto, engines, mappings, running, leaked, openVars>>
  BY <1>1 DEF memberVars, openVars
<1>3. net' \in {net, <<>>} /\ net' \in Seq(Message) /\ behind' \in BOOLEAN
  <2>1. net \in Seq(Message) /\ behind \in BOOLEAN BY <1>t, PortTypes
  <2>2. CASE Dropped
    <3>1. net' = <<>> /\ behind' \in BOOLEAN BY <2>1, <2>2 DEF Dropped
    <3> QED BY <3>1
  <2> QED BY <1>1, <2>1, <2>2
<1>4. FromLists BY <1>2 DEF FromLists
<1>5. ListsProper' /\ ChannelsDrawn' /\ ChannelsApart'
  BY <1>t, <1>1, <1>2, <1>3, <1>4, NothingSent
<1>6. TypeOK'
  BY <1>t, <1>1, <1>2, <1>3, PortTypes DEF TypeOK
<1>7. LastWord'
  BY <1>t, <1>1, <1>2, WordLost, WordStays
<1>8. HostServes' BY <1>1 DEF HostServes
<1>9. OpenListed' /\ WindowTellsTruth'
  BY <1>t, <1>1, <1>2, OpenPortsStay
<1> QED BY <1>5, <1>6, <1>7, <1>8, <1>9 DEF PortsInv

-----------------------------------------------------------------------------
(* The member's steps *)

LEMMA ValidOrNot == \A list : Valid(list) \in BOOLEAN
BY DEF Valid

LEMMA JoinKeeps ==
  ASSUME PortsInv, Join
  PROVE  PortsInv'
<1>t. TypeOK /\ ListsProper /\ ChannelsDrawn /\ ChannelsApart /\ HostServes
      /\ OpenListed /\ LastWord /\ WindowTellsTruth
  BY DEF PortsInv
<1>1. /\ mode = "idle" /\ mode' = "joining" /\ config' = published
      /\ behind' = (published # hosted) /\ asking' = TRUE
      /\ UNCHANGED <<hostVars, request, net, auto, openVars, taken>>
  BY DEF Join
<1>2. UNCHANGED <<hosted, published, served, hostOpen, edition, channels, redrawn,
                  engines, mappings, running, leaked>>
  BY <1>1 DEF hostVars, openVars
<1>3. net = <<>> /\ engines = {} BY <1>t, <1>1 DEF LastWord, OpenListed
<1>4. FromLists BY <1>2 DEF FromLists
<1>5. ListsProper' /\ ChannelsDrawn' /\ ChannelsApart'
  BY <1>t, <1>1, <1>2, <1>4, NothingSent
<1>6. TypeOK'
  BY <1>t, <1>1, <1>2, PortTypes DEF TypeOK
<1>7. DOMAIN net' = {} BY <1>1, <1>3
<1>8. LastWord' BY <1>1, <1>2, <1>3, <1>7 DEF LastWord, Quietly
<1>9. HostServes' BY <1>t, <1>2 DEF HostServes
<1>10. OpenListed' BY <1>2, <1>3 DEF OpenListed
<1>11. WindowTellsTruth' BY <1>t, <1>1, <1>2 DEF WindowTellsTruth
<1> QED BY <1>5, <1>6, <1>8, <1>9, <1>10, <1>11 DEF PortsInv

\* Steps that leave the lists, what is open and the messages alone.
LEMMA RequestKeeps ==
  ASSUME PortsInv, UNCHANGED <<hostVars, net, behind, mode, config, openVars>>,
         request' \in BOOLEAN, asking' \in BOOLEAN, auto' \in BOOLEAN,
         taken' \subseteq LocalPorts, Locals(running) \cap taken' = {}
  PROVE  PortsInv'
<1>t. TypeOK /\ ListsProper /\ ChannelsDrawn /\ ChannelsApart /\ HostServes
      /\ OpenListed /\ LastWord /\ WindowTellsTruth
  BY DEF PortsInv
<1>2. UNCHANGED <<hosted, published, served, hostOpen, edition, channels, redrawn,
                  engines, mappings, running, leaked>>
  BY DEF hostVars, openVars
<1>4. FromLists BY <1>2 DEF FromLists
<1>5. ListsProper' /\ ChannelsDrawn' /\ ChannelsApart'
  BY <1>t, <1>2, <1>4, NothingSent
<1>6. TypeOK'
  BY <1>t, <1>2, PortTypes DEF TypeOK
<1>8. LastWord' BY <1>t, <1>2, WordStays
<1>9. HostServes' BY <1>t, <1>2 DEF HostServes
<1>10. OpenListed' BY <1>t, <1>2 DEF OpenListed, Listing
<1>11. WindowTellsTruth' BY <1>t, <1>2 DEF WindowTellsTruth, Locals
<1> QED BY <1>5, <1>6, <1>8, <1>9, <1>10, <1>11 DEF PortsInv

LEMMA SmallStepsKeep ==
  ASSUME PortsInv, Ask \/ SetAuto \/ ProgramBinds \/ ProgramCloses
  PROVE  PortsInv'
<1>t. /\ request \in BOOLEAN /\ asking \in BOOLEAN /\ auto \in BOOLEAN
      /\ taken \subseteq LocalPorts
  BY PortTypes DEF PortsInv
<1>w. Locals(running) \cap taken = {}
  BY DEF PortsInv, WindowTellsTruth
<1>1. CASE Ask
  BY <1>1, <1>t, <1>w, RequestKeeps DEF Ask, memberVars
<1>2. CASE SetAuto
  BY <1>2, <1>t, <1>w, RequestKeeps DEF SetAuto, linkVars
<1>3. CASE ProgramBinds
  <2>1. PICK p \in LocalPorts \ Busy(running) : taken' = taken \cup {p}
    BY <1>3 DEF ProgramBinds
  <2>2. Locals(running) \cap taken' = {} /\ taken' \subseteq LocalPorts
    BY <1>t, <1>w, <2>1 DEF Busy
  <2>3. UNCHANGED <<hostVars, linkVars, memberVars>>
    BY <1>3 DEF ProgramBinds
  <2> QED BY <1>t, <2>2, <2>3, RequestKeeps DEF linkVars, memberVars
<1>4. CASE ProgramCloses
  <2>1. taken' \subseteq taken /\ UNCHANGED <<hostVars, linkVars, memberVars>>
    BY <1>4 DEF ProgramCloses
  <2>2. Locals(running) \cap taken' = {} /\ taken' \subseteq LocalPorts
    BY <1>t, <1>w, <2>1
  <2> QED BY <1>t, <2>1, <2>2, RequestKeeps DEF linkVars, memberVars
<1> QED BY <1>1, <1>2, <1>3, <1>4

LEMMA SessionBreaksKeeps ==
  ASSUME PortsInv, SessionBreaks
  PROVE  PortsInv'
<1>t. TypeOK /\ ListsProper /\ ChannelsDrawn /\ ChannelsApart /\ HostServes
      /\ OpenListed /\ LastWord /\ WindowTellsTruth
  BY DEF PortsInv
<1>1. /\ Dropped /\ request' = FALSE /\ asking' \in {asking, TRUE}
      /\ UNCHANGED <<hostVars, mode, config, auto, openVars, taken>>
  BY Zenon DEF SessionBreaks
<1>2. UNCHANGED <<hosted, published, served, hostOpen, edition, channels, redrawn,
                  engines, mappings, running, leaked>>
  BY <1>1 DEF hostVars, openVars
<1>3. net' = <<>> /\ net' \in Seq(Message) /\ behind' \in BOOLEAN
  BY <1>t, <1>1, PortTypes DEF Dropped
<1>4. FromLists BY <1>2 DEF FromLists
<1>5. ListsProper' /\ ChannelsDrawn' /\ ChannelsApart'
  BY <1>t, <1>1, <1>2, <1>3, <1>4, NothingSent
<1>6. TypeOK'
  BY <1>t, <1>1, <1>2, <1>3, PortTypes DEF TypeOK
<1>8. LastWord' BY <1>t, <1>1, <1>2, WordLost
<1>9. HostServes' BY <1>t, <1>2 DEF HostServes
<1>10. OpenListed' BY <1>t, <1>1, <1>2 DEF OpenListed, Listing
<1>11. WindowTellsTruth' BY <1>t, <1>1, <1>2 DEF WindowTellsTruth
<1> QED BY <1>5, <1>6, <1>8, <1>9, <1>10, <1>11 DEF PortsInv

\* The member stops, for whatever reason.
LEMMA StopKeeps ==
  ASSUME PortsInv, StopMember, UNCHANGED hostVars
  PROVE  PortsInv'
<1>t. TypeOK /\ ListsProper /\ ChannelsDrawn /\ ChannelsApart /\ HostServes
      /\ OpenListed /\ LastWord /\ WindowTellsTruth
  BY DEF PortsInv
<1>1. /\ mode' = "idle" /\ config' = <<>> /\ asking' = FALSE
      /\ running' = running \ engines /\ engines' = {} /\ mappings' = {} /\ net' = <<>>
      /\ UNCHANGED <<request, behind, auto, leaked, taken>>
  BY DEF StopMember
<1>2. UNCHANGED <<hosted, published, served, hostOpen, edition, channels, redrawn>>
  BY DEF hostVars
<1>4. FromLists BY <1>1 DEF FromLists
<1>5. ListsProper' /\ ChannelsDrawn' /\ ChannelsApart'
  BY <1>t, <1>1, <1>2, <1>4, NothingSent
<1>6. TypeOK'
  <2>1. config' \in Seq(Service) /\ net' \in Seq(Message) BY <1>1
  <2>2. running' \subseteq Engine /\ engines' \subseteq Engine
        /\ mappings' \subseteq [id : Ids, port : Ports, local : LocalPorts]
    BY <1>t, <1>1, PortTypes
  <2> QED BY <1>t, <1>1, <1>2, <2>1, <2>2, PortTypes DEF TypeOK
<1>8. LastWord' BY <1>1, WordOver
<1>9. HostServes' BY <1>t, <1>2 DEF HostServes
<1>10. OpenListed' BY <1>1 DEF OpenListed
<1>11. WindowTellsTruth'
  BY <1>t, <1>1 DEF WindowTellsTruth, Locals
<1> QED BY <1>5, <1>6, <1>8, <1>9, <1>10, <1>11 DEF PortsInv

LEMMA StoppingKeeps ==
  ASSUME PortsInv, Leave \/ HandleDenied \/ HandleGrantedStuck
  PROVE  PortsInv'
BY StopKeeps DEF Leave, HandleDenied, HandleGrantedStuck

\* A message is taken, with what it changes.  What is open afterwards is given.
LEMMA TakenKeeps ==
  ASSUME PortsInv, net # <<>>, net' = Tail(net), mode # "idle",
         mode' \in {"joining", "connected"}, asking' \in BOOLEAN, leaked' \subseteq Engine,
         IF net[1].kind = "config" /\ Valid(net[1].services) THEN config' = net[1].services
         ELSE config' = config,
         UNCHANGED <<hostVars, request, behind, auto, taken>>,
         running' \subseteq Engine, engines' \subseteq Engine,
         mappings' \subseteq [id : Ids, port : Ports, local : LocalPorts],
         \A e \in running' : e \in running \/ Listing(e)',
         \A e \in engines' : Listing(e)',
         WindowTellsTruth'
  PROVE  PortsInv'
<1>t. TypeOK /\ ListsProper /\ ChannelsDrawn /\ ChannelsApart /\ HostServes
      /\ OpenListed /\ LastWord /\ WindowTellsTruth
  BY DEF PortsInv
<1>2. UNCHANGED <<hosted, published, served, hostOpen, edition, channels, redrawn>>
  BY DEF hostVars
<1>3. /\ net \in Seq(Message) /\ Tail(net) \in Seq(Message) /\ 1 \in DOMAIN net
      /\ net[1] \in Message
  BY <1>t, PortTypes, TailPlaces
<1>4. net[1].services \in Seq(Service) /\ config \in Seq(Service)
  BY <1>t, <1>3, MessageFields, PortTypes
<1>5. config' \in Seq(Service) /\ Current(config')
  BY <1>3, <1>4 DEF Current
<1>6. FromLists
  <2> SUFFICES ASSUME NEW e \in running', Listing(e)'
               PROVE  \E list \in Seq(Service) : /\ Current(list)
                                      /\ \E i \in DOMAIN list : /\ list[i].port = e.port
                                                                /\ list[i].channel = e.channel
    BY DEF FromLists
  <2>1. \E i \in DOMAIN config' : config'[i].port = e.port /\ config'[i].channel = e.channel
    BY DEF Listing
  <2> QED BY <1>5, <2>1
<1>7. ListsProper' /\ ChannelsDrawn' /\ ChannelsApart'
  <2>1. config' = config \/ config' = net[1].services OBVIOUS
  <2> QED BY <1>t, <1>2, <1>6, <2>1, NothingSent
<1>8. TypeOK'
  <2>1. net' \in Seq(Message) BY <1>3
  <2> QED BY <1>t, <1>2, <1>5, <2>1, PortTypes DEF TypeOK
<1>9. LastWord' BY <1>t, <1>2, WordTaken
<1>10. HostServes' BY <1>t, <1>2 DEF HostServes
<1>11. OpenListed' BY DEF OpenListed
<1> QED BY <1>7, <1>8, <1>9, <1>10, <1>11 DEF PortsInv

\* Whoever receives has a session and a message.
LEMMA ReceiveFacts ==
  ASSUME TypeOK, NEW kind, Receive(kind)
  PROVE  /\ mode # "idle" /\ net # <<>> /\ net' = Tail(net) /\ net[1].kind = kind
         /\ mode \in {"joining", "connected"} /\ net[1].services \in Seq(Service)
<1>1. net \in Seq(Message) /\ mode \in {"idle", "joining", "connected"} BY PortTypes
<1>2. net # <<>> /\ mode # "idle" /\ net' = Tail(net) /\ Head(net).kind = kind
  BY DEF Receive
<1>3. net[1] = Head(net) /\ net[1] \in Message BY <1>1, <1>2
<1> QED BY <1>1, <1>2, <1>3, MessageFields

LEMMA AnswersKeep ==
  ASSUME PortsInv, HandleRenewed \/ HandleInvalid
  PROVE  PortsInv'
<1>t. TypeOK /\ OpenListed /\ WindowTellsTruth /\ ListsProper
  BY DEF PortsInv
<1>1. /\ net # <<>> /\ net' = Tail(net) /\ mode # "idle"
      /\ mode \in {"joining", "connected"}
      /\ ~(net[1].kind = "config" /\ Valid(net[1].services))
  <2>1. CASE HandleRenewed
    BY <1>t, <2>1, ReceiveFacts DEF HandleRenewed
  <2>2. CASE HandleInvalid
    <3>1. Head(net) = net[1] BY <1>t, <2>2, ReceiveFacts, PortTypes, TailPlaces DEF HandleInvalid
    <3> QED BY <1>t, <2>2, <3>1, ReceiveFacts DEF HandleInvalid
  <2> QED BY <2>1, <2>2
<1>2. /\ mode' = mode /\ asking' \in BOOLEAN /\ config' = config
      /\ UNCHANGED <<hostVars, request, behind, auto, taken, engines, mappings, running, leaked>>
  BY <1>t, PortTypes DEF HandleRenewed, HandleInvalid, memberVars, openVars
<1>3. \A e \in engines' : Listing(e)'
  BY <1>t, <1>2 DEF OpenListed, Listing
<1>4. WindowTellsTruth'
  BY <1>t, <1>2 DEF WindowTellsTruth
<1>5. /\ leaked' \subseteq Engine /\ running' \subseteq Engine /\ engines' \subseteq Engine
      /\ mappings' \subseteq [id : Ids, port : Ports, local : LocalPorts]
      /\ \A e \in running' : e \in running
  BY <1>t, <1>2, PortTypes
<1> QED BY <1>1, <1>2, <1>3, <1>4, <1>5, TakenKeeps

\* The mappings of engines are of their kind.
LEMMA MappingsTyped ==
  ASSUME NEW es \in SUBSET Engine
  PROVE  {Mapping(e) : e \in es} \subseteq [id : Ids, port : Ports, local : LocalPorts]
BY EngineFields

LEMMA HandleGrantedKeeps ==
  ASSUME PortsInv, HandleGranted
  PROVE  PortsInv'
<1>t. TypeOK /\ OpenListed /\ WindowTellsTruth /\ ListsProper
  BY DEF PortsInv
<1>1. /\ mode = "joining" /\ Receive("granted") /\ mode' = "connected" /\ asking' = FALSE
      /\ leaked' = leaked \cup engines
      /\ UNCHANGED <<limit, hostVars, request, behind, config, auto, taken>>
  BY DEF HandleGranted
<1>2. PICK opened \in Opened(config, Offered, Busy(running)) :
          /\ engines' = opened
          /\ mappings' = {Mapping(e) : e \in opened}
          /\ running' = running \cup opened
  BY DEF HandleGranted
<1>3. config \in Seq(Service) /\ Proper(config)
  BY <1>t, PortTypes DEF ListsProper, Current
<1>4. Offered \in SUBSET DOMAIN config
  BY DEF Offered
<1>5. /\ opened \subseteq Engine
      /\ \A e \in opened :
             /\ e.local \notin Busy(running)
             /\ \E i \in Offered : /\ e.id = config[i].id /\ e.port = config[i].port
                                   /\ e.channel = config[i].channel
      /\ \A d, e \in opened : d.id = e.id \/ d.local = e.local => d = e
  BY <1>3, <1>4, OpenedFacts
<1>6. \A e \in opened : Listing(e)'
  BY <1>1, <1>4, <1>5 DEF Listing
<1>7. WindowTellsTruth'
  <2>1. {} \cup opened = opened OBVIOUS
  <2>2. engines' = {} \cup opened /\ mappings' = {Mapping(e) : e \in {} \cup opened}
    BY <1>2, <2>1
  <2>3. running = {} \cup leaked' /\ {} \cap leaked' = {}
    BY <1>t, <1>1 DEF WindowTellsTruth
  <2>4. {} \in SUBSET (running \cap engines) /\ \A d \in {}, e \in opened : d.id # e.id
    OBVIOUS
  <2>5. \A e \in opened : e.local \notin Busy(running)
    BY <1>5
  <2>6. \A d, e \in opened : d.id = e.id \/ d.local = e.local => d = e
    BY <1>5
  <2>7. running' = running \cup opened /\ taken' = taken
    BY <1>1, <1>2
  <2> HIDE <1>2
  <2> QED BY <1>t, <2>2, <2>3, <2>4, <2>5, <2>6, <2>7, OpeningKeepsTruth
<1>8. /\ net # <<>> /\ net' = Tail(net) /\ mode # "idle"
      /\ ~(net[1].kind = "config" /\ Valid(net[1].services))
  BY <1>t, <1>1, ReceiveFacts
<1>9. /\ leaked' \subseteq Engine /\ running' \subseteq Engine /\ engines' \subseteq Engine
      /\ mappings' \subseteq [id : Ids, port : Ports, local : LocalPorts]
  BY <1>t, <1>1, <1>2, <1>5, PortTypes, MappingsTyped
<1>10. (\A e \in running' : e \in running \/ Listing(e)') /\ (\A e \in engines' : Listing(e)')
  BY <1>2, <1>6
<1> QED BY <1>1, <1>7, <1>8, <1>9, <1>10, TakenKeeps

\* A change is taken over: the kept engines and some of those opened are open.
LEMMA ConfigTaken ==
  ASSUME PortsInv, Receive("config"), NEW updated, updated = Head(net).services, Valid(updated),
         NEW places \in SUBSET Todo(updated),
         NEW opened \in Opened(updated, places, Busy(Rest(updated))),
         NEW more \in SUBSET opened,
         OpenAre(updated, Kept(updated) \cup more)
  PROVE  PortsInv'
<1>t. TypeOK /\ OpenListed /\ WindowTellsTruth /\ ListsProper
  BY DEF PortsInv
<1>1. /\ config' = updated /\ engines' = Kept(updated) \cup more
      /\ mappings' = {Mapping(e) : e \in Kept(updated) \cup more}
      /\ running' = Rest(updated) \cup (Kept(updated) \cup more)
      /\ UNCHANGED <<hostVars, request, behind, mode, asking, auto, leaked, taken>>
  BY DEF OpenAre
<1>2. /\ net # <<>> /\ net' = Tail(net) /\ mode # "idle" /\ mode \in {"joining", "connected"}
      /\ net[1].kind = "config" /\ net[1].services \in Seq(Service)
  BY <1>t, ReceiveFacts
<1>3. /\ updated = net[1].services /\ updated \in Seq(Service) /\ Proper(updated)
      /\ 1 \in DOMAIN net
  <2>1. net \in Seq(Message) BY <1>t, PortTypes
  <2>2. Head(net) = net[1] /\ 1 \in DOMAIN net BY <1>2, <2>1
  <2> QED BY <1>t, <1>2, <2>2 DEF ListsProper, Current
<1>4. places \in SUBSET DOMAIN updated /\ \A i \in places : updated[i].id \notin IdsOf(Kept(updated))
  BY DEF Todo
<1>5. /\ opened \subseteq Engine
      /\ \A e \in opened :
             /\ e.local \notin Busy(Rest(updated))
             /\ \E i \in places : /\ e.id = updated[i].id /\ e.port = updated[i].port
                                  /\ e.channel = updated[i].channel
      /\ \A d, e \in opened : d.id = e.id \/ d.local = e.local => d = e
  BY <1>3, <1>4, OpenedFacts
<1>6. Kept(updated) \subseteq engines /\ engines \subseteq running
  BY <1>t DEF Kept, WindowTellsTruth
<1>7. Rest(updated) \subseteq running /\ Kept(updated) \subseteq Rest(updated)
  BY <1>6 DEF Rest
<1>8. \A d \in Kept(updated), e \in more : d.id # e.id
  BY <1>4, <1>5 DEF IdsOf
<1>9. Rest(updated) = Kept(updated) \cup leaked' /\ Kept(updated) \cap leaked' = {}
  BY <1>t, <1>1, <1>6 DEF Rest, WindowTellsTruth
<1>10. WindowTellsTruth'
  <2>1. running' = Rest(updated) \cup more BY <1>1, <1>7
  <2>2. Kept(updated) \in SUBSET (Rest(updated) \cap engines) BY <1>6, <1>7
  <2>3. /\ \A e \in more : e.local \notin Busy(Rest(updated))
        /\ \A d, e \in more : d.id = e.id \/ d.local = e.local => d = e
    BY <1>5
  <2> QED BY <1>t, <1>1, <1>7, <1>8, <1>9, <2>1, <2>2, <2>3, OpeningKeepsTruth
\* A kept engine belongs to a service that is in both lists, and names it.
<1>11. ASSUME NEW e \in Kept(updated) PROVE Listing(e)'
  <2>1. PICK s \in ToSet(updated) \cap ToSet(config) : s.id = e.id
    BY DEF Kept
  <2>2. config \in Seq(Service) /\ Proper(config)
    BY <1>t, PortTypes DEF ListsProper, Current
  <2>3. PICK j \in DOMAIN config : s = config[j]
    BY <2>2, ListPlaces
  <2>4. PICK i \in DOMAIN config : /\ config[i].id = e.id /\ config[i].port = e.port
                                   /\ config[i].channel = e.channel
    BY <1>t, <1>6 DEF OpenListed, Listing
  <2>5. i = j BY <2>1, <2>2, <2>3, <2>4 DEF Proper
  <2>6. PICK k \in DOMAIN updated : s = updated[k]
    BY <1>3, ListPlaces
  <2> QED BY <1>1, <2>1, <2>3, <2>4, <2>5, <2>6 DEF Listing
<1>12. ASSUME NEW e \in more PROVE Listing(e)'
  BY <1>1, <1>4, <1>5 DEF Listing
<1>13. (\A e \in running' : e \in running \/ Listing(e)') /\ (\A e \in engines' : Listing(e)')
  BY <1>1, <1>7, <1>11, <1>12
<1>14. /\ running' \subseteq Engine /\ engines' \subseteq Engine
       /\ mappings' \subseteq [id : Ids, port : Ports, local : LocalPorts]
  <2>1. Kept(updated) \cup more \subseteq Engine /\ running \subseteq Engine
    BY <1>t, <1>5, <1>6, PortTypes
  <2> QED BY <1>1, <1>7, <2>1, MappingsTyped
<1>15. /\ asking' \in BOOLEAN /\ leaked' \subseteq Engine
  BY <1>t, <1>1, PortTypes
<1>16. /\ mode' \in {"joining", "connected"}
       /\ IF net[1].kind = "config" /\ Valid(net[1].services) THEN config' = net[1].services
          ELSE config' = config
       /\ UNCHANGED <<hostVars, request, behind, auto, taken>>
  BY <1>1, <1>2, <1>3
<1> QED BY <1>2, <1>10, <1>13, <1>14, <1>15, <1>16, TakenKeeps

LEMMA HandleConfigKeeps ==
  ASSUME PortsInv, HandleConfig \/ HandleConfigStuck
  PROVE  PortsInv'
<1>1. CASE HandleConfig
  <2>1. PICK opened \in Opened(Head(net).services, Todo(Head(net).services),
                                Busy(Rest(Head(net).services))) :
            OpenAre(Head(net).services, Kept(Head(net).services) \cup opened)
    BY <1>1 DEF HandleConfig
  <2>2. Receive("config") /\ Valid(Head(net).services)
    BY <1>1 DEF HandleConfig
  <2> QED BY <2>1, <2>2, ConfigTaken
<1>2. CASE HandleConfigStuck
  <2>1. PICK n \in Todo(Head(net).services) :
          \E opened \in Opened(Head(net).services, Before(n, Todo(Head(net).services)),
                                Busy(Rest(Head(net).services))) :
              OpenAre(Head(net).services, Kept(Head(net).services) \cup
                          {e \in opened : e.id \in IdsOf(engines)})
    BY <1>2 DEF HandleConfigStuck
  <2>2. PICK opened \in Opened(Head(net).services, Before(n, Todo(Head(net).services)),
                                Busy(Rest(Head(net).services))) :
              OpenAre(Head(net).services, Kept(Head(net).services) \cup
                          {e \in opened : e.id \in IdsOf(engines)})
    BY <2>1
  <2>3. Receive("config") /\ Valid(Head(net).services)
    BY <1>2 DEF HandleConfigStuck
  <2>4. Before(n, Todo(Head(net).services)) \in SUBSET Todo(Head(net).services)
    BY DEF Before
  <2>5. {e \in opened : e.id \in IdsOf(engines)} \in SUBSET opened OBVIOUS
  <2> QED BY <2>2, <2>3, <2>4, <2>5, ConfigTaken
<1> QED BY <1>1, <1>2

-----------------------------------------------------------------------------
(* What the user does with the ports *)

LEMMA UserKeeps ==
  ASSUME PortsInv,
         UNCHANGED <<hostVars, linkVars, mode, config, asking, auto, leaked, taken>>,
         running' \subseteq Engine, engines' \subseteq Engine,
         mappings' \subseteq [id : Ids, port : Ports, local : LocalPorts],
         \A e \in running' : e \in running \/ Listing(e),
         \A e \in engines' : Listing(e),
         mode = "idle" => engines' = {},
         WindowTellsTruth'
  PROVE  PortsInv'
<1>t. TypeOK /\ ListsProper /\ ChannelsDrawn /\ ChannelsApart /\ HostServes
      /\ OpenListed /\ LastWord /\ WindowTellsTruth
  BY DEF PortsInv
<1>2. UNCHANGED <<hosted, published, served, hostOpen, edition, channels, redrawn,
                  request, net, behind>>
  BY DEF hostVars, linkVars
<1>3. config \in Seq(Service) /\ Current(config) BY <1>t, PortTypes DEF Current
<1>4. FromLists
  <2> SUFFICES ASSUME NEW e \in running', Listing(e)
               PROVE  \E list \in Seq(Service) : /\ Current(list)
                                      /\ \E i \in DOMAIN list : /\ list[i].port = e.port
                                                                /\ list[i].channel = e.channel
    BY DEF FromLists
  <2> QED BY <1>3 DEF Listing
<1>5. ListsProper' /\ ChannelsDrawn' /\ ChannelsApart'
  BY <1>t, <1>2, <1>4, NothingSent
<1>6. TypeOK' BY <1>t, <1>2, PortTypes DEF TypeOK
<1>8. LastWord' BY <1>t, <1>2, WordStays
<1>9. HostServes' BY <1>t, <1>2 DEF HostServes
<1>10. OpenListed' BY DEF OpenListed, Listing
<1> QED BY <1>5, <1>6, <1>8, <1>9, <1>10 DEF PortsInv

LEMMA AcceptKeeps ==
  ASSUME PortsInv, NEW id, Accept(id)
  PROVE  PortsInv'
<1>t. TypeOK /\ OpenListed /\ WindowTellsTruth /\ ListsProper
  BY DEF PortsInv
<1>1. PICK s \in ToSet(config) :
           /\ s.id = id
           /\ \E p \in Candidates(s, Busy(running)) :
                  /\ engines' = engines \cup {Opening(s, p)}
                  /\ mappings' = mappings \cup {Mapping(Opening(s, p))}
                  /\ running' = running \cup {Opening(s, p)}
  BY DEF Accept
<1>2. PICK p \in Candidates(s, Busy(running)) :
                  /\ engines' = engines \cup {Opening(s, p)}
                  /\ mappings' = mappings \cup {Mapping(Opening(s, p))}
                  /\ running' = running \cup {Opening(s, p)}
  BY <1>1
<1>3. /\ mode = "connected" /\ \A e \in engines : e.id # id
      /\ UNCHANGED <<hostVars, linkVars, mode, config, asking, auto, leaked, taken>>
  BY DEF Accept
<1>4. config \in Seq(Service) BY <1>t, PortTypes
<1>5. s \in Service /\ \E i \in DOMAIN config : s = config[i]
  BY <1>4, ListPlaces
<1>6. p \in LocalPorts /\ p \notin Busy(running)
  BY <1>5, CandidateFree
<1> DEFINE new == Opening(s, p)
<1>7. /\ new \in Engine /\ new.id = s.id /\ new.port = s.port /\ new.channel = s.channel
      /\ new.local = p
  BY <1>5, <1>6, OpeningFields
<1>8. engines' = engines \cup {new} /\ running' = running \cup {new}
      /\ mappings' = mappings \cup {Mapping(new)}
  BY <1>2
<1> HIDE DEF new
<1>9. WindowTellsTruth'
  <2>1. engines \in SUBSET (running \cap engines) 
        /\ running = engines \cup leaked' /\ engines \cap leaked' = {}
        /\ mappings' = {Mapping(e) : e \in engines \cup {new}}
    BY <1>t, <1>3, <1>8 DEF WindowTellsTruth
  <2>2. \A d \in engines, e \in {new} : d.id # e.id
    BY <1>1, <1>3, <1>7
  <2>3. \A e \in {new} : e.local \notin Busy(running)
    BY <1>6, <1>7
  <2>4. \A d, e \in {new} : d.id = e.id \/ d.local = e.local => d = e
    OBVIOUS
  <2>5. running \in SUBSET running /\ taken' = taken
    BY <1>3
  <2> DEFINE more == {new}
  <2>6. /\ \A d \in engines, e \in more : d.id # e.id
        /\ \A e \in more : e.local \notin Busy(running)
        /\ \A d, e \in more : d.id = e.id \/ d.local = e.local => d = e
        /\ engines' = engines \cup more /\ running' = running \cup more
        /\ mappings' = {Mapping(e) : e \in engines \cup more}
    BY <1>8, <2>1, <2>2, <2>3, <2>4
  <2> HIDE DEF more
  <2> QED BY <1>t, <2>1, <2>5, <2>6, OpeningKeepsTruth
<1>10. Listing(new) BY <1>5, <1>7 DEF Listing
<1>11. /\ running' \subseteq Engine /\ engines' \subseteq Engine
       /\ mappings' \subseteq [id : Ids, port : Ports, local : LocalPorts]
  BY <1>t, <1>7, <1>8, PortTypes, EngineFields
<1>12. (\A e \in running' : e \in running \/ Listing(e)) /\ (\A e \in engines' : Listing(e))
  BY <1>t, <1>8, <1>10 DEF OpenListed
<1> QED BY <1>3, <1>9, <1>11, <1>12, UserKeeps

LEMMA RevokeKeeps ==
  ASSUME PortsInv, NEW id, Revoke(id)
  PROVE  PortsInv'
<1>t. TypeOK /\ OpenListed /\ WindowTellsTruth /\ ListsProper
  BY DEF PortsInv
<1>1. /\ engines' = {e \in engines : e.id # id}
      /\ running' = running \ {e \in engines : e.id = id}
      /\ mappings' = {m \in mappings : m.id # id}
      /\ UNCHANGED <<hostVars, linkVars, mode, config, asking, auto, leaked, taken>>
  BY DEF Revoke
<1>2. \A e \in engines : Mapping(e).id = e.id
  BY <1>t, PortTypes, EngineFields
<1>3. mappings' = {Mapping(e) : e \in engines'}
  BY <1>t, <1>1, <1>2 DEF WindowTellsTruth
<1>4. WindowTellsTruth'
  <2>1. running = engines \cup leaked /\ engines \cap leaked = {} BY <1>t DEF WindowTellsTruth
  <2>2. running' = engines' \cup leaked' /\ engines' \cap leaked' = {}
    BY <1>1, <2>1
  <2>3. /\ \A d, e \in engines' : d.id = e.id => d = e
        /\ \A d, e \in running' : d.local = e.local => d = e
        /\ Locals(running)' \cap taken' = {}
    BY <1>t, <1>1 DEF WindowTellsTruth, Locals
  <2> QED BY <1>3, <2>2, <2>3 DEF WindowTellsTruth, Locals
<1>5. /\ running' \subseteq Engine /\ engines' \subseteq Engine
      /\ mappings' \subseteq [id : Ids, port : Ports, local : LocalPorts]
      /\ \A e \in running' : e \in running
      /\ \A e \in engines' : Listing(e)
      /\ mode = "idle" => engines' = {}
  BY <1>t, <1>1, PortTypes DEF OpenListed
<1> QED BY <1>1, <1>4, <1>5, UserKeeps

LEMMA RemapKeeps ==
  ASSUME PortsInv, NEW id, NEW local \in LocalPorts, Remap(id, local)
  PROVE  PortsInv'
<1>t. TypeOK /\ OpenListed /\ WindowTellsTruth /\ ListsProper
  BY DEF PortsInv
<1>1. PICK s \in ToSet(config), old \in engines, m \in mappings :
           /\ s.id = id /\ old.id = id /\ m.id = id
           /\ local \notin Busy(running)
           /\ engines' = (engines \ {old}) \cup {Opening(s, local)}
           /\ running' = (running \ {old}) \cup {Opening(s, local)}
           /\ mappings' = (mappings \ {m}) \cup {Mapping(Opening(s, local))}
  BY DEF Remap
<1>2. /\ mode = "connected"
      /\ UNCHANGED <<hostVars, linkVars, mode, config, asking, auto, leaked, taken>>
  BY DEF Remap
<1>3. config \in Seq(Service) BY <1>t, PortTypes
<1>4. s \in Service /\ \E i \in DOMAIN config : s = config[i]
  BY <1>3, ListPlaces
<1> DEFINE new == Opening(s, local)
<1>5. /\ new \in Engine /\ new.id = s.id /\ new.port = s.port /\ new.channel = s.channel
      /\ new.local = local
  BY <1>4, OpeningFields
<1>6. /\ engines' = (engines \ {old}) \cup {new} /\ running' = (running \ {old}) \cup {new}
      /\ mappings' = (mappings \ {m}) \cup {Mapping(new)}
  BY <1>1
<1> HIDE DEF new
<1>w. /\ mappings = {Mapping(e) : e \in engines} /\ engines \subseteq running
      /\ \A d, e \in engines : d.id = e.id => d = e
      /\ running = engines \cup leaked /\ engines \cap leaked = {}
  BY <1>t DEF WindowTellsTruth
<1>7. \A e \in engines : Mapping(e).id = e.id
  BY <1>t, PortTypes, EngineFields
<1>8. m = Mapping(old) /\ \A e \in engines \ {old} : e.id # id /\ Mapping(e) # m
  BY <1>1, <1>7, <1>w
<1>9. mappings' = {Mapping(e) : e \in (engines \ {old}) \cup {new}}
  BY <1>6, <1>8, <1>w
<1>10. WindowTellsTruth'
  <2>1. /\ running \ {old} \in SUBSET running
        /\ engines \ {old} \in SUBSET ((running \ {old}) \cap engines)
        /\ running \ {old} = (engines \ {old}) \cup leaked'
        /\ (engines \ {old}) \cap leaked' = {}
    BY <1>2, <1>w
  <2>2. \A d \in engines \ {old}, e \in {new} : d.id # e.id
    BY <1>1, <1>5, <1>8
  <2>3. \A e \in {new} : e.local \notin Busy(running \ {old})
    BY <1>1, <1>5 DEF Busy, Locals
  <2>4. \A d, e \in {new} : d.id = e.id \/ d.local = e.local => d = e
    OBVIOUS
  <2>5. taken' = taken BY <1>2
  <2> DEFINE rest == running \ {old}
             kept == engines \ {old}
             more == {new}
  <2>6. /\ rest \in SUBSET running /\ kept \in SUBSET (rest \cap engines)
        /\ rest = kept \cup leaked' /\ kept \cap leaked' = {}
        /\ \A d \in kept, e \in more : d.id # e.id
        /\ \A e \in more : e.local \notin Busy(rest)
        /\ \A d, e \in more : d.id = e.id \/ d.local = e.local => d = e
        /\ engines' = kept \cup more /\ running' = rest \cup more
        /\ mappings' = {Mapping(e) : e \in kept \cup more}
    BY <1>6, <1>9, <2>1, <2>2, <2>3, <2>4
  <2> HIDE DEF rest, kept, more
  <2> QED BY <1>t, <2>5, <2>6, OpeningKeepsTruth
<1>11. Listing(new) BY <1>4, <1>5 DEF Listing
<1>12. /\ running' \subseteq Engine /\ engines' \subseteq Engine
       /\ mappings' \subseteq [id : Ids, port : Ports, local : LocalPorts]
  BY <1>t, <1>5, <1>6, PortTypes, EngineFields
<1>13. (\A e \in running' : e \in running \/ Listing(e)) /\ (\A e \in engines' : Listing(e))
  BY <1>t, <1>6, <1>11 DEF OpenListed
<1> QED BY <1>2, <1>10, <1>12, <1>13, UserKeeps

-----------------------------------------------------------------------------

LEMMA PortsInit == Init => PortsInv
<1> SUFFICES ASSUME Init PROVE PortsInv
  OBVIOUS
<1>1. PICK m \in Mixes : m = limit
  BY DEF Init
<1>2. /\ hosted = Shared(m.shared) /\ published = hosted /\ served = FALSE /\ hostOpen = {}
      /\ edition = 0 /\ channels = Len(hosted) /\ redrawn = FALSE /\ request = FALSE
      /\ net = <<>> /\ behind = FALSE /\ mode = "idle" /\ config = <<>> /\ asking = FALSE
      /\ auto = m.auto /\ engines = {} /\ mappings = {} /\ running = {} /\ leaked = {}
      /\ taken = {}
  BY <1>1 DEF Init
<1>3. /\ m.auto \in BOOLEAN /\ m.shared \in Seq(Ports)
      /\ \A i, j \in DOMAIN m.shared : m.shared[i] = m.shared[j] => i = j
  BY MixesAssumption
<1>4. /\ DOMAIN m.shared = 1 .. Len(m.shared) /\ Len(m.shared) \in Nat
      /\ \A i \in DOMAIN m.shared : m.shared[i] \in Ports
  BY <1>3, ListPlaces
<1>5. /\ DOMAIN hosted = DOMAIN m.shared
      /\ \A i \in DOMAIN hosted :
             /\ hosted[i] \in Service /\ hosted[i].id[1] = m.shared[i]
             /\ hosted[i].port = m.shared[i] /\ hosted[i].channel = i
  BY <1>2, <1>4 DEF Shared, Service, Ids
<1>6. hosted \in Seq(Service) /\ Len(hosted) = Len(m.shared)
  <2>1. hosted \in [1 .. Len(m.shared) -> Service]
    BY <1>2, <1>4, <1>5 DEF Shared
  <2> QED BY <1>4, <2>1
<1>7. <<>> \in Seq(Service) /\ <<>> \in Seq(Message) /\ DOMAIN <<>> = {}
  OBVIOUS
<1>8. TypeOK
  BY <1>2, <1>3, <1>4, <1>6, <1>7 DEF TypeOK
<1>9. \A list : Current(list) => list = hosted \/ list = <<>>
  BY <1>2, <1>7 DEF Current
<1>10. Proper(hosted) /\ Proper(<<>>)
  BY <1>3, <1>5, <1>7 DEF Proper
<1>11. ListsProper
  BY <1>9, <1>10 DEF ListsProper
<1>12. \A p, c : InUse(p, c) => \E i \in DOMAIN hosted : hosted[i].port = p /\ hosted[i].channel = c
  BY <1>2, <1>7, <1>9 DEF InUse
<1>13. ChannelsDrawn /\ ChannelsApart
  <2>1. \A i \in DOMAIN hosted : hosted[i].channel <= channels
    BY <1>2, <1>4, <1>5, <1>6
  <2> QED BY <1>5, <1>12, <2>1 DEF ChannelsDrawn, ChannelsApart
<1>14. HostServes /\ OpenListed /\ LastWord
  BY <1>2 DEF HostServes, OpenListed, LastWord
<1>15. WindowTellsTruth
  BY <1>2 DEF WindowTellsTruth, Locals
<1> QED BY <1>8, <1>11, <1>13, <1>14, <1>15 DEF PortsInv

LEMMA PortsNext == PortsInv /\ [Next]_vars => PortsInv'
<1> SUFFICES ASSUME PortsInv, [Next]_vars PROVE PortsInv'
  OBVIOUS
<1>1. CASE HostReconfigures BY <1>1, HostReconfiguresKeeps
<1>2. CASE HostIsRefused BY <1>2, HostIsRefusedKeeps
<1>3. CASE HostGrants BY <1>3, HostGrantsKeeps
<1>4. CASE HostMissesMember BY <1>4, HostMissesMemberKeeps
<1>5. CASE Join BY <1>5, JoinKeeps
<1>6. CASE Ask \/ SetAuto \/ ProgramBinds \/ ProgramCloses BY <1>6, SmallStepsKeep
<1>7. CASE SessionBreaks BY <1>7, SessionBreaksKeeps
<1>8. CASE Leave \/ HandleDenied \/ HandleGrantedStuck BY <1>8, StoppingKeeps
<1>9. CASE HandleRenewed \/ HandleInvalid BY <1>9, AnswersKeep
<1>10. CASE HandleGranted BY <1>10, HandleGrantedKeeps
<1>11. CASE HandleConfig \/ HandleConfigStuck BY <1>11, HandleConfigKeeps
<1>12. CASE User
  <2>1. PICK id : Accept(id) \/ Revoke(id) \/ \E local \in LocalPorts : Remap(id, local)
    BY <1>12 DEF User
  <2> QED BY <2>1, AcceptKeeps, RevokeKeeps, RemapKeeps
<1>13. CASE UNCHANGED vars
  <2>1. /\ UNCHANGED <<hostVars, net, behind, mode, config, openVars>>
        /\ UNCHANGED <<request, asking, auto, taken>>
    BY <1>13 DEF vars, linkVars, memberVars
  <2>2. /\ request \in BOOLEAN /\ asking \in BOOLEAN /\ auto \in BOOLEAN
        /\ taken \subseteq LocalPorts /\ Locals(running) \cap taken = {}
    BY PortTypes DEF PortsInv, WindowTellsTruth
  <2> QED BY <2>1, <2>2, RequestKeeps
<1> QED
  BY <1>1, <1>2, <1>3, <1>4, <1>5, <1>6, <1>7, <1>8, <1>9, <1>10, <1>11, <1>12, <1>13
     DEF Next

\* The services, messages, engines and ports of both sides are of their kinds,
\* for any ports of the host and the member.
THEOREM PortsTyped == Spec => []TypeOK
<1>1. PortsInv => TypeOK BY DEF PortsInv
<1> QED BY <1>1, PortsInit, PortsNext, PTL DEF Spec

\* The window lists exactly the ports that are open: whatever is granted, changed,
\* accepted, moved, revoked or stopped, and whichever port could not be opened.
THEOREM WindowTruthful == Spec => []WindowTellsTruth
<1>1. PortsInv => WindowTellsTruth BY DEF PortsInv
<1> QED BY <1>1, PortsInit, PortsNext, PTL DEF Spec

\* A local port leads to the port it is listed for or nowhere, also while a change
\* by reconfigure_server is under way, unless a channel was drawn again.
THEOREM PortsNeverCross == Spec => []NoCrossTalk
<1>1. PortsInv => NoCrossTalk
  <2> SUFFICES ASSUME PortsInv, NEW e \in running, NEW s \in hostOpen, ~redrawn,
                      e.channel = s.channel
               PROVE  e.port = s.port
    BY DEF NoCrossTalk
  <2>1. /\ hosted \in Seq(Service) /\ running \subseteq Engine
        /\ hostOpen \subseteq ToSet(hosted) /\ Current(hosted)
    BY PortTypes DEF PortsInv, HostServes, Current
  <2>2. PICK i \in DOMAIN hosted : s = hosted[i] BY <2>1, ListPlaces
  <2>3. /\ e.port \in Ports /\ e.channel \in Nat /\ s.port \in Ports
    BY <2>1, <2>2, EngineFields, ServiceFields, ListPlaces
  <2>4. InUse(e.port, e.channel) /\ InUse(s.port, e.channel)
    BY <2>1, <2>2 DEF InUse
  <2> QED BY <2>3, <2>4 DEF PortsInv, ChannelsApart
<1> QED BY <1>1, PortsInit, PortsNext, PTL DEF Spec

\* A connected member that was sent the newest services and received them works
\* with those of the host: the last word it has or is sent is always the host's.
THEOREM MembersFollow == Spec => []MembersKeepUp
<1>1. PortsInv => MembersKeepUp
  <2> SUFFICES ASSUME PortsInv, mode = "connected", net = <<>>, ~behind, Valid(hosted)
               PROVE  /\ config = hosted
                      /\ served => \A e \in engines :
                             \E s \in hostOpen : /\ s.id = e.id /\ s.port = e.port
                                                 /\ s.channel = e.channel
    BY DEF MembersKeepUp
  <2>1. DOMAIN net = {} OBVIOUS
  <2>2. config = hosted BY <2>1 DEF PortsInv, LastWord
  <2>3. ASSUME served, NEW e \in engines
        PROVE  \E s \in hostOpen : s.id = e.id /\ s.port = e.port /\ s.channel = e.channel
    <3>1. hosted \in Seq(Service) /\ hostOpen = ToSet(hosted)
      BY <2>3, PortTypes DEF PortsInv, HostServes
    <3>2. PICK i \in DOMAIN config : /\ config[i].id = e.id /\ config[i].port = e.port
                                     /\ config[i].channel = e.channel
      BY <2>3 DEF PortsInv, OpenListed, Listing
    <3> QED BY <2>2, <3>1, <3>2, ListPlaces
  <2> QED BY <2>2, <2>3
<1> QED BY <1>1, PortsInit, PortsNext, PTL DEF Spec
===============================================================================
