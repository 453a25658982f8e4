--------------------------- MODULE TcpTunnel_proofs ---------------------------
(***************************************************************************)
(* What TcpTunnel guarantees for any number of connections and chunks, any *)
(* length of the queues and any limit of streams.                          *)
(***************************************************************************)
EXTENDS TcpTunnel, SequenceTheorems, TLAPS

-----------------------------------------------------------------------------
(* The invariants *)

\* Types, of the parts of the state that change together.

Numbers ==
    /\ mix \in Mixes
    /\ accepted \in 0 .. MaxConns
    /\ nextStream \in 1 .. (accepted + 1)
    /\ idOf \in [Conns -> Ids \cup {0}]
    /\ restarts \in [Sides -> Nat]

Tables ==
    /\ phase \in [Sides -> [Conns -> Phases]]
    /\ how \in [Sides -> [Conns -> Reasons]]
    /\ tcp \in [Sides -> [Ids -> Conns \cup {NoConn}]]
    /\ writes \in [Sides -> [Ids -> Conns \cup {NoConn}]]
    /\ connecting \in SUBSET Ids
    /\ cancelled \in SUBSET Ids

Threads ==
    /\ reading \in SUBSET (Sides \X Conns)
    /\ draining \in [Sides -> [Conns -> Conns \cup {NoConn}]]
    /\ owed \in SUBSET (Sides \X Ids)

Queues(q) ==
    /\ q \in [Sides -> [Conns -> Seq(Chunk \cup {Fin})]]
    /\ \A s \in Sides, k \in Conns : Len(q[s][k]) <= QueueSize

Contents ==
    /\ Queues(queue)
    /\ got \in [Sides -> [Conns -> Seq(Chunk)]]
    /\ sent \in [Sides -> [Conns -> Nat]]
    /\ \A s \in Sides, k \in Conns : sent[s][k] <= mix.chunks[s]

Channels(n) ==
    /\ n \in [Sides -> Seq(Packet)]
    /\ \A i \in DOMAIN n["host"] :
           n["host"][i].kind = "open" => n["host"][i].conn \in 1 .. accepted

\* Sockets and threads are there for accepted connections, which have a number.
Counted ==
    /\ \A k \in Conns : k <= accepted => idOf[k] \in Ids
    /\ \A s \in Sides, k \in Conns : k > accepted =>
           phase[s][k] = "none" /\ <<s, k>> \notin reading /\ draining[s][k] = NoConn

Sound == Numbers /\ Tables /\ Threads /\ Contents /\ Channels(net) /\ Counted

\* While the client has its first engine, a connection's number is its own.

Numbered ==
    /\ nextStream = accepted + 1
    /\ \A k \in Conns : k <= accepted => idOf[k] = k

\* The packets of connection k in a channel n: its data come in order, of what
\* the other socket has sent; its opening comes before anything else.

IsData(p, k) == p.kind = "data" /\ p.id = k
IsOpen(p, k) == p.kind = "open" /\ p.id = k

Line(n, k, all) ==
    /\ \A i \in DOMAIN n : IsData(n[i], k) =>
           n[i].chunk[2] \in 1 .. all /\ n[i].chunk = <<k, n[i].chunk[2]>>
    /\ \A i, j \in DOMAIN n : IsData(n[i], k) /\ IsData(n[j], k) /\ i < j =>
           n[i].chunk[2] < n[j].chunk[2]

Leads(n, k) == \A i \in DOMAIN n : IsOpen(n[i], k) =>
    n[i].conn = k /\ \A j \in DOMAIN n : n[j].id = k => i <= j

Pending(n, k) == \E i \in DOMAIN n : IsOpen(n[i], k)

\* All that a socket sent and that the other side has not stored is under way.
Due(n, k, stored, all) ==
    /\ stored <= all
    /\ \A i \in DOMAIN n : IsData(n[i], k) => n[i].chunk[2] > stored
    /\ \A m \in 1 .. all : m > stored =>
           \E i \in DOMAIN n : IsData(n[i], k) /\ n[i].chunk[2] = m

Early == {"connecting", "connected"}

\* The entries of connection k on side s, its socket and its threads.
Cell(s, k) ==
    /\ writes[s][k] \in {NoConn, k}
    /\ tcp[s][k] \in {NoConn, writes[s][k]}
    /\ draining[s][k] \in {NoConn, k}
    /\ writes[s][k] = k =>
           phase[s][k] \in Early \/ (phase[s][k] = "open" /\ draining[s][k] = k)
    /\ phase[s][k] = "none" => queue[s][k] = <<>> /\ sent[s][k] = 0
    /\ phase[s][k] \in Early \cup {"none", "failed"} =>
           draining[s][k] = NoConn /\ got[s][k] = <<>> /\ <<s, k>> \notin reading
    /\ s = "host" /\ k \in cancelled => writes[s][k] = NoConn
    /\ s = "host" /\ phase[s][k] = "none" => k \notin connecting /\ k \notin cancelled

\* What is written and, as long as it may still be written, what is queued: the
\* chunks in order, and the end mark only last and after the entry is gone.
Written(s, k) == \A i \in DOMAIN got[s][k] : got[s][k][i] = <<k, i>>

Queued(s, k) == draining[s][k] = k \/ phase[s][k] \in Early =>
    \A j \in DOMAIN queue[s][k] :
        \/ queue[s][k][j] = Fin /\ j = Len(queue[s][k]) /\ writes[s][k] = NoConn
        \/ queue[s][k][j] = <<k, Len(got[s][k]) + j>>

Stored(s, k) == Len(got[s][k]) + Len(queue[s][k])

Awaits(s, k) == writes[s][k] = k \/ (s = "host" /\ Pending(net["host"], k))

Wire(s, k) ==
    /\ Line(net[s], k, sent[Other(s)][k])
    /\ Awaits(s, k) => Due(net[s], k, Stored(s, k), sent[Other(s)][k])

Opening(k) ==
    /\ Leads(net["host"], k)
    /\ Pending(net["host"], k) => phase["host"][k] = "none"

\* Nothing is under way for a number that was not given yet.
Fresh ==
    /\ \A s \in Sides : \A i \in DOMAIN net[s] : net[s][i].id <= accepted
    /\ \A o \in owed : o[2] <= accepted

Connection(s, k) == Cell(s, k) /\ Written(s, k) /\ Queued(s, k) /\ Wire(s, k)

Apart ==
    /\ Numbered
    /\ Fresh
    /\ \A s \in Sides, k \in Conns : Connection(s, k)
    /\ \A k \in Conns : Opening(k)
-----------------------------------------------------------------------------
(* Channels *)

LEMMA SideFacts ==
    /\ Sides = {"client", "host"}
    /\ \A s \in Sides : Other(s) \in Sides /\ Other(s) # s /\ Other(Other(s)) = s
BY DEF Sides, Other

LEMMA Constants == MaxConns \in Nat /\ QueueSize \in Nat
BY TunnelAssumption

LEMMA Arithmetic ==
    /\ \A a, b \in Nat : a + b \in Nat
    /\ \A a \in Nat : a - 1 # a /\ a + 1 # a - 1
OBVIOUS

LEMMA Sums ==
    \A a, b \in Nat : /\ (a + 1) + (b - 1) = a + b /\ a + (b + 1) = (a + b) + 1
                      /\ a + (b + 1) = (a + 1) + b
OBVIOUS

LEMMA TailFacts ==
    ASSUME NEW S, NEW n \in Seq(S), n # <<>>
    PROVE  /\ Tail(n) \in Seq(S) /\ Head(n) = n[1] /\ Head(n) \in S /\ 1 \in DOMAIN n
           /\ Len(Tail(n)) = Len(n) - 1 /\ DOMAIN n \subseteq Nat
           /\ \A i \in DOMAIN Tail(n) : i + 1 \in DOMAIN n /\ Tail(n)[i] = n[i + 1]
           /\ \A j \in DOMAIN n : j # 1 => j - 1 \in DOMAIN Tail(n) /\ Tail(n)[j - 1] = n[j]
<1>1. Tail(n) \in Seq(S) /\ Len(Tail(n)) = Len(n) - 1
      /\ \A i \in 1 .. Len(n) - 1 : Tail(n)[i] = n[i + 1]
  BY HeadTailProperties
<1>2. DOMAIN Tail(n) = 1 .. Len(n) - 1 /\ DOMAIN n = 1 .. Len(n) /\ Len(n) \in Nat
      /\ Len(n) > 0
  BY <1>1
<1>3. Head(n) = n[1] /\ Head(n) \in S BY <1>2
<1>4. \A j \in 1 .. Len(n) : j # 1 => j - 1 \in 1 .. Len(n) - 1 /\ n[(j - 1) + 1] = n[j]
  BY <1>2
<1>5. \A j \in 1 .. Len(n) : j # 1 => Tail(n)[j - 1] = n[j]
  BY <1>1, <1>4
<1> QED BY <1>1, <1>2, <1>3, <1>4, <1>5

LEMMA AppendFacts ==
    ASSUME NEW S, NEW n \in Seq(S), NEW e \in S
    PROVE  /\ Append(n, e) \in Seq(S) /\ Len(Append(n, e)) = Len(n) + 1
           /\ DOMAIN n = 1 .. Len(n) /\ Len(n) \in Nat
           /\ DOMAIN Append(n, e) = 1 .. Len(n) + 1
           /\ \A i \in DOMAIN n : i \in DOMAIN Append(n, e) /\ i # Len(n) + 1
                                  /\ i < Len(n) + 1 /\ Append(n, e)[i] = n[i]
           /\ Append(n, e)[Len(n) + 1] = e
           /\ \A i \in DOMAIN Append(n, e) : i \in DOMAIN n \/ i = Len(n) + 1
<1>1. /\ Append(n, e) \in Seq(S) /\ Len(Append(n, e)) = Len(n) + 1
      /\ \A i \in 1 .. Len(n) : Append(n, e)[i] = n[i]
      /\ Append(n, e)[Len(n) + 1] = e
  BY AppendProperties
<1>2. DOMAIN n = 1 .. Len(n) /\ DOMAIN Append(n, e) = 1 .. Len(n) + 1 /\ Len(n) \in Nat
  BY <1>1
<1> QED BY <1>1, <1>2

\* Taking a packet away keeps the order of the others.
LEMMA LineTail ==
    ASSUME NEW n \in Seq(Packet), n # <<>>, NEW k, NEW all, Line(n, k, all)
    PROVE  Line(Tail(n), k, all)
<1>1. \A i \in DOMAIN Tail(n) : i + 1 \in DOMAIN n /\ Tail(n)[i] = n[i + 1]
  BY TailFacts
<1>2. \A i, j \in DOMAIN Tail(n) : i < j => i + 1 < j + 1
  BY TailFacts
<1> QED BY <1>1, <1>2 DEF Line

LEMMA LineAppend ==
    ASSUME NEW n \in Seq(Packet), NEW p \in Packet, NEW k, NEW all, Line(n, k, all),
           ~IsData(p, k)
    PROVE  Line(Append(n, p), k, all)
<1> DEFINE m == Append(n, p)
<1>1. \A i \in DOMAIN m : IsData(m[i], k) => i \in DOMAIN n /\ m[i] = n[i]
  BY AppendFacts
<1> HIDE DEF m
<1>2. Line(m, k, all) BY <1>1 DEF Line
<1> QED BY <1>2 DEF m

LEMMA LineData ==
    ASSUME NEW n \in Seq(Packet), NEW k \in Conns, NEW all \in Nat, Line(n, k, all),
           NEW p \in Packet, p.chunk = <<k, all + 1>>
    PROVE  Line(Append(n, p), k, all + 1)
<1> DEFINE m == Append(n, p)
           z == Len(n) + 1
<1>1. /\ \A i \in DOMAIN m : i = z \/ (i \in DOMAIN n /\ m[i] = n[i])
      /\ m[z] = p /\ \A i \in DOMAIN m : ~(z < i)
  BY AppendFacts
<1>2. p.chunk[1] = k /\ p.chunk[2] = all + 1 OBVIOUS
<1> HIDE DEF m, z
<1>3. ASSUME NEW i \in DOMAIN m, IsData(m[i], k)
      PROVE  m[i].chunk[2] \in 1 .. all + 1 /\ m[i].chunk = <<k, m[i].chunk[2]>>
  <2>1. CASE i = z BY <1>1, <1>2, <2>1
  <2>2. CASE i \in DOMAIN n /\ m[i] = n[i]
    <3>1. n[i].chunk[2] \in 1 .. all /\ n[i].chunk = <<k, n[i].chunk[2]>>
      BY <1>3, <2>2 DEF Line
    <3> QED BY <2>2, <3>1
  <2> QED BY <1>1, <2>1, <2>2
<1>4. ASSUME NEW i \in DOMAIN m, NEW j \in DOMAIN m, IsData(m[i], k), IsData(m[j], k), i < j
      PROVE  m[i].chunk[2] < m[j].chunk[2]
  <2>1. i \in DOMAIN n /\ m[i] = n[i] BY <1>1, <1>4
  <2>2. n[i].chunk[2] \in 1 .. all BY <1>4, <2>1 DEF Line
  <2>3. CASE j = z BY <1>1, <1>2, <2>1, <2>2, <2>3
  <2>4. CASE j \in DOMAIN n /\ m[j] = n[j] BY <1>4, <2>1, <2>4 DEF Line
  <2> QED BY <1>1, <2>3, <2>4
<1>5. Line(m, k, all + 1) BY <1>3, <1>4 DEF Line
<1> QED BY <1>5 DEF m

LEMMA DueTail ==
    ASSUME NEW n \in Seq(Packet), n # <<>>,
           NEW k, NEW stored, NEW all, Due(n, k, stored, all), ~IsData(Head(n), k)
    PROVE  Due(Tail(n), k, stored, all)
<1>1. /\ \A i \in DOMAIN Tail(n) : i + 1 \in DOMAIN n /\ Tail(n)[i] = n[i + 1]
      /\ \A j \in DOMAIN n : j # 1 => j - 1 \in DOMAIN Tail(n) /\ Tail(n)[j - 1] = n[j]
      /\ Head(n) = n[1]
  BY TailFacts
<1>2. \A j \in DOMAIN n : IsData(n[j], k) => \E i \in DOMAIN Tail(n) : Tail(n)[i] = n[j]
  BY <1>1
<1>3. \A i \in DOMAIN Tail(n) : \E j \in DOMAIN n : Tail(n)[i] = n[j]
  BY <1>1
<1>4. \A i \in DOMAIN Tail(n) : IsData(Tail(n)[i], k) => Tail(n)[i].chunk[2] > stored
  BY <1>3 DEF Due
<1>5. ASSUME NEW x \in 1 .. all, x > stored
      PROVE  \E i \in DOMAIN Tail(n) : IsData(Tail(n)[i], k) /\ Tail(n)[i].chunk[2] = x
  <2>1. PICK j \in DOMAIN n : IsData(n[j], k) /\ n[j].chunk[2] = x
    BY <1>5 DEF Due
  <2> QED BY <1>2, <2>1
<1> QED BY <1>4, <1>5 DEF Due

LEMMA DueAppend ==
    ASSUME NEW n \in Seq(Packet), NEW p \in Packet,
           NEW k, NEW stored, NEW all, Due(n, k, stored, all), ~IsData(p, k)
    PROVE  Due(Append(n, p), k, stored, all)
<1> DEFINE m == Append(n, p)
<1>1. /\ \A i \in DOMAIN m : IsData(m[i], k) => i \in DOMAIN n /\ m[i] = n[i]
      /\ \A i \in DOMAIN n : i \in DOMAIN m /\ m[i] = n[i]
  BY AppendFacts
<1> HIDE DEF m
<1>2. Due(m, k, stored, all) BY <1>1 DEF Due
<1> QED BY <1>2 DEF m

LEMMA DueData ==
    ASSUME NEW n \in Seq(Packet), NEW k \in Conns, NEW stored \in Nat, NEW all \in Nat,
           Due(n, k, stored, all),
           NEW p \in Packet, IsData(p, k), p.chunk = <<k, all + 1>>
    PROVE  Due(Append(n, p), k, stored, all + 1)
<1> DEFINE m == Append(n, p)
           z == Len(n) + 1
<1>1. /\ \A i \in DOMAIN m : i = z \/ (i \in DOMAIN n /\ m[i] = n[i])
      /\ \A i \in DOMAIN n : i \in DOMAIN m /\ m[i] = n[i]
      /\ z \in DOMAIN m /\ m[z] = p
  BY AppendFacts
<1>2. p.chunk[2] = all + 1 OBVIOUS
<1> HIDE DEF m, z
<1>3. stored <= all BY DEF Due
<1>4. \A i \in DOMAIN m : IsData(m[i], k) => m[i].chunk[2] > stored
  BY <1>1, <1>2, <1>3 DEF Due
<1>5. ASSUME NEW x \in 1 .. all + 1, x > stored
      PROVE  \E i \in DOMAIN m : IsData(m[i], k) /\ m[i].chunk[2] = x
  <2>1. CASE x = all + 1 BY <1>1, <1>2, <2>1
  <2>2. CASE x \in 1 .. all
    <3>1. PICK i \in DOMAIN n : IsData(n[i], k) /\ n[i].chunk[2] = x
      BY <1>5, <2>2 DEF Due
    <3> QED BY <1>1, <3>1
  <2> QED BY <2>1, <2>2
<1>6. Due(m, k, stored, all + 1) BY <1>3, <1>4, <1>5 DEF Due
<1> QED BY <1>6 DEF m

\* The first packet of data is the chunk that is stored next.
LEMMA DueTake ==
    ASSUME NEW n \in Seq(Packet), n # <<>>, NEW k \in Conns, NEW stored \in Nat,
           NEW all \in Nat, Line(n, k, all), Due(n, k, stored, all), IsData(Head(n), k)
    PROVE  /\ Head(n).chunk = <<k, stored + 1>>
           /\ Due(Tail(n), k, stored + 1, all)
<1>1. /\ \A i \in DOMAIN Tail(n) : i + 1 \in DOMAIN n /\ Tail(n)[i] = n[i + 1] /\ 1 < i + 1
      /\ \A j \in DOMAIN n : j # 1 => j - 1 \in DOMAIN Tail(n) /\ Tail(n)[j - 1] = n[j]
      /\ Head(n) = n[1] /\ 1 \in DOMAIN n /\ \A j \in DOMAIN n : j # 1 => 1 < j
  BY TailFacts
<1>2. n[1].chunk[2] \in 1 .. all /\ n[1].chunk = <<k, n[1].chunk[2]>>
  BY <1>1 DEF Line
<1>3. n[1].chunk[2] > stored BY <1>1 DEF Due
<1>4. stored + 1 \in 1 .. all BY <1>2, <1>3
<1>5. n[1].chunk[2] = stored + 1
  <2>1. PICK i \in DOMAIN n : IsData(n[i], k) /\ n[i].chunk[2] = stored + 1
    BY <1>4 DEF Due
  <2>2. CASE i = 1 BY <2>1, <2>2
  <2>3. CASE 1 < i
    <3>1. n[1].chunk[2] < n[i].chunk[2] BY <1>1, <2>1, <2>3 DEF Line
    <3> QED BY <1>2, <1>3, <2>1, <3>1
  <2> QED BY <1>1, <2>2, <2>3
<1>6. ASSUME NEW i \in DOMAIN Tail(n), IsData(Tail(n)[i], k)
      PROVE  Tail(n)[i].chunk[2] > stored + 1
  <2>1. i + 1 \in DOMAIN n /\ Tail(n)[i] = n[i + 1] /\ 1 < i + 1 BY <1>1
  <2>2. n[1].chunk[2] < n[i + 1].chunk[2] BY <1>1, <1>6, <2>1 DEF Line
  <2>3. n[i + 1].chunk[2] \in 1 .. all BY <1>6, <2>1 DEF Line
  <2> QED BY <1>5, <2>1, <2>2, <2>3
<1>7. ASSUME NEW x \in 1 .. all, x > stored + 1
      PROVE  \E i \in DOMAIN Tail(n) : IsData(Tail(n)[i], k) /\ Tail(n)[i].chunk[2] = x
  <2>1. x > stored BY <1>7
  <2>2. PICK j \in DOMAIN n : IsData(n[j], k) /\ n[j].chunk[2] = x
    BY <2>1 DEF Due
  <2>3. j # 1 BY <1>5, <1>7, <2>2
  <2> QED BY <1>1, <2>2, <2>3
<1>8. stored + 1 <= all BY <1>4
<1>9. Due(Tail(n), k, stored + 1, all) BY <1>6, <1>7, <1>8 DEF Due
<1> QED BY <1>1, <1>2, <1>5, <1>9

\* The opening of a connection stays the first of its packets.
LEMMA LeadsTail ==
    ASSUME NEW n \in Seq(Packet), n # <<>>, NEW k, Leads(n, k)
    PROVE  /\ Leads(Tail(n), k)
           /\ Pending(Tail(n), k) => Pending(n, k)
           /\ Head(n).id = k => ~Pending(Tail(n), k)
<1>1. /\ \A i \in DOMAIN Tail(n) : i + 1 \in DOMAIN n /\ Tail(n)[i] = n[i + 1]
      /\ Head(n) = n[1] /\ 1 \in DOMAIN n
      /\ \A i \in DOMAIN Tail(n) : ~(i + 1 <= 1)
      /\ \A i, j \in DOMAIN Tail(n) : i + 1 <= j + 1 => i <= j
  BY TailFacts
<1>2. Leads(Tail(n), k) BY <1>1 DEF Leads
<1>3. Pending(Tail(n), k) => Pending(n, k) BY <1>1 DEF Pending
<1>4. ASSUME Head(n).id = k, NEW i \in DOMAIN Tail(n), IsOpen(Tail(n)[i], k)
      PROVE  FALSE
  BY <1>1, <1>4 DEF Leads
<1> QED BY <1>2, <1>3, <1>4 DEF Pending

LEMMA LeadsAppend ==
    ASSUME NEW n \in Seq(Packet), NEW p \in Packet, NEW k, Leads(n, k), ~IsOpen(p, k)
    PROVE  Leads(Append(n, p), k) /\ (Pending(Append(n, p), k) <=> Pending(n, k))
<1> DEFINE m == Append(n, p)
           z == Len(n) + 1
<1>1. /\ \A i \in DOMAIN m : IsOpen(m[i], k) => i \in DOMAIN n /\ m[i] = n[i]
      /\ \A i \in DOMAIN n : i \in DOMAIN m /\ m[i] = n[i] /\ i <= z
      /\ \A i \in DOMAIN m : i = z \/ (i \in DOMAIN n /\ m[i] = n[i])
  BY AppendFacts
<1> HIDE DEF m, z
<1>2. Leads(m, k) BY <1>1 DEF Leads
<1>3. Pending(m, k) <=> Pending(n, k) BY <1>1 DEF Pending
<1> QED BY <1>2, <1>3 DEF m

\* A new number is announced on a channel that carries nothing for it.
LEMMA LeadsOpen ==
    ASSUME NEW n \in Seq(Packet), NEW p \in Packet, NEW k,
           \A i \in DOMAIN n : n[i].id # k, p.conn = k, p.kind = "open"
    PROVE  Leads(Append(n, p), k) /\ Line(Append(n, p), k, 0) /\ Due(Append(n, p), k, 0, 0)
<1> DEFINE m == Append(n, p)
           z == Len(n) + 1
<1>1. /\ \A i \in DOMAIN m : i = z \/ (i \in DOMAIN n /\ m[i] = n[i])
      /\ m[z] = p /\ z \in Nat
  BY AppendFacts
<1> HIDE DEF m, z
<1>2. \A i \in DOMAIN m : m[i].id = k => i = z BY <1>1
<1>3. \A i \in DOMAIN m : ~IsData(m[i], k) BY <1>1, <1>2 DEF IsData
<1>4. Leads(m, k) BY <1>1, <1>2 DEF Leads, IsOpen
<1>5. Line(m, k, 0) /\ Due(m, k, 0, 0) BY <1>3 DEF Line, Due
<1> QED BY <1>4, <1>5 DEF m
-----------------------------------------------------------------------------
(* Types *)

LEMMA Packets ==
    /\ \A id \in Ids : Close(id) \in Packet /\ Close(id).kind = "close" /\ Close(id).id = id
    /\ \A id \in Ids, c \in Chunk :
           /\ Data(c, id) \in Packet /\ Data(c, id).kind = "data"
           /\ Data(c, id).id = id /\ Data(c, id).chunk = c
    /\ \A id \in Ids, k \in Conns :
           /\ Open(k, id) \in Packet /\ Open(k, id).kind = "open"
           /\ Open(k, id).id = id /\ Open(k, id).conn = k
BY DEF Close, Data, Open, Packet

LEMMA Names == /\ {"none", "connecting", "failed", "connected", "open", "closed"} \subseteq Phases
               /\ {"drained", "broken", "refused", "abandoned", "stopped"} \subseteq Reasons
BY DEF Phases, Reasons

\* A socket that goes into another phase.
LEMMA PhasePut ==
    ASSUME Tables, NEW s \in Sides, NEW k \in Conns, NEW x \in Phases,
           phase' = [phase EXCEPT ![s][k] = x]
    PROVE  /\ phase' \in [Sides -> [Conns -> Phases]]
           /\ phase'[s][k] = x
           /\ \A t \in Sides, j \in Conns : t # s \/ j # k => phase'[t][j] = phase[t][j]
<1>1. phase \in [Sides -> [Conns -> Phases]] BY DEF Tables
<1> QED BY <1>1

LEMMA OfferTypes ==
    ASSUME NEW q, Queues(q), NEW s \in Sides, NEW k \in Conns \cup {NoConn},
           NEW item \in Chunk \cup {Fin}
    PROVE  Queues(Offered(q, s, k, item))
<1>1. CASE Offered(q, s, k, item) = q BY <1>1
<1>2. CASE /\ k \in Conns /\ Len(q[s][k]) < QueueSize
           /\ Offered(q, s, k, item) = [q EXCEPT ![s][k] = Append(@, item)]
  <2> DEFINE r == Append(q[s][k], item)
  <2>1. q[s][k] \in Seq(Chunk \cup {Fin}) BY <1>2 DEF Queues
  <2>2. r \in Seq(Chunk \cup {Fin}) /\ Len(r) = Len(q[s][k]) + 1 BY <2>1, AppendFacts
  <2>3. Len(q[s][k]) \in Nat BY <2>1
  <2>4. Len(r) <= QueueSize BY <1>2, <2>2, <2>3, Constants
  <2>5. Offered(q, s, k, item) = [q EXCEPT ![s][k] = r] BY <1>2
  <2> HIDE DEF r
  <2> QED BY <1>2, <2>2, <2>4, <2>5 DEF Queues
<1> QED BY <1>1, <1>2 DEF Offered, NoConn

LEMMA TailTypes ==
    ASSUME NEW q, Queues(q), NEW s \in Sides, NEW k \in Conns, q[s][k] # <<>>
    PROVE  Queues([q EXCEPT ![s][k] = Tail(@)])
<1> DEFINE r == Tail(q[s][k])
<1>1. q[s][k] \in Seq(Chunk \cup {Fin}) /\ Len(q[s][k]) <= QueueSize BY DEF Queues
<1>2. r \in Seq(Chunk \cup {Fin}) /\ Len(r) = Len(q[s][k]) - 1 BY <1>1, TailFacts
<1>3. Len(q[s][k]) \in Nat BY <1>1
<1>4. Len(r) <= QueueSize BY <1>1, <1>2, <1>3, Constants
<1> HIDE DEF r
<1>5. Queues([q EXCEPT ![s][k] = r]) BY <1>2, <1>4 DEF Queues
<1> QED BY <1>5 DEF r

LEMMA SendTypes ==
    ASSUME NEW n, Channels(n), NEW s \in Sides, NEW p \in Packet,
           p.kind = "open" => p.conn \in 1 .. accepted
    PROVE  Channels([n EXCEPT ![s] = Append(@, p)])
<1> DEFINE m == Append(n[s], p)
<1>1. n[s] \in Seq(Packet) BY DEF Channels
<1>2. m \in Seq(Packet) /\ \A i \in DOMAIN m : m[i] = p \/ (i \in DOMAIN n[s] /\ m[i] = n[s][i])
  BY <1>1, AppendFacts
<1> HIDE DEF m
<1>3. "host" \in Sides BY SideFacts
<1>4. Channels([n EXCEPT ![s] = m]) BY <1>2, <1>3 DEF Channels
<1> QED BY <1>4 DEF m

LEMMA TakeTypes ==
    ASSUME Channels(net), NEW s \in Sides, net[s] # <<>>
    PROVE  Channels([net EXCEPT ![s] = Tail(@)])
<1> DEFINE m == Tail(net[s])
<1>1. net[s] \in Seq(Packet) BY DEF Channels
<1>2. m \in Seq(Packet) /\ \A i \in DOMAIN m : i + 1 \in DOMAIN net[s] /\ m[i] = net[s][i + 1]
  BY <1>1, TailFacts
<1> HIDE DEF m
<1>3. "host" \in Sides BY SideFacts
<1>4. Channels([net EXCEPT ![s] = m]) BY <1>2, <1>3 DEF Channels
<1> QED BY <1>4 DEF m

\* A packet that is received is the head of its channel.
LEMMA ReceivedTypes ==
    ASSUME Sound, NEW s \in Sides, NEW packet, NEW kind, Receives(s, kind, packet)
    PROVE  /\ packet \in Packet /\ packet = Head(net[s]) /\ packet.kind = kind
           /\ net[s] # <<>> /\ net[s] \in Seq(Packet)
           /\ Channels([net EXCEPT ![s] = Tail(@)])
           /\ s = "host" /\ kind = "open" => packet.conn \in 1 .. accepted
<1>1. net[s] # <<>> /\ packet = Head(net[s]) /\ packet.kind = kind BY DEF Receives
<1>2. net[s] \in Seq(Packet) /\ Channels(net) BY DEF Sound, Channels
<1>3. packet \in Packet /\ Head(net[s]) = net[s][1] /\ 1 \in DOMAIN net[s]
  BY <1>1, <1>2, TailFacts
<1>4. s = "host" /\ kind = "open" => packet.conn \in 1 .. accepted
  BY <1>1, <1>2, <1>3 DEF Channels
<1> QED BY <1>1, <1>2, <1>3, <1>4, TakeTypes

LEMMA CloseSocketTypes ==
    ASSUME Tables, NEW s \in Sides, NEW k \in Conns \cup {NoConn}, NEW why \in Reasons,
           CloseSocket(s, k, why)
    PROVE  /\ phase' \in [Sides -> [Conns -> Phases]]
           /\ how' \in [Sides -> [Conns -> Reasons]]
           /\ \A t \in Sides, j \in Conns : phase[t][j] = "none" => phase'[t][j] = "none"
<1>1. CASE UNCHANGED <<phase, how>> BY <1>1 DEF Tables
<1>2. CASE /\ k \in Conns /\ phase[s][k] = "open"
           /\ phase' = [phase EXCEPT ![s][k] = "closed"]
           /\ how' = [how EXCEPT ![s][k] = why]
  <2>1. phase \in [Sides -> [Conns -> Phases]] /\ how \in [Sides -> [Conns -> Reasons]]
        /\ "closed" \in Phases
    BY DEF Tables, Phases
  <2>2. phase' \in [Sides -> [Conns -> Phases]] BY <1>2, <2>1
  <2>3. how' \in [Sides -> [Conns -> Reasons]] BY <1>2, <2>1
  <2>4. \A t \in Sides, j \in Conns : phase[t][j] = "none" => phase'[t][j] = "none"
    BY <1>2, <2>1
  <2> QED BY <2>2, <2>3, <2>4
<1> QED BY <1>1, <1>2 DEF CloseSocket, NoConn

LEMMA TakeStreamTypes ==
    ASSUME Tables, NEW s \in Sides, NEW id \in Ids, TakeStream(s, id)
    PROVE  /\ tcp' \in [Sides -> [Ids -> Conns \cup {NoConn}]]
           /\ writes' \in [Sides -> [Ids -> Conns \cup {NoConn}]]
           /\ cancelled' \in SUBSET Ids
<1>1. tcp' \in [Sides -> [Ids -> Conns \cup {NoConn}]] BY DEF Tables, TakeStream
<1>2. writes' \in [Sides -> [Ids -> Conns \cup {NoConn}]] BY DEF Tables, TakeStream
<1>3. cancelled' \in SUBSET Ids BY DEF Tables, TakeStream
<1> QED BY <1>1, <1>2, <1>3

LEMMA FinTyped == Fin \in Chunk \cup {Fin}
OBVIOUS

LEMMA CloseTcpTypes ==
    ASSUME Tables, Threads, NEW s \in Sides, NEW id \in Ids, NEW why \in Reasons,
           NEW q, Queues(q), CloseTcp(s, id, why, q), UNCHANGED connecting
    PROVE  /\ Tables' /\ Queues(queue)' /\ owed' \in SUBSET (Sides \X Ids)
           /\ \A t \in Sides, j \in Conns : phase[t][j] = "none" => phase'[t][j] = "none"
<1>1. writes[s][id] \in Conns \cup {NoConn} /\ tcp[s][id] \in Conns \cup {NoConn}
  BY DEF Tables
<1>2. queue' = Offered(q, s, writes[s][id], Fin) /\ TakeStream(s, id)
      /\ CloseSocket(s, tcp[s][id], why)
  BY DEF CloseTcp
<1>3. Queues(Offered(q, s, writes[s][id], Fin)) BY <1>1, OfferTypes
<1>4. Queues(queue)' BY <1>2, <1>3 DEF Queues
<1>5. owed' \in SUBSET (Sides \X Ids) BY DEF CloseTcp, Threads
<1>6. connecting' \in SUBSET Ids BY DEF Tables
<1>7. Tables' BY <1>1, <1>2, <1>6, TakeStreamTypes, CloseSocketTypes DEF Tables
<1> QED BY <1>1, <1>2, <1>4, <1>5, <1>7, CloseSocketTypes

LEMMA SoundInit == Init => Sound
<1> SUFFICES ASSUME Init PROVE Sound
  OBVIOUS
<1>1. Numbers BY Constants DEF Init, Numbers
<1>2. Tables BY DEF Init, Tables, Everywhere, Phases, Reasons, NoConn, Conns, Ids
<1>3. Threads BY DEF Init, Threads, Everywhere
<1>4. Contents
  <2>1. mix \in Mixes /\ mix.chunks \in [Sides -> Nat] BY TunnelAssumption DEF Init
  <2>2. Queues(queue) BY Constants DEF Init, Queues, Everywhere
  <2>3. /\ got \in [Sides -> [Conns -> Seq(Chunk)]] /\ sent \in [Sides -> [Conns -> Nat]]
        /\ \A s \in Sides, k \in Conns : sent[s][k] <= mix.chunks[s]
    BY <2>1 DEF Init, Everywhere
  <2> QED BY <2>2, <2>3 DEF Contents
<1>5. Channels(net) BY SideFacts DEF Init, Channels
<1>6. Counted BY DEF Init, Counted, Everywhere, Conns
<1> QED BY <1>1, <1>2, <1>3, <1>4, <1>5, <1>6 DEF Sound

\* What accepted connections are given.
LEMMA AcceptedNumbers ==
    ASSUME Sound, NEW k \in Conns, k = accepted + 1, k <= mix.conns
    PROVE  /\ nextStream \in Ids /\ nextStream + 1 \in 1 .. (k + 1) /\ k \in 0 .. MaxConns
           /\ \A j \in Conns : j <= k => j = k \/ j <= accepted
           /\ \A j \in Conns : j > k => j > accepted /\ j # k
           /\ accepted \in Nat /\ 1 .. accepted \subseteq 1 .. k /\ k \in 1 .. k
           /\ [idOf EXCEPT ![k] = nextStream] \in [Conns -> Ids \cup {0}]
           /\ \A j \in Conns : j <= k => [idOf EXCEPT ![k] = nextStream][j] \in Ids
<1>1. /\ accepted \in 0 .. MaxConns /\ nextStream \in 1 .. (accepted + 1)
      /\ idOf \in [Conns -> Ids \cup {0}] /\ MaxConns \in Nat
      /\ \A j \in Conns : j <= accepted => idOf[j] \in Ids
  BY Constants DEF Sound, Numbers, Counted
<1>2. nextStream \in Ids /\ nextStream + 1 \in 1 .. (k + 1) /\ k \in 0 .. MaxConns
  BY <1>1 DEF Conns, Ids
<1>3. /\ \A j \in Conns : j <= k => j = k \/ j <= accepted
      /\ \A j \in Conns : j > k => j > accepted /\ j # k
      /\ accepted \in Nat /\ 1 .. accepted \subseteq 1 .. k /\ k \in 1 .. k
  BY <1>1 DEF Conns
<1> QED BY <1>1, <1>2, <1>3

LEMMA AcceptSound == ASSUME Sound, NEW k \in Conns, Accept(k) PROVE Sound'
<1>1. /\ nextStream \in Ids /\ nextStream + 1 \in 1 .. (k + 1) /\ k \in 0 .. MaxConns
      /\ \A j \in Conns : j <= k => j = k \/ j <= accepted
      /\ \A j \in Conns : j > k => j > accepted /\ j # k
      /\ accepted \in Nat /\ 1 .. accepted \subseteq 1 .. k /\ k \in 1 .. k
      /\ [idOf EXCEPT ![k] = nextStream] \in [Conns -> Ids \cup {0}]
      /\ \A j \in Conns : j <= k => [idOf EXCEPT ![k] = nextStream][j] \in Ids
  BY AcceptedNumbers DEF Accept
<1>s. "client" \in Sides /\ "host" \in Sides /\ Other("client") = "host"
  BY SideFacts DEF Other
<1>2. Numbers' BY <1>1 DEF Accept, Sound, Numbers
<1>3. Tables' BY <1>1 DEF Accept, Sound, Tables, Phases
<1>4. Threads' BY <1>s DEF Accept, Sound, Threads
<1>5. Contents' BY DEF Accept, Sound, Contents, Queues
<1>6. Channels(net)'
  <2>1. Open(k, nextStream) \in Packet /\ Open(k, nextStream).conn = k
    BY <1>1, Packets
  <2>2. net' = [net EXCEPT !["host"] = Append(@, Open(k, nextStream))]
    BY <1>s DEF Accept, Sending
  <2>3. net' \in [Sides -> Seq(Packet)] BY <1>s, <2>1, <2>2, AppendFacts DEF Sound, Channels
  <2>4. \A i \in DOMAIN net'["host"] :
            \/ net'["host"][i] = Open(k, nextStream)
            \/ i \in DOMAIN net["host"] /\ net'["host"][i] = net["host"][i]
    <3>1. net["host"] \in Seq(Packet) /\ net'["host"] = Append(net["host"], Open(k, nextStream))
      BY <1>s, <2>2 DEF Sound, Channels
    <3> QED BY <2>1, <3>1, AppendFacts
  <2>5. accepted' = k BY DEF Accept
  <2> QED BY <1>1, <2>1, <2>3, <2>4, <2>5 DEF Sound, Channels
<1>7. Counted'
  <2>1. \A j \in Conns : j <= k => idOf'[j] \in Ids BY <1>1 DEF Accept
  <2>2. \A t \in Sides, j \in Conns : j > k =>
            phase'[t][j] = "none" /\ <<t, j>> \notin reading' /\ draining'[t][j] = NoConn
    BY <1>1 DEF Accept, Sound, Counted, Tables, Threads
  <2>3. accepted' = k BY DEF Accept
  <2> QED BY <2>1, <2>2, <2>3 DEF Counted
<1> QED BY <1>2, <1>3, <1>4, <1>5, <1>6, <1>7 DEF Sound

LEMMA AcceptUnannouncedSound == ASSUME Sound, NEW k \in Conns, AcceptUnannounced(k) PROVE Sound'
<1>1. /\ nextStream \in Ids /\ nextStream + 1 \in 1 .. (k + 1) /\ k \in 0 .. MaxConns
      /\ \A j \in Conns : j <= k => j = k \/ j <= accepted
      /\ \A j \in Conns : j > k => j > accepted /\ j # k
      /\ accepted \in Nat /\ 1 .. accepted \subseteq 1 .. k /\ k \in 1 .. k
      /\ [idOf EXCEPT ![k] = nextStream] \in [Conns -> Ids \cup {0}]
      /\ \A j \in Conns : j <= k => [idOf EXCEPT ![k] = nextStream][j] \in Ids
  BY AcceptedNumbers DEF AcceptUnannounced
<1>2. Numbers' BY <1>1 DEF AcceptUnannounced, Sound, Numbers
<1>3. Tables' BY <1>1 DEF AcceptUnannounced, Sound, Tables, Phases, Reasons
<1>4. Threads' BY DEF AcceptUnannounced, Sound, Threads
<1>5. Contents' BY DEF AcceptUnannounced, Sound, Contents, Queues
<1>6. Channels(net)' BY <1>1 DEF AcceptUnannounced, Sound, Channels
<1>7. Counted'
  <2>1. \A j \in Conns : j <= k => idOf'[j] \in Ids BY <1>1 DEF AcceptUnannounced
  <2>2. \A t \in Sides, j \in Conns : j > k =>
            phase'[t][j] = "none" /\ <<t, j>> \notin reading' /\ draining'[t][j] = NoConn
    BY <1>1 DEF AcceptUnannounced, Sound, Counted, Tables, Threads
  <2>3. accepted' = k BY DEF AcceptUnannounced
  <2> QED BY <2>1, <2>2, <2>3 DEF Counted
<1> QED BY <1>2, <1>3, <1>4, <1>5, <1>6, <1>7 DEF Sound

LEMMA ReceiveOpenSound == ASSUME Sound, NEW packet, ReceiveOpen(packet) PROVE Sound'
<1> DEFINE rest == [net EXCEPT !["host"] = Tail(@)]
           id == packet.id
           k == packet.conn
<1>s. "client" \in Sides /\ "host" \in Sides BY SideFacts
<1>1. /\ packet \in Packet /\ Channels(rest) /\ k \in 1 .. accepted
  BY <1>s, ReceivedTypes DEF ReceiveOpen
<1>2. id \in Ids /\ k \in Conns /\ ~(k > accepted)
  BY <1>1, Constants DEF Packet, Sound, Numbers, Conns
<1>3. Close(id) \in Packet /\ Close(id).kind # "open" BY <1>2, Packets
<1>4. Channels([rest EXCEPT !["client"] = Append(@, Close(id))])
  <2> HIDE DEF rest, id
  <2> QED BY <1>s, <1>1, <1>3, SendTypes
<1>5. net' = rest \/ net' = [rest EXCEPT !["client"] = Append(@, Close(id))]
  BY DEF ReceiveOpen, Tell, Other
<1>6. \/ UNCHANGED <<connecting, writes, phase>>
      \/ /\ connecting' = connecting \cup {id}
         /\ writes' = [writes EXCEPT !["host"][id] = k]
         /\ phase' = [phase EXCEPT !["host"][k] = "connecting"]
  BY DEF ReceiveOpen
<1>7. UNCHANGED <<mix, accepted, nextStream, idOf, how, tcp, cancelled, reading,
                  draining, queue, sent, got, owed, restarts>>
  BY DEF ReceiveOpen
<1> HIDE DEF rest, id, k
<1>8. Numbers' BY <1>7 DEF Sound, Numbers
<1>p. phase \in [Sides -> [Conns -> Phases]]
      /\ writes \in [Sides -> [Ids -> Conns \cup {NoConn}]] /\ connecting \in SUBSET Ids
  BY DEF Sound, Tables
<1>9. Tables'
  <2>1. phase' \in [Sides -> [Conns -> Phases]]
    <3>1. CASE UNCHANGED phase BY <1>p, <3>1
    <3>2. CASE phase' = [phase EXCEPT !["host"][k] = "connecting"]
      BY <1>s, <1>2, <3>2, PhasePut, Names DEF Sound
    <3> QED BY <1>6, <3>1, <3>2
  <2>2. writes' \in [Sides -> [Ids -> Conns \cup {NoConn}]]
    <3>1. CASE UNCHANGED writes BY <1>p, <3>1
    <3>2. CASE writes' = [writes EXCEPT !["host"][id] = k] BY <1>2, <1>p, <3>2
    <3> QED BY <1>6, <3>1, <3>2
  <2>3. connecting' \in SUBSET Ids BY <1>2, <1>6, <1>p
  <2> QED BY <1>7, <2>1, <2>2, <2>3 DEF Sound, Tables
<1>10. Threads' BY <1>7 DEF Sound, Threads
<1>11. Contents' BY <1>7 DEF Sound, Contents, Queues
<1>12. Channels(net)' BY <1>1, <1>4, <1>5, <1>7 DEF Channels
<1>13. Counted'
  <2>1. \A t \in Sides, j \in Conns : j > accepted => phase'[t][j] = phase[t][j]
    <3>1. CASE UNCHANGED phase BY <3>1
    <3>2. CASE phase' = [phase EXCEPT !["host"][k] = "connecting"]
      <4>1. \A j \in Conns : j > accepted => j # k BY <1>2
      <4> QED BY <1>s, <1>2, <3>2, <4>1, PhasePut, Names DEF Sound
    <3> QED BY <1>6, <3>1, <3>2
  <2> QED BY <1>7, <2>1 DEF Sound, Counted
<1> QED BY <1>8, <1>9, <1>10, <1>11, <1>12, <1>13 DEF Sound

\* A connection that has a socket or a thread has a number.
LEMMA InUseNumbers ==
    ASSUME Sound, NEW s \in Sides, NEW k \in Conns,
           phase[s][k] # "none" \/ <<s, k>> \in reading \/ draining[s][k] # NoConn
    PROVE  k <= accepted /\ idOf[k] \in Ids
<1>1. accepted \in Nat /\ k \in Nat BY Constants DEF Sound, Numbers, Conns
<1> QED BY <1>1 DEF Sound, Counted

LEMMA ConnectFailsSound == ASSUME Sound, NEW k \in Conns, ConnectFails(k) PROVE Sound'
<1>s. "host" \in Sides BY SideFacts
<1>1. k <= accepted /\ idOf[k] \in Ids BY <1>s, InUseNumbers DEF ConnectFails
<1> DEFINE id == idOf[k]
<1>2. Numbers' BY DEF ConnectFails, Sound, Numbers
<1>3. Tables'
  <2>1. /\ tcp' \in [Sides -> [Ids -> Conns \cup {NoConn}]]
        /\ writes' \in [Sides -> [Ids -> Conns \cup {NoConn}]]
        /\ cancelled' \in SUBSET Ids
    BY <1>s, <1>1, TakeStreamTypes DEF ConnectFails, Sound
  <2>2. /\ phase \in [Sides -> [Conns -> Phases]] /\ how \in [Sides -> [Conns -> Reasons]]
        /\ {"failed", "closed"} \subseteq Phases /\ "refused" \in Reasons
    BY DEF Sound, Tables, Phases, Reasons
  <2>3. phase' \in [Sides -> [Conns -> Phases]]
    <3>1. PICK other \in SUBSET Conns : phase' = [phase EXCEPT !["host"] =
              [j \in Conns |-> IF j = k THEN "failed"
                               ELSE IF j \in other THEN "closed" ELSE @[j]]]
      BY DEF ConnectFails
    <3> QED BY <1>s, <2>2, <3>1
  <2>4. how' \in [Sides -> [Conns -> Reasons]]
    <3>1. PICK other \in SUBSET Conns : how' = [how EXCEPT !["host"] =
              [j \in Conns |-> IF j \in other THEN "refused" ELSE @[j]]]
      BY DEF ConnectFails
    <3> QED BY <1>s, <2>2, <3>1
  <2> QED BY <2>1, <2>3, <2>4 DEF ConnectFails, Sound, Tables
<1>4. Threads' BY <1>s, <1>1 DEF ConnectFails, Sound, Threads
<1>5. Contents'
  <2>1. writes["host"][id] \in Conns \cup {NoConn} BY <1>s, <1>1 DEF Sound, Tables
  <2>2. queue' = Offered(queue, "host", writes["host"][id], Fin) BY DEF ConnectFails
  <2>3. Queues(Offered(queue, "host", writes["host"][id], Fin))
    BY <1>s, <2>1, OfferTypes DEF Sound, Contents
  <2>4. Queues(queue)' BY <2>2, <2>3 DEF Queues
  <2> QED BY <2>4 DEF ConnectFails, Sound, Contents
<1>6. Channels(net)' BY DEF ConnectFails, Sound, Channels
<1>7. Counted'
  <2>1. \A t \in Sides, j \in Conns : phase[t][j] = "none" => phase'[t][j] = "none"
    BY <1>s DEF ConnectFails, Sound, Tables
  <2> QED BY <2>1 DEF ConnectFails, Sound, Counted
<1> QED BY <1>2, <1>3, <1>4, <1>5, <1>6, <1>7 DEF Sound

LEMMA ConnectEndsSound == ASSUME Sound, NEW k \in Conns, ConnectEnds(k) PROVE Sound'
<1>s. "host" \in Sides BY SideFacts
<1>2. Numbers' BY DEF ConnectEnds, Sound, Numbers
<1>3. Tables'
  <2>1. phase' = [phase EXCEPT !["host"][k] = "closed"]
        \/ phase' = [phase EXCEPT !["host"][k] = "connected"]
    BY DEF ConnectEnds, Sound, Tables
  <2>2. phase' \in [Sides -> [Conns -> Phases]]
    <3>1. CASE phase' = [phase EXCEPT !["host"][k] = "closed"]
      BY <1>s, <3>1, PhasePut, Names DEF Sound
    <3>2. CASE phase' = [phase EXCEPT !["host"][k] = "connected"]
      BY <1>s, <3>2, PhasePut, Names DEF Sound
    <3> QED BY <2>1, <3>1, <3>2
  <2> QED BY <2>2 DEF ConnectEnds, Sound, Tables
<1>4. Threads' BY DEF ConnectEnds, Sound, Threads
<1>5. Contents' BY DEF ConnectEnds, Sound, Contents, Queues
<1>6. Channels(net)' BY DEF ConnectEnds, Sound, Channels
<1>7. Counted'
  <2>1. \A t \in Sides, j \in Conns : phase[t][j] = "none" => phase'[t][j] = "none"
    BY <1>s DEF ConnectEnds, Sound, Tables
  <2> QED BY <2>1 DEF ConnectEnds, Sound, Counted
<1> QED BY <1>2, <1>3, <1>4, <1>5, <1>6, <1>7 DEF Sound

LEMMA ConnectSettlesSound == ASSUME Sound, NEW k \in Conns, ConnectSettles(k) PROVE Sound'
<1>s. "host" \in Sides BY SideFacts
<1>1. k <= accepted /\ idOf[k] \in Ids BY <1>s, InUseNumbers DEF ConnectSettles
<1> DEFINE id == idOf[k]
<1>a. /\ UNCHANGED <<mix, accepted, nextStream, idOf, writes, connecting, queue, sent, got,
                     net, owed, restarts>>
      /\ cancelled' = cancelled \ {id} /\ phase["host"][k] = "connected"
  BY DEF ConnectSettles
<1>b. \/ /\ phase' = [phase EXCEPT !["host"][k] = "closed"]
         /\ how' = [how EXCEPT !["host"][k] = "abandoned"]
         /\ UNCHANGED <<tcp, reading, draining>>
      \/ /\ phase' = [phase EXCEPT !["host"][k] = "open"]
         /\ tcp' = [tcp EXCEPT !["host"][id] = k]
         /\ reading' = reading \cup {<<"host", k>>}
         /\ draining' = [draining EXCEPT !["host"][k] = writes["host"][id]]
         /\ UNCHANGED how
  BY DEF ConnectSettles
<1>w. writes["host"][id] \in Conns \cup {NoConn} BY <1>s, <1>1 DEF Sound, Tables
<1>2. Numbers' BY <1>a DEF Sound, Numbers
<1>3. Tables'
  <2>0. /\ phase \in [Sides -> [Conns -> Phases]] /\ how \in [Sides -> [Conns -> Reasons]]
        /\ tcp \in [Sides -> [Ids -> Conns \cup {NoConn}]]
    BY DEF Sound, Tables
  <2>1. phase' \in [Sides -> [Conns -> Phases]]
    <3>1. CASE phase' = [phase EXCEPT !["host"][k] = "closed"]
      BY <1>s, <3>1, PhasePut, Names DEF Sound
    <3>2. CASE phase' = [phase EXCEPT !["host"][k] = "open"]
      BY <1>s, <3>2, PhasePut, Names DEF Sound
    <3> QED BY <1>b, <3>1, <3>2
  <2>2. how' \in [Sides -> [Conns -> Reasons]]
    <3>1. CASE UNCHANGED how BY <2>0, <3>1
    <3>2. CASE how' = [how EXCEPT !["host"][k] = "abandoned"] BY <2>0, <3>2, Names
    <3> QED BY <1>b, <3>1, <3>2
  <2>3. tcp' \in [Sides -> [Ids -> Conns \cup {NoConn}]]
    <3>1. id \in Ids /\ k \in Conns \cup {NoConn} BY <1>1
    <3> HIDE DEF id
    <3>2. CASE UNCHANGED tcp BY <2>0, <3>2
    <3>3. CASE tcp' = [tcp EXCEPT !["host"][id] = k] BY <2>0, <3>1, <3>3
    <3> QED BY <1>b, <3>2, <3>3
  <2> QED BY <1>a, <2>1, <2>2, <2>3 DEF Sound, Tables
<1>4. Threads' BY <1>s, <1>a, <1>b, <1>w DEF Sound, Threads
<1>5. Contents' BY <1>a DEF Sound, Contents, Queues
<1>6. Channels(net)' BY <1>a DEF Sound, Channels
<1>7. Counted'
  <2>1. \A t \in Sides, j \in Conns : j > accepted => <<t, j>> # <<"host", k>>
    BY <1>1, Constants DEF Sound, Numbers, Conns
  <2>2. \A t \in Sides, j \in Conns : j > accepted =>
            phase'[t][j] = phase[t][j] /\ draining'[t][j] = draining[t][j]
    <3>1. phase \in [Sides -> [Conns -> Phases]]
          /\ draining \in [Sides -> [Conns -> Conns \cup {NoConn}]]
      BY DEF Sound, Tables, Threads
    <3>2. ASSUME NEW t \in Sides, NEW j \in Conns, j > accepted
          PROVE  phase'[t][j] = phase[t][j] /\ draining'[t][j] = draining[t][j]
      <4>1. t # "host" \/ j # k BY <2>1, <3>2
      <4> QED BY <1>b, <3>1, <4>1
    <3> QED BY <3>2
  <2>3. \A t \in Sides, j \in Conns : j > accepted => (<<t, j>> \in reading' => <<t, j>> \in reading)
    BY <1>b, <2>1
  <2> QED BY <1>a, <2>2, <2>3 DEF Sound, Counted
<1> QED BY <1>2, <1>3, <1>4, <1>5, <1>6, <1>7 DEF Sound

LEMMA ReadChunkSound ==
    ASSUME Sound, NEW s \in Sides, NEW k \in Conns, ReadChunk(s, k) PROVE Sound'
<1> DEFINE c == <<k, sent[s][k] + 1>>
           p == Data(c, idOf[k])
<1>1. idOf[k] \in Ids BY InUseNumbers DEF ReadChunk
<1>2. sent \in [Sides -> [Conns -> Nat]] /\ mix.chunks \in [Sides -> Nat]
  BY TunnelAssumption DEF Sound, Contents, Numbers
<1>3. c \in Chunk BY <1>2 DEF Chunk
<1>4. p \in Packet /\ p.kind # "open" BY <1>1, <1>3, Packets
<1>5. Channels([net EXCEPT ![Other(s)] = Append(@, p)])
  <2> HIDE DEF p
  <2> QED BY <1>4, SideFacts, SendTypes DEF Sound
<1>6. net' = [net EXCEPT ![Other(s)] = Append(@, p)] BY DEF ReadChunk, Sending
<1>7. UNCHANGED <<mix, accepted, nextStream, idOf, phase, how, tcp, writes, connecting,
                  cancelled, reading, draining, queue, got, owed, restarts>>
  BY DEF ReadChunk
<1>8. Contents'
  <2>1. sent' = [sent EXCEPT ![s][k] = @ + 1] /\ sent[s][k] < mix.chunks[s]
    BY DEF ReadChunk
  <2>2. sent' \in [Sides -> [Conns -> Nat]] BY <1>2, <2>1, SMTT(30)
  <2>3. \A t \in Sides, j \in Conns : sent'[t][j] <= mix.chunks[t]
    BY <1>2, <2>1 DEF Sound, Contents
  <2> QED BY <1>7, <2>2, <2>3 DEF Sound, Contents, Queues
<1> HIDE DEF p
<1> QED BY <1>5, <1>6, <1>7, <1>8
    DEF Sound, Numbers, Tables, Threads, Channels, Counted

LEMMA ReadEndsSound ==
    ASSUME Sound, NEW s \in Sides, NEW k \in Conns, NEW why, ReadEnds(s, k, why)
    PROVE  Sound'
<1>1. idOf[k] \in Ids BY InUseNumbers DEF ReadEnds
<1>2. /\ why \in Reasons /\ CloseTcp(s, idOf[k], why, queue) /\ UNCHANGED connecting
      /\ reading' \subseteq reading
      /\ UNCHANGED <<mix, accepted, nextStream, idOf, draining, sent, got, net, restarts>>
  BY DEF ReadEnds, Reasons
<1>3. Queues(queue) BY DEF Sound, Contents
<1>4. /\ Tables' /\ Queues(queue)' /\ owed' \in SUBSET (Sides \X Ids)
      /\ \A t \in Sides, j \in Conns : phase[t][j] = "none" => phase'[t][j] = "none"
  BY <1>1, <1>2, <1>3, CloseTcpTypes DEF Sound
<1> QED BY <1>2, <1>4 DEF Sound, Numbers, Threads, Contents, Channels, Counted

\* What a writer finds in its queue.
LEMMA WriteFacts ==
    ASSUME Sound, NEW s \in Sides, NEW k \in Conns, Write(s, k)
    PROVE  /\ draining[s][k] \in Conns /\ queue[s][draining[s][k]] # <<>>
           /\ queue[s][draining[s][k]] \in Seq(Chunk \cup {Fin})
           /\ Queues([queue EXCEPT ![s][draining[s][k]] = Tail(@)])
           /\ Head(queue[s][draining[s][k]]) # Fin => Head(queue[s][draining[s][k]]) \in Chunk
<1>1. draining[s][k] \in Conns /\ queue[s][draining[s][k]] # <<>>
  BY DEF Write, Sound, Threads
<1>2. queue[s][draining[s][k]] \in Seq(Chunk \cup {Fin}) /\ Queues(queue)
  BY <1>1 DEF Sound, Contents, Queues
<1>3. Head(queue[s][draining[s][k]]) \in Chunk \cup {Fin} BY <1>1, <1>2, TailFacts
<1> QED BY <1>1, <1>2, <1>3, TailTypes

LEMMA WriteSound ==
    ASSUME Sound, NEW s \in Sides, NEW k \in Conns, Write(s, k) PROVE Sound'
<1> DEFINE from == draining[s][k]
           rest == [queue EXCEPT ![s][from] = Tail(@)]
           item == Head(queue[s][from])
<1>1. Queues(rest) /\ (item # Fin => item \in Chunk) BY WriteFacts
<1>2. idOf[k] \in Ids BY InUseNumbers DEF Write
<1>3. UNCHANGED <<mix, accepted, nextStream, idOf, connecting, reading, sent, net, restarts>>
  BY DEF Write
<1>4. \/ /\ item = Fin /\ queue' = rest /\ draining' = [draining EXCEPT ![s][k] = NoConn]
         /\ CloseSocket(s, k, "drained")
         /\ UNCHANGED <<tcp, writes, cancelled, got, owed>>
      \/ /\ item # Fin /\ queue' = rest
         /\ got' = [got EXCEPT ![s][k] = Append(@, item)]
         /\ UNCHANGED <<tcp, writes, cancelled, draining, phase, how, owed>>
      \/ /\ item # Fin /\ draining' = [draining EXCEPT ![s][k] = NoConn]
         /\ CloseTcp(s, idOf[k], "broken", rest) /\ UNCHANGED got
  BY DEF Write
<1>d. draining \in [Sides -> [Conns -> Conns \cup {NoConn}]]
      /\ got \in [Sides -> [Conns -> Seq(Chunk)]]
      /\ "drained" \in Reasons /\ "broken" \in Reasons
  BY Names DEF Sound, Threads, Contents
<1> HIDE DEF rest, item, from
<1>5. CASE /\ item = Fin /\ queue' = rest /\ draining' = [draining EXCEPT ![s][k] = NoConn]
           /\ CloseSocket(s, k, "drained")
           /\ UNCHANGED <<tcp, writes, cancelled, got, owed>>
  <2>1. /\ phase' \in [Sides -> [Conns -> Phases]]
        /\ how' \in [Sides -> [Conns -> Reasons]]
        /\ \A t \in Sides, j \in Conns : phase[t][j] = "none" => phase'[t][j] = "none"
    BY <1>5, <1>d, CloseSocketTypes DEF Sound
  <2>2. Tables' BY <1>3, <1>5, <2>1 DEF Sound, Tables
  <2>3. Threads' BY <1>3, <1>5, <1>d DEF Sound, Threads
  <2>4. Contents' BY <1>1, <1>3, <1>5 DEF Sound, Contents, Queues
  <2>5. Counted'
    <3>1. \A t \in Sides, j \in Conns : draining[t][j] = NoConn => draining'[t][j] = NoConn
      BY <1>5, <1>d
    <3> QED BY <1>3, <2>1, <3>1 DEF Sound, Counted
  <2> QED BY <1>3, <2>2, <2>3, <2>4, <2>5 DEF Sound, Numbers, Channels
<1>6. CASE /\ item # Fin /\ queue' = rest
           /\ got' = [got EXCEPT ![s][k] = Append(@, item)]
           /\ UNCHANGED <<tcp, writes, cancelled, draining, phase, how, owed>>
  <2>1. got' \in [Sides -> [Conns -> Seq(Chunk)]]
    <3>1. Append(got[s][k], item) \in Seq(Chunk) BY <1>1, <1>6, <1>d, AppendFacts
    <3> QED BY <1>6, <1>d, <3>1
  <2>2. Contents' BY <1>1, <1>3, <1>6, <2>1 DEF Sound, Contents, Queues
  <2> QED BY <1>3, <1>6, <2>2 DEF Sound, Numbers, Tables, Threads, Channels, Counted
<1>7. CASE /\ item # Fin /\ draining' = [draining EXCEPT ![s][k] = NoConn]
           /\ CloseTcp(s, idOf[k], "broken", rest) /\ UNCHANGED got
  <2>1. /\ Tables' /\ Queues(queue)' /\ owed' \in SUBSET (Sides \X Ids)
        /\ \A t \in Sides, j \in Conns : phase[t][j] = "none" => phase'[t][j] = "none"
    BY <1>1, <1>2, <1>3, <1>7, <1>d, CloseTcpTypes DEF Sound
  <2>2. draining' \in [Sides -> [Conns -> Conns \cup {NoConn}]]
        /\ \A t \in Sides, j \in Conns : draining[t][j] = NoConn => draining'[t][j] = NoConn
    BY <1>7, <1>d
  <2>3. Counted' BY <1>3, <2>1, <2>2 DEF Sound, Counted
  <2>4. Contents' BY <1>3, <1>7, <2>1 DEF Sound, Contents
  <2> QED BY <1>3, <2>1, <2>2, <2>3, <2>4 DEF Sound, Numbers, Threads, Channels
<1> QED BY <1>4, <1>5, <1>6, <1>7

LEMMA CollectSound ==
    ASSUME Sound, NEW s \in Sides, NEW k \in Conns, Collect(s, k) PROVE Sound'
<1>1. CloseSocket(s, k, "broken") /\ "broken" \in Reasons
      /\ UNCHANGED <<mix, accepted, nextStream, idOf, tcp, writes, connecting, cancelled,
                     reading, draining, queue, sent, got, net, owed, restarts>>
  BY Names DEF Collect
<1>2. /\ phase' \in [Sides -> [Conns -> Phases]]
      /\ how' \in [Sides -> [Conns -> Reasons]]
      /\ \A t \in Sides, j \in Conns : phase[t][j] = "none" => phase'[t][j] = "none"
  BY <1>1, CloseSocketTypes DEF Sound
<1> QED BY <1>1, <1>2
    DEF Sound, Numbers, Tables, Threads, Contents, Queues, Channels, Counted

LEMMA ReceiveDataSound ==
    ASSUME Sound, NEW s \in Sides, NEW packet, ReceiveData(s, packet) PROVE Sound'
<1>1. /\ packet \in Packet /\ packet.kind = "data" /\ Channels([net EXCEPT ![s] = Tail(@)])
  BY ReceivedTypes DEF ReceiveData
<1>2. packet.id \in Ids /\ packet.chunk \in Chunk \cup {Fin} BY <1>1 DEF Packet
<1>3. /\ net' = [net EXCEPT ![s] = Tail(@)]
      /\ UNCHANGED <<mix, accepted, nextStream, idOf, connecting, reading, draining, sent,
                     got, restarts>>
      /\ \/ /\ queue' = Offered(queue, s, writes[s][packet.id], packet.chunk)
            /\ UNCHANGED <<tcp, writes, cancelled, phase, how, owed>>
         \/ CloseTcp(s, packet.id, "overflow", queue)
  BY DEF ReceiveData
<1>4. Channels(net)' BY <1>1, <1>3 DEF Channels
<1>5. writes[s][packet.id] \in Conns \cup {NoConn} /\ Queues(queue) /\ "overflow" \in Reasons
  BY <1>2 DEF Sound, Tables, Contents, Reasons
<1>6. CASE /\ queue' = Offered(queue, s, writes[s][packet.id], packet.chunk)
           /\ UNCHANGED <<tcp, writes, cancelled, phase, how, owed>>
  <2>1. Queues(Offered(queue, s, writes[s][packet.id], packet.chunk))
    BY <1>2, <1>5, OfferTypes
  <2>2. Queues(queue)' BY <1>6, <2>1 DEF Queues
  <2> QED BY <1>3, <1>4, <1>6, <2>2 DEF Sound, Numbers, Tables, Threads, Contents, Counted
<1>7. CASE CloseTcp(s, packet.id, "overflow", queue)
  <2>1. /\ Tables' /\ Queues(queue)' /\ owed' \in SUBSET (Sides \X Ids)
        /\ \A t \in Sides, j \in Conns : phase[t][j] = "none" => phase'[t][j] = "none"
    BY <1>2, <1>3, <1>5, <1>7, CloseTcpTypes DEF Sound
  <2> QED BY <1>3, <1>4, <2>1 DEF Sound, Numbers, Threads, Contents, Counted
<1> QED BY <1>3, <1>6, <1>7

LEMMA ReceiveCloseSound ==
    ASSUME Sound, NEW s \in Sides, NEW packet, ReceiveClose(s, packet) PROVE Sound'
<1>1. /\ packet \in Packet /\ Channels([net EXCEPT ![s] = Tail(@)])
  BY ReceivedTypes DEF ReceiveClose
<1>2. packet.id \in Ids BY <1>1 DEF Packet
<1> DEFINE k == writes[s][packet.id]
<1>3. /\ net' = [net EXCEPT ![s] = Tail(@)] /\ TakeStream(s, packet.id)
      /\ UNCHANGED <<mix, accepted, nextStream, idOf, connecting, reading, draining, sent,
                     got, owed, restarts>>
      /\ queue' = Offered(queue, s, k, Fin)
      /\ CloseSocket(s, tcp[s][packet.id], "full") \/ UNCHANGED <<phase, how>>
  BY DEF ReceiveClose
<1>4. Channels(net)' BY <1>1, <1>3 DEF Channels
<1>5. /\ k \in Conns \cup {NoConn} /\ tcp[s][packet.id] \in Conns \cup {NoConn}
      /\ Queues(queue) /\ "full" \in Reasons
  BY <1>2 DEF Sound, Tables, Contents, Reasons
<1>6. Contents'
  <2>1. Queues(Offered(queue, s, k, Fin)) BY <1>5, OfferTypes
  <2>2. Queues(queue)' BY <1>3, <2>1 DEF Queues
  <2> QED BY <1>3, <2>2 DEF Sound, Contents
<1>7. /\ phase' \in [Sides -> [Conns -> Phases]]
      /\ how' \in [Sides -> [Conns -> Reasons]]
      /\ \A t \in Sides, j \in Conns : phase[t][j] = "none" => phase'[t][j] = "none"
  <2>1. CASE CloseSocket(s, tcp[s][packet.id], "full")
    BY <1>5, <2>1, CloseSocketTypes DEF Sound
  <2>2. CASE UNCHANGED <<phase, how>> BY <2>2 DEF Sound, Tables
  <2> QED BY <1>3, <2>1, <2>2
<1>8. Tables' BY <1>2, <1>3, <1>7, TakeStreamTypes DEF Sound, Tables
<1> QED BY <1>3, <1>4, <1>6, <1>7, <1>8 DEF Sound, Numbers, Threads, Counted

LEMMA SendCloseSound ==
    ASSUME Sound, NEW s \in Sides, NEW id \in Ids, SendClose(s, id) PROVE Sound'
<1> DEFINE p == Close(id)
<1>1. p \in Packet /\ p.kind # "open" BY Packets
<1>2. net' = net \/ net' = [net EXCEPT ![Other(s)] = Append(@, p)] BY DEF SendClose, Tell
<1> HIDE DEF p
<1>3. Channels([net EXCEPT ![Other(s)] = Append(@, p)])
  BY <1>1, SideFacts, SendTypes DEF Sound
<1>4. UNCHANGED <<mix, accepted, nextStream, idOf, phase, how, tcp, writes, connecting,
                  cancelled, reading, draining, queue, sent, got, restarts>>
      /\ owed' \subseteq owed
  BY DEF SendClose
<1> QED BY <1>2, <1>3, <1>4
    DEF Sound, Numbers, Tables, Threads, Contents, Queues, Channels, Counted

LEMMA RestartSound ==
    ASSUME Sound, NEW s \in Sides, Restart(s), nextStream' \in {1, nextStream},
           connecting' \subseteq connecting, cancelled' \subseteq cancelled
    PROVE  Sound'
<1>1. Numbers' BY DEF Restart, Sound, Numbers
<1>2. /\ phase' = [phase EXCEPT ![s] =
                     [k \in Conns |-> IF Stopped(s, k) THEN "closed" ELSE phase[s][k]]]
      /\ how' = [how EXCEPT ![s] =
                     [k \in Conns |-> IF Stopped(s, k) THEN "stopped" ELSE how[s][k]]]
      /\ phase \in [Sides -> [Conns -> Phases]] /\ how \in [Sides -> [Conns -> Reasons]]
      /\ "closed" \in Phases /\ "stopped" \in Reasons
  BY Names DEF Restart, Sound, Tables
<1>3. phase' \in [Sides -> [Conns -> Phases]]
  <2>1. [k \in Conns |-> IF Stopped(s, k) THEN "closed" ELSE phase[s][k]] \in [Conns -> Phases]
    BY <1>2
  <2> QED BY <1>2, <2>1
<1>4. how' \in [Sides -> [Conns -> Reasons]]
  <2>1. [k \in Conns |-> IF Stopped(s, k) THEN "stopped" ELSE how[s][k]] \in [Conns -> Reasons]
    BY <1>2
  <2> QED BY <1>2, <2>1
<1>5. tcp' \in [Sides -> [Ids -> Conns \cup {NoConn}]]
      /\ writes' \in [Sides -> [Ids -> Conns \cup {NoConn}]]
  BY DEF Restart, Sound, Tables
<1>6. Tables' BY <1>3, <1>4, <1>5 DEF Sound, Tables
<1>7. draining' \in [Sides -> [Conns -> Conns \cup {NoConn}]]
      /\ \A t \in Sides, j \in Conns : draining[t][j] = NoConn => draining'[t][j] = NoConn
  BY DEF Restart, Sound, Threads
<1>8. Threads' BY <1>7 DEF Restart, Sound, Threads
<1>9. \A t \in Sides, j \in Conns : phase[t][j] = "none" => phase'[t][j] = "none"
  BY <1>2 DEF Stopped
<1>10. Counted' BY <1>7, <1>9 DEF Restart, Sound, Counted
<1>11. Contents' /\ Channels(net)' BY DEF Restart, Sound, Contents, Queues, Channels
<1> QED BY <1>1, <1>6, <1>8, <1>10, <1>11 DEF Sound

LEMMA SoundNext == Sound /\ [Next]_vars => Sound'
<1> SUFFICES ASSUME Sound, [Next]_vars PROVE Sound'
  OBVIOUS
<1>1. ASSUME NEW k \in Conns, Accept(k) \/ AcceptUnannounced(k) \/ Connect(k) PROVE Sound'
  BY <1>1, AcceptSound, AcceptUnannouncedSound, ConnectFailsSound, ConnectEndsSound,
     ConnectSettlesSound DEF Connect
<1>2. ASSUME NEW s \in Sides, NEW k \in Conns,
             \/ ReadChunk(s, k)
             \/ \E why \in {"ended", "unsent"} : ReadEnds(s, k, why)
             \/ Write(s, k)
             \/ Collect(s, k)
      PROVE  Sound'
  BY <1>2, ReadChunkSound, ReadEndsSound, WriteSound, CollectSound
<1>3. ASSUME NEW s \in Sides, Receive(s) PROVE Sound'
  BY <1>3, ReceiveOpenSound, ReceiveDataSound, ReceiveCloseSound DEF Receive
<1>4. ASSUME NEW s \in Sides, NEW id \in Ids, SendClose(s, id) PROVE Sound'
  BY <1>4, SendCloseSound
<1>5. CASE ReopenLocally \/ RebuildHost
  BY <1>5, SideFacts, RestartSound DEF ReopenLocally, RebuildHost
<1>6. CASE UNCHANGED vars
  BY <1>6 DEF vars, Sound, Numbers, Tables, Threads, Contents, Queues, Channels, Counted
<1> QED BY <1>1, <1>2, <1>3, <1>4, <1>5, <1>6 DEF Next

\* What could not be sent is for the numbers of streams.
Refusals == untold \in SUBSET (Sides \X Ids)

LEMMA RefusalsNext == Sound /\ Refusals /\ [Next]_vars => Refusals'
<1> SUFFICES ASSUME Sound, Refusals, [Next]_vars PROVE Refusals'
  OBVIOUS
<1>1. ASSUME NEW k \in Conns, Accept(k) \/ AcceptUnannounced(k) \/ Connect(k)
      PROVE  Refusals'
  BY <1>1 DEF Accept, AcceptUnannounced, Connect, ConnectFails, ConnectEnds, ConnectSettles,
     Refusals
<1>2. ASSUME NEW s \in Sides, NEW k \in Conns,
             \/ ReadChunk(s, k) \/ Write(s, k) \/ Collect(s, k)
             \/ \E why \in {"ended", "unsent"} : ReadEnds(s, k, why)
      PROVE  Refusals'
  BY <1>2 DEF ReadChunk, ReadEnds, Write, Collect, Refusals
<1>3. ASSUME NEW packet, ReceiveOpen(packet) PROVE Refusals'
  <2>1. "host" \in Sides /\ packet.id \in Ids
    BY <1>3, SideFacts, ReceivedTypes DEF ReceiveOpen, Packet
  <2> QED BY <1>3, <2>1 DEF ReceiveOpen, Tell, Refusals
<1>4. ASSUME NEW s \in Sides, NEW packet, ReceiveData(s, packet) \/ ReceiveClose(s, packet)
      PROVE  Refusals'
  BY <1>4 DEF ReceiveData, ReceiveClose, Refusals
<1>5. ASSUME NEW s \in Sides, NEW id \in Ids, SendClose(s, id) PROVE Refusals'
  BY <1>5 DEF SendClose, Tell, Refusals
<1>6. CASE ReopenLocally \/ RebuildHost \/ UNCHANGED vars
  BY <1>6 DEF ReopenLocally, RebuildHost, Restart, vars, Refusals
<1> QED BY <1>1, <1>2, <1>3, <1>4, <1>5, <1>6 DEF Next, Receive

LEMMA SoundTypes == Sound /\ Refusals => TypeOK
<1> SUFFICES ASSUME Sound, Refusals PROVE TypeOK
  OBVIOUS
<1>1. nextStream \in 1 .. (MaxConns + 1) BY Constants DEF Sound, Numbers
<1>2. \A s \in Sides : sent[s] \in [Conns -> 0 .. mix.chunks[s]]
  <2>1. mix.chunks \in [Sides -> Nat] BY TunnelAssumption DEF Sound, Numbers
  <2>2. ASSUME NEW s \in Sides PROVE sent[s] \in [Conns -> 0 .. mix.chunks[s]]
    <3>1. sent[s] \in [Conns -> Nat] /\ \A k \in Conns : sent[s][k] <= mix.chunks[s]
      BY DEF Sound, Contents
    <3> QED BY <2>1, <3>1
  <2> QED BY <2>2
<1>3. \A s \in Sides, k \in Conns :
           /\ queue[s][k] \in Seq(Chunk \cup {Fin})
           /\ Len(queue[s][k]) <= QueueSize
           /\ got[s][k] \in Seq(Chunk)
  BY DEF Sound, Contents, Queues
<1>4. \A s \in Sides : net[s] \in Seq(Packet) BY DEF Sound, Channels
<1> QED BY <1>1, <1>2, <1>3, <1>4 
    DEF Sound, Refusals, Numbers, Tables, Threads, TypeOK

\* Both engines' tables, threads, queues and channels are of their kinds and
\* within their limits, for any number of connections and any restarts.
THEOREM TcpTypes == Spec => []TypeOK
<1>1. Spec => []Sound BY SoundInit, SoundNext, PTL DEF Spec
<1>2. Init => Refusals BY DEF Init, Refusals
<1>3. Spec => []Refusals BY <1>1, <1>2, RefusalsNext, PTL DEF Spec
<1> QED BY <1>1, <1>3, SoundTypes, PTL

-----------------------------------------------------------------------------
(* What a step leaves alone *)

LEMMA Shapes ==
    ASSUME Sound, NEW s \in Sides, NEW k \in Conns
    PROVE  /\ got[s][k] \in Seq(Chunk) /\ queue[s][k] \in Seq(Chunk \cup {Fin})
           /\ Len(got[s][k]) \in Nat /\ Len(queue[s][k]) \in Nat /\ Stored(s, k) \in Nat
           /\ sent[s][k] \in Nat /\ net[s] \in Seq(Packet) /\ k # NoConn /\ k \in Ids
           /\ \A n : <<k, n>> # Fin
<1>1. got[s][k] \in Seq(Chunk) /\ queue[s][k] \in Seq(Chunk \cup {Fin})
      /\ sent[s][k] \in Nat /\ net[s] \in Seq(Packet)
  BY DEF Sound, Contents, Queues, Channels
<1>2. Len(got[s][k]) \in Nat /\ Len(queue[s][k]) \in Nat BY <1>1
<1>3. k # NoConn /\ k \in Ids /\ k # 0 BY DEF Conns, Ids, NoConn
<1>4. \A n : <<k, n>> # Fin BY <1>3 DEF Fin
<1>5. Stored(s, k) \in Nat BY <1>2, Arithmetic, Zenon DEF Stored
<1> QED BY <1>1, <1>2, <1>3, <1>4, <1>5

Same(s, k) ==
    /\ phase'[s][k] = phase[s][k] /\ tcp'[s][k] = tcp[s][k] /\ writes'[s][k] = writes[s][k]
    /\ draining'[s][k] = draining[s][k] /\ queue'[s][k] = queue[s][k]
    /\ got'[s][k] = got[s][k] /\ sent'[s][k] = sent[s][k]
    /\ <<s, k>> \in reading' => <<s, k>> \in reading
    /\ s = "host" => /\ k \in cancelled' => k \in cancelled
                     /\ k \in connecting' => k \in connecting

Local(s, k) == Cell(s, k) /\ Written(s, k) /\ Queued(s, k)

LEMMA LocalKept ==
    ASSUME NEW s, NEW k, Local(s, k), Same(s, k) PROVE Local(s, k)'
<1>1. Cell(s, k)' BY DEF Local, Same, Cell
<1>2. Written(s, k)' BY DEF Local, Same, Written
<1>3. Queued(s, k)' BY DEF Local, Same, Queued
<1> QED BY <1>1, <1>2, <1>3 DEF Local

\* A step takes packets of connection k from a channel, or adds them to it; the
\* opening of a connection is only added with the connection.
Traffic(k) == \A s \in Sides :
    \/ net'[s] = net[s]
    \/ net[s] # <<>> /\ net'[s] = Tail(net[s]) /\ Head(net[s]).id = k
    \/ \E p \in Packet : net'[s] = Append(net[s], p) /\ p.id = k /\ p.kind # "open"

\* No data of k are added to a channel, or none taken from it either.
Spares(s, k) ==
    \/ net'[s] = net[s]
    \/ net[s] # <<>> /\ net'[s] = Tail(net[s])
    \/ \E p \in Packet : net'[s] = Append(net[s], p) /\ ~IsData(p, k)

Keeps(s, k) ==
    \/ net'[s] = net[s]
    \/ net[s] # <<>> /\ net'[s] = Tail(net[s]) /\ ~IsData(Head(net[s]), k)
    \/ \E p \in Packet : net'[s] = Append(net[s], p) /\ ~IsData(p, k)

LEMMA WireKept ==
    ASSUME Sound, NEW s \in Sides, NEW k \in Conns, Wire(s, k), Spares(s, k),
           sent'[Other(s)][k] = sent[Other(s)][k],
           Awaits(s, k)' => Awaits(s, k) /\ Stored(s, k)' = Stored(s, k) /\ Keeps(s, k)
    PROVE  Wire(s, k)'
<1> DEFINE all == sent[Other(s)][k]
           stored == Stored(s, k)
<1>1. net[s] \in Seq(Packet) BY Shapes
<1>2. Line(net[s], k, all) /\ (Awaits(s, k) => Due(net[s], k, stored, all)) BY DEF Wire
<1> HIDE DEF all, stored
<1>3. Line(net'[s], k, all)
  <2>1. CASE net'[s] = net[s] BY <1>2, <2>1
  <2>2. CASE net[s] # <<>> /\ net'[s] = Tail(net[s]) BY <1>1, <1>2, <2>2, LineTail
  <2>3. CASE \E p \in Packet : net'[s] = Append(net[s], p) /\ ~IsData(p, k)
    BY <1>1, <1>2, <2>3, LineAppend
  <2> QED BY <2>1, <2>2, <2>3 DEF Spares
<1>4. ASSUME Awaits(s, k)' PROVE Due(net'[s], k, stored, all)
  <2>0. Due(net[s], k, stored, all) /\ Keeps(s, k) BY <1>2, <1>4
  <2>1. CASE net'[s] = net[s] BY <2>0, <2>1
  <2>2. CASE net[s] # <<>> /\ net'[s] = Tail(net[s]) /\ ~IsData(Head(net[s]), k)
    BY <1>1, <2>0, <2>2, DueTail
  <2>3. CASE \E p \in Packet : net'[s] = Append(net[s], p) /\ ~IsData(p, k)
    BY <1>1, <2>0, <2>3, DueAppend
  <2> QED BY <2>0, <2>1, <2>2, <2>3 DEF Keeps
<1>5. sent'[Other(s)][k] = all BY DEF all
<1>6. Awaits(s, k)' => Stored(s, k)' = stored BY DEF stored
<1>7. Line(net'[s], k, sent'[Other(s)][k]) BY <1>3, <1>5
<1>8. Awaits(s, k)' => Due(net'[s], k, Stored(s, k)', sent'[Other(s)][k])
  BY <1>4, <1>5, <1>6
<1> QED BY <1>7, <1>8 DEF Wire

LEMMA TailShorter ==
    ASSUME NEW S, NEW n \in Seq(S), n # <<>>
    PROVE  n # Tail(n) /\ \A p \in S : Append(n, p) # Tail(n)
<1>1. Len(Tail(n)) = Len(n) - 1 /\ Len(n) \in Nat BY TailFacts
<1>2. Len(Tail(n)) # Len(n) BY <1>1, Arithmetic, Zenon
<1>3. ASSUME NEW p \in S PROVE Append(n, p) # Tail(n)
  <2>1. Len(Append(n, p)) = Len(n) + 1 BY AppendFacts
  <2>2. Len(Append(n, p)) # Len(Tail(n)) BY <1>1, <2>1, Arithmetic, Zenon
  <2> QED BY <2>2
<1> QED BY <1>2, <1>3

\* The openings under way are those of before.
LEMMA OpeningKept ==
    ASSUME Sound, NEW k \in Conns, NEW j \in Conns, Traffic(k), Opening(j),
           \/ phase["host"][j] = "none" => phase'["host"][j] = "none"
           \/ /\ net["host"] # <<>> /\ net'["host"] = Tail(net["host"])
              /\ Head(net["host"]).id = j
    PROVE  /\ Opening(j)' /\ (Pending(net'["host"], j) => Pending(net["host"], j))
           /\ net["host"] # <<>> /\ net'["host"] = Tail(net["host"])
                  /\ Head(net["host"]).id = j => ~Pending(net'["host"], j)
<1> DEFINE n == net["host"]
           m == net'["host"]
<1>1. n \in Seq(Packet) /\ Leads(n, j) /\ (Pending(n, j) => phase["host"][j] = "none")
  BY SideFacts DEF Opening, Sound, Channels
<1>2. \/ m = n
      \/ n # <<>> /\ m = Tail(n)
      \/ \E p \in Packet : m = Append(n, p) /\ ~IsOpen(p, j)
  BY SideFacts DEF Traffic, IsOpen
<1>3. /\ Leads(m, j) /\ (Pending(m, j) => Pending(n, j))
      /\ n # <<>> /\ m = Tail(n) /\ Head(n).id = j => ~Pending(m, j)
  <2> HIDE DEF n, m
  <2>1. CASE m = n BY <1>1, <2>1, TailShorter
  <2>2. CASE n # <<>> /\ m = Tail(n) BY <1>1, <2>2, LeadsTail
  <2>3. CASE \E p \in Packet : m = Append(n, p) /\ ~IsOpen(p, j)
    <3>1. PICK p \in Packet : m = Append(n, p) /\ ~IsOpen(p, j) BY <2>3
    <3>2. Leads(m, j) /\ (Pending(m, j) => Pending(n, j)) BY <1>1, <3>1, LeadsAppend
    <3>3. n # <<>> => m # Tail(n) BY <1>1, <3>1, TailShorter
    <3> QED BY <3>2, <3>3
  <2> QED BY <1>2, <2>1, <2>2, <2>3
<1>4. Pending(m, j) => phase'["host"][j] = "none" BY <1>1, <1>3
<1> QED BY <1>3, <1>4 DEF Opening

\* Nothing is sent for a number that was not given.
LEMMA FreshKept ==
    ASSUME Sound, Fresh, NEW top \in Nat, accepted <= top, accepted' = top,
           \A s \in Sides : \/ net'[s] = net[s]
                            \/ net[s] # <<>> /\ net'[s] = Tail(net[s])
                            \/ \E p \in Packet : net'[s] = Append(net[s], p) /\ p.id <= top,
           \A o \in owed' : o \in owed \/ o[2] <= top
    PROVE  Fresh'
<1>0. accepted \in Nat /\ \A p \in Packet : p.id \in Nat
  BY Constants DEF Sound, Numbers, Packet, Ids
<1>1. ASSUME NEW s \in Sides, NEW i \in DOMAIN net'[s] PROVE net'[s][i].id <= top
  <2>0. net[s] \in Seq(Packet) BY DEF Sound, Channels
  <2>1. \A j \in DOMAIN net[s] : net[s][j].id <= top
    <3>1. ASSUME NEW j \in DOMAIN net[s] PROVE net[s][j].id <= top
      <4>1. net[s][j].id <= accepted BY DEF Fresh
      <4>2. net[s][j].id \in Nat BY <1>0, <2>0
      <4> QED BY <1>0, <4>1, <4>2
    <3> QED BY <3>1
  <2>2. CASE net'[s] = net[s] BY <2>1, <2>2
  <2>3. CASE net[s] # <<>> /\ net'[s] = Tail(net[s])
    <3>1. i + 1 \in DOMAIN net[s] /\ net'[s][i] = net[s][i + 1] BY <2>0, <2>3, TailFacts
    <3> QED BY <2>1, <3>1
  <2>4. CASE \E p \in Packet : net'[s] = Append(net[s], p) /\ p.id <= top
    <3>1. PICK p \in Packet : net'[s] = Append(net[s], p) /\ p.id <= top BY <2>4
    <3>2. net'[s][i] = p \/ (i \in DOMAIN net[s] /\ net'[s][i] = net[s][i])
      BY <2>0, <3>1, AppendFacts
    <3> QED BY <2>1, <3>1, <3>2
  <2> QED BY <2>2, <2>3, <2>4
<1>2. ASSUME NEW o \in owed' PROVE o[2] <= top
  <2>1. CASE o \in owed
    <3>1. o[2] <= accepted BY <2>1 DEF Fresh
    <3>2. o[2] \in Nat BY <2>1 DEF Sound, Threads, Ids
    <3> QED BY <1>0, <3>1, <3>2
  <2> QED BY <2>1
<1> QED BY <1>1, <1>2 DEF Fresh

\* A connection that a step does not concern.
LEMMA OtherKept ==
    ASSUME Sound, NEW t \in Sides, NEW j \in Conns, Connection(t, j), Same(t, j), Keeps(t, j),
           sent'[Other(t)][j] = sent[Other(t)][j],
           t = "host" => (Pending(net'["host"], j) => Pending(net["host"], j))
    PROVE  Connection(t, j)'
<1>1. Local(t, j)' BY LocalKept DEF Connection, Local
<1>2. Spares(t, j) BY DEF Keeps, Spares
<1>3. Stored(t, j)' = Stored(t, j) BY DEF Same, Stored
<1>4. Awaits(t, j)' => Awaits(t, j) BY DEF Same, Awaits
<1>5. Wire(t, j)' BY <1>2, <1>3, <1>4, WireKept DEF Connection
<1> QED BY <1>1, <1>5 DEF Connection, Local

\* What is to be shown of a step that concerns connection k on side s.
LEMMA Assemble ==
    ASSUME Sound, Apart, NEW s \in Sides, NEW k \in Conns, k <= accepted,
           UNCHANGED <<accepted, nextStream, idOf>>, Traffic(k),
           \A o \in owed' : o \in owed \/ o[2] = k,
           \A t \in Sides, j \in Conns : t # s \/ j # k => Same(t, j),
           \/ phase["host"][k] = "none" => phase'["host"][k] = "none"
           \/ /\ net["host"] # <<>> /\ net'["host"] = Tail(net["host"])
              /\ Head(net["host"]).id = k,
           Local(s, k)', Wire(s, k)',
           Wire(Other(s), k)' \/ (Keeps(Other(s), k) /\ sent'[s][k] = sent[s][k])
    PROVE  Apart'
<1>1. Numbered' BY DEF Apart, Numbered
<1>2. Fresh'
  <2>1. accepted \in Nat BY Constants DEF Sound, Numbers
  <2>2. \A t \in Sides : \/ net'[t] = net[t]
                         \/ net[t] # <<>> /\ net'[t] = Tail(net[t])
                         \/ \E p \in Packet : net'[t] = Append(net[t], p) /\ p.id <= accepted
    BY DEF Traffic
  <2>3. accepted <= accepted BY <2>1
  <2> QED BY <2>1, <2>2, <2>3, FreshKept DEF Apart
<1>3. ASSUME NEW j \in Conns
      PROVE  Opening(j)' /\ (Pending(net'["host"], j) => Pending(net["host"], j))
  <2>1. CASE j = k BY <2>1, OpeningKept DEF Apart
  <2>2. CASE j # k
    <3>1. phase'["host"][j] = phase["host"][j] BY <2>2, SideFacts DEF Same
    <3> QED BY <3>1, OpeningKept DEF Apart
  <2> QED BY <2>1, <2>2
<1>4. ASSUME NEW t \in Sides, NEW j \in Conns PROVE Connection(t, j)'
  <2>1. CASE t = s /\ j = k BY <2>1 DEF Connection, Local
  <2>2. CASE t # s /\ j = k
    <3>1. Local(t, j)' BY <2>2, LocalKept DEF Apart, Connection, Local
    <3>2. t = Other(s) /\ Other(t) = s BY <2>2 DEF Sides, Other
    <3>3. CASE Keeps(Other(s), k) /\ sent'[s][k] = sent[s][k]
      BY <1>3, <2>2, <3>2, <3>3, OtherKept DEF Apart
    <3>4. CASE Wire(Other(s), k)' BY <2>2, <3>1, <3>2, <3>4 DEF Connection, Local
    <3> QED BY <3>3, <3>4
  <2>3. CASE j # k
    <3>1. Same(t, j) /\ Same(Other(t), j) BY <2>3, SideFacts
    <3>2. Keeps(t, j) BY <2>3 DEF Traffic, Keeps, IsData
    <3>3. sent'[Other(t)][j] = sent[Other(t)][j] BY <3>1 DEF Same
    <3> QED BY <1>3, <3>1, <3>2, <3>3, OtherKept DEF Apart
  <2> QED BY <2>1, <2>2, <2>3
<1> QED BY <1>1, <1>2, <1>3, <1>4 DEF Apart

-----------------------------------------------------------------------------
(* A stream is taken out of its tables *)

LEMMA TakeEffect ==
    ASSUME Sound, NEW s \in Sides, NEW k \in Conns, NEW q, Queues(q),
           writes[s][k] \in {NoConn, k}, TakeStream(s, k),
           queue' = Offered(q, s, writes[s][k], Fin)
    PROVE  /\ tcp'[s][k] = NoConn /\ writes'[s][k] = NoConn
           /\ \A t \in Sides, j \in Conns : t # s \/ j # k =>
                  /\ tcp'[t][j] = tcp[t][j] /\ writes'[t][j] = writes[t][j]
                  /\ queue'[t][j] = q[t][j]
           /\ \/ queue'[s][k] = q[s][k]
              \/ writes[s][k] = k /\ queue'[s][k] = Append(q[s][k], Fin)
<1>1. /\ tcp \in [Sides -> [Conns -> Conns \cup {NoConn}]]
      /\ writes \in [Sides -> [Conns -> Conns \cup {NoConn}]]
      /\ q \in [Sides -> [Conns -> Seq(Chunk \cup {Fin})]]
  BY DEF Sound, Tables, Queues, Ids, Conns
<1>2. tcp' = [tcp EXCEPT ![s][k] = NoConn] /\ writes' = [writes EXCEPT ![s][k] = NoConn]
  BY DEF TakeStream
<1>3. queue' = q \/ (writes[s][k] = k /\ queue' = [q EXCEPT ![s][k] = Append(@, Fin)])
  BY DEF Offered
<1>4. /\ tcp'[s][k] = NoConn /\ writes'[s][k] = NoConn
      /\ \A t \in Sides, j \in Conns : t # s \/ j # k =>
             tcp'[t][j] = tcp[t][j] /\ writes'[t][j] = writes[t][j]
  BY <1>1, <1>2
<1>5. CASE queue' = q BY <1>4, <1>5
<1>6. CASE writes[s][k] = k /\ queue' = [q EXCEPT ![s][k] = Append(@, Fin)]
  BY <1>1, <1>4, <1>6
<1> QED BY <1>3, <1>5, <1>6

LEMMA SocketEffect ==
    ASSUME Sound, NEW s \in Sides, NEW k \in Conns, NEW c \in {NoConn, k}, NEW why,
           CloseSocket(s, c, why)
    PROVE  /\ \/ phase'[s][k] = phase[s][k]
              \/ phase[s][k] = "open" /\ phase'[s][k] = "closed"
           /\ \A t \in Sides, j \in Conns : t # s \/ j # k => phase'[t][j] = phase[t][j]
<1>1. CASE UNCHANGED phase BY <1>1
<1>2. CASE phase[s][k] = "open" /\ phase' = [phase EXCEPT ![s][k] = "closed"]
  BY <1>2, PhasePut, Names DEF Sound
<1> QED BY <1>1, <1>2 DEF CloseSocket, NoConn

\* How a connection is left.
Left(s, k) ==
    /\ writes'[s][k] = NoConn /\ tcp'[s][k] = NoConn
    /\ \/ queue'[s][k] = queue[s][k]
       \/ writes[s][k] = k /\ queue'[s][k] = Append(queue[s][k], Fin)
    /\ \/ phase'[s][k] = phase[s][k]
       \/ phase[s][k] # "none" /\ phase'[s][k] = "closed"
       \/ phase[s][k] = "connecting" /\ phase'[s][k] = "failed"
    /\ draining'[s][k] \in {draining[s][k], NoConn}
    /\ got'[s][k] = got[s][k] /\ sent'[s][k] = sent[s][k]
    /\ <<s, k>> \in reading' => <<s, k>> \in reading
    /\ s = "host" => /\ k \in cancelled' => k \in cancelled \/ k \in connecting
                     /\ k \in connecting' => k \in connecting

LEMMA LeftLocal ==
    ASSUME Sound, NEW s \in Sides, NEW k \in Conns, Local(s, k), Left(s, k)
    PROVE  Local(s, k)'
<1>1. queue[s][k] \in Seq(Chunk \cup {Fin}) /\ k # NoConn /\ Fin \in Chunk \cup {Fin}
  BY Shapes
<1>2. Cell(s, k)'
  <2>1. writes'[s][k] \in {NoConn, k} /\ tcp'[s][k] \in {NoConn, writes'[s][k]}
        /\ draining'[s][k] \in {NoConn, k} /\ writes'[s][k] # k
    BY <1>1 DEF Left, Local, Cell
  <2>2. phase'[s][k] = "none" => queue'[s][k] = <<>> /\ sent'[s][k] = 0
    BY <1>1 DEF Left, Local, Cell, Early
  <2>3. phase'[s][k] \in Early \cup {"none", "failed"} =>
            draining'[s][k] = NoConn /\ got'[s][k] = <<>> /\ <<s, k>> \notin reading'
    BY DEF Left, Local, Cell, Early
  <2>4. s = "host" /\ phase'[s][k] = "none" => k \notin connecting' /\ k \notin cancelled'
    BY DEF Left, Local, Cell
  <2> QED BY <1>1, <2>1, <2>2, <2>3, <2>4 DEF Left, Cell
<1>3. Written(s, k)' BY DEF Left, Local, Written
<1>4. Queued(s, k)'
  <2> SUFFICES ASSUME draining'[s][k] = k \/ phase'[s][k] \in Early, NEW j \in DOMAIN queue'[s][k]
               PROVE  \/ queue'[s][k][j] = Fin /\ j = Len(queue'[s][k]) /\ writes'[s][k] = NoConn
                      \/ queue'[s][k][j] = <<k, Len(got'[s][k]) + j>>
    BY DEF Queued
  <2>1. draining[s][k] = k \/ phase[s][k] \in Early BY <1>1 DEF Left, Early
  <2>2. CASE queue'[s][k] = queue[s][k]
    BY <2>1, <2>2 DEF Left, Local, Queued
  <2>3. CASE writes[s][k] = k /\ queue'[s][k] = Append(queue[s][k], Fin)
    <3>1. /\ Len(queue'[s][k]) = Len(queue[s][k]) + 1
          /\ \/ j \in DOMAIN queue[s][k] /\ queue'[s][k][j] = queue[s][k][j]
             \/ j = Len(queue[s][k]) + 1 /\ queue'[s][k][j] = Fin
      BY <1>1, <2>3, AppendFacts
    <3>2. CASE j \in DOMAIN queue[s][k] /\ queue'[s][k][j] = queue[s][k][j]
      <4>1. queue[s][k][j] = <<k, Len(got[s][k]) + j>>
        BY <1>1, <2>1, <2>3, <3>2 DEF Local, Queued
      <4> QED BY <3>2, <4>1 DEF Left
    <3>3. CASE j = Len(queue[s][k]) + 1 /\ queue'[s][k][j] = Fin
      BY <3>1, <3>3 DEF Left
    <3> QED BY <3>1, <3>2, <3>3
  <2> QED BY <2>2, <2>3 DEF Left
<1> QED BY <1>2, <1>3, <1>4 DEF Local

LEMMA LeftWire ==
    ASSUME Sound, NEW s \in Sides, NEW k \in Conns, Cell(s, k), Wire(s, k), Opening(k),
           writes'[s][k] = NoConn, got'[s][k] = got[s][k],
           \/ queue'[s][k] = queue[s][k]
           \/ phase[s][k] # "none",
           Spares(s, k), sent'[Other(s)][k] = sent[Other(s)][k],
           s = "host" /\ Pending(net'["host"], k) => net'["host"] = net["host"]
    PROVE  Wire(s, k)'
<1>1. k # NoConn BY Shapes
<1>2. ASSUME Awaits(s, k)'
      PROVE  Awaits(s, k) /\ Stored(s, k)' = Stored(s, k) /\ Keeps(s, k)
  <2>1. s = "host" /\ Pending(net'["host"], k) BY <1>1, <1>2 DEF Awaits
  <2>2. net'[s] = net[s] /\ Pending(net["host"], k) BY <2>1
  <2>3. phase[s][k] = "none" BY <2>1, <2>2 DEF Opening
  <2>4. queue'[s][k] = queue[s][k] BY <2>3
  <2> QED BY <2>1, <2>2, <2>4 DEF Awaits, Stored, Keeps
<1> QED BY <1>2, WireKept

\* A step by which one side leaves a connection, and takes at most one packet of it.
LEMMA LeftApart ==
    ASSUME Sound, Apart, NEW s \in Sides, NEW k \in Conns, k <= accepted,
           UNCHANGED <<accepted, nextStream, idOf>>, Left(s, k), Traffic(k),
           \A t \in Sides, j \in Conns : t # s \/ j # k => Same(t, j),
           \/ net'[s] = net[s]
           \/ net[s] # <<>> /\ net'[s] = Tail(net[s]) /\ Head(net[s]).id = k,
           Keeps(Other(s), k),
           \A o \in owed' : o \in owed \/ o[2] = k
    PROVE  Apart'
<1>1. Local(s, k) /\ Wire(s, k) /\ Cell(s, k) /\ Opening(k)
  BY DEF Apart, Connection, Local
<1>2. Local(s, k)' BY <1>1, LeftLocal
<1>3. \/ phase["host"][k] = "none" => phase'["host"][k] = "none"
      \/ /\ net["host"] # <<>> /\ net'["host"] = Tail(net["host"])
         /\ Head(net["host"]).id = k
  <2>1. CASE s = "host" BY <2>1 DEF Left
  <2>2. CASE s # "host" BY <2>2, SideFacts DEF Same
  <2> QED BY <2>1, <2>2
<1>4. /\ Pending(net'["host"], k) => Pending(net["host"], k)
      /\ net["host"] # <<>> /\ net'["host"] = Tail(net["host"])
             /\ Head(net["host"]).id = k => ~Pending(net'["host"], k)
  BY <1>1, <1>3, OpeningKept
<1>5. writes'[s][k] = NoConn /\ got'[s][k] = got[s][k]
      /\ (queue'[s][k] = queue[s][k] \/ phase[s][k] # "none")
  BY <1>1, Shapes, Names DEF Left, Cell, Early
<1>6. Spares(s, k) BY DEF Spares
<1>7. sent'[Other(s)][k] = sent[Other(s)][k] BY SideFacts DEF Same
<1>8. Wire(s, k)' BY <1>1, <1>4, <1>5, <1>6, <1>7, LeftWire
<1>9. sent'[s][k] = sent[s][k] BY DEF Left
<1> QED BY <1>2, <1>3, <1>8, <1>9, Assemble

-----------------------------------------------------------------------------
(* The steps *)

\* With the client's first engine, a connection in use has its own number.
LEMMA Own ==
    ASSUME Sound, Apart, NEW s \in Sides, NEW k \in Conns,
           phase[s][k] # "none" \/ <<s, k>> \in reading \/ draining[s][k] # NoConn
    PROVE  k <= accepted /\ idOf[k] = k
BY InUseNumbers DEF Apart, Numbered

\* What CloseTcp does to the tables, the queues and the sockets.
LEMMA CloseTcpEffect ==
    ASSUME Sound, Apart, NEW s \in Sides, NEW k \in Conns, NEW why, NEW q, Queues(q),
           CloseTcp(s, k, why, q)
    PROVE  /\ tcp'[s][k] = NoConn /\ writes'[s][k] = NoConn
           /\ \A t \in Sides, j \in Conns : t # s \/ j # k =>
                  /\ tcp'[t][j] = tcp[t][j] /\ writes'[t][j] = writes[t][j]
                  /\ queue'[t][j] = q[t][j] /\ phase'[t][j] = phase[t][j]
                  /\ t = "host" => (j \in cancelled' => j \in cancelled)
           /\ \/ queue'[s][k] = q[s][k]
              \/ writes[s][k] = k /\ queue'[s][k] = Append(q[s][k], Fin)
           /\ \/ phase'[s][k] = phase[s][k]
              \/ phase[s][k] = "open" /\ phase'[s][k] = "closed"
           /\ s = "host" => (k \in cancelled' => k \in cancelled \/ k \in connecting)
           /\ \A o \in owed' : o \in owed \/ o[2] = k
<1>1. writes[s][k] \in {NoConn, k} /\ tcp[s][k] \in {NoConn, k}
  BY DEF Apart, Connection, Cell
<1>2. TakeStream(s, k) /\ CloseSocket(s, tcp[s][k], why)
      /\ queue' = Offered(q, s, writes[s][k], Fin)
  BY DEF CloseTcp
<1>3. \A o \in owed' : o \in owed \/ o[2] = k BY DEF CloseTcp
<1>4. \A t \in Sides, j \in Conns : (t # s \/ j # k) /\ t = "host" => (j \in cancelled' => j \in cancelled)
  BY <1>2, SideFacts DEF TakeStream
<1>5. s = "host" => (k \in cancelled' => k \in cancelled \/ k \in connecting)
  BY <1>2 DEF TakeStream
<1>6. /\ tcp'[s][k] = NoConn /\ writes'[s][k] = NoConn
      /\ \A t \in Sides, j \in Conns : t # s \/ j # k =>
             /\ tcp'[t][j] = tcp[t][j] /\ writes'[t][j] = writes[t][j]
             /\ queue'[t][j] = q[t][j]
      /\ \/ queue'[s][k] = q[s][k]
         \/ writes[s][k] = k /\ queue'[s][k] = Append(q[s][k], Fin)
  BY <1>1, <1>2, TakeEffect
<1>7. /\ \/ phase'[s][k] = phase[s][k]
         \/ phase[s][k] = "open" /\ phase'[s][k] = "closed"
      /\ \A t \in Sides, j \in Conns : t # s \/ j # k => phase'[t][j] = phase[t][j]
  BY <1>1, <1>2, SocketEffect
<1> QED BY <1>3, <1>4, <1>5, <1>6, <1>7

LEMMA ReadEndsApart ==
    ASSUME Sound, Apart, NEW s \in Sides, NEW k \in Conns, NEW why, ReadEnds(s, k, why)
    PROVE  Apart'
<1>1. k <= accepted /\ idOf[k] = k BY Own DEF ReadEnds
<1>2. CloseTcp(s, k, why, queue) /\ Queues(queue)
      /\ UNCHANGED <<mix, accepted, nextStream, idOf, connecting, draining, sent, got, net,
                     restarts>>
      /\ reading' \subseteq reading
  BY <1>1 DEF ReadEnds, Sound, Contents
<1>3. /\ tcp'[s][k] = NoConn /\ writes'[s][k] = NoConn
      /\ \A t \in Sides, j \in Conns : t # s \/ j # k =>
             /\ tcp'[t][j] = tcp[t][j] /\ writes'[t][j] = writes[t][j]
             /\ queue'[t][j] = queue[t][j] /\ phase'[t][j] = phase[t][j]
             /\ t = "host" => (j \in cancelled' => j \in cancelled)
      /\ \/ queue'[s][k] = queue[s][k]
         \/ writes[s][k] = k /\ queue'[s][k] = Append(queue[s][k], Fin)
      /\ \/ phase'[s][k] = phase[s][k]
         \/ phase[s][k] = "open" /\ phase'[s][k] = "closed"
      /\ s = "host" => (k \in cancelled' => k \in cancelled \/ k \in connecting)
      /\ \A o \in owed' : o \in owed \/ o[2] = k
  BY <1>2, CloseTcpEffect
<1>4. Left(s, k) BY <1>2, <1>3 DEF Left
<1>5. \A t \in Sides, j \in Conns : t # s \/ j # k => Same(t, j) BY <1>2, <1>3 DEF Same
<1>6. Traffic(k) /\ Keeps(Other(s), k) /\ net'[s] = net[s] BY <1>2 DEF Traffic, Keeps
<1> QED BY <1>1, <1>2, <1>3, <1>4, <1>5, <1>6, LeftApart

LEMMA CollectApart ==
    ASSUME Sound, Apart, NEW s \in Sides, NEW k \in Conns, Collect(s, k) PROVE Apart'
<1>1. k <= accepted /\ idOf[k] = k BY Own DEF Collect
<1>2. /\ CloseSocket(s, k, "broken") /\ tcp[s][k] # k /\ draining[s][k] = NoConn
      /\ phase[s][k] = "open"
      /\ UNCHANGED <<mix, accepted, nextStream, idOf, tcp, writes, connecting, cancelled,
                     reading, draining, queue, sent, got, net, owed, restarts>>
  BY <1>1 DEF Collect
<1>3. writes[s][k] = NoConn /\ tcp[s][k] = NoConn
  <2>1. Cell(s, k) /\ k # NoConn BY Shapes DEF Apart, Connection
  <2>2. writes[s][k] # k BY <1>2, <2>1 DEF Cell, Early
  <2> QED BY <1>2, <2>1, <2>2 DEF Cell
<1>4. /\ \/ phase'[s][k] = phase[s][k]
         \/ phase[s][k] = "open" /\ phase'[s][k] = "closed"
      /\ \A t \in Sides, j \in Conns : t # s \/ j # k => phase'[t][j] = phase[t][j]
  BY <1>2, SocketEffect
<1>5. Left(s, k) BY <1>2, <1>3, <1>4 DEF Left
<1>6. \A t \in Sides, j \in Conns : t # s \/ j # k => Same(t, j) BY <1>2, <1>4 DEF Same
<1>7. Traffic(k) /\ Keeps(Other(s), k) /\ net'[s] = net[s] BY <1>2 DEF Traffic, Keeps
<1> QED BY <1>1, <1>2, <1>5, <1>6, <1>7, LeftApart

\* While the client has its first engine, the stream that fails has no socket.
LEMMA FailsAlone ==
    ASSUME Sound, Apart, NEW k \in Conns, ConnectFails(k)
    PROVE  /\ phase["host"][k] = "connecting"
           /\ phase'["host"][k] = "failed" /\ how'["host"][k] = "refused"
           /\ \A t \in Sides, j \in Conns : t # "host" \/ j # k =>
                  phase'[t][j] = phase[t][j] /\ how'[t][j] = how[t][j]
<1>s. "host" \in Sides BY SideFacts
<1>1. k <= accepted /\ idOf[k] = k BY <1>s, Own DEF ConnectFails
<1>2. tcp["host"][k] \in {NoConn, k} BY <1>s DEF Apart, Connection, Cell
<1>3. NoConn \notin Conns BY Constants DEF NoConn, Conns
<1> DEFINE other == {j \in Conns \ {k} : tcp["host"][idOf[k]] = j /\ phase["host"][j] = "open"}
<1>4. other = {} BY <1>1, <1>2, <1>3
<1>5. /\ phase["host"][k] = "connecting"
      /\ phase' = [phase EXCEPT !["host"] =
                     [j \in Conns |-> IF j = k THEN "failed"
                                      ELSE IF j \in other THEN "closed" ELSE @[j]]]
      /\ how' = [how EXCEPT !["host"] =
                     [j \in Conns |-> IF j \in other \cup {k} THEN "refused" ELSE @[j]]]
  BY Zenon DEF ConnectFails
<1>6. phase \in [Sides -> [Conns -> Phases]] /\ how \in [Sides -> [Conns -> Reasons]]
  BY DEF Sound, Tables
<1> HIDE DEF other
<1>7. \A t \in Sides, j \in Conns : phase'[t][j] =
          IF t = "host" /\ j = k THEN "failed" ELSE phase[t][j]
  BY <1>s, <1>4, <1>5, <1>6
<1>8. \A t \in Sides, j \in Conns : how'[t][j] =
          IF t = "host" /\ j = k THEN "refused" ELSE how[t][j]
  BY <1>s, <1>4, <1>5, <1>6
<1> QED BY <1>s, <1>5, <1>7, <1>8

LEMMA ConnectFailsApart ==
    ASSUME Sound, Apart, NEW k \in Conns, ConnectFails(k) PROVE Apart'
<1>s. "host" \in Sides BY SideFacts
<1>1. k <= accepted /\ idOf[k] = k BY <1>s, Own DEF ConnectFails
<1>2. /\ TakeStream("host", k) /\ Queues(queue)
      /\ queue' = Offered(queue, "host", writes["host"][k], Fin)
      /\ \A o \in owed' : o \in owed \/ o[2] = k
      /\ UNCHANGED <<mix, accepted, nextStream, idOf, connecting, reading, draining, sent,
                     got, net, restarts>>
  BY <1>1 DEF ConnectFails, Sound, Contents
<1>3. writes["host"][k] \in {NoConn, k} BY <1>s DEF Apart, Connection, Cell
<1>4. /\ tcp'["host"][k] = NoConn /\ writes'["host"][k] = NoConn
      /\ \A t \in Sides, j \in Conns : t # "host" \/ j # k =>
             /\ tcp'[t][j] = tcp[t][j] /\ writes'[t][j] = writes[t][j]
             /\ queue'[t][j] = queue[t][j]
      /\ \/ queue'["host"][k] = queue["host"][k]
         \/ writes["host"][k] = k /\ queue'["host"][k] = Append(queue["host"][k], Fin)
  BY <1>s, <1>2, <1>3, TakeEffect
<1>5. /\ phase'["host"][k] = "failed"
      /\ \A t \in Sides, j \in Conns : t # "host" \/ j # k => phase'[t][j] = phase[t][j]
      /\ phase["host"][k] = "connecting"
  BY FailsAlone
<1>6. /\ \A t \in Sides, j \in Conns : (t # "host" \/ j # k) /\ t = "host" =>
             (j \in cancelled' => j \in cancelled)
      /\ k \in cancelled' => k \in cancelled \/ k \in connecting
  BY <1>2 DEF TakeStream
<1>7. Left("host", k) BY <1>2, <1>4, <1>5, <1>6 DEF Left
<1>8. \A t \in Sides, j \in Conns : t # "host" \/ j # k => Same(t, j)
  BY <1>2, <1>4, <1>5, <1>6 DEF Same
<1>9. Traffic(k) /\ Keeps(Other("host"), k) /\ net'["host"] = net["host"]
  BY <1>2 DEF Traffic, Keeps
<1> QED BY <1>s, <1>1, <1>2, <1>7, <1>8, <1>9, LeftApart

\* What is the case of a connection, part by part.
LEMMA Parts ==
    ASSUME Apart, NEW s \in Sides, NEW k \in Conns
    PROVE  /\ Cell(s, k) /\ Written(s, k) /\ Queued(s, k) /\ Local(s, k)
           /\ Wire(s, k) /\ Opening(k)
BY DEF Apart, Connection, Local

LEMMA ConnectEndsApart ==
    ASSUME Sound, Apart, NEW k \in Conns, ConnectEnds(k) PROVE Apart'
<1>s. "host" \in Sides BY SideFacts
<1>1. k <= accepted /\ idOf[k] = k BY <1>s, Own DEF ConnectEnds
<1>2. /\ phase["host"][k] \in {"connecting", "failed"} /\ connecting' = connecting \ {k}
      /\ phase' = [phase EXCEPT !["host"][k] = IF @ = "failed" THEN "closed" ELSE "connected"]
      /\ UNCHANGED <<mix, accepted, nextStream, idOf, how, tcp, writes, cancelled, reading,
                     draining, queue, sent, got, net, owed, restarts>>
  BY <1>1 DEF ConnectEnds
<1>3. \/ phase["host"][k] = "connecting" /\ phase'["host"][k] = "connected"
      \/ phase["host"][k] = "failed" /\ phase'["host"][k] = "closed"
  BY <1>s, <1>2 DEF Sound, Tables
<1>4. \A t \in Sides, j \in Conns : t # "host" \/ j # k => phase'[t][j] = phase[t][j]
  BY <1>s, <1>2 DEF Sound, Tables
<1>5. \A t \in Sides, j \in Conns : t # "host" \/ j # k => Same(t, j)
  BY <1>2, <1>4 DEF Same
<1>p. /\ Cell("host", k) /\ Written("host", k) /\ Queued("host", k) /\ Wire("host", k)
  BY <1>s, Parts
<1>6. Local("host", k)'
  <2>1. Cell("host", k)' BY <1>2, <1>3, <1>p DEF Cell, Early
  <2>2. Written("host", k)' BY <1>2, <1>p DEF Written
  <2>3. Queued("host", k)' BY <1>2, <1>3, <1>p DEF Queued, Early
  <2> QED BY <2>1, <2>2, <2>3 DEF Local
<1>7. Wire("host", k)' BY <1>2, <1>p DEF Wire, Awaits, Stored
<1>8. Traffic(k) /\ Keeps(Other("host"), k) BY <1>2 DEF Traffic, Keeps
<1>9. sent'["host"][k] = sent["host"][k] /\ \A o \in owed' : o \in owed \/ o[2] = k
  BY <1>2
<1>10. phase["host"][k] = "none" => phase'["host"][k] = "none" BY <1>3
<1> QED BY <1>s, <1>1, <1>2, <1>5, <1>6, <1>7, <1>8, <1>9, <1>10, Assemble

LEMMA ConnectSettlesApart ==
    ASSUME Sound, Apart, NEW k \in Conns, ConnectSettles(k) PROVE Apart'
<1>s. "host" \in Sides BY SideFacts
<1>1. k <= accepted /\ idOf[k] = k BY <1>s, Own DEF ConnectSettles
<1>2. /\ phase["host"][k] = "connected" /\ cancelled' = cancelled \ {k}
      /\ UNCHANGED <<mix, accepted, nextStream, idOf, writes, connecting, queue, sent, got,
                     net, owed, restarts>>
  BY <1>1 DEF ConnectSettles
<1>3. \/ /\ k \in cancelled \/ writes["host"][k] = NoConn
         /\ phase' = [phase EXCEPT !["host"][k] = "closed"]
         /\ UNCHANGED <<tcp, reading, draining>>
      \/ /\ writes["host"][k] # NoConn /\ k \notin cancelled
         /\ phase' = [phase EXCEPT !["host"][k] = "open"]
         /\ tcp' = [tcp EXCEPT !["host"][k] = k]
         /\ reading' = reading \cup {<<"host", k>>}
         /\ draining' = [draining EXCEPT !["host"][k] = writes["host"][k]]
  BY <1>1 DEF ConnectSettles
<1>4. Traffic(k) /\ Keeps(Other("host"), k) BY <1>2 DEF Traffic, Keeps
<1>5. sent'["host"][k] = sent["host"][k] /\ \A o \in owed' : o \in owed \/ o[2] = k
  BY <1>2
<1>p. /\ Cell("host", k) /\ Written("host", k) /\ Queued("host", k) /\ Wire("host", k)
  BY <1>s, Parts
<1>6. CASE /\ k \in cancelled \/ writes["host"][k] = NoConn
           /\ phase' = [phase EXCEPT !["host"][k] = "closed"]
           /\ UNCHANGED <<tcp, reading, draining>>
  <2>1. writes["host"][k] = NoConn /\ tcp["host"][k] = NoConn BY <1>6, <1>p DEF Cell
  <2>2. phase'["host"][k] = "closed"
        /\ \A t \in Sides, j \in Conns : t # "host" \/ j # k => phase'[t][j] = phase[t][j]
    BY <1>s, <1>6 DEF Sound, Tables
  <2>3. Left("host", k) BY <1>2, <1>6, <2>1, <2>2 DEF Left
  <2>4. \A t \in Sides, j \in Conns : t # "host" \/ j # k => Same(t, j)
    BY <1>2, <1>6, <2>2 DEF Same
  <2> QED BY <1>s, <1>1, <1>2, <1>4, <1>5, <2>3, <2>4, LeftApart
<1>7. CASE /\ writes["host"][k] # NoConn /\ k \notin cancelled
           /\ phase' = [phase EXCEPT !["host"][k] = "open"]
           /\ tcp' = [tcp EXCEPT !["host"][k] = k]
           /\ reading' = reading \cup {<<"host", k>>}
           /\ draining' = [draining EXCEPT !["host"][k] = writes["host"][k]]
  <2>1. writes["host"][k] = k BY <1>7, <1>p DEF Cell
  <2>2. phase'["host"][k] = "open"
        /\ \A t \in Sides, j \in Conns : t # "host" \/ j # k => phase'[t][j] = phase[t][j]
    BY <1>s, <1>7 DEF Sound, Tables
  <2>3. tcp'["host"][k] = k
        /\ \A t \in Sides, j \in Conns : t # "host" \/ j # k => tcp'[t][j] = tcp[t][j]
    BY <1>s, <1>7 DEF Sound, Tables, Ids, Conns
  <2>4. draining'["host"][k] = k
        /\ \A t \in Sides, j \in Conns : t # "host" \/ j # k => draining'[t][j] = draining[t][j]
    BY <1>s, <1>7, <2>1 DEF Sound, Threads
  <2>5. \A t \in Sides, j \in Conns : t # "host" \/ j # k =>
            (<<t, j>> \in reading' => <<t, j>> \in reading)
    BY <1>7
  <2>6. \A t \in Sides, j \in Conns : t # "host" \/ j # k => Same(t, j)
    BY <1>2, <2>2, <2>3, <2>4, <2>5 DEF Same
  <2>7. Local("host", k)'
    <3>1. Cell("host", k)' BY <1>2, <1>p, <2>1, <2>2, <2>3, <2>4 DEF Cell, Early
    <3>2. Written("host", k)' BY <1>2, <1>p DEF Written
    <3>3. Queued("host", k)' BY <1>2, <1>p DEF Queued, Early
    <3> QED BY <3>1, <3>2, <3>3 DEF Local
  <2>8. Wire("host", k)' BY <1>2, <1>p DEF Wire, Awaits, Stored
  <2>9. phase["host"][k] = "none" => phase'["host"][k] = "none" BY <1>2
  <2> QED BY <1>s, <1>1, <1>2, <1>4, <1>5, <2>6, <2>7, <2>8, <2>9, Assemble
<1> QED BY <1>3, <1>6, <1>7

LEMMA ReadChunkApart ==
    ASSUME Sound, Apart, NEW s \in Sides, NEW k \in Conns, ReadChunk(s, k) PROVE Apart'
<1>o. Other(s) \in Sides /\ Other(s) # s /\ Other(Other(s)) = s BY SideFacts
<1>1. k <= accepted /\ idOf[k] = k BY Own DEF ReadChunk
<1> DEFINE all == sent[s][k]
           p == Data(<<k, all + 1>>, k)
<1>2. /\ phase[s][k] = "open" /\ sent' = [sent EXCEPT ![s][k] = @ + 1]
      /\ net' = [net EXCEPT ![Other(s)] = Append(@, p)]
      /\ UNCHANGED <<mix, accepted, nextStream, idOf, phase, how, tcp, writes, connecting,
                     cancelled, reading, draining, queue, got, owed, restarts>>
  BY <1>1 DEF ReadChunk, Sending
<1>3. all \in Nat /\ net[Other(s)] \in Seq(Packet) /\ Stored(Other(s), k) \in Nat
  BY <1>o, Shapes
<1>4. /\ p \in Packet /\ IsData(p, k) /\ p.id = k /\ p.kind = "data"
      /\ p.chunk = <<k, all + 1>>
  <2>1. <<k, all + 1>> \in Chunk /\ k \in Ids BY <1>3, Shapes DEF Chunk
  <2> QED BY <2>1, Packets DEF IsData
<1>5. /\ sent'[s][k] = all + 1
      /\ \A t \in Sides, j \in Conns : t # s \/ j # k => sent'[t][j] = sent[t][j]
  BY <1>2 DEF Sound, Contents
<1>6. net'[s] = net[s] /\ net'[Other(s)] = Append(net[Other(s)], p)
  BY <1>o, <1>2 DEF Sound, Channels
<1> HIDE DEF all, p
<1>7. Traffic(k)
  <2>1. ASSUME NEW t \in Sides
        PROVE  net'[t] = net[t] \/ \E x \in Packet : net'[t] = Append(net[t], x)
                                                     /\ x.id = k /\ x.kind # "open"
    <3>1. t = s \/ t = Other(s) BY DEF Sides, Other
    <3> QED BY <1>4, <1>6, <3>1
  <2> QED BY <2>1 DEF Traffic
<1>8. \A t \in Sides, j \in Conns : t # s \/ j # k => Same(t, j) BY <1>2, <1>5 DEF Same
<1>p. /\ Cell(s, k) /\ Written(s, k) /\ Queued(s, k) /\ Wire(s, k) /\ Wire(Other(s), k)
      /\ Opening(k)
  BY <1>o, Parts
<1>9. Local(s, k)'
  <2>1. Cell(s, k)' BY <1>2, <1>p DEF Cell
  <2>2. Written(s, k)' /\ Queued(s, k)' BY <1>2, <1>p DEF Written, Queued
  <2> QED BY <2>1, <2>2 DEF Local
<1>10. phase["host"][k] = "none" => phase'["host"][k] = "none" BY <1>2
<1>11. Pending(net'["host"], k) => Pending(net["host"], k) BY <1>7, <1>10, <1>p, OpeningKept
<1>12. Wire(s, k)'
  <2>1. Spares(s, k) /\ Keeps(s, k) BY <1>6 DEF Spares, Keeps
  <2>2. sent'[Other(s)][k] = sent[Other(s)][k] BY <1>o, <1>5
  <2>3. Awaits(s, k)' => Awaits(s, k) BY <1>2, <1>11 DEF Awaits
  <2>4. Stored(s, k)' = Stored(s, k) BY <1>2 DEF Stored
  <2> QED BY <1>p, <2>1, <2>2, <2>3, <2>4, WireKept
<1>13. Wire(Other(s), k)'
  <2>1. Line(net[Other(s)], k, all) BY <1>o, <1>p DEF Wire, all
  <2>2. Line(net'[Other(s)], k, all + 1) BY <1>3, <1>4, <1>6, <2>1, LineData
  <2>3. Awaits(Other(s), k)' => Awaits(Other(s), k) BY <1>2, <1>11 DEF Awaits
  <2>4. Stored(Other(s), k)' = Stored(Other(s), k) BY <1>2 DEF Stored
  <2>5. ASSUME Awaits(Other(s), k)'
        PROVE  Due(net'[Other(s)], k, Stored(Other(s), k), all + 1)
    <3>1. Due(net[Other(s)], k, Stored(Other(s), k), all)
      BY <1>o, <1>p, <2>3, <2>5 DEF Wire, all
    <3> DEFINE stored == Stored(Other(s), k)
    <3>2. stored \in Nat /\ Due(net[Other(s)], k, stored, all) BY <1>3, <3>1
    <3> HIDE DEF stored
    <3>3. Due(net'[Other(s)], k, stored, all + 1) BY <1>3, <1>4, <1>6, <3>2, DueData
    <3> QED BY <3>3 DEF stored
  <2>6. sent'[Other(Other(s))][k] = all + 1 BY <1>o, <1>5
  <2> QED BY <2>2, <2>4, <2>5, <2>6 DEF Wire
<1>14. \A o \in owed' : o \in owed \/ o[2] = k BY <1>2
<1> QED BY <1>1, <1>2, <1>7, <1>8, <1>9, <1>10, <1>12, <1>13, <1>14, Assemble

LEMMA SendCloseApart ==
    ASSUME Sound, Apart, NEW s \in Sides, NEW k \in Conns, SendClose(s, k) PROVE Apart'
<1>o. Other(s) \in Sides /\ Other(s) # s /\ Other(Other(s)) = s BY SideFacts
<1> DEFINE p == Close(k)
           r == Other(s)
<1>1. k <= accepted
  <2>1. <<s, k>> \in owed BY DEF SendClose
  <2>2. <<s, k>>[2] <= accepted BY <2>1 DEF Apart, Fresh
  <2> QED BY <2>2
<1>2. /\ net' = net \/ net' = [net EXCEPT ![r] = Append(@, p)]
      /\ owed' \subseteq owed
      /\ UNCHANGED <<mix, accepted, nextStream, idOf, phase, how, tcp, writes, connecting,
                     cancelled, reading, draining, queue, sent, got, restarts>>
  BY DEF SendClose, Tell
<1>4. p \in Packet /\ p.id = k /\ p.kind = "close" /\ ~IsData(p, k)
  BY Packets, Shapes DEF IsData
<1>6. net'[s] = net[s] /\ (net'[r] = net[r] \/ net'[r] = Append(net[r], p))
  BY <1>o, <1>2 DEF Sound, Channels
<1> HIDE DEF p
<1>7. Traffic(k)
  <2>1. ASSUME NEW t \in Sides
        PROVE  net'[t] = net[t] \/ \E x \in Packet : net'[t] = Append(net[t], x)
                                                     /\ x.id = k /\ x.kind # "open"
    <3>1. t = s \/ t = r BY DEF Sides, Other
    <3> QED BY <1>4, <1>6, <3>1
  <2> QED BY <2>1 DEF Traffic
<1>8. \A t \in Sides, j \in Conns : Same(t, j) BY <1>2 DEF Same
<1>9. Keeps(s, k) /\ Keeps(r, k) /\ Spares(r, k) BY <1>4, <1>6 DEF Keeps, Spares
<1>p. Local(r, k) /\ Wire(r, k) /\ Opening(k) BY <1>o, Parts
<1>10. Local(r, k)' BY <1>o, <1>8, <1>p, LocalKept
<1>11. phase["host"][k] = "none" => phase'["host"][k] = "none" BY <1>2
<1>12. Pending(net'["host"], k) => Pending(net["host"], k) BY <1>7, <1>11, <1>p, OpeningKept
<1>13. Wire(r, k)'
  <2>1. sent'[Other(r)][k] = sent[Other(r)][k] BY <1>2
  <2>2. Awaits(r, k)' => Awaits(r, k) BY <1>2, <1>12 DEF Awaits
  <2>3. Stored(r, k)' = Stored(r, k) BY <1>2 DEF Stored
  <2> QED BY <1>o, <1>9, <1>p, <2>1, <2>2, <2>3, WireKept
<1>14. \A o \in owed' : o \in owed \/ o[2] = k BY <1>2
<1>15. Keeps(Other(r), k) /\ sent'[r][k] = sent[r][k] BY <1>o, <1>2, <1>9
<1> HIDE DEF r
<1>16. r \in Sides BY <1>o DEF r
<1> QED BY <1>1, <1>2, <1>7, <1>8, <1>10, <1>11, <1>13, <1>14, <1>15, <1>16, Assemble

\* A writer that ends.
LEMMA EndedApart ==
    ASSUME Sound, Apart, NEW s \in Sides, NEW k \in Conns, k <= accepted, draining[s][k] = k,
           draining'[s][k] = NoConn, writes'[s][k] = NoConn, tcp'[s][k] = NoConn,
           \/ phase'[s][k] = phase[s][k]
           \/ phase[s][k] = "open" /\ phase'[s][k] = "closed",
           \A t \in Sides, j \in Conns : t # s \/ j # k => Same(t, j),
           \A o \in owed' : o \in owed \/ o[2] = k,
           UNCHANGED <<accepted, nextStream, idOf, reading, connecting, sent, got, net>>
    PROVE  Apart'
<1>p. Cell(s, k) /\ Written(s, k) /\ Wire(s, k) /\ Opening(k) /\ k # NoConn
  BY Parts, Shapes
<1>1. phase[s][k] \notin Early \cup {"none", "failed"} BY <1>p DEF Cell
<1>2. phase'[s][k] \notin Early \cup {"none", "failed"} BY <1>1 DEF Early
<1>3. Local(s, k)'
  <2>1. writes'[s][k] # k /\ draining'[s][k] # k BY <1>p
  <2>2. Cell(s, k)' BY <1>2, <2>1 DEF Cell
  <2>3. Written(s, k)' BY <1>p DEF Written
  <2>4. Queued(s, k)' BY <1>2, <2>1 DEF Queued
  <2> QED BY <2>2, <2>3, <2>4 DEF Local
<1>4. Traffic(k) /\ Keeps(Other(s), k) /\ Spares(s, k) BY DEF Traffic, Keeps, Spares
<1>5. phase["host"][k] = "none" => phase'["host"][k] = "none"
  <2>1. CASE s = "host" BY <1>1, <2>1
  <2>2. CASE s # "host" BY <2>2, SideFacts DEF Same
  <2> QED BY <2>1, <2>2
<1>6. ~(Awaits(s, k)')
  <2>1. ~(s = "host" /\ Pending(net["host"], k)) BY <1>1, <1>p DEF Opening
  <2> QED BY <1>p, <2>1 DEF Awaits
<1>7. sent'[Other(s)][k] = sent[Other(s)][k] OBVIOUS
<1>8. Wire(s, k)' BY <1>4, <1>6, <1>7, <1>p, WireKept
<1> QED BY <1>3, <1>4, <1>5, <1>8, Assemble

\* A chunk that is written: the next of the queue.
LEMMA ChunkApart ==
    ASSUME Sound, Apart, NEW s \in Sides, NEW k \in Conns, k <= accepted, draining[s][k] = k,
           phase[s][k] = "open", queue[s][k] # <<>>, Head(queue[s][k]) # Fin,
           queue' = [queue EXCEPT ![s][k] = Tail(@)],
           got' = [got EXCEPT ![s][k] = Append(@, Head(queue[s][k]))],
           UNCHANGED <<accepted, nextStream, idOf, phase, how, tcp, writes, connecting,
                       cancelled, reading, draining, sent, net, owed>>
    PROVE  Apart'
<1> DEFINE q == queue[s][k]
           g == got[s][k]
           item == Head(q)
<1>1. q \in Seq(Chunk \cup {Fin}) /\ g \in Seq(Chunk) /\ Len(q) \in Nat /\ Len(g) \in Nat
  BY Shapes
<1>2. /\ 1 \in DOMAIN q /\ item = q[1] /\ item \in Chunk /\ Len(Tail(q)) = Len(q) - 1
      /\ \A j \in DOMAIN Tail(q) : j + 1 \in DOMAIN q /\ Tail(q)[j] = q[j + 1] /\ j \in Nat
  <2>1. q # <<>> BY DEF q
  <2>2. /\ 1 \in DOMAIN q /\ item = q[1] /\ item \in Chunk \cup {Fin} /\ Len(Tail(q)) = Len(q) - 1
        /\ \A j \in DOMAIN Tail(q) : j + 1 \in DOMAIN q /\ Tail(q)[j] = q[j + 1]
        /\ Tail(q) \in Seq(Chunk \cup {Fin})
    BY <1>1, <2>1, TailFacts
  <2>3. \A j \in DOMAIN Tail(q) : j \in Nat BY <2>2
  <2> QED BY <2>2, <2>3
<1>p. Cell(s, k) /\ Written(s, k) /\ Queued(s, k) /\ Wire(s, k) BY Parts
<1>3. \A j \in DOMAIN q : \/ q[j] = Fin /\ j = Len(q) /\ writes[s][k] = NoConn
                          \/ q[j] = <<k, Len(g) + j>>
  BY <1>p DEF Queued
<1>4. item = <<k, Len(g) + 1>> BY <1>2, <1>3
<1>5. /\ queue'[s][k] = Tail(q) /\ got'[s][k] = Append(g, item)
      /\ \A t \in Sides, j \in Conns : t # s \/ j # k =>
             queue'[t][j] = queue[t][j] /\ got'[t][j] = got[t][j]
  BY DEF Sound, Contents, Queues
<1>6. \A t \in Sides, j \in Conns : t # s \/ j # k => Same(t, j) BY <1>5 DEF Same
<1>7. /\ Len(got'[s][k]) = Len(g) + 1
      /\ \A i \in DOMAIN got'[s][k] : \/ i \in DOMAIN g /\ got'[s][k][i] = g[i]
                                      \/ i = Len(g) + 1 /\ got'[s][k][i] = item
  BY <1>1, <1>2, <1>5, AppendFacts
<1>8. Local(s, k)'
  <2>1. Cell(s, k)' BY <1>p DEF Cell, Early
  <2>2. Written(s, k)'
    <3>1. \A i \in DOMAIN g : g[i] = <<k, i>> BY <1>p DEF Written
    <3> QED BY <1>4, <1>7, <3>1 DEF Written
  <2>3. ASSUME NEW j \in DOMAIN queue'[s][k]
        PROVE  \/ queue'[s][k][j] = Fin /\ j = Len(queue'[s][k]) /\ writes'[s][k] = NoConn
               \/ queue'[s][k][j] = <<k, Len(got'[s][k]) + j>>
    <3>1. j + 1 \in DOMAIN q /\ queue'[s][k][j] = q[j + 1] /\ j \in Nat BY <1>2, <1>5, <2>3
    <3>2. CASE q[j + 1] = Fin /\ j + 1 = Len(q) /\ writes[s][k] = NoConn
      <4>1. j = Len(Tail(q)) BY <1>1, <1>2, <3>1, <3>2
      <4> QED BY <1>5, <3>1, <3>2, <4>1
    <3>3. CASE q[j + 1] = <<k, Len(g) + (j + 1)>>
      <4>1. Len(g) + (j + 1) = (Len(g) + 1) + j BY <1>1, <3>1, Sums, Zenon
      <4> QED BY <1>7, <3>1, <3>3, <4>1, Zenon
    <3> QED BY <1>3, <3>1, <3>2, <3>3
  <2>4. Queued(s, k)' BY <2>3 DEF Queued
  <2> QED BY <2>1, <2>2, <2>4 DEF Local
<1>9. Stored(s, k)' = Stored(s, k)
  <2>1. (Len(g) + 1) + (Len(q) - 1) = Len(g) + Len(q) BY <1>1, Sums, Zenon
  <2>2. Len(got'[s][k]) + Len(queue'[s][k]) = (Len(g) + 1) + (Len(q) - 1)
    BY <1>2, <1>5, <1>7, Zenon
  <2> QED BY <2>1, <2>2, Zenon DEF Stored
<1>10. Wire(s, k)' BY <1>9, <1>p DEF Wire, Awaits
<1>11. Traffic(k) /\ Keeps(Other(s), k) BY DEF Traffic, Keeps
<1>12. /\ phase["host"][k] = "none" => phase'["host"][k] = "none"
       /\ sent'[s][k] = sent[s][k] /\ \A o \in owed' : o \in owed \/ o[2] = k
  OBVIOUS
<1> QED BY <1>6, <1>8, <1>10, <1>11, <1>12, Assemble

LEMMA WriteApart ==
    ASSUME Sound, Apart, NEW s \in Sides, NEW k \in Conns, Write(s, k) PROVE Apart'
<1>p. Cell(s, k) /\ Queued(s, k) /\ k # NoConn BY Parts, Shapes
<1>1. draining[s][k] = k BY <1>p DEF Write, Cell
<1>2. k <= accepted /\ idOf[k] = k BY <1>1, <1>p, Own
<1> DEFINE rest == [queue EXCEPT ![s][k] = Tail(@)]
           item == Head(queue[s][k])
<1>3. queue[s][k] # <<>> /\ queue[s][k] \in Seq(Chunk \cup {Fin}) /\ Queues(rest)
  BY <1>1, WriteFacts
<1>4. UNCHANGED <<mix, accepted, nextStream, idOf, connecting, reading, sent, net, restarts>>
  BY DEF Write
<1>5. \A t \in Sides, j \in Conns : t # s \/ j # k => rest[t][j] = queue[t][j]
  BY DEF Sound, Contents, Queues
<1>6. CASE /\ item = Fin /\ queue' = rest /\ draining' = [draining EXCEPT ![s][k] = NoConn]
           /\ CloseSocket(s, k, "drained")
           /\ UNCHANGED <<tcp, writes, cancelled, got, owed>>
  <2>1. writes[s][k] = NoConn /\ tcp[s][k] = NoConn
    <3>1. 1 \in DOMAIN queue[s][k] /\ item = queue[s][k][1] BY <1>3, TailFacts
    <3>2. queue[s][k][1] # <<k, Len(got[s][k]) + 1>> BY <1>6, <3>1, Shapes
    <3> QED BY <1>1, <1>p, <3>1, <3>2 DEF Queued, Cell
  <2>2. /\ \/ phase'[s][k] = phase[s][k]
           \/ phase[s][k] = "open" /\ phase'[s][k] = "closed"
        /\ \A t \in Sides, j \in Conns : t # s \/ j # k => phase'[t][j] = phase[t][j]
    BY <1>6, SocketEffect
  <2>3. draining'[s][k] = NoConn
        /\ \A t \in Sides, j \in Conns : t # s \/ j # k => draining'[t][j] = draining[t][j]
    BY <1>6 DEF Sound, Threads
  <2>4. queue' = rest BY <1>6
  <2> HIDE DEF rest
  <2>5. \A t \in Sides, j \in Conns : t # s \/ j # k => Same(t, j)
    BY <1>4, <1>5, <1>6, <2>2, <2>3, <2>4 DEF Same
  <2> QED BY <1>1, <1>2, <1>4, <1>6, <2>1, <2>2, <2>3, <2>5, EndedApart
<1>7. CASE /\ item # Fin /\ phase[s][k] = "open" /\ queue' = rest
           /\ got' = [got EXCEPT ![s][k] = Append(@, item)]
           /\ UNCHANGED <<tcp, writes, cancelled, draining, phase, how, owed>>
  BY <1>1, <1>2, <1>3, <1>4, <1>7, ChunkApart
<1>8. CASE /\ item # Fin /\ draining' = [draining EXCEPT ![s][k] = NoConn]
           /\ CloseTcp(s, k, "broken", rest) /\ UNCHANGED got
  <2> HIDE DEF rest
  <2>1. /\ tcp'[s][k] = NoConn /\ writes'[s][k] = NoConn
        /\ \A t \in Sides, j \in Conns : t # s \/ j # k =>
               /\ tcp'[t][j] = tcp[t][j] /\ writes'[t][j] = writes[t][j]
               /\ queue'[t][j] = rest[t][j] /\ phase'[t][j] = phase[t][j]
               /\ t = "host" => (j \in cancelled' => j \in cancelled)
        /\ \/ phase'[s][k] = phase[s][k]
           \/ phase[s][k] = "open" /\ phase'[s][k] = "closed"
        /\ \A o \in owed' : o \in owed \/ o[2] = k
    BY <1>3, <1>8, CloseTcpEffect
  <2>3. draining'[s][k] = NoConn
        /\ \A t \in Sides, j \in Conns : t # s \/ j # k => draining'[t][j] = draining[t][j]
    BY <1>8 DEF Sound, Threads
  <2>5. \A t \in Sides, j \in Conns : t # s \/ j # k => Same(t, j)
    BY <1>4, <1>5, <1>8, <2>1, <2>3 DEF Same
  <2> QED BY <1>1, <1>2, <1>4, <1>8, <2>1, <2>3, <2>5, EndedApart
<1> QED BY <1>1, <1>2, <1>6, <1>7, <1>8 DEF Write

-----------------------------------------------------------------------------
(* Packets arrive, engines are replaced, connections are accepted *)

\* A number under way was given to a connection.
LEMMA Received ==
    ASSUME Sound, Apart, NEW s \in Sides, NEW packet, NEW kind, Receives(s, kind, packet)
    PROVE  /\ packet \in Packet /\ packet = Head(net[s]) /\ packet = net[s][1]
           /\ packet.kind = kind /\ net[s] # <<>> /\ net[s] \in Seq(Packet)
           /\ 1 \in DOMAIN net[s] /\ packet.id \in Conns /\ packet.id <= accepted
<1>1. /\ packet \in Packet /\ packet = Head(net[s]) /\ packet.kind = kind
      /\ net[s] # <<>> /\ net[s] \in Seq(Packet)
  BY ReceivedTypes
<1>2. packet = net[s][1] /\ 1 \in DOMAIN net[s] BY <1>1, TailFacts
<1>3. packet.id <= accepted BY <1>2 DEF Apart, Fresh
<1>4. packet.id \in Conns BY <1>1 DEF Packet, Ids, Conns
<1> QED BY <1>1, <1>2, <1>3, <1>4

\* What taking a packet of connection k does to the channels.
LEMMA TakePacket ==
    ASSUME Sound, NEW s \in Sides, NEW k \in Conns, net[s] # <<>>, Head(net[s]).id = k,
           net' = [net EXCEPT ![s] = Tail(@)]
    PROVE  /\ Traffic(k) /\ Keeps(Other(s), k) /\ Spares(s, k)
           /\ net'[s] = Tail(net[s]) /\ net'[Other(s)] = net[Other(s)]
<1>1. net'[s] = Tail(net[s]) /\ \A t \in Sides : t # s => net'[t] = net[t]
  BY DEF Sound, Channels
<1>2. Other(s) \in Sides /\ Other(s) # s BY SideFacts
<1> QED BY <1>1, <1>2 DEF Traffic, Keeps, Spares

LEMMA ReceiveCloseApart ==
    ASSUME Sound, Apart, NEW s \in Sides, NEW packet, ReceiveClose(s, packet) PROVE Apart'
<1> DEFINE k == packet.id
<1>1. net[s] # <<>> /\ packet = Head(net[s]) /\ k \in Conns /\ k <= accepted
  BY Received DEF ReceiveClose
<1>2. /\ net' = [net EXCEPT ![s] = Tail(@)] /\ TakeStream(s, k)
      /\ queue' = Offered(queue, s, writes[s][k], Fin) /\ Queues(queue)
      /\ CloseSocket(s, tcp[s][k], "full") \/ UNCHANGED <<phase, how>>
      /\ UNCHANGED <<mix, accepted, nextStream, idOf, connecting, reading, draining, sent,
                     got, owed, restarts>>
  BY DEF ReceiveClose, Sound, Contents
<1>3. Head(net[s]).id = k BY <1>1
<1> HIDE DEF k
<1>4. writes[s][k] \in {NoConn, k} /\ tcp[s][k] \in {NoConn, k}
  BY <1>1, Parts DEF Cell
<1>5. /\ tcp'[s][k] = NoConn /\ writes'[s][k] = NoConn
      /\ \A t \in Sides, j \in Conns : t # s \/ j # k =>
             /\ tcp'[t][j] = tcp[t][j] /\ writes'[t][j] = writes[t][j]
             /\ queue'[t][j] = queue[t][j]
      /\ \/ queue'[s][k] = queue[s][k]
         \/ writes[s][k] = k /\ queue'[s][k] = Append(queue[s][k], Fin)
  BY <1>1, <1>2, <1>4, TakeEffect
<1>6. /\ \/ phase'[s][k] = phase[s][k]
         \/ phase[s][k] = "open" /\ phase'[s][k] = "closed"
      /\ \A t \in Sides, j \in Conns : t # s \/ j # k => phase'[t][j] = phase[t][j]
  <2>1. CASE CloseSocket(s, tcp[s][k], "full") BY <1>1, <1>4, <2>1, SocketEffect
  <2>2. CASE UNCHANGED phase BY <2>2
  <2> QED BY <1>2, <2>1, <2>2
<1>7. /\ \A t \in Sides, j \in Conns : (t # s \/ j # k) /\ t = "host" =>
             (j \in cancelled' => j \in cancelled)
      /\ s = "host" => (k \in cancelled' => k \in cancelled \/ k \in connecting)
  BY <1>2, SideFacts DEF TakeStream
<1>8. Left(s, k) BY <1>2, <1>5, <1>6, <1>7 DEF Left
<1>9. \A t \in Sides, j \in Conns : t # s \/ j # k => Same(t, j)
  BY <1>2, <1>5, <1>6, <1>7 DEF Same
<1>10. /\ Traffic(k) /\ Keeps(Other(s), k) /\ net'[s] = Tail(net[s])
  BY <1>1, <1>2, <1>3, TakePacket
<1>11. \A o \in owed' : o \in owed \/ o[2] = k BY <1>2
<1> QED BY <1>1, <1>2, <1>3, <1>8, <1>9, <1>10, <1>11, LeftApart

\* A chunk that is queued: the next of those sent.
LEMMA QueuedApart ==
    ASSUME Sound, Apart, NEW s \in Sides, NEW k \in Conns, k <= accepted, writes[s][k] = k,
           net[s] # <<>>, IsData(Head(net[s]), k), Head(net[s]).chunk \in Chunk \cup {Fin},
           net' = [net EXCEPT ![s] = Tail(@)],
           queue' = [queue EXCEPT ![s][k] = Append(@, Head(net[s]).chunk)],
           UNCHANGED <<accepted, nextStream, idOf, phase, how, tcp, writes, connecting,
                       cancelled, reading, draining, sent, got, owed>>
    PROVE  Apart'
<1> DEFINE c == Head(net[s]).chunk
           q == queue[s][k]
           g == got[s][k]
           all == sent[Other(s)][k]
           stored == Stored(s, k)
<1>1. /\ net[s] \in Seq(Packet) /\ all \in Nat /\ stored \in Nat /\ k # NoConn
      /\ q \in Seq(Chunk \cup {Fin}) /\ Len(q) \in Nat /\ Len(g) \in Nat
  BY Shapes, SideFacts
<1>p. Cell(s, k) /\ Written(s, k) /\ Queued(s, k) /\ Wire(s, k) /\ Opening(k) BY Parts
<1>2. Line(net[s], k, all) /\ Due(net[s], k, stored, all) BY <1>p DEF Wire, Awaits
<1>3. Head(net[s]).id = k BY DEF IsData
<1>4. /\ Traffic(k) /\ Keeps(Other(s), k) /\ net'[s] = Tail(net[s]) BY <1>3, TakePacket
<1>5. c = <<k, stored + 1>> /\ Due(net'[s], k, stored + 1, all) /\ Line(net'[s], k, all)
  <2> HIDE DEF stored, all
  <2>1. Head(net[s]).chunk = <<k, stored + 1>> /\ Due(Tail(net[s]), k, stored + 1, all)
    BY <1>1, <1>2, DueTake
  <2>2. Line(Tail(net[s]), k, all) BY <1>1, <1>2, LineTail
  <2> QED BY <1>4, <2>1, <2>2
<1>6. /\ queue'[s][k] = Append(q, c)
      /\ \A t \in Sides, j \in Conns : t # s \/ j # k => queue'[t][j] = queue[t][j]
  BY DEF Sound, Contents, Queues
<1>7. /\ Len(queue'[s][k]) = Len(q) + 1
      /\ \A j \in DOMAIN queue'[s][k] : \/ j \in DOMAIN q /\ queue'[s][k][j] = q[j]
                                        \/ j = Len(q) + 1 /\ queue'[s][k][j] = c
  BY <1>1, <1>6, AppendFacts
<1>8. \A t \in Sides, j \in Conns : t # s \/ j # k => Same(t, j) BY <1>6 DEF Same
<1>9. phase[s][k] # "none" BY <1>p DEF Cell, Early
<1>10. Local(s, k)'
  <2>1. Cell(s, k)' BY <1>9, <1>p DEF Cell
  <2>2. Written(s, k)' BY <1>p DEF Written
  <2>3. ASSUME draining[s][k] = k \/ phase[s][k] \in Early, NEW j \in DOMAIN queue'[s][k]
        PROVE  queue'[s][k][j] = <<k, Len(g) + j>>
    <3>1. CASE j \in DOMAIN q /\ queue'[s][k][j] = q[j]
      BY <1>1, <1>p, <2>3, <3>1 DEF Queued
    <3>2. CASE j = Len(q) + 1 /\ queue'[s][k][j] = c
      <4>1. Len(g) + (Len(q) + 1) = stored + 1 BY <1>1, Sums, Zenon DEF stored, Stored
      <4> QED BY <1>5, <3>2, <4>1, Zenon
    <3> QED BY <1>7, <3>1, <3>2
  <2>4. Queued(s, k)' BY <2>3 DEF Queued
  <2> QED BY <2>1, <2>2, <2>4 DEF Local
<1>11. Wire(s, k)'
  <2>1. Len(got'[s][k]) + Len(queue'[s][k]) = Len(g) + (Len(q) + 1) BY <1>7, Zenon
  <2>2. Stored(s, k)' = stored + 1 BY <1>1, <2>1, Sums, Zenon DEF Stored, stored
  <2>3. sent'[Other(s)][k] = all BY DEF all
  <2> HIDE DEF stored, all
  <2> QED BY <1>5, <2>2, <2>3 DEF Wire
<1>12. phase["host"][k] = "none" => phase'["host"][k] = "none" OBVIOUS
<1>13. sent'[s][k] = sent[s][k] /\ \A o \in owed' : o \in owed \/ o[2] = k OBVIOUS
<1> QED BY <1>4, <1>8, <1>10, <1>11, <1>12, <1>13, Assemble

LEMMA ReceiveDataApart ==
    ASSUME Sound, Apart, NEW s \in Sides, NEW packet, ReceiveData(s, packet) PROVE Apart'
<1> DEFINE k == packet.id
<1>1. /\ net[s] # <<>> /\ packet = Head(net[s]) /\ k \in Conns /\ k <= accepted
      /\ packet.kind = "data" /\ packet \in Packet
  BY Received DEF ReceiveData
<1>2. /\ net' = [net EXCEPT ![s] = Tail(@)] /\ Queues(queue)
      /\ UNCHANGED <<mix, accepted, nextStream, idOf, connecting, reading, draining, sent,
                     got, restarts>>
  BY DEF ReceiveData, Sound, Contents
<1>3. Head(net[s]).id = k /\ IsData(Head(net[s]), k) /\ Head(net[s]).chunk \in Chunk \cup {Fin}
  BY <1>1 DEF IsData, Packet
<1>4. \/ /\ writes[s][k] = NoConn /\ UNCHANGED <<queue, tcp, writes, cancelled, phase, how, owed>>
      \/ /\ writes[s][k] # NoConn
         /\ queue' = [queue EXCEPT ![s][writes[s][k]] = Append(@, Head(net[s]).chunk)]
         /\ UNCHANGED <<tcp, writes, cancelled, phase, how, owed>>
      \/ CloseTcp(s, k, "overflow", queue)
  <2>1. \/ /\ queue' = Offered(queue, s, writes[s][k], packet.chunk)
           /\ UNCHANGED <<tcp, writes, cancelled, phase, how, owed>>
           /\ writes[s][k] = NoConn \/ Len(queue[s][writes[s][k]]) < QueueSize
        \/ CloseTcp(s, k, "overflow", queue)
    BY Zenon DEF ReceiveData
  <2>2. packet.chunk = Head(net[s]).chunk BY <1>1
  <2> HIDE DEF k
  <2> QED BY <2>1, <2>2 DEF Offered
<1> HIDE DEF k
<1>5. /\ Traffic(k) /\ Keeps(Other(s), k) /\ net'[s] = Tail(net[s])
  BY <1>1, <1>2, <1>3, TakePacket
<1>p. Cell(s, k) BY <1>1, Parts
<1>6. CASE writes[s][k] = NoConn /\ UNCHANGED <<queue, tcp, writes, cancelled, phase, how, owed>>
  <2>1. writes'[s][k] = NoConn /\ tcp'[s][k] = NoConn BY <1>6, <1>p DEF Cell
  <2>2. Left(s, k) BY <1>2, <1>6, <2>1 DEF Left
  <2>3. \A t \in Sides, j \in Conns : t # s \/ j # k => Same(t, j) BY <1>2, <1>6 DEF Same
  <2> QED BY <1>1, <1>2, <1>3, <1>5, <1>6, <2>2, <2>3, LeftApart
<1>7. CASE /\ writes[s][k] # NoConn
           /\ queue' = [queue EXCEPT ![s][writes[s][k]] = Append(@, Head(net[s]).chunk)]
           /\ UNCHANGED <<tcp, writes, cancelled, phase, how, owed>>
  <2>1. writes[s][k] = k BY <1>7, <1>p DEF Cell
  <2> QED BY <1>1, <1>2, <1>3, <1>7, <2>1, QueuedApart
<1>8. CASE CloseTcp(s, k, "overflow", queue)
  <2>1. /\ tcp'[s][k] = NoConn /\ writes'[s][k] = NoConn
        /\ \A t \in Sides, j \in Conns : t # s \/ j # k =>
               /\ tcp'[t][j] = tcp[t][j] /\ writes'[t][j] = writes[t][j]
               /\ queue'[t][j] = queue[t][j] /\ phase'[t][j] = phase[t][j]
               /\ t = "host" => (j \in cancelled' => j \in cancelled)
        /\ \/ queue'[s][k] = queue[s][k]
           \/ writes[s][k] = k /\ queue'[s][k] = Append(queue[s][k], Fin)
        /\ \/ phase'[s][k] = phase[s][k]
           \/ phase[s][k] = "open" /\ phase'[s][k] = "closed"
        /\ s = "host" => (k \in cancelled' => k \in cancelled \/ k \in connecting)
        /\ \A o \in owed' : o \in owed \/ o[2] = k
    BY <1>1, <1>2, <1>8, CloseTcpEffect
  <2>2. Left(s, k) BY <1>2, <2>1 DEF Left
  <2>3. \A t \in Sides, j \in Conns : t # s \/ j # k => Same(t, j) BY <1>2, <2>1 DEF Same
  <2> QED BY <1>1, <1>2, <1>3, <1>5, <2>1, <2>2, <2>3, LeftApart
<1> QED BY <1>4, <1>6, <1>7, <1>8

LEMMA ReceiveOpenApart ==
    ASSUME Sound, Apart, NEW packet, ReceiveOpen(packet) PROVE Apart'
<1> DEFINE k == packet.id
           rest == [net EXCEPT !["host"] = Tail(@)]
<1>s. "host" \in Sides /\ "client" \in Sides /\ Other("host") = "client"
  BY SideFacts DEF Other
<1>1. /\ net["host"] # <<>> /\ packet = Head(net["host"]) /\ packet = net["host"][1]
      /\ packet.kind = "open" /\ k \in Conns /\ k <= accepted /\ 1 \in DOMAIN net["host"]
      /\ net["host"] \in Seq(Packet)
  BY <1>s, Received DEF ReceiveOpen
<1>p. Cell("host", k) /\ Written("host", k) /\ Wire("host", k) /\ Opening(k)
  BY <1>s, <1>1, Parts
<1>2. Pending(net["host"], k) /\ packet.conn = k /\ phase["host"][k] = "none"
  <2>1. IsOpen(net["host"][1], k) BY <1>1 DEF IsOpen
  <2>2. Pending(net["host"], k) BY <1>1, <2>1 DEF Pending
  <2>3. net["host"][1].conn = k BY <1>1, <1>p, <2>1 DEF Opening, Leads
  <2> QED BY <1>1, <1>p, <2>2, <2>3 DEF Opening
<1>3. /\ writes["host"][k] = NoConn /\ tcp["host"][k] = NoConn /\ queue["host"][k] = <<>>
      /\ sent["host"][k] = 0 /\ draining["host"][k] = NoConn /\ got["host"][k] = <<>>
      /\ <<"host", k>> \notin reading /\ k \notin cancelled /\ k # NoConn
  <2>1. k # NoConn BY <1>s, <1>1, Shapes
  <2> QED BY <1>2, <1>p, <2>1 DEF Cell, Early
<1>4. /\ \/ net' = rest /\ UNCHANGED <<connecting, writes, phase>>
         \/ /\ net' = [rest EXCEPT !["client"] = Append(@, Close(k))]
            /\ UNCHANGED <<connecting, writes, phase>>
         \/ /\ net' = rest /\ connecting' = connecting \cup {k}
            /\ writes' = [writes EXCEPT !["host"][k] = k]
            /\ phase' = [phase EXCEPT !["host"][k] = "connecting"]
      /\ UNCHANGED <<mix, accepted, nextStream, idOf, how, tcp, cancelled, reading,
                     draining, queue, sent, got, owed, restarts>>
  BY <1>2 DEF ReceiveOpen, Tell, Other
<1>5. /\ net'["host"] = Tail(net["host"])
      /\ \/ net'["client"] = net["client"]
         \/ net'["client"] = Append(net["client"], Close(k))
  BY <1>s, <1>4 DEF Sound, Channels
<1>6. Close(k) \in Packet /\ Close(k).id = k /\ Close(k).kind = "close"
  BY <1>1, Packets DEF Conns, Ids
<1>7. Head(net["host"]).id = k /\ ~IsData(Head(net["host"]), k) BY <1>1 DEF IsData
<1> HIDE DEF k, rest
<1>8. /\ Traffic(k) /\ Keeps("host", k) /\ Keeps("client", k) /\ Spares("host", k)
  <2>1. ~IsData(Close(k), k) BY <1>6 DEF IsData
  <2>2. Keeps("host", k) /\ Keeps("client", k) /\ Spares("host", k)
    BY <1>1, <1>5, <1>6, <1>7, <2>1 DEF Keeps, Spares
  <2>3. Traffic(k) BY <1>1, <1>5, <1>6, <1>7, SideFacts DEF Traffic
  <2> QED BY <2>2, <2>3
<1>9. CASE UNCHANGED <<connecting, writes, phase>>
  <2>1. Left("host", k) BY <1>3, <1>4, <1>9 DEF Left
  <2>2. \A t \in Sides, j \in Conns : t # "host" \/ j # k => Same(t, j)
    BY <1>4, <1>9 DEF Same
  <2>3. \A o \in owed' : o \in owed \/ o[2] = k BY <1>4
  <2> QED BY <1>s, <1>1, <1>4, <1>5, <1>7, <1>8, <2>1, <2>2, <2>3, LeftApart
<1>10. CASE /\ connecting' = connecting \cup {k}
            /\ writes' = [writes EXCEPT !["host"][k] = k]
            /\ phase' = [phase EXCEPT !["host"][k] = "connecting"]
  <2>0. phase' = [phase EXCEPT !["host"][k] = "connecting"] BY <1>10
  <2>1. /\ phase'["host"][k] = "connecting"
        /\ \A t \in Sides, j \in Conns : t # "host" \/ j # k => phase'[t][j] = phase[t][j]
    BY <1>s, <1>1, <2>0 DEF Sound, Tables
  <2>2. /\ writes'["host"][k] = k
        /\ \A t \in Sides, j \in Conns : t # "host" \/ j # k => writes'[t][j] = writes[t][j]
    BY <1>s, <1>1, <1>10 DEF Sound, Tables, Conns, Ids
  <2>3. \A t \in Sides, j \in Conns : t # "host" \/ j # k => Same(t, j)
    BY <1>4, <1>10, <2>1, <2>2 DEF Same
  <2>4. Local("host", k)'
    <3>1. Cell("host", k)' BY <1>3, <1>4, <2>1, <2>2 DEF Cell, Early
    <3>2. Written("host", k)' BY <1>4, <1>p DEF Written
    <3>3. Queued("host", k)' BY <1>3, <1>4 DEF Queued
    <3> QED BY <3>1, <3>2, <3>3 DEF Local
  <2>5. Awaits("host", k) BY <1>2 DEF Awaits
  <2>6. Stored("host", k)' = Stored("host", k) BY <1>4 DEF Stored
  <2>7. sent'[Other("host")][k] = sent[Other("host")][k] BY <1>4
  <2>8. Wire("host", k)' BY <1>s, <1>1, <1>p, <1>8, <2>5, <2>6, <2>7, WireKept
  <2>9. sent'["host"][k] = sent["host"][k] /\ \A o \in owed' : o \in owed \/ o[2] = k
    BY <1>4
  <2> QED BY <1>s, <1>1, <1>4, <1>5, <1>7, <1>8, <2>3, <2>4, <2>8, <2>9, Assemble
<1> QED BY <1>4, <1>9, <1>10

\* The next number: there is nothing yet of a connection that gets it.
LEMMA NextConn ==
    ASSUME Sound, Apart, NEW k \in Conns, k = accepted + 1
    PROVE  /\ nextStream = k /\ accepted \in Nat /\ k \in Nat /\ accepted <= k /\ k <= k
           /\ k \in Ids /\ \A j \in Conns : j <= k => j = k \/ j <= accepted
           /\ \A s \in Sides :
                  /\ phase[s][k] = "none" /\ <<s, k>> \notin reading
                  /\ draining[s][k] = NoConn /\ writes[s][k] = NoConn /\ tcp[s][k] = NoConn
                  /\ queue[s][k] = <<>> /\ got[s][k] = <<>> /\ sent[s][k] = 0
                  /\ \A i \in DOMAIN net[s] : net[s][i].id # k
<1>1. /\ nextStream = k /\ accepted \in Nat /\ k \in Nat /\ accepted <= k /\ k <= k
      /\ k \in Ids /\ \A j \in Conns : j <= k => j = k \/ j <= accepted
      /\ ~(k <= accepted) /\ k > accepted
  BY Constants DEF Sound, Numbers, Apart, Numbered, Conns, Ids
<1>2. ASSUME NEW s \in Sides
      PROVE  /\ phase[s][k] = "none" /\ <<s, k>> \notin reading
             /\ draining[s][k] = NoConn /\ writes[s][k] = NoConn /\ tcp[s][k] = NoConn
             /\ queue[s][k] = <<>> /\ got[s][k] = <<>> /\ sent[s][k] = 0
             /\ \A i \in DOMAIN net[s] : net[s][i].id # k
  <2>1. phase[s][k] = "none" /\ <<s, k>> \notin reading /\ draining[s][k] = NoConn
    BY <1>1 DEF Sound, Counted
  <2>2. Cell(s, k) BY Parts
  <2>3. \A i \in DOMAIN net[s] : net[s][i].id <= accepted BY DEF Apart, Fresh
  <2>4. \A i \in DOMAIN net[s] : net[s][i].id # k BY <1>1, <2>3
  <2>5. writes[s][k] # k BY <2>1, <2>2 DEF Cell, Early
  <2>6. writes[s][k] = NoConn /\ tcp[s][k] = NoConn BY <2>2, <2>5 DEF Cell
  <2>7. queue[s][k] = <<>> /\ got[s][k] = <<>> /\ sent[s][k] = 0
    BY <2>1, <2>2 DEF Cell, Early
  <2> QED BY <2>1, <2>4, <2>6, <2>7
<1> QED BY <1>1, <1>2

LEMMA Silent ==
    ASSUME NEW n \in Seq(Packet), NEW k, \A i \in DOMAIN n : n[i].id # k
    PROVE  Line(n, k, 0) /\ Due(n, k, 0, 0)
<1>1. \A i \in DOMAIN n : ~IsData(n[i], k) BY DEF IsData
<1> QED BY <1>1 DEF Line, Due

LEMMA AcceptApart ==
    ASSUME Sound, Apart, NEW k \in Conns, Accept(k) PROVE Apart'
<1>s. /\ "host" \in Sides /\ "client" \in Sides /\ Other("host") = "client"
      /\ Other("client") = "host" /\ \A t \in Sides : t = "host" \/ t = "client"
  BY SideFacts DEF Other
<1>1. /\ nextStream = k /\ accepted \in Nat /\ k \in Nat /\ accepted <= k /\ k <= k
      /\ k \in Ids /\ \A j \in Conns : j <= k => j = k \/ j <= accepted
      /\ \A s \in Sides :
             /\ phase[s][k] = "none" /\ <<s, k>> \notin reading
             /\ draining[s][k] = NoConn /\ writes[s][k] = NoConn /\ tcp[s][k] = NoConn
             /\ queue[s][k] = <<>> /\ got[s][k] = <<>> /\ sent[s][k] = 0
             /\ \A i \in DOMAIN net[s] : net[s][i].id # k
  BY NextConn DEF Accept
<1>2. /\ accepted' = k /\ idOf' = [idOf EXCEPT ![k] = k] /\ nextStream' = k + 1
      /\ tcp' = [tcp EXCEPT !["client"][k] = k] /\ writes' = [writes EXCEPT !["client"][k] = k]
      /\ net' = [net EXCEPT !["host"] = Append(@, Open(k, k))]
      /\ phase' = [phase EXCEPT !["client"][k] = "open"]
      /\ reading' = reading \cup {<<"client", k>>}
      /\ draining' = [draining EXCEPT !["client"][k] = k]
      /\ UNCHANGED <<mix, how, connecting, cancelled, queue, sent, got, owed, restarts>>
  BY <1>s, <1>1 DEF Accept, Sending
<1>3. /\ Open(k, k) \in Packet /\ Open(k, k).kind = "open" /\ Open(k, k).id = k
      /\ Open(k, k).conn = k
  BY <1>1, Packets
<1>4. /\ net'["host"] = Append(net["host"], Open(k, k)) /\ net'["client"] = net["client"]
      /\ net["host"] \in Seq(Packet) /\ net["client"] \in Seq(Packet)
  BY <1>s, <1>2 DEF Sound, Channels
<1>5. /\ phase'["client"][k] = "open" /\ draining'["client"][k] = k
      /\ writes'["client"][k] = k /\ tcp'["client"][k] = k
  <2>1. phase'["client"][k] = "open" BY <1>s, <1>2 DEF Sound, Tables
  <2>2. draining'["client"][k] = k BY <1>s, <1>2 DEF Sound, Threads
  <2>3. writes'["client"][k] = k /\ tcp'["client"][k] = k
    BY <1>s, <1>1, <1>2 DEF Sound, Tables
  <2> QED BY <2>1, <2>2, <2>3
<1>6. \A t \in Sides, j \in Conns : t # "client" \/ j # k => Same(t, j)
  <2>1. \A t \in Sides, j \in Conns : t # "client" \/ j # k =>
            /\ phase'[t][j] = phase[t][j] /\ draining'[t][j] = draining[t][j]
            /\ writes'[t][j] = writes[t][j] /\ tcp'[t][j] = tcp[t][j]
    BY <1>s, <1>1, <1>2 DEF Sound, Tables, Threads, Conns, Ids
  <2>2. \A t \in Sides, j \in Conns : t # "client" \/ j # k =>
            (<<t, j>> \in reading' => <<t, j>> \in reading)
    BY <1>2
  <2> QED BY <1>2, <2>1, <2>2 DEF Same
<1>7. Numbered'
  <2>1. \A j \in Conns : j <= k => idOf'[j] = j
    BY <1>1, <1>2 DEF Sound, Numbers, Apart, Numbered
  <2> QED BY <1>2, <2>1 DEF Numbered
<1>8. Fresh'
  <2>1. \A s \in Sides : \/ net'[s] = net[s]
                         \/ net[s] # <<>> /\ net'[s] = Tail(net[s])
                         \/ \E p \in Packet : net'[s] = Append(net[s], p) /\ p.id <= k
    BY <1>s, <1>1, <1>3, <1>4
  <2>2. \A o \in owed' : o \in owed \/ o[2] <= k BY <1>2
  <2> QED BY <1>1, <1>2, <2>1, <2>2, FreshKept DEF Apart
<1>9. /\ Leads(net'["host"], k) /\ Line(net'["host"], k, 0) /\ Due(net'["host"], k, 0, 0)
      /\ Line(net'["client"], k, 0) /\ Due(net'["client"], k, 0, 0)
  <2>1. \A i \in DOMAIN net["host"] : net["host"][i].id # k BY <1>s, <1>1
  <2>2. \A i \in DOMAIN net["client"] : net["client"][i].id # k BY <1>s, <1>1
  <2>3. Line(net["client"], k, 0) /\ Due(net["client"], k, 0, 0) BY <1>4, <2>2, Silent
  <2>4. LET n == Append(net["host"], Open(k, k))
        IN  Leads(n, k) /\ Line(n, k, 0) /\ Due(n, k, 0, 0)
    BY <1>3, <1>4, <2>1, LeadsOpen
  <2> QED BY <1>4, <2>3, <2>4
<1>10. ASSUME NEW j \in Conns
       PROVE  Opening(j)' /\ (j # k => (Pending(net'["host"], j) => Pending(net["host"], j)))
  <2>1. phase'["host"][j] = phase["host"][j] BY <1>s, <1>6 DEF Same
  <2>2. CASE j = k BY <1>s, <1>1, <1>9, <2>1, <2>2 DEF Opening
  <2>3. CASE j # k
    <3>1. ~IsOpen(Open(k, k), j) BY <1>3, <2>3 DEF IsOpen
    <3>2. Opening(j) BY Parts, <1>s
    <3>3. Leads(net'["host"], j) /\ (Pending(net'["host"], j) <=> Pending(net["host"], j))
      BY <1>3, <1>4, <3>1, <3>2, LeadsAppend DEF Opening
    <3> QED BY <2>1, <3>2, <3>3 DEF Opening
  <2> QED BY <2>2, <2>3
<1>11. \A s \in Sides : Stored(s, k)' = 0
  <2>1. Len(<<>>) = 0 /\ 0 + 0 = 0 OBVIOUS
  <2>2. ASSUME NEW s \in Sides PROVE Stored(s, k)' = 0
    <3>1. queue'[s][k] = <<>> /\ got'[s][k] = <<>> BY <1>1, <1>2
    <3>2. Len(queue'[s][k]) = 0 /\ Len(got'[s][k]) = 0 BY <2>1, <3>1
    <3>3. Len(got'[s][k]) + Len(queue'[s][k]) = 0 BY <2>1, <3>2
    <3> QED BY <3>3 DEF Stored
  <2> QED BY <2>2
<1>12. ASSUME NEW s \in Sides PROVE Wire(s, k)'
  <2>1. sent'[Other(s)][k] = 0
    <3>1. Other(s) \in Sides BY SideFacts
    <3>2. sent[Other(s)][k] = 0 BY <1>1, <3>1
    <3> QED BY <1>2, <3>2
  <2>2. Line(net'[s], k, 0) /\ Due(net'[s], k, 0, 0) BY <1>s, <1>9
  <2>3. Stored(s, k)' = 0 BY <1>11
  <2> QED BY <2>1, <2>2, <2>3 DEF Wire
<1>13. ASSUME NEW t \in Sides, NEW j \in Conns PROVE Connection(t, j)'
  <2>1. CASE t = "client" /\ j = k
    <3>1. queue'[t][k] = <<>> /\ got'[t][k] = <<>> BY <1>1, <1>2
    <3>2. Cell("client", k)' BY <1>5 DEF Cell, Early
    <3>3. Written(t, k)' /\ Queued(t, k)' BY <3>1 DEF Written, Queued
    <3> QED BY <1>12, <2>1, <3>2, <3>3 DEF Connection
  <2>2. CASE t = "host" /\ j = k
    <3>1. Same(t, j) BY <1>6, <2>2
    <3>2. Local(t, j) BY Parts
    <3>3. Local(t, j)' BY <3>1, <3>2, LocalKept
    <3> QED BY <1>12, <2>2, <3>3 DEF Connection, Local
  <2>3. CASE j # k
    <3>1. Same(t, j) /\ Connection(t, j) BY <1>6, <2>3 DEF Apart
    <3>2. ~IsData(Open(k, k), j) BY <1>3 DEF IsData
    <3>3. Keeps(t, j) BY <1>s, <1>3, <1>4, <3>2 DEF Keeps
    <3>4. sent'[Other(t)][j] = sent[Other(t)][j] BY <1>2
    <3> QED BY <1>10, <2>3, <3>1, <3>3, <3>4, OtherKept
  <2> QED BY <1>s, <2>1, <2>2, <2>3
<1> QED BY <1>7, <1>8, <1>10, <1>13 DEF Apart

LEMMA AcceptUnannouncedApart ==
    ASSUME Sound, Apart, NEW k \in Conns, AcceptUnannounced(k) PROVE Apart'
<1>s. "client" \in Sides /\ "host" \in Sides BY SideFacts
<1>1. /\ nextStream = k /\ accepted \in Nat /\ k \in Nat /\ accepted <= k /\ k <= k
      /\ k \in Ids /\ \A j \in Conns : j <= k => j = k \/ j <= accepted
      /\ \A s \in Sides :
             /\ phase[s][k] = "none" /\ <<s, k>> \notin reading
             /\ draining[s][k] = NoConn /\ writes[s][k] = NoConn /\ tcp[s][k] = NoConn
             /\ queue[s][k] = <<>> /\ got[s][k] = <<>> /\ sent[s][k] = 0
             /\ \A i \in DOMAIN net[s] : net[s][i].id # k
  BY NextConn DEF AcceptUnannounced
<1>2. /\ accepted' = k /\ idOf' = [idOf EXCEPT ![k] = k] /\ nextStream' = k + 1
      /\ phase' = [phase EXCEPT !["client"][k] = "closed"]
      /\ UNCHANGED <<mix, tcp, writes, connecting, cancelled, reading, draining, queue,
                     sent, got, net, owed, restarts>>
  BY <1>1 DEF AcceptUnannounced
<1>3. /\ phase'["client"][k] = "closed"
      /\ \A t \in Sides, j \in Conns : t # "client" \/ j # k => phase'[t][j] = phase[t][j]
  BY <1>s, <1>2 DEF Sound, Tables
<1>4. Numbered'
  <2>1. \A j \in Conns : j <= k => idOf'[j] = j
    BY <1>1, <1>2 DEF Sound, Numbers, Apart, Numbered
  <2> QED BY <1>2, <2>1 DEF Numbered
<1>5. Fresh'
  <2>1. \A s \in Sides : net'[s] = net[s] BY <1>2
  <2>2. \A o \in owed' : o \in owed BY <1>2
  <2> QED BY <1>1, <1>2, <2>1, <2>2, FreshKept DEF Apart
<1>6. ASSUME NEW j \in Conns PROVE Opening(j)'
  <2>1. phase'["host"][j] = phase["host"][j] BY <1>s, <1>3
  <2>2. Opening(j) BY <1>s, Parts
  <2> QED BY <1>2, <2>1, <2>2 DEF Opening
<1>7. ASSUME NEW t \in Sides, NEW j \in Conns PROVE Connection(t, j)'
  <2>1. Cell(t, j) /\ Written(t, j) /\ Queued(t, j) /\ Wire(t, j) BY Parts
  <2>2. Wire(t, j)' BY <1>2, <2>1 DEF Wire, Awaits, Stored
  <2>3. Written(t, j)' BY <1>2, <2>1 DEF Written
  <2>4. CASE t = "client" /\ j = k
    <3>1. Cell("client", k)'
      <4>1. writes["client"][k] # k BY <1>s, <1>1, Shapes
      <4> QED BY <1>s, <1>1, <1>2, <1>3, <4>1 DEF Cell, Early
    <3>2. queue'[t][k] = <<>> BY <1>1, <1>2
    <3>3. Queued(t, k)' BY <3>2 DEF Queued
    <3> QED BY <2>2, <2>3, <2>4, <3>1, <3>3 DEF Connection
  <2>5. CASE t # "client" \/ j # k
    <3>1. phase'[t][j] = phase[t][j] BY <1>3, <2>5
    <3>2. Cell(t, j)' BY <1>2, <2>1, <3>1 DEF Cell
    <3>3. Queued(t, j)' BY <1>2, <2>1, <3>1 DEF Queued
    <3> QED BY <2>2, <2>3, <3>2, <3>3 DEF Connection
  <2> QED BY <2>4, <2>5
<1> QED BY <1>4, <1>5, <1>6, <1>7 DEF Apart

\* The host's engine is replaced: every connection is left there at once.
LEMMA RebuildHostApart ==
    ASSUME Sound, Apart, RebuildHost PROVE Apart'
<1>s. /\ "client" \in Sides /\ "host" \in Sides /\ Other("client") = "host"
      /\ Other("host") = "client" /\ \A t \in Sides : t # "host" => t = "client"
  BY SideFacts DEF Other
<1>1. /\ UNCHANGED <<mix, accepted, idOf, nextStream, queue, sent, got, net>>
      /\ owed' \subseteq owed /\ reading' = {t \in reading : t[1] # "host"}
      /\ connecting' = {} /\ cancelled' = {}
      /\ phase' = [phase EXCEPT !["host"] =
             [k \in Conns |-> IF Stopped("host", k) THEN "closed" ELSE phase["host"][k]]]
      /\ tcp' = [tcp EXCEPT !["host"] = [id \in Ids |-> NoConn]]
      /\ writes' = [writes EXCEPT !["host"] = [id \in Ids |-> NoConn]]
      /\ draining' = [draining EXCEPT !["host"] = [k \in Conns |-> NoConn]]
  BY DEF RebuildHost, Restart
<1>2. ASSUME NEW k \in Conns
      PROVE  /\ tcp'["host"][k] = NoConn /\ writes'["host"][k] = NoConn
             /\ draining'["host"][k] = NoConn
             /\ tcp'["client"][k] = tcp["client"][k]
             /\ writes'["client"][k] = writes["client"][k]
             /\ draining'["client"][k] = draining["client"][k]
  BY <1>s, <1>1 DEF Sound, Tables, Threads, Conns, Ids
<1>3. ASSUME NEW k \in Conns
      PROVE  /\ phase'["client"][k] = phase["client"][k]
             /\ \/ phase'["host"][k] = phase["host"][k]
                \/ phase["host"][k] # "none" /\ phase'["host"][k] = "closed"
             /\ phase["host"][k] = "none" => phase'["host"][k] = "none"
  BY <1>s, <1>1 DEF Sound, Tables, Stopped
<1>4. Numbered' BY <1>1 DEF Apart, Numbered
<1>5. Fresh' BY <1>1 DEF Apart, Fresh
<1>6. ASSUME NEW k \in Conns PROVE Opening(k)'
  <2>1. Opening(k) BY <1>s, Parts
  <2> QED BY <1>1, <1>3, <2>1 DEF Opening
<1>7. ASSUME NEW k \in Conns PROVE Connection("host", k)'
  <2>1. Left("host", k) BY <1>1, <1>2, <1>3 DEF Left
  <2>2. Local("host", k)' BY <1>s, <2>1, Parts, LeftLocal
  <2>3. Wire("host", k)'
    <3>1. Cell("host", k) /\ Wire("host", k) /\ Opening(k) BY <1>s, Parts
    <3>2. Spares("host", k) BY <1>1 DEF Spares
    <3>3. /\ got'["host"][k] = got["host"][k] /\ queue'["host"][k] = queue["host"][k]
          /\ sent'[Other("host")][k] = sent[Other("host")][k]
          /\ net'["host"] = net["host"]
      BY <1>1
    <3> QED BY <1>s, <1>2, <3>1, <3>2, <3>3, LeftWire
  <2> QED BY <2>2, <2>3 DEF Connection, Local
<1>8. ASSUME NEW k \in Conns PROVE Connection("client", k)'
  <2>1. Same("client", k) BY <1>1, <1>2, <1>3 DEF Same
  <2>2. Keeps("client", k) BY <1>1 DEF Keeps
  <2>3. Connection("client", k) BY <1>s DEF Apart
  <2>4. sent'[Other("client")][k] = sent[Other("client")][k] BY <1>1
  <2> QED BY <1>s, <2>1, <2>2, <2>3, <2>4, OtherKept
<1>9. \A t \in Sides, k \in Conns : Connection(t, k)' BY <1>s, <1>7, <1>8
<1> QED BY <1>4, <1>5, <1>6, <1>9 DEF Apart

LEMMA ApartInit == Init => Apart
<1> SUFFICES ASSUME Init PROVE Apart
  OBVIOUS
<1>s. \A s \in Sides : Other(s) \in Sides BY SideFacts
<1>1. Numbered BY DEF Init, Numbered, Conns
<1>2. Fresh BY DEF Init, Fresh
<1>3. ASSUME NEW s \in Sides, NEW k \in Conns PROVE Connection(s, k)
  <2>1. /\ net[s] = <<>> /\ sent[Other(s)][k] = 0 /\ sent[s][k] = 0
        /\ queue[s][k] = <<>> /\ got[s][k] = <<>> /\ phase[s][k] = "none"
        /\ writes[s][k] = NoConn /\ tcp[s][k] = NoConn /\ draining[s][k] = NoConn
        /\ reading = {} /\ connecting = {} /\ cancelled = {} /\ k # NoConn
    BY <1>s DEF Init, Everywhere, Conns, Ids, NoConn
  <2>2. Cell(s, k) BY <2>1 DEF Cell
  <2>3. Written(s, k) /\ Queued(s, k) BY <2>1 DEF Written, Queued
  <2>4. Wire(s, k)
    <3>1. Line(net[s], k, 0) BY <2>1 DEF Line
    <3>2. net["host"] = <<>> BY SideFacts DEF Init
    <3>3. ~Awaits(s, k) BY <2>1, <3>2 DEF Awaits, Pending
    <3> QED BY <2>1, <3>1, <3>3 DEF Wire
  <2> QED BY <2>2, <2>3, <2>4 DEF Connection
<1>4. \A k \in Conns : Opening(k)
  <2>1. net["host"] = <<>> BY SideFacts DEF Init
  <2> QED BY <2>1 DEF Opening, Leads, Pending
<1> QED BY <1>1, <1>2, <1>3, <1>4 DEF Apart

\* Only ReopenLocally makes the numbers start again.
FirstClient == restarts["client"] = 0

LEMMA ApartNext == Sound /\ (FirstClient => Apart) /\ [Next]_vars => (FirstClient => Apart)'
<1> SUFFICES ASSUME Sound, FirstClient => Apart, [Next]_vars, FirstClient'
             PROVE  Apart'
  OBVIOUS
<1>s. "client" \in Sides /\ "host" \in Sides /\ restarts \in [Sides -> Nat]
  BY SideFacts DEF Sound, Numbers
<1>1. ~ReopenLocally
  <2>1. ReopenLocally => restarts' = [restarts EXCEPT !["client"] = @ + 1]
    BY DEF ReopenLocally, Restart
  <2>2. restarts["client"] \in Nat /\ restarts["client"] + 1 # 0 BY <1>s
  <2> QED BY <1>s, <2>1, <2>2 DEF FirstClient
<1>2. CASE RebuildHost
  <2>1. restarts' = [restarts EXCEPT !["host"] = @ + 1] BY <1>2 DEF RebuildHost, Restart
  <2>2. FirstClient BY <1>s, <2>1 DEF FirstClient
  <2> QED BY <1>2, <2>2, RebuildHostApart
<1>3. CASE UNCHANGED vars
  <2>1. Apart BY <1>3 DEF vars, FirstClient
  <2>2. ASSUME NEW s \in Sides, NEW k \in Conns PROVE Connection(s, k)' /\ Opening(k)'
    <3>1. Same(s, k) BY <1>3 DEF vars, Same
    <3>2. Local(s, k)' BY <2>1, <3>1, Parts, LocalKept
    <3>3. Wire(s, k) /\ Opening(k) BY <2>1, Parts
    <3>4. Wire(s, k)' BY <1>3, <3>3 DEF vars, Wire, Awaits, Stored
    <3>5. Opening(k)' BY <1>3, <3>3 DEF vars, Opening
    <3> QED BY <3>2, <3>4, <3>5 DEF Connection, Local
  <2>3. Numbered' /\ Fresh' BY <1>3, <2>1 DEF vars, Apart, Numbered, Fresh
  <2> QED BY <1>s, <2>2, <2>3 DEF Apart
<1>4. ASSUME NEW k \in Conns, Accept(k) \/ AcceptUnannounced(k) \/ Connect(k) PROVE Apart'
  <2>1. UNCHANGED restarts
    BY <1>4 DEF Accept, AcceptUnannounced, Connect, ConnectFails, ConnectEnds, ConnectSettles
  <2>2. Apart BY <2>1 DEF FirstClient
  <2> QED BY <1>4, <2>2, AcceptApart, AcceptUnannouncedApart, ConnectFailsApart,
             ConnectEndsApart, ConnectSettlesApart DEF Connect
<1>5. ASSUME NEW s \in Sides, NEW k \in Conns,
             \/ ReadChunk(s, k)
             \/ \E why \in {"ended", "unsent"} : ReadEnds(s, k, why)
             \/ Write(s, k)
             \/ Collect(s, k)
      PROVE  Apart'
  <2>1. UNCHANGED restarts BY <1>5 DEF ReadChunk, ReadEnds, Write, Collect
  <2>2. Apart BY <2>1 DEF FirstClient
  <2> QED BY <1>5, <2>2, ReadChunkApart, ReadEndsApart, WriteApart, CollectApart
<1>6. ASSUME NEW s \in Sides, Receive(s) PROVE Apart'
  <2>1. UNCHANGED restarts BY <1>6 DEF Receive, ReceiveOpen, ReceiveData, ReceiveClose
  <2>2. Apart BY <2>1 DEF FirstClient
  <2> QED BY <1>6, <2>2, ReceiveOpenApart, ReceiveDataApart, ReceiveCloseApart DEF Receive
<1>7. ASSUME NEW s \in Sides, NEW id \in Ids, SendClose(s, id) PROVE Apart'
  <2>1. UNCHANGED restarts BY <1>7 DEF SendClose
  <2>2. Apart BY <2>1 DEF FirstClient
  <2>3. id \in Conns BY DEF Ids, Conns
  <2> QED BY <1>7, <2>2, <2>3, SendCloseApart
<1> QED BY <1>1, <1>2, <1>3, <1>4, <1>5, <1>6, <1>7 DEF Next

LEMMA ApartMeans == Sound /\ Apart => StreamsStayApart
<1> SUFFICES ASSUME Sound, Apart PROVE StreamsStayApart
  OBVIOUS
<1>1. InOrder
  <2>1. ASSUME NEW s \in Sides, NEW k \in Conns, NEW i \in 1 .. Len(got[s][k])
        PROVE  got[s][k][i] = <<k, i>>
    <3>1. DOMAIN got[s][k] = 1 .. Len(got[s][k]) BY Shapes
    <3> QED BY <3>1, Parts DEF Written
  <2> QED BY <2>1 DEF InOrder
<1>2. NoStaleStream
  <2>1. ASSUME NEW s \in Sides, NEW id \in Ids
        PROVE  /\ tcp[s][id] # NoConn => writes[s][id] = tcp[s][id]
               /\ writes[s][id] # NoConn =>
                      /\ idOf[writes[s][id]] = id
                      /\ phase[s][writes[s][id]] \in {"connecting", "connected", "open"}
    <3>1. id \in Conns BY DEF Ids, Conns
    <3>2. Cell(s, id) BY <3>1, Parts
    <3>3. ASSUME writes[s][id] # NoConn
          PROVE  writes[s][id] = id /\ idOf[id] = id
                 /\ phase[s][id] \in {"connecting", "connected", "open"}
      <4>1. writes[s][id] = id /\ phase[s][id] \in {"connecting", "connected", "open"}
        BY <3>2, <3>3 DEF Cell, Early
      <4> QED BY <3>1, <4>1, Own
    <3> QED BY <3>2, <3>3 DEF Cell
  <2> QED BY <2>1 DEF NoStaleStream
<1> QED BY <1>1, <1>2 DEF StreamsStayApart

\* As long as the client has its first engine, each socket gets what its own
\* connection sent, in order and with nothing missing between, and every entry
\* of the tables is the one of a connection in use: for any number of connections
\* and chunks, any length of the queues, any limit of streams, and whatever the
\* host does with its engine (_queue_tcp, _close_tcp, _remote_close_tcp,
\* _connect_target_tcp).  A second client engine starts its numbers again.
THEOREM TcpStreams == Spec => [](restarts["client"] = 0 => StreamsStayApart)
<1>1. Spec => []Sound BY SoundInit, SoundNext, PTL DEF Spec
<1>2. Spec => [](FirstClient => Apart)
  <2>1. Init => (FirstClient => Apart) BY ApartInit
  <2> QED BY <1>1, <2>1, ApartNext, PTL DEF Spec
<1>3. Sound /\ (FirstClient => Apart) => (restarts["client"] = 0 => StreamsStayApart)
  BY ApartMeans DEF FirstClient
<1> QED BY <1>1, <1>2, <1>3, PTL

\* In particular every socket is sent exactly what its own connection gave, from
\* the first chunk on (_queue_tcp, _write_tcp).
THEOREM TcpOrder == Spec => [](restarts["client"] = 0 => InOrder)
<1>1. StreamsStayApart => InOrder BY DEF StreamsStayApart
<1> QED BY <1>1, TcpStreams, PTL

-----------------------------------------------------------------------------
(* What is drained is complete *)

IsClose(p, k) == p.kind = "close" /\ p.id = k
HasClose(n, k) == \E i \in DOMAIN n : IsClose(n[i], k)

\* No chunk of connection k is under way behind a packet that closes it.
Follows(n, k) == \A i, j \in DOMAIN n : IsClose(n[i], k) /\ IsData(n[j], k) => j < i

\* The socket of k on side s has sent its last chunk: it is not open and nothing
\* can open it any more.
Done(s, k) == k <= accepted /\ phase[s][k] # "open" /\ ~Awaits(s, k)

\* Side s is about to tell the other one that k is closed, or has told it.
Closing(s, k) == <<s, k>> \in owed \/ HasClose(net[Other(s)], k)

Marked(s, k) == \E j \in DOMAIN queue[s][k] : queue[s][k][j] = Fin

\* A queue that ends while its socket is open ends with the last chunk that the
\* other side will ever send, and is drained only down to it.
Ending(s, k) ==
    /\ how[s][k] = "drained" => phase[s][k] = "closed"
    /\ phase[s][k] = "open" /\ writes[s][k] = k => tcp[s][k] = k
    /\ phase[s][k] = "open" /\ draining[s][k] = k /\ Marked(s, k) =>
           Stored(s, k) = sent[Other(s)][k] + 1 /\ Done(Other(s), k)
    /\ how[s][k] = "drained" => Len(got[s][k]) = sent[Other(s)][k] /\ Done(Other(s), k)

\* The inductive invariant, on top of Sound and Apart.
Complete ==
    /\ \A s \in Sides, k \in Conns : Ending(s, k)
    /\ \A s \in Sides, k \in Conns : Closing(s, k) => Done(s, k)
    /\ \A s \in Sides, k \in Conns : Follows(net[s], k)

LEMMA FollowsTail ==
    ASSUME NEW n \in Seq(Packet), n # <<>>, NEW k, Follows(n, k)
    PROVE  /\ Follows(Tail(n), k)
           /\ HasClose(Tail(n), k) => HasClose(n, k)
           /\ Pending(Tail(n), k) => Pending(n, k)
<1>1. /\ \A i \in DOMAIN Tail(n) : i + 1 \in DOMAIN n /\ Tail(n)[i] = n[i + 1]
      /\ \A i, j \in DOMAIN Tail(n) : j + 1 < i + 1 => j < i
  BY TailFacts
<1>2. Follows(Tail(n), k) BY <1>1 DEF Follows
<1>3. HasClose(Tail(n), k) => HasClose(n, k) BY <1>1 DEF HasClose
<1>4. Pending(Tail(n), k) => Pending(n, k) BY <1>1 DEF Pending
<1> QED BY <1>2, <1>3, <1>4

LEMMA FollowsAppend ==
    ASSUME NEW n \in Seq(Packet), NEW p \in Packet, NEW k, Follows(n, k),
           IsData(p, k) => ~HasClose(n, k)
    PROVE  /\ Follows(Append(n, p), k)
           /\ HasClose(Append(n, p), k) => HasClose(n, k) \/ IsClose(p, k)
           /\ Pending(Append(n, p), k) => Pending(n, k) \/ IsOpen(p, k)
<1> DEFINE m == Append(n, p)
           z == Len(n) + 1
<1>1. /\ \A i \in DOMAIN m : i = z \/ (i \in DOMAIN n /\ m[i] = n[i])
      /\ \A i \in DOMAIN n : i < z
      /\ m[z] = p
  BY AppendFacts
<1> HIDE DEF m, z
<1>2. ~(IsClose(p, k) /\ IsData(p, k)) BY DEF IsClose, IsData
<1>3. Follows(m, k)
  <2>1. ASSUME NEW i \in DOMAIN m, NEW j \in DOMAIN m, IsClose(m[i], k), IsData(m[j], k)
        PROVE  j < i
    <3>1. CASE j = z
      <4>1. IsData(p, k) /\ i # z BY <1>1, <1>2, <2>1, <3>1
      <4>2. i \in DOMAIN n /\ m[i] = n[i] BY <1>1, <4>1
      <4> QED BY <2>1, <4>1, <4>2 DEF HasClose
    <3>2. CASE j \in DOMAIN n /\ m[j] = n[j]
      <4>1. CASE i = z BY <1>1, <3>2, <4>1
      <4>2. CASE i \in DOMAIN n /\ m[i] = n[i] BY <2>1, <3>2, <4>2 DEF Follows
      <4> QED BY <1>1, <4>1, <4>2
    <3> QED BY <1>1, <3>1, <3>2
  <2> QED BY <2>1 DEF Follows
<1>4. HasClose(m, k) => HasClose(n, k) \/ IsClose(p, k) BY <1>1 DEF HasClose
<1>5. Pending(m, k) => Pending(n, k) \/ IsOpen(p, k) BY <1>1 DEF Pending
<1> QED BY <1>3, <1>4, <1>5 DEF m

\* What a step may do to the channel to side t, as far as connection k goes: a
\* close packet is sent by a socket that is done, a chunk by one that is not.
Orderly(t, k) ==
    \/ net'[t] = net[t]
    \/ net[t] # <<>> /\ net'[t] = Tail(net[t])
    \/ \E p \in Packet : /\ net'[t] = Append(net[t], p)
                         /\ IsOpen(p, k) => ~(k <= accepted)
                         /\ IsClose(p, k) => Done(Other(t), k)'
                         /\ IsData(p, k) => ~Done(Other(t), k)

\* The socket stays as it was, or is closed, and sends nothing.
Rests(s, k) ==
    /\ phase'[s][k] = "open" => phase[s][k] = "open"
    /\ writes'[s][k] = k => writes[s][k] = k
    /\ sent'[s][k] = sent[s][k]

Steady(s, k) == Done(s, k) => Done(s, k)' /\ sent'[s][k] = sent[s][k]

Idle(s, k) ==
    /\ phase'[s][k] = phase[s][k] /\ how'[s][k] = how[s][k] /\ tcp'[s][k] = tcp[s][k]
    /\ writes'[s][k] = writes[s][k] /\ draining'[s][k] = draining[s][k]
    /\ queue'[s][k] = queue[s][k] /\ got'[s][k] = got[s][k]

LEMMA ChannelStep ==
    ASSUME Sound, Complete, NEW t \in Sides, NEW k \in Conns, Orderly(t, k)
    PROVE  /\ Follows(net'[t], k)
           /\ HasClose(net'[t], k) => HasClose(net[t], k) \/ Done(Other(t), k)'
           /\ Pending(net'[t], k) => Pending(net[t], k) \/ ~(k <= accepted)
<1>1. net[t] \in Seq(Packet) /\ Follows(net[t], k) BY Shapes DEF Complete
<1>2. HasClose(net[t], k) => Done(Other(t), k)
  <2>1. Other(t) \in Sides /\ Other(Other(t)) = t BY SideFacts
  <2>2. HasClose(net[t], k) => Closing(Other(t), k) BY <2>1 DEF Closing
  <2> QED BY <2>1, <2>2 DEF Complete
<1>3. CASE net'[t] = net[t] BY <1>1, <1>3
<1>4. CASE net[t] # <<>> /\ net'[t] = Tail(net[t]) BY <1>1, <1>4, FollowsTail
<1>5. CASE \E p \in Packet : /\ net'[t] = Append(net[t], p)
                             /\ IsOpen(p, k) => ~(k <= accepted)
                             /\ IsClose(p, k) => Done(Other(t), k)'
                             /\ IsData(p, k) => ~Done(Other(t), k)
  <2>1. PICK p \in Packet : /\ net'[t] = Append(net[t], p)
                            /\ IsOpen(p, k) => ~(k <= accepted)
                            /\ IsClose(p, k) => Done(Other(t), k)'
                            /\ IsData(p, k) => ~Done(Other(t), k)
    BY <1>5
  <2>2. IsData(p, k) => ~HasClose(net[t], k) BY <1>2, <2>1
  <2>3. /\ Follows(Append(net[t], p), k)
        /\ HasClose(Append(net[t], p), k) => HasClose(net[t], k) \/ IsClose(p, k)
        /\ Pending(Append(net[t], p), k) => Pending(net[t], k) \/ IsOpen(p, k)
    BY <1>1, <2>1, <2>2, FollowsAppend
  <2> QED BY <2>1, <2>3
<1> QED BY <1>3, <1>4, <1>5 DEF Orderly

\* A socket that is done stays done.
LEMMA StaysDone ==
    ASSUME Sound, Complete, accepted' \in Nat, accepted <= accepted',
           \A k \in Conns : Orderly("host", k),
           \A s \in Sides, k \in Conns : Done(s, k) => Rests(s, k)
    PROVE  \A s \in Sides, k \in Conns : Steady(s, k)
<1> SUFFICES ASSUME NEW s \in Sides, NEW k \in Conns, Done(s, k)
             PROVE  Done(s, k)' /\ sent'[s][k] = sent[s][k]
  BY DEF Steady
<1>1. Rests(s, k) /\ k <= accepted /\ phase[s][k] # "open" /\ ~Awaits(s, k)
  BY DEF Done
<1>2. accepted \in Nat /\ k \in Nat BY Constants DEF Sound, Numbers, Conns
<1>3. k <= accepted' BY <1>1, <1>2
<1>4. Pending(net'["host"], k) => Pending(net["host"], k)
  <2>1. "host" \in Sides BY SideFacts
  <2>2. Orderly("host", k) OBVIOUS
  <2> QED BY <1>1, <2>1, <2>2, ChannelStep
<1>5. ~(Awaits(s, k)') BY <1>1, <1>4 DEF Rests, Awaits
<1>6. Done(s, k)' BY <1>1, <1>3, <1>5 DEF Rests, Done
<1> QED BY <1>1, <1>6 DEF Rests

LEMMA EndingKept ==
    ASSUME NEW s \in Sides, NEW k \in Conns, Ending(s, k), Idle(s, k), Steady(Other(s), k)
    PROVE  Ending(s, k)'
<1>1. Stored(s, k)' = Stored(s, k) BY DEF Idle, Stored
<1>2. Marked(s, k)' => Marked(s, k) BY DEF Idle, Marked
<1>3. ASSUME phase'[s][k] = "open", draining'[s][k] = k, Marked(s, k)'
      PROVE  Stored(s, k)' = sent'[Other(s)][k] + 1 /\ Done(Other(s), k)'
  <2>1. Stored(s, k) = sent[Other(s)][k] + 1 /\ Done(Other(s), k)
    BY <1>2, <1>3 DEF Idle, Ending
  <2> QED BY <1>1, <2>1 DEF Steady
<1>4. ASSUME how'[s][k] = "drained"
      PROVE  Len(got'[s][k]) = sent'[Other(s)][k] /\ Done(Other(s), k)'
  <2>1. Len(got[s][k]) = sent[Other(s)][k] /\ Done(Other(s), k) BY <1>4 DEF Idle, Ending
  <2> QED BY <2>1 DEF Idle, Steady
<1>5. how'[s][k] = "drained" => phase'[s][k] = "closed" BY DEF Idle, Ending
<1>6. phase'[s][k] = "open" /\ writes'[s][k] = k => tcp'[s][k] = k BY DEF Idle, Ending
<1> QED BY <1>3, <1>4, <1>5, <1>6 DEF Ending

\* What is to be shown of a step.
LEMMA CompleteStep ==
    ASSUME Sound, Complete,
           \A t \in Sides, j \in Conns : Orderly(t, j),
           \A t \in Sides, j \in Conns : Steady(t, j),
           \A t \in Sides, j \in Conns : <<t, j>> \in owed' => <<t, j>> \in owed \/ Done(t, j)',
           \A t \in Sides, j \in Conns : Idle(t, j) \/ Ending(t, j)'
    PROVE  Complete'
<1>1. ASSUME NEW t \in Sides, NEW j \in Conns PROVE Ending(t, j)'
  <2>1. Other(t) \in Sides BY SideFacts
  <2>2. Ending(t, j) /\ Steady(Other(t), j) BY <2>1 DEF Complete
  <2> QED BY <2>2, EndingKept
<1>2. ASSUME NEW t \in Sides, NEW j \in Conns, Closing(t, j)' PROVE Done(t, j)'
  <2>1. Other(t) \in Sides /\ Other(Other(t)) = t BY SideFacts
  <2>2. Orderly(Other(t), j) /\ Steady(t, j) BY <2>1
  <2>3. HasClose(net'[Other(t)], j) => HasClose(net[Other(t)], j) \/ Done(t, j)'
    BY <2>1, <2>2, ChannelStep
  <2>4. Closing(t, j) \/ Done(t, j)' BY <1>2, <2>3 DEF Closing
  <2>5. Closing(t, j) => Done(t, j) BY DEF Complete
  <2> QED BY <2>2, <2>4, <2>5 DEF Steady
<1>3. ASSUME NEW t \in Sides, NEW j \in Conns PROVE Follows(net'[t], j)
  BY ChannelStep
<1> QED BY <1>1, <1>2, <1>3 DEF Complete

\* Frames: the step concerns connection k on side s only, and the channels carry
\* nothing new.
LEMMA LocalStep ==
    ASSUME Sound, Complete, NEW s \in Sides, NEW k \in Conns, accepted' = accepted,
           \A t \in Sides : net'[t] = net[t] \/ (net[t] # <<>> /\ net'[t] = Tail(net[t])),
           \A t \in Sides, j \in Conns : t # s \/ j # k => Idle(t, j),
           sent' = sent,
           Done(s, k) => Rests(s, k),
           \A t \in Sides, j \in Conns : (t # s \/ j # k) /\ <<t, j>> \in owed' => <<t, j>> \in owed,
           <<s, k>> \in owed' => <<s, k>> \in owed \/ Done(s, k)',
           Steady(Other(s), k) => Idle(s, k) \/ Ending(s, k)'
    PROVE  Complete'
<1>1. \A t \in Sides, j \in Conns : Orderly(t, j) BY DEF Orderly
<1>2. \A t \in Sides, j \in Conns : Done(t, j) => Rests(t, j)
  <2>1. \A t \in Sides, j \in Conns : t # s \/ j # k => Rests(t, j) BY DEF Idle, Rests
  <2> QED BY <2>1
<1>3. accepted' \in Nat /\ accepted <= accepted' BY Constants DEF Sound, Numbers
<1>4. \A j \in Conns : Orderly("host", j) BY <1>1, SideFacts
<1>5. \A t \in Sides, j \in Conns : Steady(t, j) BY <1>2, <1>3, <1>4, StaysDone
<1>6. Idle(s, k) \/ Ending(s, k)'
  <2>1. Other(s) \in Sides BY SideFacts
  <2> QED BY <1>5, <2>1
<1>7. \A t \in Sides, j \in Conns : Idle(t, j) \/ Ending(t, j)' BY <1>6
<1>8. \A t \in Sides, j \in Conns : <<t, j>> \in owed' => <<t, j>> \in owed \/ Done(t, j)'
  OBVIOUS
<1> QED BY <1>1, <1>5, <1>7, <1>8, CompleteStep

\* The reason a socket is closed for.
LEMMA ReasonEffect ==
    ASSUME Sound, NEW s \in Sides, NEW k \in Conns, NEW c \in {NoConn, k}, NEW why,
           CloseSocket(s, c, why)
    PROVE  /\ \/ /\ phase'[s][k] = phase[s][k] /\ how'[s][k] = how[s][k]
                 /\ c # k \/ phase[s][k] # "open"
              \/ /\ phase[s][k] = "open" /\ phase'[s][k] = "closed" /\ how'[s][k] = why
           /\ \A t \in Sides, j \in Conns : t # s \/ j # k =>
                  phase'[t][j] = phase[t][j] /\ how'[t][j] = how[t][j]
<1>0. k # NoConn BY Shapes
<1>1. CASE c = k /\ phase[s][k] = "open"
  <2>1. phase' = [phase EXCEPT ![s][k] = "closed"] /\ how' = [how EXCEPT ![s][k] = why]
    BY <1>0, <1>1 DEF CloseSocket
  <2>2. phase \in [Sides -> [Conns -> Phases]] /\ how \in [Sides -> [Conns -> Reasons]]
    BY DEF Sound, Tables
  <2>3. phase'[s][k] = "closed" /\ \A t \in Sides, j \in Conns : t # s \/ j # k =>
            phase'[t][j] = phase[t][j]
    BY <2>1, <2>2
  <2>4. how'[s][k] = why /\ \A t \in Sides, j \in Conns : t # s \/ j # k =>
            how'[t][j] = how[t][j]
    BY <2>1, <2>2
  <2> QED BY <1>1, <2>3, <2>4
<1>2. CASE c # k \/ phase[s][k] # "open"
  <2>1. UNCHANGED <<phase, how>> BY <1>0, <1>2 DEF CloseSocket
  <2> QED BY <1>2, <2>1
<1> QED BY <1>1, <1>2

\* A socket whose stream is closed by its own side is closed, or had no entry.
LEMMA CloseTcpEnding ==
    ASSUME Sound, Apart, Complete, NEW s \in Sides, NEW k \in Conns, k <= accepted,
           NEW why, why # "drained", NEW q, Queues(q), CloseTcp(s, k, why, q),
           accepted' = accepted,
           Pending(net'["host"], k) => Pending(net["host"], k)
    PROVE  /\ \A t \in Sides, j \in Conns : t # s \/ j # k =>
                  /\ tcp'[t][j] = tcp[t][j] /\ writes'[t][j] = writes[t][j]
                  /\ queue'[t][j] = q[t][j] /\ phase'[t][j] = phase[t][j]
                  /\ how'[t][j] = how[t][j]
                  /\ <<t, j>> \in owed' => <<t, j>> \in owed
           /\ tcp'[s][k] = NoConn /\ writes'[s][k] = NoConn
           /\ phase'[s][k] = "open" => phase[s][k] = "open" /\ queue'[s][k] = q[s][k]
           /\ how'[s][k] = "drained" => how[s][k] = "drained" /\ phase'[s][k] = phase[s][k]
           /\ <<s, k>> \in owed' => <<s, k>> \in owed \/ Done(s, k)'
<1>p. Cell(s, k) /\ Opening(k) /\ Ending(s, k) /\ k # NoConn
  BY Parts, Shapes DEF Complete
<1>1. writes[s][k] \in {NoConn, k} /\ tcp[s][k] \in {NoConn, k} BY <1>p DEF Cell
<1>2. TakeStream(s, k) /\ CloseSocket(s, tcp[s][k], why)
      /\ queue' = Offered(q, s, writes[s][k], Fin)
      /\ owed' = IF tcp[s][k] # NoConn \/ writes[s][k] # NoConn
                 THEN owed \cup {<<s, k>>} ELSE owed
  BY DEF CloseTcp
<1>3. /\ tcp'[s][k] = NoConn /\ writes'[s][k] = NoConn
      /\ \A t \in Sides, j \in Conns : t # s \/ j # k =>
             /\ tcp'[t][j] = tcp[t][j] /\ writes'[t][j] = writes[t][j]
             /\ queue'[t][j] = q[t][j]
      /\ \/ queue'[s][k] = q[s][k]
         \/ writes[s][k] = k /\ queue'[s][k] = Append(q[s][k], Fin)
  BY <1>1, <1>2, TakeEffect
<1>4. /\ \/ /\ phase'[s][k] = phase[s][k] /\ how'[s][k] = how[s][k]
            /\ tcp[s][k] # k \/ phase[s][k] # "open"
         \/ /\ phase[s][k] = "open" /\ phase'[s][k] = "closed" /\ how'[s][k] = why
      /\ \A t \in Sides, j \in Conns : t # s \/ j # k =>
             phase'[t][j] = phase[t][j] /\ how'[t][j] = how[t][j]
  BY <1>1, <1>2, ReasonEffect
<1>5. phase'[s][k] = "open" => phase[s][k] = "open" /\ writes[s][k] # k
  BY <1>4, <1>p DEF Ending
<1>6. \A t \in Sides, j \in Conns : t # s \/ j # k => (<<t, j>> \in owed' => <<t, j>> \in owed)
  BY <1>2
<1>7. ASSUME <<s, k>> \in owed', <<s, k>> \notin owed PROVE Done(s, k)'
  <2>1. writes[s][k] = k BY <1>1, <1>2, <1>7, <1>p DEF Cell
  <2>2. phase'[s][k] # "open" BY <1>5, <2>1
  <2>3. phase[s][k] # "none" BY <1>p, <2>1 DEF Cell, Early
  <2>4. ~(s = "host" /\ Pending(net'["host"], k)) BY <1>p, <2>3 DEF Opening
  <2>5. ~(Awaits(s, k)') BY <1>3, <1>p, <2>4 DEF Awaits
  <2> QED BY <2>2, <2>5 DEF Done
<1> QED BY <1>3, <1>4, <1>5, <1>6, <1>7

LEMMA ReadEndsComplete ==
    ASSUME Sound, Apart, Complete, NEW s \in Sides, NEW k \in Conns,
           NEW why \in {"ended", "unsent"}, ReadEnds(s, k, why)
    PROVE  Complete'
<1>1. k <= accepted /\ idOf[k] = k BY Own DEF ReadEnds
<1>2. CloseTcp(s, k, why, queue) /\ Queues(queue) /\ why # "drained"
      /\ accepted' = accepted /\ draining' = draining /\ sent' = sent /\ got' = got
      /\ net' = net
  BY <1>1 DEF ReadEnds, Sound, Contents
<1>p. Ending(s, k) /\ k # NoConn BY Shapes DEF Complete
<1>3. /\ \A t \in Sides, j \in Conns : t # s \/ j # k =>
             /\ tcp'[t][j] = tcp[t][j] /\ writes'[t][j] = writes[t][j]
             /\ queue'[t][j] = queue[t][j] /\ phase'[t][j] = phase[t][j]
             /\ how'[t][j] = how[t][j]
             /\ <<t, j>> \in owed' => <<t, j>> \in owed
      /\ tcp'[s][k] = NoConn /\ writes'[s][k] = NoConn
      /\ phase'[s][k] = "open" => phase[s][k] = "open" /\ queue'[s][k] = queue[s][k]
      /\ how'[s][k] = "drained" => how[s][k] = "drained" /\ phase'[s][k] = phase[s][k]
      /\ <<s, k>> \in owed' => <<s, k>> \in owed \/ Done(s, k)'
  BY <1>1, <1>2, CloseTcpEnding
<1>4. \A t \in Sides, j \in Conns : t # s \/ j # k => Idle(t, j) BY <1>2, <1>3 DEF Idle
<1>5. Rests(s, k) BY <1>2, <1>3, <1>p DEF Rests
<1>6. ASSUME Steady(Other(s), k) PROVE Ending(s, k)'
  <2>1. writes'[s][k] # k BY <1>3, <1>p
  <2>2. ASSUME phase'[s][k] = "open", draining'[s][k] = k, Marked(s, k)'
        PROVE  Stored(s, k)' = sent'[Other(s)][k] + 1 /\ Done(Other(s), k)'
    <3>1. queue'[s][k] = queue[s][k] /\ phase[s][k] = "open" BY <1>3, <2>2
    <3>2. Marked(s, k) /\ Stored(s, k)' = Stored(s, k)
      BY <1>2, <2>2, <3>1 DEF Marked, Stored
    <3>3. Stored(s, k) = sent[Other(s)][k] + 1 /\ Done(Other(s), k)
      BY <1>2, <1>p, <2>2, <3>1, <3>2 DEF Ending
    <3> QED BY <1>6, <3>2, <3>3 DEF Steady
  <2>3. ASSUME how'[s][k] = "drained"
        PROVE  /\ phase'[s][k] = "closed"
               /\ Len(got'[s][k]) = sent'[Other(s)][k] /\ Done(Other(s), k)'
    <3>1. phase[s][k] = "closed" /\ Len(got[s][k]) = sent[Other(s)][k] /\ Done(Other(s), k)
      BY <1>3, <1>p, <2>3 DEF Ending
    <3> QED BY <1>2, <1>3, <1>6, <2>3, <3>1 DEF Steady
  <2> QED BY <2>1, <2>2, <2>3 DEF Ending
<1> QED BY <1>2, <1>3, <1>4, <1>5, <1>6, LocalStep

LEMMA CollectComplete ==
    ASSUME Sound, Apart, Complete, NEW s \in Sides, NEW k \in Conns, Collect(s, k)
    PROVE  Complete'
<1>1. k <= accepted /\ idOf[k] = k BY Own DEF Collect
<1>2. /\ CloseSocket(s, k, "broken") /\ phase[s][k] = "open"
      /\ UNCHANGED <<mix, accepted, nextStream, idOf, tcp, writes, connecting, cancelled,
                     reading, draining, queue, sent, got, net, owed, restarts>>
  BY <1>1 DEF Collect
<1>3. /\ phase'[s][k] = "closed" /\ how'[s][k] = "broken"
      /\ \A t \in Sides, j \in Conns : t # s \/ j # k =>
             phase'[t][j] = phase[t][j] /\ how'[t][j] = how[t][j]
  BY <1>2, ReasonEffect
<1>4. \A t \in Sides, j \in Conns : t # s \/ j # k => Idle(t, j) BY <1>2, <1>3 DEF Idle
<1>5. Rests(s, k) BY <1>2, <1>3 DEF Rests
<1>6. Ending(s, k)' BY <1>3 DEF Ending
<1>7. owed' = owed /\ net' = net /\ sent' = sent /\ accepted' = accepted BY <1>2
<1> QED BY <1>4, <1>5, <1>6, <1>7, LocalStep

LEMMA ConnectFailsComplete ==
    ASSUME Sound, Apart, Complete, NEW k \in Conns, ConnectFails(k) PROVE Complete'
<1>s. "host" \in Sides BY SideFacts
<1>1. k <= accepted /\ idOf[k] = k BY <1>s, Own DEF ConnectFails
<1>2. /\ TakeStream("host", k) /\ Queues(queue)
      /\ queue' = Offered(queue, "host", writes["host"][k], Fin)
      /\ owed' = owed \/ owed' = owed \cup {<<"host", k>>}
      /\ accepted' = accepted /\ net' = net /\ sent' = sent /\ got' = got
      /\ draining' = draining
  BY <1>1 DEF ConnectFails, Sound, Contents
<1>p. Cell("host", k) /\ Opening(k) /\ k # NoConn BY <1>s, Parts, Shapes
<1>3. /\ tcp'["host"][k] = NoConn /\ writes'["host"][k] = NoConn
      /\ \A t \in Sides, j \in Conns : t # "host" \/ j # k =>
             /\ tcp'[t][j] = tcp[t][j] /\ writes'[t][j] = writes[t][j]
             /\ queue'[t][j] = queue[t][j]
  <2>1. writes["host"][k] \in {NoConn, k} BY <1>p DEF Cell
  <2> QED BY <1>s, <1>2, <2>1, TakeEffect
<1>4. /\ phase'["host"][k] = "failed" /\ how'["host"][k] = "refused"
      /\ \A t \in Sides, j \in Conns : t # "host" \/ j # k =>
             phase'[t][j] = phase[t][j] /\ how'[t][j] = how[t][j]
      /\ phase["host"][k] = "connecting"
  BY FailsAlone
<1>f. phase'["host"][k] = "failed" /\ how'["host"][k] = "refused" BY <1>4
<1>5. \A t \in Sides, j \in Conns : t # "host" \/ j # k => Idle(t, j)
  BY <1>2, <1>3, <1>4 DEF Idle
<1>6. Rests("host", k) BY <1>2, <1>3, <1>4, <1>p DEF Rests
<1>7. Ending("host", k)' BY <1>f DEF Ending
<1>8. Done("host", k)'
  <2>1. ~Pending(net'["host"], k) BY <1>2, <1>4, <1>p DEF Opening
  <2>2. ~(Awaits("host", k)') BY <1>3, <1>p, <2>1 DEF Awaits
  <2>3. k <= accepted' BY <1>1, <1>2
  <2> QED BY <1>4, <2>2, <2>3 DEF Done
<1>9. \A t \in Sides, j \in Conns : (t # "host" \/ j # k) /\ <<t, j>> \in owed' => <<t, j>> \in owed
  BY <1>2
<1> QED BY <1>s, <1>2, <1>5, <1>6, <1>7, <1>8, <1>9, LocalStep

LEMMA ConnectEndsComplete ==
    ASSUME Sound, Apart, Complete, NEW k \in Conns, ConnectEnds(k) PROVE Complete'
<1>s. "host" \in Sides BY SideFacts
<1>1. k <= accepted /\ idOf[k] = k BY <1>s, Own DEF ConnectEnds
<1>2. /\ phase["host"][k] \in {"connecting", "failed"}
      /\ phase' = [phase EXCEPT !["host"][k] = IF @ = "failed" THEN "closed" ELSE "connected"]
      /\ UNCHANGED <<mix, accepted, nextStream, idOf, how, tcp, writes, cancelled, reading,
                     draining, queue, sent, got, net, owed, restarts>>
  BY DEF ConnectEnds
<1>3. phase'["host"][k] \in {"connected", "closed"}
      /\ \A t \in Sides, j \in Conns : t # "host" \/ j # k => phase'[t][j] = phase[t][j]
  BY <1>s, <1>2 DEF Sound, Tables
<1>4. \A t \in Sides, j \in Conns : t # "host" \/ j # k => Idle(t, j) BY <1>2, <1>3 DEF Idle
<1>5. Rests("host", k) BY <1>2, <1>3 DEF Rests
<1>6. Ending("host", k)'
  <2>1. Ending("host", k) BY <1>s DEF Complete
  <2>2. how["host"][k] # "drained" BY <1>2, <2>1 DEF Ending
  <2> QED BY <1>2, <1>3, <2>2 DEF Ending
<1>7. owed' = owed /\ net' = net /\ sent' = sent /\ accepted' = accepted BY <1>2
<1> QED BY <1>s, <1>4, <1>5, <1>6, <1>7, LocalStep

LEMMA ConnectSettlesComplete ==
    ASSUME Sound, Apart, Complete, NEW k \in Conns, ConnectSettles(k) PROVE Complete'
<1>s. "host" \in Sides BY SideFacts
<1>1. k <= accepted /\ idOf[k] = k BY <1>s, Own DEF ConnectSettles
<1>2. /\ phase["host"][k] = "connected" /\ owed' = owed /\ net' = net /\ sent' = sent
      /\ accepted' = accepted /\ writes' = writes /\ queue' = queue /\ got' = got
  BY <1>1 DEF ConnectSettles
<1>3. \/ /\ phase' = [phase EXCEPT !["host"][k] = "closed"]
         /\ how' = [how EXCEPT !["host"][k] = "abandoned"]
         /\ UNCHANGED <<tcp, reading, draining>>
      \/ /\ writes["host"][k] # NoConn
         /\ phase' = [phase EXCEPT !["host"][k] = "open"]
         /\ tcp' = [tcp EXCEPT !["host"][k] = k]
         /\ draining' = [draining EXCEPT !["host"][k] = writes["host"][k]]
         /\ UNCHANGED how
  BY <1>1 DEF ConnectSettles
<1>p. Cell("host", k) /\ Queued("host", k) /\ Ending("host", k) /\ k # NoConn
  BY <1>s, Parts, Shapes DEF Complete
<1>t. /\ phase \in [Sides -> [Conns -> Phases]] /\ how \in [Sides -> [Conns -> Reasons]]
      /\ tcp \in [Sides -> [Conns -> Conns \cup {NoConn}]]
      /\ draining \in [Sides -> [Conns -> Conns \cup {NoConn}]]
  BY DEF Sound, Tables, Threads, Ids, Conns
<1>4. CASE /\ phase' = [phase EXCEPT !["host"][k] = "closed"]
           /\ how' = [how EXCEPT !["host"][k] = "abandoned"]
           /\ UNCHANGED <<tcp, reading, draining>>
  <2>1. phase'["host"][k] = "closed" /\ \A t \in Sides, j \in Conns : t # "host" \/ j # k =>
            phase'[t][j] = phase[t][j]
    BY <1>s, <1>t, <1>4
  <2>2. how'["host"][k] = "abandoned" /\ \A t \in Sides, j \in Conns : t # "host" \/ j # k =>
            how'[t][j] = how[t][j]
    BY <1>s, <1>t, <1>4
  <2>3. \A t \in Sides, j \in Conns : t # "host" \/ j # k => Idle(t, j)
    BY <1>2, <1>4, <2>1, <2>2 DEF Idle
  <2>4. Rests("host", k) BY <1>2, <2>1 DEF Rests
  <2>5. Ending("host", k)' BY <2>1, <2>2 DEF Ending
  <2> QED BY <1>s, <1>2, <2>3, <2>4, <2>5, LocalStep
<1>5. CASE /\ writes["host"][k] # NoConn
           /\ phase' = [phase EXCEPT !["host"][k] = "open"]
           /\ tcp' = [tcp EXCEPT !["host"][k] = k]
           /\ draining' = [draining EXCEPT !["host"][k] = writes["host"][k]]
           /\ UNCHANGED how
  <2>0. writes["host"][k] = k BY <1>5, <1>p DEF Cell
  <2>1. \A t \in Sides, j \in Conns : t # "host" \/ j # k => phase'[t][j] = phase[t][j]
    BY <1>s, <1>t, <1>5
  <2>2. tcp'["host"][k] = k /\ \A t \in Sides, j \in Conns : t # "host" \/ j # k =>
            tcp'[t][j] = tcp[t][j]
    BY <1>s, <1>t, <1>5
  <2>3. \A t \in Sides, j \in Conns : t # "host" \/ j # k => draining'[t][j] = draining[t][j]
    BY <1>s, <1>t, <1>5
  <2>4. \A t \in Sides, j \in Conns : t # "host" \/ j # k => Idle(t, j)
    BY <1>2, <1>5, <2>1, <2>2, <2>3 DEF Idle
  <2>5. ~Done("host", k) BY <2>0 DEF Done, Awaits
  <2>6. Ending("host", k)'
    <3>1. how'["host"][k] # "drained" BY <1>2, <1>5, <1>p DEF Ending
    <3>2. ~(Marked("host", k)')
      <4>1. \A n : <<k, n>> # Fin BY <1>s, Shapes
      <4>2. \A j \in DOMAIN queue["host"][k] : queue["host"][k][j] # Fin
        BY <1>2, <1>p, <2>0, <4>1 DEF Queued, Early
      <4> QED BY <1>2, <4>2 DEF Marked
    <3> QED BY <2>2, <3>1, <3>2 DEF Ending
  <2> QED BY <1>s, <1>2, <2>4, <2>5, <2>6, LocalStep
<1> QED BY <1>3, <1>4, <1>5

\* A chunk is only sent on an open socket: the other side is not closed by it yet.
LEMMA ReadChunkComplete ==
    ASSUME Sound, Apart, Complete, NEW s \in Sides, NEW k \in Conns, ReadChunk(s, k)
    PROVE  Complete'
<1>o. Other(s) \in Sides /\ Other(s) # s /\ Other(Other(s)) = s BY SideFacts
<1>1. k <= accepted /\ idOf[k] = k BY Own DEF ReadChunk
<1> DEFINE p == Data(<<k, sent[s][k] + 1>>, k)
<1>2. /\ phase[s][k] = "open" /\ sent' = [sent EXCEPT ![s][k] = @ + 1]
      /\ net' = [net EXCEPT ![Other(s)] = Append(@, p)]
      /\ UNCHANGED <<accepted, phase, how, tcp, writes, draining, queue, got, owed>>
  BY <1>1 DEF ReadChunk, Sending
<1>3. p \in Packet /\ p.id = k /\ p.kind = "data"
  <2>1. sent[s][k] \in Nat /\ k \in Ids BY Shapes
  <2>2. <<k, sent[s][k] + 1>> \in Chunk BY <2>1 DEF Chunk
  <2> QED BY <2>1, <2>2, Packets
<1>4. \A t \in Sides, j \in Conns : t # s \/ j # k => sent'[t][j] = sent[t][j]
  BY <1>2 DEF Sound, Contents
<1>5. net'[s] = net[s] /\ net'[Other(s)] = Append(net[Other(s)], p)
  BY <1>o, <1>2 DEF Sound, Channels
<1> HIDE DEF p
<1>6. ~Done(s, k) BY <1>2 DEF Done
<1>7. ASSUME NEW t \in Sides, NEW j \in Conns PROVE Orderly(t, j)
  <2>1. CASE t = s BY <1>5, <2>1 DEF Orderly
  <2>2. CASE t = Other(s)
    <3>1. ~IsOpen(p, j) /\ ~IsClose(p, j) BY <1>3 DEF IsOpen, IsClose
    <3>2. IsData(p, j) => ~Done(Other(t), j) BY <1>3, <1>6, <1>o, <2>2 DEF IsData
    <3> QED BY <1>3, <1>5, <2>2, <3>1, <3>2 DEF Orderly
  <2>3. t = s \/ t = Other(s) BY DEF Sides, Other
  <2> QED BY <2>1, <2>2, <2>3
<1>8. \A t \in Sides, j \in Conns : Done(t, j) => Rests(t, j)
  <2>1. \A t \in Sides, j \in Conns : t # s \/ j # k => Rests(t, j) BY <1>2, <1>4 DEF Rests
  <2> QED BY <1>6, <2>1
<1>9. \A t \in Sides, j \in Conns : Steady(t, j)
  <2>1. accepted' \in Nat /\ accepted <= accepted' BY <1>2, Constants DEF Sound, Numbers
  <2>2. \A j \in Conns : Orderly("host", j) BY <1>7, SideFacts
  <2> QED BY <1>8, <2>1, <2>2, StaysDone
<1>10. \A t \in Sides, j \in Conns : Idle(t, j) BY <1>2 DEF Idle
<1>11. owed' = owed BY <1>2
<1> QED BY <1>7, <1>9, <1>10, <1>11, CompleteStep

LEMMA SendCloseComplete ==
    ASSUME Sound, Apart, Complete, NEW s \in Sides, NEW k \in Conns, SendClose(s, k)
    PROVE  Complete'
<1>o. Other(s) \in Sides /\ Other(s) # s /\ Other(Other(s)) = s BY SideFacts
<1> DEFINE p == Close(k)
<1>1. /\ <<s, k>> \in owed /\ owed' \subseteq owed
      /\ net' = net \/ net' = [net EXCEPT ![Other(s)] = Append(@, p)]
      /\ UNCHANGED <<accepted, phase, how, tcp, writes, draining, queue, sent, got>>
  BY DEF SendClose, Tell
<1>2. p \in Packet /\ p.id = k /\ p.kind = "close" BY Packets, Shapes
<1>3. /\ net'[s] = net[s]
      /\ net'[Other(s)] = net[Other(s)] \/ net'[Other(s)] = Append(net[Other(s)], p)
  BY <1>o, <1>1 DEF Sound, Channels
<1> HIDE DEF p
<1>4. Done(s, k)'
  <2>1. Done(s, k) BY <1>1 DEF Complete, Closing
  <2>2. s = "host" /\ Pending(net'["host"], k) => Pending(net["host"], k)
    BY <1>3
  <2>3. ~(Awaits(s, k)') BY <1>1, <2>1, <2>2 DEF Done, Awaits
  <2> QED BY <1>1, <2>1, <2>3 DEF Done
<1>5. ASSUME NEW t \in Sides, NEW j \in Conns PROVE Orderly(t, j)
  <2>1. CASE t = s BY <1>3, <2>1 DEF Orderly
  <2>2. CASE t = Other(s)
    <3>1. ~IsOpen(p, j) /\ ~IsData(p, j) BY <1>2 DEF IsOpen, IsData
    <3>2. IsClose(p, j) => j = k BY <1>2 DEF IsClose
    <3>3. Other(t) = s BY <1>o, <2>2
    <3>4. IsClose(p, j) => Done(Other(t), j)' BY <1>4, <3>2, <3>3
    <3> QED BY <1>2, <1>3, <2>2, <3>1, <3>4 DEF Orderly
  <2>3. t = s \/ t = Other(s) BY DEF Sides, Other
  <2> QED BY <2>1, <2>2, <2>3
<1>6. \A t \in Sides, j \in Conns : Rests(t, j) BY <1>1 DEF Rests
<1>7. \A t \in Sides, j \in Conns : Steady(t, j)
  <2>1. accepted' \in Nat /\ accepted <= accepted' BY <1>1, Constants DEF Sound, Numbers
  <2>2. \A j \in Conns : Orderly("host", j) BY <1>5, SideFacts
  <2> QED BY <1>6, <2>1, <2>2, StaysDone
<1>8. \A t \in Sides, j \in Conns : Idle(t, j) BY <1>1 DEF Idle
<1>9. \A t \in Sides, j \in Conns : <<t, j>> \in owed' => <<t, j>> \in owed BY <1>1
<1> QED BY <1>5, <1>7, <1>8, <1>9, CompleteStep

\* The first item of a queue, and what is left without it.
LEMMA WriteComplete ==
    ASSUME Sound, Apart, Complete, NEW s \in Sides, NEW k \in Conns, Write(s, k)
    PROVE  Complete'
<1>p. Cell(s, k) /\ Queued(s, k) /\ Ending(s, k) /\ k # NoConn /\ Opening(k)
  BY Parts, Shapes DEF Complete
<1>1. draining[s][k] = k BY <1>p DEF Write, Cell
<1>2. k <= accepted /\ idOf[k] = k BY <1>1, <1>p, Own
<1> DEFINE q == queue[s][k]
           rest == [queue EXCEPT ![s][k] = Tail(@)]
           item == Head(q)
<1>3. q # <<>> /\ q \in Seq(Chunk \cup {Fin}) /\ Queues(rest) BY <1>1, WriteFacts
<1>4. UNCHANGED <<accepted, sent, net>> BY DEF Write
<1>5. /\ \A t \in Sides, j \in Conns : t # s \/ j # k => rest[t][j] = queue[t][j]
      /\ rest[s][k] = Tail(q)
  BY DEF Sound, Contents, Queues
<1>6. /\ 1 \in DOMAIN q /\ item = q[1] /\ Len(Tail(q)) = Len(q) - 1 /\ Len(q) \in Nat
      /\ \A j \in DOMAIN Tail(q) : j + 1 \in DOMAIN q /\ Tail(q)[j] = q[j + 1]
  BY <1>3, TailFacts
<1>7. CASE /\ item = Fin /\ queue' = rest /\ draining' = [draining EXCEPT ![s][k] = NoConn]
           /\ CloseSocket(s, k, "drained")
           /\ UNCHANGED <<tcp, writes, cancelled, got, owed>>
  <2>1. Len(q) = 1 /\ writes[s][k] # k /\ Marked(s, k)
    <3>1. q[1] # <<k, Len(got[s][k]) + 1>> BY <1>6, <1>7, Shapes
    <3>2. 1 = Len(q) /\ writes[s][k] = NoConn BY <1>1, <1>6, <1>p, <3>1 DEF Queued
    <3>3. Marked(s, k) BY <1>6, <1>7 DEF Marked
    <3> QED BY <1>p, <3>2, <3>3
  <2>2. /\ \/ /\ phase'[s][k] = phase[s][k] /\ how'[s][k] = how[s][k]
              /\ phase[s][k] # "open"
           \/ /\ phase[s][k] = "open" /\ phase'[s][k] = "closed" /\ how'[s][k] = "drained"
        /\ \A t \in Sides, j \in Conns : t # s \/ j # k =>
               phase'[t][j] = phase[t][j] /\ how'[t][j] = how[t][j]
    BY <1>7, ReasonEffect
  <2>3. draining'[s][k] = NoConn
        /\ \A t \in Sides, j \in Conns : t # s \/ j # k => draining'[t][j] = draining[t][j]
    BY <1>7 DEF Sound, Threads
  <2>4. queue' = rest BY <1>7
  <2> HIDE DEF rest
  <2>5. \A t \in Sides, j \in Conns : t # s \/ j # k => Idle(t, j)
    BY <1>5, <1>7, <2>2, <2>3, <2>4 DEF Idle
  <2>6. Rests(s, k) BY <1>4, <1>7, <2>2 DEF Rests
  <2>7. ASSUME Steady(Other(s), k) PROVE Ending(s, k)'
    <3>1. writes'[s][k] # k /\ draining'[s][k] # k BY <1>7, <1>p, <2>1, <2>3
    <3>2. ASSUME how'[s][k] = "drained"
          PROVE  /\ phase'[s][k] = "closed"
                 /\ Len(got[s][k]) = sent[Other(s)][k] /\ Done(Other(s), k)
      <4>1. CASE phase[s][k] = "open" /\ phase'[s][k] = "closed"
        <5>1. Stored(s, k) = sent[Other(s)][k] + 1 /\ Done(Other(s), k)
          BY <1>1, <1>p, <2>1, <4>1 DEF Ending
        <5>2. Len(got[s][k]) \in Nat /\ sent[Other(s)][k] \in Nat BY Shapes, SideFacts
        <5>3. Len(got[s][k]) + 1 = sent[Other(s)][k] + 1 BY <2>1, <5>1 DEF Stored
        <5>4. \A a, b \in Nat : a + 1 = b + 1 => a = b OBVIOUS
        <5>5. Len(got[s][k]) = sent[Other(s)][k] BY <5>2, <5>3, <5>4, Zenon
        <5> QED BY <4>1, <5>1, <5>5
      <4>2. CASE phase'[s][k] = phase[s][k] /\ how'[s][k] = how[s][k]
        BY <1>p, <3>2, <4>2 DEF Ending
      <4> QED BY <2>2, <4>1, <4>2
    <3>3. how'[s][k] = "drained" =>
              Len(got'[s][k]) = sent'[Other(s)][k] /\ Done(Other(s), k)'
      BY <1>7, <2>7, <3>2 DEF Steady
    <3> QED BY <3>1, <3>2, <3>3 DEF Ending
  <2>8. owed' = owed BY <1>7
  <2> QED BY <1>4, <2>5, <2>6, <2>7, <2>8, LocalStep
<1>8. CASE /\ item # Fin /\ phase[s][k] = "open" /\ queue' = rest
           /\ got' = [got EXCEPT ![s][k] = Append(@, item)]
           /\ UNCHANGED <<tcp, writes, cancelled, draining, phase, how, owed>>
  <2>1. queue'[s][k] = Tail(q)
        /\ \A t \in Sides, j \in Conns : t # s \/ j # k => queue'[t][j] = queue[t][j]
    BY <1>5, <1>8
  <2>2. got'[s][k] = Append(got[s][k], item)
        /\ \A t \in Sides, j \in Conns : t # s \/ j # k => got'[t][j] = got[t][j]
    BY <1>8 DEF Sound, Contents
  <2> HIDE DEF rest
  <2>3. \A t \in Sides, j \in Conns : t # s \/ j # k => Idle(t, j)
    BY <1>8, <2>1, <2>2 DEF Idle
  <2>4. Rests(s, k) BY <1>4, <1>8 DEF Rests
  <2>5. Stored(s, k)' = Stored(s, k)
    <3>1. Len(got'[s][k]) = Len(got[s][k]) + 1 /\ Len(got[s][k]) \in Nat
      <4>1. got[s][k] \in Seq(Chunk) /\ Len(got[s][k]) \in Nat BY Shapes
      <4>2. item \in Chunk
        <5>1. item \in Chunk \cup {Fin} BY <1>3, TailFacts
        <5> QED BY <1>8, <5>1
      <4> QED BY <2>2, <4>1, <4>2, AppendFacts
    <3>2. (Len(got[s][k]) + 1) + (Len(q) - 1) = Len(got[s][k]) + Len(q)
      BY <1>6, <3>1, Sums, Zenon
    <3>3. Len(got'[s][k]) + Len(queue'[s][k]) = (Len(got[s][k]) + 1) + (Len(q) - 1)
      BY <1>6, <2>1, <3>1, Zenon
    <3> QED BY <3>2, <3>3, Zenon DEF Stored
  <2>6. Marked(s, k)' => Marked(s, k) BY <1>6, <2>1 DEF Marked
  <2>7. ASSUME Steady(Other(s), k) PROVE Ending(s, k)'
    <3>1. how'[s][k] # "drained" BY <1>8, <1>p DEF Ending
    <3>2. phase'[s][k] = "open" /\ writes'[s][k] = k => tcp'[s][k] = k
      BY <1>8, <1>p DEF Ending
    <3>3. ASSUME Marked(s, k)'
          PROVE  Stored(s, k)' = sent'[Other(s)][k] + 1 /\ Done(Other(s), k)'
      <4>1. Stored(s, k) = sent[Other(s)][k] + 1 /\ Done(Other(s), k)
        BY <1>1, <1>8, <1>p, <2>6, <3>3 DEF Ending
      <4> QED BY <2>5, <2>7, <4>1 DEF Steady
    <3> QED BY <3>1, <3>2, <3>3 DEF Ending
  <2>8. owed' = owed BY <1>8
  <2> QED BY <1>4, <2>3, <2>4, <2>7, <2>8, LocalStep
<1>9. CASE /\ item # Fin /\ draining' = [draining EXCEPT ![s][k] = NoConn]
           /\ CloseTcp(s, k, "broken", rest) /\ UNCHANGED got
  <2> HIDE DEF rest
  <2>1. /\ \A t \in Sides, j \in Conns : t # s \/ j # k =>
               /\ tcp'[t][j] = tcp[t][j] /\ writes'[t][j] = writes[t][j]
               /\ queue'[t][j] = rest[t][j] /\ phase'[t][j] = phase[t][j]
               /\ how'[t][j] = how[t][j]
               /\ <<t, j>> \in owed' => <<t, j>> \in owed
        /\ tcp'[s][k] = NoConn /\ writes'[s][k] = NoConn
        /\ phase'[s][k] = "open" => phase[s][k] = "open" /\ queue'[s][k] = rest[s][k]
        /\ how'[s][k] = "drained" => how[s][k] = "drained" /\ phase'[s][k] = phase[s][k]
        /\ <<s, k>> \in owed' => <<s, k>> \in owed \/ Done(s, k)'
    BY <1>2, <1>3, <1>4, <1>9, CloseTcpEnding
  <2>2. draining'[s][k] = NoConn
        /\ \A t \in Sides, j \in Conns : t # s \/ j # k => draining'[t][j] = draining[t][j]
    BY <1>9 DEF Sound, Threads
  <2>g. got' = got BY <1>9
  <2>q. ASSUME NEW t \in Sides, NEW j \in Conns, t # s \/ j # k PROVE Idle(t, j)
    <3>1. /\ tcp'[t][j] = tcp[t][j] /\ writes'[t][j] = writes[t][j]
          /\ queue'[t][j] = rest[t][j] /\ phase'[t][j] = phase[t][j]
          /\ how'[t][j] = how[t][j]
      BY <2>1, <2>q, Zenon
    <3>2. rest[t][j] = queue[t][j] BY <1>5, <2>q, Zenon
    <3>3. draining'[t][j] = draining[t][j] BY <2>2, <2>q
    <3> QED BY <2>g, <3>1, <3>2, <3>3 DEF Idle
  <2>3. \A t \in Sides, j \in Conns : t # s \/ j # k => Idle(t, j) BY <2>q
  <2>4. Rests(s, k) BY <1>4, <1>p, <2>1 DEF Rests
  <2>5. ASSUME Steady(Other(s), k) PROVE Ending(s, k)'
    <3>1. writes'[s][k] # k /\ draining'[s][k] # k BY <1>p, <2>1, <2>2
    <3>2. ASSUME how'[s][k] = "drained"
          PROVE  /\ phase'[s][k] = "closed"
                 /\ Len(got'[s][k]) = sent'[Other(s)][k] /\ Done(Other(s), k)'
      <4>1. phase[s][k] = "closed" /\ Len(got[s][k]) = sent[Other(s)][k] /\ Done(Other(s), k)
        BY <1>p, <2>1, <3>2 DEF Ending
      <4> QED BY <1>9, <2>1, <2>5, <3>2, <4>1 DEF Steady
    <3> QED BY <3>1, <3>2 DEF Ending
  <2> QED BY <1>4, <2>1, <2>3, <2>4, <2>5, LocalStep
<1> QED BY <1>1, <1>2, <1>7, <1>8, <1>9 DEF Write

\* The close packet of a connection comes behind all of its data: what is stored
\* when it arrives is all there will be.
LEMMA ClosedBehindAll ==
    ASSUME Sound, Apart, Complete, NEW s \in Sides, NEW k \in Conns,
           net[s] # <<>>, IsClose(Head(net[s]), k)
    PROVE  /\ Done(Other(s), k)
           /\ writes[s][k] = k => Stored(s, k) = sent[Other(s)][k]
<1>o. Other(s) \in Sides /\ Other(Other(s)) = s BY SideFacts
<1>1. /\ net[s] \in Seq(Packet) /\ Stored(s, k) \in Nat /\ sent[Other(s)][k] \in Nat
  BY <1>o, Shapes
<1>2. 1 \in DOMAIN net[s] /\ Head(net[s]) = net[s][1] BY <1>1, TailFacts
<1>3. Done(Other(s), k)
  <2>1. HasClose(net[s], k) BY <1>2 DEF HasClose
  <2>2. Closing(Other(s), k) BY <1>o, <2>1 DEF Closing
  <2> QED BY <1>o, <2>2 DEF Complete
<1>4. \A j \in DOMAIN net[s] : ~IsData(net[s][j], k)
  <2>1. \A j \in DOMAIN net[s] : ~(j < 1) BY <1>1
  <2> QED BY <1>2, <2>1 DEF Complete, Follows
<1>5. ASSUME writes[s][k] = k PROVE Stored(s, k) = sent[Other(s)][k]
  <2> DEFINE stored == Stored(s, k)
             all == sent[Other(s)][k]
  <2>1. Due(net[s], k, stored, all) BY <1>5, Parts DEF Wire, Awaits
  <2>2. stored \in Nat /\ all \in Nat BY <1>1
  <2> HIDE DEF stored, all
  <2>3. stored <= all BY <2>1 DEF Due
  <2>4. ~(all \in 1 .. all /\ all > stored) BY <1>4, <2>1 DEF Due
  <2>5. stored = all BY <2>2, <2>3, <2>4
  <2> QED BY <2>5 DEF stored, all
<1> QED BY <1>3, <1>5

LEMMA ReceiveCloseComplete ==
    ASSUME Sound, Apart, Complete, NEW s \in Sides, NEW packet, ReceiveClose(s, packet)
    PROVE  Complete'
<1> DEFINE k == packet.id
<1>1. /\ net[s] # <<>> /\ packet = Head(net[s]) /\ k \in Conns /\ k <= accepted
      /\ packet.kind = "close"
  BY Received DEF ReceiveClose
<1>2. /\ net' = [net EXCEPT ![s] = Tail(@)] /\ TakeStream(s, k)
      /\ queue' = Offered(queue, s, writes[s][k], Fin) /\ Queues(queue)
      /\ \/ /\ writes[s][k] # NoConn /\ Len(queue[s][writes[s][k]]) = QueueSize
            /\ CloseSocket(s, tcp[s][k], "full")
         \/ /\ ~(writes[s][k] # NoConn /\ Len(queue[s][writes[s][k]]) = QueueSize)
            /\ UNCHANGED <<phase, how>>
      /\ accepted' = accepted /\ sent' = sent /\ got' = got /\ draining' = draining
      /\ owed' = owed
  BY DEF ReceiveClose, Sound, Contents
<1>3. IsClose(Head(net[s]), k) BY <1>1 DEF IsClose
<1>n. \A t \in Sides : net'[t] = net[t] \/ (net[t] # <<>> /\ net'[t] = Tail(net[t]))
  BY <1>1, <1>2 DEF Sound, Channels
<1> HIDE DEF k
<1>p. Cell(s, k) /\ Ending(s, k) /\ Queued(s, k) /\ k # NoConn
  BY <1>1, Parts, Shapes DEF Complete
<1>4. writes[s][k] \in {NoConn, k} /\ tcp[s][k] \in {NoConn, k} BY <1>p DEF Cell
<1>5. /\ tcp'[s][k] = NoConn /\ writes'[s][k] = NoConn
      /\ \A t \in Sides, j \in Conns : t # s \/ j # k =>
             /\ tcp'[t][j] = tcp[t][j] /\ writes'[t][j] = writes[t][j]
             /\ queue'[t][j] = queue[t][j]
      /\ \/ queue'[s][k] = queue[s][k]
         \/ writes[s][k] = k /\ queue'[s][k] = Append(queue[s][k], Fin)
  BY <1>1, <1>2, <1>4, TakeEffect
<1>6. /\ \/ /\ phase'[s][k] = phase[s][k] /\ how'[s][k] = how[s][k]
         \/ /\ phase[s][k] = "open" /\ phase'[s][k] = "closed" /\ how'[s][k] = "full"
      /\ \A t \in Sides, j \in Conns : t # s \/ j # k =>
             phase'[t][j] = phase[t][j] /\ how'[t][j] = how[t][j]
  <2>1. CASE CloseSocket(s, tcp[s][k], "full") BY <1>1, <1>4, <2>1, ReasonEffect
  <2>2. CASE UNCHANGED <<phase, how>> BY <2>2
  <2> QED BY <1>2, <2>1, <2>2
<1>7. \A t \in Sides, j \in Conns : t # s \/ j # k => Idle(t, j)
  BY <1>2, <1>5, <1>6 DEF Idle
<1>8. Rests(s, k) BY <1>2, <1>5, <1>6, <1>p DEF Rests
<1>9. /\ Done(Other(s), k)
      /\ writes[s][k] = k => Stored(s, k) = sent[Other(s)][k]
  BY <1>1, <1>3, ClosedBehindAll
<1>10. ASSUME phase'[s][k] = "open", writes[s][k] = k
       PROVE  queue'[s][k] = Append(queue[s][k], Fin)
  <2>1. phase[s][k] = "open" /\ tcp[s][k] = k BY <1>6, <1>10, <1>p DEF Ending
  <2>2. ~CloseSocket(s, tcp[s][k], "full")
    <3>1. CASE CloseSocket(s, k, "full")
      <4>1. \/ phase[s][k] # "open"
            \/ phase'[s][k] = "closed"
        BY <1>1, <3>1, ReasonEffect
      <4> QED BY <1>10, <2>1, <4>1
    <3> QED BY <2>1, <3>1
  <2>3. Len(queue[s][k]) # QueueSize BY <1>2, <1>10, <1>p, <2>2
  <2>4. Len(queue[s][k]) < QueueSize
    <3>1. Len(queue[s][k]) \in Nat BY <1>1, Shapes
    <3>2. Len(queue[s][k]) <= QueueSize BY <1>1, <1>2 DEF Queues
    <3> QED BY <2>3, <3>1, <3>2, Constants
  <2>5. queue' = [queue EXCEPT ![s][k] = Append(@, Fin)]
    BY <1>2, <1>10, <1>p, <2>4 DEF Offered
  <2> QED BY <1>1, <2>5 DEF Sound, Contents, Queues
<1>11. ASSUME Steady(Other(s), k) PROVE Ending(s, k)'
  <2>1. writes'[s][k] # k BY <1>5, <1>p
  <2>2. Done(Other(s), k)' /\ sent'[Other(s)][k] = sent[Other(s)][k]
    BY <1>9, <1>11 DEF Steady
  <2>3. ASSUME phase'[s][k] = "open", draining'[s][k] = k, Marked(s, k)'
        PROVE  Stored(s, k)' = sent'[Other(s)][k] + 1
    <3>1. CASE writes[s][k] = k
      <4>1. queue'[s][k] = Append(queue[s][k], Fin) BY <1>10, <2>3, <3>1
      <4>2. /\ queue[s][k] \in Seq(Chunk \cup {Fin}) /\ Fin \in Chunk \cup {Fin}
            /\ Len(got[s][k]) \in Nat /\ Len(queue[s][k]) \in Nat
        BY <1>1, Shapes
      <4>3. Len(queue'[s][k]) = Len(queue[s][k]) + 1 BY <4>1, <4>2, AppendFacts
      <4>4. Len(got[s][k]) + (Len(queue[s][k]) + 1) = (Len(got[s][k]) + Len(queue[s][k])) + 1
        BY <4>2, Sums, Zenon
      <4>5. Stored(s, k)' = Stored(s, k) + 1 BY <1>2, <4>3, <4>4, Zenon DEF Stored
      <4> QED BY <1>9, <2>2, <3>1, <4>5
    <3>2. CASE writes[s][k] # k
      <4>1. queue'[s][k] = queue[s][k] BY <1>5, <3>2
      <4>2. Stored(s, k)' = Stored(s, k) /\ Marked(s, k)
        BY <1>2, <2>3, <4>1 DEF Stored, Marked
      <4>3. phase[s][k] = "open" BY <1>6, <2>3
      <4>4. Stored(s, k) = sent[Other(s)][k] + 1
        BY <1>2, <1>p, <2>3, <4>2, <4>3 DEF Ending
      <4> QED BY <2>2, <4>2, <4>4
    <3> QED BY <3>1, <3>2
  <2>4. ASSUME how'[s][k] = "drained"
        PROVE  phase'[s][k] = "closed" /\ Len(got'[s][k]) = sent'[Other(s)][k]
    <3>1. how[s][k] = "drained" /\ phase'[s][k] = phase[s][k] BY <1>6, <2>4
    <3>2. phase[s][k] = "closed" /\ Len(got[s][k]) = sent[Other(s)][k]
      BY <1>p, <3>1 DEF Ending
    <3> QED BY <1>2, <2>2, <3>1, <3>2
  <2> QED BY <2>1, <2>2, <2>3, <2>4 DEF Ending
<1> QED BY <1>1, <1>2, <1>n, <1>7, <1>8, <1>11, LocalStep

\* A chunk goes into the queue only while nothing has ended it.
LEMMA ReceiveDataComplete ==
    ASSUME Sound, Apart, Complete, NEW s \in Sides, NEW packet, ReceiveData(s, packet)
    PROVE  Complete'
<1> DEFINE k == packet.id
           c == packet.chunk
<1>1. /\ net[s] # <<>> /\ packet = Head(net[s]) /\ packet = net[s][1] /\ 1 \in DOMAIN net[s]
      /\ k \in Conns /\ k <= accepted /\ packet.kind = "data"
  BY Received DEF ReceiveData
<1>2. /\ net' = [net EXCEPT ![s] = Tail(@)] /\ Queues(queue)
      /\ UNCHANGED <<accepted, draining, sent, got>>
  BY DEF ReceiveData, Sound, Contents
<1>3. \/ /\ writes[s][k] = NoConn /\ UNCHANGED <<queue, tcp, writes, cancelled, phase, how, owed>>
      \/ /\ writes[s][k] # NoConn
         /\ queue' = [queue EXCEPT ![s][writes[s][k]] = Append(@, c)]
         /\ UNCHANGED <<tcp, writes, cancelled, phase, how, owed>>
      \/ CloseTcp(s, k, "overflow", queue)
  BY DEF ReceiveData, Offered
<1>n. \A t \in Sides : net'[t] = net[t] \/ (net[t] # <<>> /\ net'[t] = Tail(net[t]))
  BY <1>1, <1>2 DEF Sound, Channels
<1>c. c = <<k, c[2]>> /\ c \in Chunk \cup {Fin}
  <2>1. Line(net[s], k, sent[Other(s)][k]) BY <1>1, Parts DEF Wire
  <2>2. IsData(net[s][1], k) BY <1>1 DEF IsData
  <2>3. net[s][1].chunk = <<k, net[s][1].chunk[2]>> BY <1>1, <2>1, <2>2 DEF Line
  <2>4. packet \in Packet BY Received DEF ReceiveData
  <2> QED BY <1>1, <2>3, <2>4 DEF Packet
<1> HIDE DEF k, c
<1>p. Cell(s, k) /\ Ending(s, k) /\ Queued(s, k) /\ k # NoConn
  BY <1>1, Parts, Shapes DEF Complete
<1>4. CASE writes[s][k] = NoConn /\ UNCHANGED <<queue, tcp, writes, cancelled, phase, how, owed>>
  <2>1. \A t \in Sides, j \in Conns : Idle(t, j) BY <1>2, <1>4 DEF Idle
  <2>2. Rests(s, k) BY <1>2, <1>4 DEF Rests
  <2> QED BY <1>1, <1>2, <1>4, <1>n, <2>1, <2>2, LocalStep
<1>5. CASE /\ writes[s][k] # NoConn
           /\ queue' = [queue EXCEPT ![s][writes[s][k]] = Append(@, c)]
           /\ UNCHANGED <<tcp, writes, cancelled, phase, how, owed>>
  <2>1. writes[s][k] = k BY <1>5, <1>p DEF Cell
  <2>2. /\ queue'[s][k] = Append(queue[s][k], c)
        /\ \A t \in Sides, j \in Conns : t # s \/ j # k => queue'[t][j] = queue[t][j]
    BY <1>1, <1>5, <2>1 DEF Sound, Contents, Queues
  <2>3. \A t \in Sides, j \in Conns : t # s \/ j # k => Idle(t, j)
    BY <1>2, <1>5, <2>2 DEF Idle
  <2>4. Rests(s, k) BY <1>2, <1>5 DEF Rests
  <2>5. Ending(s, k)'
    <3>1. how'[s][k] # "drained" BY <1>5, <1>p, <2>1 DEF Ending, Cell, Early
    <3>2. phase'[s][k] = "open" => tcp'[s][k] = k BY <1>5, <1>p, <2>1 DEF Ending
    <3>3. ASSUME draining'[s][k] = k PROVE ~(Marked(s, k)')
      <4>1. \A n : <<k, n>> # Fin BY <1>1, Shapes
      <4>2. \A j \in DOMAIN queue[s][k] : queue[s][k][j] # Fin
        BY <1>2, <1>p, <2>1, <3>3, <4>1 DEF Queued
      <4>3. c # Fin BY <1>c, <4>1
      <4>4. \A j \in DOMAIN queue'[s][k] : \/ j \in DOMAIN queue[s][k]
                                              /\ queue'[s][k][j] = queue[s][k][j]
                                           \/ queue'[s][k][j] = c
        <5>1. queue[s][k] \in Seq(Chunk \cup {Fin}) BY <1>1, Shapes
        <5> QED BY <1>c, <2>2, <5>1, AppendFacts
      <4> QED BY <4>2, <4>3, <4>4 DEF Marked
    <3> QED BY <3>1, <3>2, <3>3 DEF Ending
  <2>6. owed' = owed /\ sent' = sent /\ accepted' = accepted BY <1>2, <1>5
  <2> QED BY <1>1, <1>n, <2>3, <2>4, <2>5, <2>6, LocalStep
<1>6. CASE CloseTcp(s, k, "overflow", queue)
  <2>0. Pending(net'["host"], k) => Pending(net["host"], k)
    <3>1. "host" \in Sides BY SideFacts
    <3>2. Follows(net["host"], k) /\ net["host"] \in Seq(Packet)
      BY <1>1, <3>1, Shapes DEF Complete
    <3>3. CASE net'["host"] = net["host"] BY <3>3
    <3>4. CASE net["host"] # <<>> /\ net'["host"] = Tail(net["host"])
      BY <3>2, <3>4, FollowsTail
    <3> QED BY <1>n, <3>1, <3>3, <3>4
  <2>1. /\ \A t \in Sides, j \in Conns : t # s \/ j # k =>
               /\ tcp'[t][j] = tcp[t][j] /\ writes'[t][j] = writes[t][j]
               /\ queue'[t][j] = queue[t][j] /\ phase'[t][j] = phase[t][j]
               /\ how'[t][j] = how[t][j]
               /\ <<t, j>> \in owed' => <<t, j>> \in owed
        /\ tcp'[s][k] = NoConn /\ writes'[s][k] = NoConn
        /\ phase'[s][k] = "open" => phase[s][k] = "open" /\ queue'[s][k] = queue[s][k]
        /\ how'[s][k] = "drained" => how[s][k] = "drained" /\ phase'[s][k] = phase[s][k]
        /\ <<s, k>> \in owed' => <<s, k>> \in owed \/ Done(s, k)'
    BY <1>1, <1>2, <1>6, <2>0, CloseTcpEnding
  <2>2. \A t \in Sides, j \in Conns : t # s \/ j # k => Idle(t, j) BY <1>2, <2>1 DEF Idle
  <2>3. Rests(s, k) BY <1>2, <1>p, <2>1 DEF Rests
  <2>4. ASSUME Steady(Other(s), k) PROVE Ending(s, k)'
    <3>1. writes'[s][k] # k BY <1>p, <2>1
    <3>2. ASSUME phase'[s][k] = "open", draining'[s][k] = k, Marked(s, k)'
          PROVE  Stored(s, k)' = sent'[Other(s)][k] + 1 /\ Done(Other(s), k)'
      <4>1. queue'[s][k] = queue[s][k] /\ phase[s][k] = "open" BY <2>1, <3>2
      <4>2. Marked(s, k) /\ Stored(s, k)' = Stored(s, k)
        BY <1>2, <3>2, <4>1 DEF Marked, Stored
      <4>3. Stored(s, k) = sent[Other(s)][k] + 1 /\ Done(Other(s), k)
        BY <1>2, <1>p, <3>2, <4>1, <4>2 DEF Ending
      <4> QED BY <2>4, <4>2, <4>3 DEF Steady
    <3>3. ASSUME how'[s][k] = "drained"
          PROVE  /\ phase'[s][k] = "closed"
                 /\ Len(got'[s][k]) = sent'[Other(s)][k] /\ Done(Other(s), k)'
      <4>1. phase[s][k] = "closed" /\ Len(got[s][k]) = sent[Other(s)][k] /\ Done(Other(s), k)
        BY <1>p, <2>1, <3>3 DEF Ending
      <4> QED BY <1>2, <2>1, <2>4, <3>3, <4>1 DEF Steady
    <3> QED BY <3>1, <3>2, <3>3 DEF Ending
  <2> QED BY <1>1, <1>2, <1>n, <2>1, <2>2, <2>3, <2>4, LocalStep
<1> QED BY <1>3, <1>4, <1>5, <1>6

\* A connection the host refuses is never opened there.
LEMMA ReceiveOpenComplete ==
    ASSUME Sound, Apart, Complete, NEW packet, ReceiveOpen(packet) PROVE Complete'
<1> DEFINE k == packet.id
           rest == [net EXCEPT !["host"] = Tail(@)]
<1>s. /\ "host" \in Sides /\ "client" \in Sides /\ Other("client") = "host"
      /\ \A t \in Sides : t = "host" \/ t = "client"
  BY SideFacts DEF Other
<1>1. /\ net["host"] # <<>> /\ packet = Head(net["host"]) /\ packet = net["host"][1]
      /\ packet.kind = "open" /\ k \in Conns /\ k <= accepted /\ 1 \in DOMAIN net["host"]
      /\ net["host"] \in Seq(Packet)
  BY <1>s, Received DEF ReceiveOpen
<1>p. Cell("host", k) /\ Opening(k) /\ Ending("host", k) /\ k # NoConn
  BY <1>s, <1>1, Parts, Shapes DEF Complete
<1>2. Pending(net["host"], k) /\ packet.conn = k /\ phase["host"][k] = "none"
  <2>1. IsOpen(net["host"][1], k) BY <1>1 DEF IsOpen
  <2>2. Pending(net["host"], k) BY <1>1, <2>1 DEF Pending
  <2>3. net["host"][1].conn = k BY <1>1, <1>p, <2>1 DEF Opening, Leads
  <2> QED BY <1>1, <1>p, <2>2, <2>3 DEF Opening
<1>3. /\ \/ net' = rest /\ UNCHANGED <<connecting, writes, phase>>
         \/ /\ net' = [rest EXCEPT !["client"] = Append(@, Close(k))]
            /\ UNCHANGED <<connecting, writes, phase>>
         \/ /\ net' = rest /\ connecting' = connecting \cup {k}
            /\ writes' = [writes EXCEPT !["host"][k] = k]
            /\ phase' = [phase EXCEPT !["host"][k] = "connecting"]
      /\ UNCHANGED <<accepted, how, tcp, draining, queue, sent, got, owed>>
  BY <1>2 DEF ReceiveOpen, Tell, Other
<1>4. /\ net'["host"] = Tail(net["host"])
      /\ \/ net'["client"] = net["client"]
         \/ /\ net'["client"] = Append(net["client"], Close(k))
            /\ UNCHANGED <<connecting, writes, phase>>
      /\ net' = rest => net'["client"] = net["client"]
  BY <1>s, <1>3 DEF Sound, Channels
<1>5. Close(k) \in Packet /\ Close(k).id = k /\ Close(k).kind = "close"
  BY <1>1, Packets DEF Conns, Ids
<1>6. Head(net["host"]).id = k BY <1>1
<1> HIDE DEF k
<1>7. ~Pending(net'["host"], k) BY <1>1, <1>4, <1>6, <1>p, LeadsTail DEF Opening
<1>8. CASE UNCHANGED <<connecting, writes, phase>>
  <2>1. Done("host", k)'
    <3>1. writes["host"][k] # k BY <1>2, <1>p DEF Cell, Early
    <3>2. ~(Awaits("host", k)') BY <1>7, <1>8, <3>1 DEF Awaits
    <3>3. phase'["host"][k] # "open" BY <1>2, <1>8
    <3>4. k <= accepted' BY <1>1, <1>3
    <3> QED BY <3>2, <3>3, <3>4 DEF Done
  <2>2. ASSUME NEW j \in Conns PROVE Orderly("client", j)
    <3>1. CASE net'["client"] = net["client"] BY <3>1 DEF Orderly
    <3>2. CASE net'["client"] = Append(net["client"], Close(k))
      <4>1. ~IsOpen(Close(k), j) /\ ~IsData(Close(k), j) BY <1>5 DEF IsOpen, IsData
      <4>2. IsClose(Close(k), j) => j = k BY <1>5 DEF IsClose
      <4>3. IsClose(Close(k), j) => Done(Other("client"), j)' BY <1>s, <2>1, <4>2
      <4> QED BY <1>5, <3>2, <4>1, <4>3 DEF Orderly
    <3> QED BY <1>4, <3>1, <3>2
  <2>3. \A j \in Conns : Orderly("host", j) BY <1>1, <1>4 DEF Orderly
  <2>4. \A t \in Sides, j \in Conns : Orderly(t, j) BY <1>s, <2>2, <2>3
  <2>5. \A t \in Sides, j \in Conns : Rests(t, j) /\ Idle(t, j)
    BY <1>3, <1>8 DEF Rests, Idle
  <2>6. \A t \in Sides, j \in Conns : Steady(t, j)
    <3>1. accepted' \in Nat /\ accepted <= accepted' BY <1>3, Constants DEF Sound, Numbers
    <3> QED BY <2>3, <2>5, <3>1, StaysDone
  <2>7. owed' = owed BY <1>3
  <2> QED BY <2>4, <2>5, <2>6, <2>7, CompleteStep
<1>9. CASE /\ net' = rest /\ writes' = [writes EXCEPT !["host"][k] = k]
           /\ phase' = [phase EXCEPT !["host"][k] = "connecting"]
  <2>1. /\ phase'["host"][k] = "connecting"
        /\ \A t \in Sides, j \in Conns : t # "host" \/ j # k => phase'[t][j] = phase[t][j]
    BY <1>s, <1>1, <1>9 DEF Sound, Tables
  <2>2. \A t \in Sides, j \in Conns : t # "host" \/ j # k => writes'[t][j] = writes[t][j]
    BY <1>s, <1>1, <1>9 DEF Sound, Tables, Conns, Ids
  <2>3. \A t \in Sides, j \in Conns : t # "host" \/ j # k => Idle(t, j)
    BY <1>3, <2>1, <2>2 DEF Idle
  <2>4. ~Done("host", k) BY <1>2 DEF Done, Awaits
  <2>5. Ending("host", k)'
    <3>1. how'["host"][k] # "drained" BY <1>2, <1>3, <1>p DEF Ending
    <3> QED BY <2>1, <3>1 DEF Ending
  <2>6. \A t \in Sides : net'[t] = net[t] \/ (net[t] # <<>> /\ net'[t] = Tail(net[t]))
    BY <1>s, <1>1, <1>4, <1>9
  <2>7. owed' = owed /\ sent' = sent /\ accepted' = accepted BY <1>3
  <2> QED BY <1>s, <1>1, <2>3, <2>4, <2>5, <2>6, <2>7, LocalStep
<1> QED BY <1>3, <1>8, <1>9

LEMMA AcceptComplete ==
    ASSUME Sound, Apart, Complete, NEW k \in Conns, Accept(k) PROVE Complete'
<1>s. /\ "host" \in Sides /\ "client" \in Sides /\ \A t \in Sides : t = "host" \/ t = "client"
  BY SideFacts
<1>1. /\ nextStream = k /\ accepted \in Nat /\ k \in Nat /\ accepted <= k /\ k \in Ids
      /\ ~(k <= accepted)
      /\ \A s \in Sides : phase[s][k] = "none" /\ queue[s][k] = <<>>
  <2>1. /\ nextStream = k /\ accepted \in Nat /\ k \in Nat /\ accepted <= k /\ k \in Ids
        /\ \A s \in Sides : phase[s][k] = "none" /\ queue[s][k] = <<>>
    BY NextConn DEF Accept
  <2>2. k = accepted + 1 BY DEF Accept
  <2>3. ~(k <= accepted) BY <2>1, <2>2
  <2> QED BY <2>1, <2>3
<1>2. /\ accepted' = k
      /\ tcp' = [tcp EXCEPT !["client"][k] = k] /\ writes' = [writes EXCEPT !["client"][k] = k]
      /\ net' = [net EXCEPT !["host"] = Append(@, Open(k, k))]
      /\ phase' = [phase EXCEPT !["client"][k] = "open"]
      /\ draining' = [draining EXCEPT !["client"][k] = k]
      /\ UNCHANGED <<how, queue, sent, got, owed>>
  BY <1>s, <1>1 DEF Accept, Sending, Other
<1>3. /\ Open(k, k) \in Packet /\ Open(k, k).kind = "open" /\ Open(k, k).id = k
  BY <1>1, Packets
<1>4. net'["host"] = Append(net["host"], Open(k, k)) /\ net'["client"] = net["client"]
  BY <1>s, <1>2 DEF Sound, Channels
<1>t. /\ phase \in [Sides -> [Conns -> Phases]]
      /\ tcp \in [Sides -> [Conns -> Conns \cup {NoConn}]]
      /\ writes \in [Sides -> [Conns -> Conns \cup {NoConn}]]
      /\ draining \in [Sides -> [Conns -> Conns \cup {NoConn}]]
  BY DEF Sound, Tables, Threads, Ids, Conns
<1>5. tcp'["client"][k] = k
      /\ \A t \in Sides, j \in Conns : t # "client" \/ j # k => tcp'[t][j] = tcp[t][j]
  BY <1>s, <1>2, <1>t
<1>6. \A t \in Sides, j \in Conns : t # "client" \/ j # k =>
          /\ phase'[t][j] = phase[t][j] /\ writes'[t][j] = writes[t][j]
          /\ draining'[t][j] = draining[t][j]
  BY <1>s, <1>2, <1>t
<1>7. \A t \in Sides, j \in Conns : t # "client" \/ j # k => Idle(t, j) /\ Rests(t, j)
  BY <1>2, <1>5, <1>6 DEF Idle, Rests
<1>8. ASSUME NEW t \in Sides, NEW j \in Conns PROVE Orderly(t, j)
  <2>1. CASE t = "client" BY <1>4, <2>1 DEF Orderly
  <2>2. CASE t = "host"
    <3>1. ~IsClose(Open(k, k), j) /\ ~IsData(Open(k, k), j) BY <1>3 DEF IsClose, IsData
    <3>2. IsOpen(Open(k, k), j) => ~(j <= accepted) BY <1>1, <1>3 DEF IsOpen
    <3> QED BY <1>3, <1>4, <2>2, <3>1, <3>2 DEF Orderly
  <2> QED BY <1>s, <2>1, <2>2
<1>9. ~Done("client", k) BY <1>1 DEF Done
<1>10. \A t \in Sides, j \in Conns : Steady(t, j)
  <2>1. \A t \in Sides, j \in Conns : Done(t, j) => Rests(t, j) BY <1>7, <1>9
  <2>2. accepted' \in Nat /\ accepted <= accepted' BY <1>1, <1>2
  <2>3. \A j \in Conns : Orderly("host", j) BY <1>s, <1>8
  <2> QED BY <2>1, <2>2, <2>3, StaysDone
<1>11. Ending("client", k)'
  <2>1. Ending("client", k) /\ phase["client"][k] = "none" /\ queue["client"][k] = <<>>
    BY <1>s, <1>1 DEF Complete
  <2>2. how'["client"][k] # "drained" BY <1>2, <2>1 DEF Ending
  <2>3. ~(Marked("client", k)')
    <3>1. queue'["client"][k] = <<>> BY <1>2, <2>1
    <3> QED BY <3>1 DEF Marked
  <2> QED BY <1>5, <2>2, <2>3 DEF Ending
<1>12. \A t \in Sides, j \in Conns : Idle(t, j) \/ Ending(t, j)' BY <1>7, <1>11
<1>13. owed' = owed BY <1>2
<1> QED BY <1>8, <1>10, <1>12, <1>13, CompleteStep

LEMMA AcceptUnannouncedComplete ==
    ASSUME Sound, Apart, Complete, NEW k \in Conns, AcceptUnannounced(k) PROVE Complete'
<1>s. "client" \in Sides /\ "host" \in Sides BY SideFacts
<1>1. /\ accepted' = k
      /\ phase' = [phase EXCEPT !["client"][k] = "closed"]
      /\ how' = [how EXCEPT !["client"][k] = "unsent"]
      /\ UNCHANGED <<tcp, writes, draining, queue, sent, got, net, owed>>
  BY DEF AcceptUnannounced
<1>2. accepted' \in Nat /\ accepted <= accepted'
  BY <1>1, NextConn DEF AcceptUnannounced
<1>3. phase \in [Sides -> [Conns -> Phases]] /\ how \in [Sides -> [Conns -> Reasons]]
  BY DEF Sound, Tables
<1>4. phase'["client"][k] = "closed"
      /\ \A t \in Sides, j \in Conns : t # "client" \/ j # k => phase'[t][j] = phase[t][j]
  BY <1>s, <1>1, <1>3
<1>5. how'["client"][k] = "unsent"
      /\ \A t \in Sides, j \in Conns : t # "client" \/ j # k => how'[t][j] = how[t][j]
  BY <1>s, <1>1, <1>3
<1>6. \A t \in Sides, j \in Conns : t # "client" \/ j # k => Idle(t, j)
  BY <1>1, <1>4, <1>5 DEF Idle
<1>7. \A t \in Sides, j \in Conns : Rests(t, j) BY <1>1, <1>4 DEF Rests
<1>8. \A t \in Sides, j \in Conns : Orderly(t, j) BY <1>1 DEF Orderly
<1>9. \A t \in Sides, j \in Conns : Steady(t, j)
  <2>1. \A j \in Conns : Orderly("host", j) BY <1>s, <1>8
  <2> QED BY <1>2, <1>7, <2>1, StaysDone
<1>10. Ending("client", k)' BY <1>4, <1>5 DEF Ending
<1>11. \A t \in Sides, j \in Conns : Idle(t, j) \/ Ending(t, j)' BY <1>6, <1>10
<1>12. owed' = owed BY <1>1
<1> QED BY <1>8, <1>9, <1>11, <1>12, CompleteStep

\* A host engine that goes closes its sockets for another reason, and tells nothing.
LEMMA RebuildHostComplete ==
    ASSUME Sound, Apart, Complete, RebuildHost PROVE Complete'
<1>s. /\ "client" \in Sides /\ "host" \in Sides /\ \A t \in Sides : t # "host" => t = "client"
  BY SideFacts
<1>1. /\ UNCHANGED <<accepted, queue, sent, got, net>> /\ owed' \subseteq owed
      /\ phase' = [phase EXCEPT !["host"] =
             [k \in Conns |-> IF Stopped("host", k) THEN "closed" ELSE phase["host"][k]]]
      /\ how' = [how EXCEPT !["host"] =
             [k \in Conns |-> IF Stopped("host", k) THEN "stopped" ELSE how["host"][k]]]
      /\ tcp' = [tcp EXCEPT !["host"] = [id \in Ids |-> NoConn]]
      /\ writes' = [writes EXCEPT !["host"] = [id \in Ids |-> NoConn]]
      /\ draining' = [draining EXCEPT !["host"] = [k \in Conns |-> NoConn]]
  BY DEF RebuildHost, Restart
<1>2. ASSUME NEW k \in Conns
      PROVE  /\ writes'["host"][k] = NoConn /\ draining'["host"][k] = NoConn
             /\ tcp'["client"][k] = tcp["client"][k]
             /\ writes'["client"][k] = writes["client"][k]
             /\ draining'["client"][k] = draining["client"][k]
  BY <1>s, <1>1 DEF Sound, Tables, Threads, Conns, Ids
<1>3. ASSUME NEW k \in Conns
      PROVE  /\ phase'["client"][k] = phase["client"][k]
             /\ phase'["host"][k] \in {"none", "closed"}
             /\ phase["host"][k] = "closed" => phase'["host"][k] = "closed"
  BY <1>s, <1>1 DEF Sound, Tables, Stopped
<1>4. ASSUME NEW k \in Conns
      PROVE  /\ how'["client"][k] = how["client"][k]
             /\ how'["host"][k] \in {how["host"][k], "stopped"}
  BY <1>s, <1>1 DEF Sound, Tables
<1>5. ASSUME NEW t \in Sides, NEW j \in Conns PROVE Rests(t, j)
  <2>1. j # NoConn BY Shapes
  <2>2. CASE t = "host" BY <1>1, <1>2, <1>3, <2>1, <2>2 DEF Rests
  <2>3. CASE t = "client" BY <1>1, <1>2, <1>3, <2>3 DEF Rests
  <2> QED BY <1>s, <2>2, <2>3
<1>6. \A t \in Sides, j \in Conns : Orderly(t, j) BY <1>1 DEF Orderly
<1>7. \A t \in Sides, j \in Conns : Steady(t, j)
  <2>1. \A j \in Conns : Orderly("host", j) BY <1>s, <1>6
  <2>2. accepted' \in Nat /\ accepted <= accepted' BY <1>1, Constants DEF Sound, Numbers
  <2> QED BY <1>5, <2>1, <2>2, StaysDone
<1>8. ASSUME NEW k \in Conns PROVE Ending("host", k)'
  <2>1. Other("host") \in Sides /\ k # NoConn /\ Ending("host", k)
    BY <1>s, SideFacts, Shapes DEF Complete
  <2>2. writes'["host"][k] # k /\ draining'["host"][k] # k BY <1>2, <2>1
  <2>3. ASSUME how'["host"][k] = "drained"
        PROVE  /\ phase'["host"][k] = "closed"
               /\ Len(got'["host"][k]) = sent'[Other("host")][k] /\ Done(Other("host"), k)'
    <3>1. how["host"][k] = "drained" BY <1>4, <2>3
    <3>2. /\ phase["host"][k] = "closed" /\ Done(Other("host"), k)
          /\ Len(got["host"][k]) = sent[Other("host")][k]
      BY <2>1, <3>1 DEF Ending
    <3>3. Done(Other("host"), k)' BY <1>7, <2>1, <3>2 DEF Steady
    <3> QED BY <1>1, <1>3, <3>2, <3>3
  <2> QED BY <2>2, <2>3 DEF Ending
<1>9. \A k \in Conns : Idle("client", k) BY <1>1, <1>2, <1>3, <1>4 DEF Idle
<1>10. \A t \in Sides, j \in Conns : Idle(t, j) \/ Ending(t, j)' BY <1>s, <1>8, <1>9
<1>11. \A t \in Sides, j \in Conns : <<t, j>> \in owed' => <<t, j>> \in owed BY <1>1
<1> QED BY <1>6, <1>7, <1>10, <1>11, CompleteStep

LEMMA CompleteInit == Init => Complete
<1> SUFFICES ASSUME Init PROVE Complete
  OBVIOUS
<1>s. \A s \in Sides : Other(s) \in Sides BY SideFacts
<1>1. ASSUME NEW s \in Sides, NEW k \in Conns
      PROVE  Ending(s, k) /\ ~Closing(s, k) /\ Follows(net[s], k)
  <2>1. /\ net[s] = <<>> /\ net[Other(s)] = <<>> /\ owed = {} /\ how[s][k] = "none"
        /\ phase[s][k] = "none"
    BY <1>s DEF Init, Everywhere
  <2>2. Ending(s, k) BY <2>1 DEF Ending
  <2>3. ~Closing(s, k) BY <2>1 DEF Closing, HasClose
  <2>4. Follows(net[s], k) BY <2>1 DEF Follows
  <2> QED BY <2>2, <2>3, <2>4
<1> QED BY <1>1 DEF Complete

LEMMA CompleteNext ==
    Sound /\ (FirstClient => Apart /\ Complete) /\ [Next]_vars => (FirstClient => Complete)'
<1> SUFFICES ASSUME Sound, FirstClient => Apart /\ Complete, [Next]_vars, FirstClient'
             PROVE  Complete'
  OBVIOUS
<1>s. "client" \in Sides /\ "host" \in Sides /\ restarts \in [Sides -> Nat]
  BY SideFacts DEF Sound, Numbers
<1>1. ~ReopenLocally
  <2>1. ReopenLocally => restarts' = [restarts EXCEPT !["client"] = @ + 1]
    BY DEF ReopenLocally, Restart
  <2>2. restarts["client"] \in Nat /\ restarts["client"] + 1 # 0 BY <1>s
  <2> QED BY <1>s, <2>1, <2>2 DEF FirstClient
<1>2. CASE RebuildHost
  <2>1. restarts' = [restarts EXCEPT !["host"] = @ + 1] BY <1>2 DEF RebuildHost, Restart
  <2>2. FirstClient BY <1>s, <2>1 DEF FirstClient
  <2> QED BY <1>2, <2>2, RebuildHostComplete
<1>3. CASE UNCHANGED vars
  <2>1. Complete /\ UNCHANGED <<accepted, phase, how, tcp, writes, draining, queue, sent,
                                got, net, owed>>
    BY <1>3 DEF vars, FirstClient
  <2>2. \A t \in Sides, j \in Conns : Orderly(t, j) /\ Rests(t, j) /\ Idle(t, j)
    BY <2>1 DEF Orderly, Rests, Idle
  <2>3. \A t \in Sides, j \in Conns : Steady(t, j)
    <3>1. \A j \in Conns : Orderly("host", j) BY <1>s, <2>2
    <3>2. accepted' \in Nat /\ accepted <= accepted' BY <2>1, Constants DEF Sound, Numbers
    <3> QED BY <2>1, <2>2, <3>1, <3>2, StaysDone
  <2> QED BY <2>1, <2>2, <2>3, CompleteStep
<1>4. ASSUME NEW k \in Conns, Accept(k) \/ AcceptUnannounced(k) \/ Connect(k) PROVE Complete'
  <2>1. UNCHANGED restarts
    BY <1>4 DEF Accept, AcceptUnannounced, Connect, ConnectFails, ConnectEnds, ConnectSettles
  <2>2. Apart /\ Complete BY <2>1 DEF FirstClient
  <2> QED BY <1>4, <2>2, AcceptComplete, AcceptUnannouncedComplete, ConnectFailsComplete,
             ConnectEndsComplete, ConnectSettlesComplete DEF Connect
<1>5. ASSUME NEW s \in Sides, NEW k \in Conns,
             \/ ReadChunk(s, k)
             \/ \E why \in {"ended", "unsent"} : ReadEnds(s, k, why)
             \/ Write(s, k)
             \/ Collect(s, k)
      PROVE  Complete'
  <2>1. UNCHANGED restarts BY <1>5 DEF ReadChunk, ReadEnds, Write, Collect
  <2>2. Apart /\ Complete BY <2>1 DEF FirstClient
  <2> QED BY <1>5, <2>2, ReadChunkComplete, ReadEndsComplete, WriteComplete, CollectComplete
<1>6. ASSUME NEW s \in Sides, Receive(s) PROVE Complete'
  <2>1. UNCHANGED restarts BY <1>6 DEF Receive, ReceiveOpen, ReceiveData, ReceiveClose
  <2>2. Apart /\ Complete BY <2>1 DEF FirstClient
  <2> QED BY <1>6, <2>2, ReceiveOpenComplete, ReceiveDataComplete, ReceiveCloseComplete
      DEF Receive
<1>7. ASSUME NEW s \in Sides, NEW id \in Ids, SendClose(s, id) PROVE Complete'
  <2>1. UNCHANGED restarts BY <1>7 DEF SendClose
  <2>2. Apart /\ Complete BY <2>1 DEF FirstClient
  <2>3. id \in Conns BY DEF Ids, Conns
  <2> QED BY <1>7, <2>2, <2>3, SendCloseComplete
<1> QED BY <1>1, <1>2, <1>3, <1>4, <1>5, <1>6, <1>7 DEF Next

\* As long as the client has its first engine, a socket that is closed because its
\* queue was drained got everything the other end had sent, whichever thread of
\* whichever side closed the connection first, whatever was on its way, and
\* whatever the host does with its engine (_close_tcp, _remote_close_tcp,
\* _write_tcp).
THEOREM TcpComplete == Spec => [](restarts["client"] = 0 => DrainedIsComplete)
<1>1. Spec => []Sound BY SoundInit, SoundNext, PTL DEF Spec
<1>2. Spec => [](FirstClient => Apart /\ Complete)
  <2>1. Init => (FirstClient => Apart /\ Complete) BY ApartInit, CompleteInit
  <2>2. Sound /\ (FirstClient => Apart /\ Complete) /\ [Next]_vars
            => (FirstClient => Apart /\ Complete)'
    BY ApartNext, CompleteNext
  <2> QED BY <1>1, <2>1, <2>2, PTL DEF Spec
<1>3. Complete => DrainedIsComplete BY DEF Complete, Ending, DrainedIsComplete
<1>4. (FirstClient => Apart /\ Complete) => (restarts["client"] = 0 => DrainedIsComplete)
  BY <1>3 DEF FirstClient
<1> QED BY <1>2, <1>4, PTL
=============================================================================
