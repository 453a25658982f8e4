--------------------------- MODULE LobbyChat_proofs ---------------------------
(***************************************************************************)
(* What LobbyChat guarantees for any number of clients, starts, messages   *)
(* and removals, any window of nonces, and packets repeated at any         *)
(* distance on their way.                                                  *)
(***************************************************************************)
EXTENDS LobbyChat, SequenceTheorems, FiniteSetTheorems, TLAPS

-----------------------------------------------------------------------------
(* Sequences *)

\* Adding to and taking from a queue, seen as the set of what is in it.
LEMMA QueueSteps ==
  ASSUME NEW S, NEW q \in Seq(S), NEW e \in S
  PROVE  /\ Append(q, e) \in Seq(S) /\ Len(Append(q, e)) = Len(q) + 1
         /\ ToSet(Append(q, e)) = ToSet(q) \cup {e}
<1>1. /\ Append(q, e) \in Seq(S) /\ Len(Append(q, e)) = Len(q) + 1
      /\ \A i \in 1 .. Len(q) : Append(q, e)[i] = q[i]
      /\ Append(q, e)[Len(q) + 1] = e
  OBVIOUS
<1>2. DOMAIN Append(q, e) = 1 .. Len(q) + 1 /\ DOMAIN q = 1 .. Len(q) /\ Len(q) \in Nat
  BY <1>1
<1>3. \A i \in 1 .. Len(q) + 1 : i \in 1 .. Len(q) \/ i = Len(q) + 1
  BY <1>2
<1>4. 1 .. Len(q) \subseteq 1 .. Len(q) + 1 /\ Len(q) + 1 \in 1 .. Len(q) + 1
  BY <1>2
<1>5. ToSet(Append(q, e)) = ToSet(q) \cup {e}
  BY <1>1, <1>2, <1>3, <1>4, Zenon DEF ToSet
<1> QED BY <1>1, <1>5

LEMMA QueueHead ==
  ASSUME NEW S, NEW q \in Seq(S), q # <<>>
  PROVE  /\ Head(q) \in S /\ Tail(q) \in Seq(S) /\ Len(Tail(q)) = Len(q) - 1
         /\ ToSet(q) = {Head(q)} \cup ToSet(Tail(q))
<1>1. /\ Tail(q) \in Seq(S) /\ Len(Tail(q)) = Len(q) - 1 /\ Len(q) \in Nat
      /\ \A i \in 1 .. Len(q) - 1 : Tail(q)[i] = q[i + 1]
      /\ Head(q) = q[1] /\ Len(q) >= 1
  OBVIOUS
<1>2. DOMAIN Tail(q) = 1 .. Len(q) - 1 /\ DOMAIN q = 1 .. Len(q)
  BY <1>1
<1>3. /\ 1 \in 1 .. Len(q)
      /\ \A i \in 1 .. Len(q) - 1 : i + 1 \in 1 .. Len(q)
  BY <1>1
<1>4. \A i \in 1 .. Len(q) : i = 1 \/ (i - 1 \in 1 .. Len(q) - 1 /\ (i - 1) + 1 = i)
  BY <1>1
<1>5. Head(q) \in S
  BY <1>1, <1>2, <1>3
<1>6. \A i \in 1 .. Len(q) : q[i] = Head(q) \/ \E j \in 1 .. Len(q) - 1 : q[i] = Tail(q)[j]
  <2> TAKE i \in 1 .. Len(q)
  <2>1. CASE i = 1
    BY <1>1, <2>1
  <2>2. CASE i - 1 \in 1 .. Len(q) - 1 /\ (i - 1) + 1 = i
    <3>1. Tail(q)[i - 1] = q[i]
      BY <1>1, <2>2
    <3> QED BY <2>2, <3>1
  <2> QED BY <1>4, <2>1, <2>2
<1>7. ToSet(q) = {Head(q)} \cup ToSet(Tail(q))
  <2>1. ToSet(q) \subseteq {Head(q)} \cup ToSet(Tail(q))
    BY <1>2, <1>6, Zenon DEF ToSet
  <2>2. Head(q) \in ToSet(q)
    BY <1>1, <1>2, <1>3, Zenon DEF ToSet
  <2>3. \A i \in 1 .. Len(q) - 1 : \E j \in 1 .. Len(q) : Tail(q)[i] = q[j]
    BY <1>1, <1>3
  <2>4. ToSet(Tail(q)) \subseteq ToSet(q)
    BY <1>2, <2>3, Zenon DEF ToSet
  <2> QED BY <2>1, <2>2, <2>4
<1> QED BY <1>1, <1>5, <1>7

LEMMA EmptyQueue == \A S : <<>> \in Seq(S) /\ ToSet(<<>>) = {} /\ Len(<<>>) = 0
BY DEF ToSet

-----------------------------------------------------------------------------
(* The sets of packets, jobs and relays *)

LEMMA Sizes ==
  /\ MaxStarts \in Nat /\ MaxMessages \in Nat /\ MaxRemovals \in Nat
  /\ Window \in Nat \ {0}
  /\ \A x \in Mixes : /\ x.starts \in [Clients -> 0 .. MaxStarts]
                      /\ x.messages \in 0 .. MaxMessages
                      /\ x.removals \in [Clients -> 0 .. MaxRemovals]
BY ChatAssumption

\* What a packet is by its kind.
LEMMA Packets ==
  /\ \A n \in Keys : Hello(n) \in Hellos
  /\ \A n \in Keys, nonce \in Nonces : Sealed(n, nonce) \in SealedMessages
  /\ Ack \in Packet /\ Hellos \subseteq Packet /\ SealedMessages \subseteq Packet
  /\ \A p \in Packet : /\ p.kind = "hello" => p \in Hellos
                       /\ p.kind = "message" => p \in SealedMessages
                       /\ p.kind \in {"hello", "message"} => p.key \in Keys
  /\ \A p \in Hellos : p.key \in Keys /\ p.kind = "hello"
  /\ \A p \in SealedMessages : p.key \in Keys /\ p.kind = "message" /\ p.nonce \in Nonces
BY DEF Packet, Hellos, SealedMessages, Hello, Sealed, Ack

LEMMA NonceMessages == \A nonce \in Nonces : nonce[1] \in Messages
BY DEF Nonces

LEMMA MakeNonce == \A m \in Messages, n \in Nat : <<m, n>> \in Nonces /\ <<m, n>>[1] = m
BY DEF Nonces

\* The steps of the receive thread.
LEMMA Jobs ==
  /\ NoJob \in Job /\ NoJob.from = {} /\ NoJob.step = "idle"
  /\ \A c \in Clients, p \in Packet : [step |-> "allowed", from |-> {c}, packet |-> p] \in Job
  /\ \A c \in Clients, p \in Hellos : [step |-> "keyed", from |-> {c}, packet |-> p] \in Job
  /\ \A c \in Clients, p \in SealedMessages, x \in {"opened", "shown"} :
        [step |-> x, from |-> {c}, packet |-> p] \in Job
  /\ \A j \in Job : /\ j = [step |-> j.step, from |-> j.from, packet |-> j.packet]
                    /\ j.packet \in Packet
                    /\ j.step = "keyed" => j.packet \in Hellos
                    /\ j.step \in {"opened", "shown"} => j.packet \in SealedMessages
                    /\ j # NoJob => \E c \in Clients : j.from = {c}
<1>1. NoJob \in Job /\ NoJob.from = {} /\ NoJob.step = "idle"
  BY DEF Job, NoJob
<1>2. /\ \A c \in Clients, p \in Packet : [step |-> "allowed", from |-> {c}, packet |-> p] \in Job
      /\ \A c \in Clients, p \in Hellos : [step |-> "keyed", from |-> {c}, packet |-> p] \in Job
      /\ \A c \in Clients, p \in SealedMessages, x \in {"opened", "shown"} :
            [step |-> x, from |-> {c}, packet |-> p] \in Job
  BY DEF Job
<1>3. ASSUME NEW j \in Job
      PROVE  /\ j = [step |-> j.step, from |-> j.from, packet |-> j.packet]
             /\ j.packet \in Packet
             /\ j.step = "keyed" => j.packet \in Hellos
             /\ j.step \in {"opened", "shown"} => j.packet \in SealedMessages
             /\ j # NoJob => \E c \in Clients : j.from = {c}
  BY Packets DEF Job, NoJob
<1> QED BY <1>1, <1>2, <1>3

\* The steps of a relay.
LEMMA Relays ==
  /\ NoRelay \in Relay /\ NoRelay.to = {} /\ NoRelay.rest = {} /\ NoRelay.key = NoKey
  /\ \A nonce \in Nonces, rest \in SUBSET Clients :
        [nonce |-> nonce, rest |-> rest, to |-> {}, key |-> NoKey] \in Relay
  /\ \A nonce \in Nonces, rest \in SUBSET Clients, c \in Clients, n \in Keys :
        [nonce |-> nonce, rest |-> rest, to |-> {c}, key |-> n] \in Relay
  /\ \A r \in Relay : /\ r = [nonce |-> r.nonce, rest |-> r.rest, to |-> r.to, key |-> r.key]
                      /\ r.rest \in SUBSET Clients
                      /\ r # NoRelay => r.nonce \in Nonces
                      /\ r.to = {} => r.key = NoKey
                      /\ r.to # {} => r.key \in Keys /\ \E c \in Clients : r.to = {c}
<1>1. NoRelay \in Relay /\ NoRelay.to = {} /\ NoRelay.rest = {} /\ NoRelay.key = NoKey
  BY DEF Relay, NoRelay
<1>2. /\ \A nonce \in Nonces, rest \in SUBSET Clients :
            [nonce |-> nonce, rest |-> rest, to |-> {}, key |-> NoKey] \in Relay
      /\ \A nonce \in Nonces, rest \in SUBSET Clients, c \in Clients, n \in Keys :
            [nonce |-> nonce, rest |-> rest, to |-> {c}, key |-> n] \in Relay
  BY DEF Relay
<1>3. ASSUME NEW r \in Relay
      PROVE  /\ r = [nonce |-> r.nonce, rest |-> r.rest, to |-> r.to, key |-> r.key]
             /\ r.rest \in SUBSET Clients
             /\ r # NoRelay => r.nonce \in Nonces
             /\ r.to = {} => r.key = NoKey
             /\ r.to # {} => r.key \in Keys /\ \E c \in Clients : r.to = {c}
  BY DEF Relay, NoRelay
<1> QED BY <1>1, <1>2, <1>3

-----------------------------------------------------------------------------
(* Types *)

\* The rest of TypeOK.
Windows == \A c \in Clients : Len(seen[c]) <= Window /\ Len(known[c]) <= Window
OneAtATime == job # NoJob => relaying["receive"] = NoRelay

LEMMA TypeParts ==
  TypeOK <=> HostTypes /\ ClientTypes /\ LinkTypes /\ HistoryTypes /\ Windows /\ OneAtATime
BY DEF TypeOK, Windows, OneAtATime

\* A nonce that is remembered leaves the window within its size.
LEMMA Remembering ==
  ASSUME NEW window \in Seq(Nonces), NEW nonce \in Nonces, Len(window) <= Window
  PROVE  /\ Remembered(window, nonce) \in Seq(Nonces)
         /\ Len(Remembered(window, nonce)) <= Window
         /\ ToSet(Remembered(window, nonce)) \subseteq ToSet(window) \cup {nonce}
<1>1. Window \in Nat \ {0} /\ Len(window) \in Nat
  BY Sizes
<1>2. CASE Len(window) < Window
  BY <1>1, <1>2, QueueSteps DEF Remembered
<1>3. CASE ~(Len(window) < Window)
  <2> DEFINE t == Tail(window)
  <2>1. window # <<>>
    BY <1>1, <1>3
  <2>2. t \in Seq(Nonces) /\ Len(t) = Len(window) - 1 /\ ToSet(t) \subseteq ToSet(window)
    BY <2>1, QueueHead
  <2>3. Remembered(window, nonce) = Append(t, nonce)
    BY <1>3 DEF Remembered
  <2> HIDE DEF t
  <2>4. /\ Append(t, nonce) \in Seq(Nonces) /\ Len(Append(t, nonce)) = Len(t) + 1
        /\ ToSet(Append(t, nonce)) = ToSet(t) \cup {nonce}
    BY <2>2, QueueSteps
  <2> QED BY <1>1, <2>2, <2>3, <2>4
<1> QED BY <1>2, <1>3

\* Showing a message keeps the counts and lets none fall.
LEMMA Showing ==
  ASSUME HistoryTypes, NEW who \in Clients \cup {"host"}, NEW m \in Messages, Shown(who, m)
  PROVE  /\ heard' \in [Clients \cup {"host"} -> [Messages -> Nat]]
         /\ heard'[who][m] = heard[who][m] + 1
         /\ \A w \in Clients \cup {"host"}, x \in Messages : heard[w][x] <= heard'[w][x]
<1>1. heard \in [Clients \cup {"host"} -> [Messages -> Nat]]
  BY DEF HistoryTypes
<1>2. heard' = [heard EXCEPT ![who] = [heard[who] EXCEPT ![m] = heard[who][m] + 1]]
  BY DEF Shown
<1>3. [heard[who] EXCEPT ![m] = heard[who][m] + 1] \in [Messages -> Nat]
  BY <1>1
<1> QED BY <1>1, <1>2, <1>3

LEMMA InitTypes == Init => TypeOK
<1> SUFFICES ASSUME Init PROVE TypeOK
  OBVIOUS
<1>1. MaxStarts \in Nat /\ MaxMessages \in Nat /\ MaxRemovals \in Nat /\ Window \in Nat
  BY Sizes
<1>2. HostTypes
  BY EmptyQueue, Jobs, Relays DEF Init, HostTypes
<1>3. ClientTypes
  BY <1>1, EmptyQueue DEF Init, ClientTypes
<1>4. LinkTypes
  BY EmptyQueue DEF Init, LinkTypes
<1>5. HistoryTypes
  BY <1>1 DEF Init, HistoryTypes
<1>6. Windows
  BY <1>1, EmptyQueue DEF Init, Windows
<1>7. OneAtATime
  BY DEF Init, OneAtATime
<1> QED BY <1>2, <1>3, <1>4, <1>5, <1>6, <1>7, TypeParts

\* The host's list of members.
LEMMA MembershipTypes ==
  ASSUME TypeOK, NEW c \in Clients, AddPeer(c) \/ RemovePeer(c)
  PROVE  TypeOK'
<1>1. CASE AddPeer(c)
  <2>1. /\ authorized' = authorized \cup {c}
        /\ UNCHANGED <<mix, keys, seen, job, relaying, clientVars, toHost, toClient, said,
                       removals, history>>
    BY <1>1 DEF AddPeer
  <2> QED
    BY <2>1 DEF TypeOK, HostTypes, ClientTypes, LinkTypes, HistoryTypes, clientVars, history
<1>2. CASE RemovePeer(c)
  <2>1. /\ removals[c] < mix.removals[c]
        /\ removals' = [removals EXCEPT ![c] = removals[c] + 1]
        /\ authorized' = authorized \ {c}
        /\ keys' = [keys EXCEPT ![c] = NoKey]
        /\ seen' = [seen EXCEPT ![c] = <<>>]
        /\ clean' = clean \ {c}
        /\ UNCHANGED <<mix, job, relaying, clientVars, toHost, toClient, said, heard, due>>
    BY <1>2 DEF RemovePeer
  <2>2. mix \in Mixes
    BY DEF TypeOK, HostTypes
  <2>3. removals' \in [Clients -> 0 .. MaxRemovals]
    <3>1. mix.removals[c] \in 0 .. MaxRemovals /\ removals[c] \in 0 .. MaxRemovals
      BY <2>2, Sizes DEF TypeOK, HistoryTypes
    <3>2. removals[c] + 1 \in 0 .. MaxRemovals
      BY <2>1, <3>1, Sizes
    <3> QED BY <2>1, <3>2 DEF TypeOK, HistoryTypes
  <2>4. /\ keys' \in [Clients -> Keys \cup {NoKey}]
        /\ seen' \in [Clients -> Seq(Nonces)]
    BY <2>1, EmptyQueue DEF TypeOK, HostTypes
  <2>5. Windows'
    <3>1. Len(<<>>) <= Window
      BY Sizes, EmptyQueue
    <3>2. seen \in [Clients -> Seq(Nonces)] /\ Windows /\ UNCHANGED known
      BY <2>1 DEF TypeOK, HostTypes, Windows, clientVars
    <3> QED BY <2>1, <3>1, <3>2 DEF Windows
  <2>6. HistoryTypes' /\ ClientTypes'
    BY <2>1, <2>3 DEF TypeOK, HistoryTypes, ClientTypes, clientVars
  <2>7. HostTypes' /\ LinkTypes' /\ OneAtATime'
    BY <2>1, <2>4 DEF TypeOK, HostTypes, LinkTypes, OneAtATime
  <2> QED BY <2>5, <2>6, <2>7 DEF TypeOK, Windows, OneAtATime
<1> QED BY <1>1, <1>2

\* What is put on and taken off a link.
LEMMA LinkSteps ==
  ASSUME LinkTypes, NEW c \in Clients, NEW p \in Packet
  PROVE  /\ [toHost EXCEPT ![c] = Append(toHost[c], p)] \in [Clients -> Seq(Packet)]
         /\ [toClient EXCEPT ![c] = Append(toClient[c], p)] \in [Clients -> Seq(Packet)]
         /\ toHost[c] # <<>> =>
               /\ [toHost EXCEPT ![c] = Tail(toHost[c])] \in [Clients -> Seq(Packet)]
               /\ Head(toHost[c]) \in Packet
         /\ toClient[c] # <<>> =>
               /\ [toClient EXCEPT ![c] = Tail(toClient[c])] \in [Clients -> Seq(Packet)]
               /\ Head(toClient[c]) \in Packet
<1>1. /\ toHost \in [Clients -> Seq(Packet)] /\ toHost[c] \in Seq(Packet)
      /\ toClient \in [Clients -> Seq(Packet)] /\ toClient[c] \in Seq(Packet)
  BY DEF LinkTypes
<1>2. Append(toHost[c], p) \in Seq(Packet) /\ Append(toClient[c], p) \in Seq(Packet)
  BY <1>1, QueueSteps
<1>3. /\ toHost[c] # <<>> => Tail(toHost[c]) \in Seq(Packet) /\ Head(toHost[c]) \in Packet
      /\ toClient[c] # <<>> =>
            Tail(toClient[c]) \in Seq(Packet) /\ Head(toClient[c]) \in Packet
  BY <1>1, QueueHead
<1> QED BY <1>1, <1>2, <1>3

\* The receive thread of the host.
LEMMA HostReceivesTypes ==
  ASSUME TypeOK, NEW c \in Clients, HostReceives(c)
  PROVE  TypeOK'
<1>0. /\ HostTypes /\ ClientTypes /\ LinkTypes /\ HistoryTypes /\ Windows /\ OneAtATime
      /\ job \in Job
  BY TypeParts DEF HostTypes
<1>1. CASE TakePacket(c)
  <2>1. /\ relaying["receive"] = NoRelay /\ toHost[c] # <<>>
        /\ toHost' = [toHost EXCEPT ![c] = Tail(toHost[c])]
        /\ job' \in {NoJob, [step |-> "allowed", from |-> {c}, packet |-> Head(toHost[c])]}
        /\ UNCHANGED <<mix, authorized, keys, seen, relaying, clientVars, toClient, said,
                       removals, history>>
    BY <1>1 DEF TakePacket
  <2>2. toHost' \in [Clients -> Seq(Packet)] /\ Head(toHost[c]) \in Packet
    BY <1>0, <2>1, LinkSteps, Packets
  <2>3. job' \in Job
    BY <2>1, <2>2, Jobs
  <2>4. /\ HostTypes' /\ ClientTypes' /\ LinkTypes' /\ HistoryTypes' /\ Windows'
        /\ OneAtATime'
    BY <1>0, <2>1, <2>2, <2>3
    DEF HostTypes, ClientTypes, LinkTypes, HistoryTypes, Windows, OneAtATime, clientVars,
        history
  <2> QED BY <2>4 DEF TypeOK, Windows, OneAtATime
<1>2. CASE StoreKey(c)
  <2>1. /\ job.from = {c} /\ job.step = "allowed" /\ job.packet.kind = "hello"
        /\ keys' = [keys EXCEPT ![c] = job.packet.key]
        /\ job' = [job EXCEPT !.step = "keyed"]
        /\ UNCHANGED <<mix, authorized, seen, relaying, clientVars, toHost, toClient, said,
                       removals, history>>
    BY <1>2 DEF StoreKey, At
  <2>2. job.packet \in Hellos /\ job.packet.key \in Keys
    BY <1>0, <2>1, Jobs, Packets
  <2>3. job' = [step |-> "keyed", from |-> {c}, packet |-> job.packet]
    <3>1. job = [step |-> job.step, from |-> job.from, packet |-> job.packet]
      BY <1>0, Jobs
    <3> QED BY <2>1, <3>1
  <2>4. job' \in Job /\ keys' \in [Clients -> Keys \cup {NoKey}] /\ job # NoJob
    <3>1. job' \in Job
      BY <2>2, <2>3, Jobs
    <3>2. job # NoJob
      BY <2>1, Jobs
    <3>3. keys' \in [Clients -> Keys \cup {NoKey}]
      BY <1>0, <2>1, <2>2 DEF HostTypes
    <3> QED BY <3>1, <3>2, <3>3
  <2>5. /\ HostTypes' /\ ClientTypes' /\ LinkTypes' /\ HistoryTypes' /\ Windows'
        /\ OneAtATime'
    BY <1>0, <2>1, <2>4
    DEF HostTypes, ClientTypes, LinkTypes, HistoryTypes, Windows, OneAtATime, clientVars,
        history
  <2> QED BY <2>5 DEF TypeOK, Windows, OneAtATime
<1>3. CASE AnswerHello(c)
  <2>1. /\ job' = NoJob
        /\ toClient' = [toClient EXCEPT ![c] = Append(toClient[c], Ack)]
        /\ UNCHANGED <<mix, authorized, keys, seen, relaying, clientVars, toHost, said,
                       removals, history>>
    BY <1>3 DEF AnswerHello
  <2>2. toClient' \in [Clients -> Seq(Packet)]
    BY <1>0, <2>1, LinkSteps, Packets
  <2>3. /\ HostTypes' /\ ClientTypes' /\ LinkTypes' /\ HistoryTypes' /\ Windows'
        /\ OneAtATime'
    BY <1>0, <2>1, <2>2, Jobs
    DEF HostTypes, ClientTypes, LinkTypes, HistoryTypes, Windows, OneAtATime, clientVars,
        history
  <2> QED BY <2>3 DEF TypeOK, Windows, OneAtATime
<1>4. CASE OpenMessage(c)
  <2>1. /\ job.from = {c} /\ job.step = "allowed" /\ job.packet.kind = "message"
        /\ job' = [job EXCEPT !.step = "opened"] \/ job' = NoJob
        /\ UNCHANGED <<mix, authorized, keys, seen, relaying, clientVars, toHost, toClient,
                       said, removals, history>>
    BY <1>4 DEF OpenMessage, At
  <2>2. [job EXCEPT !.step = "opened"] = [step |-> "opened", from |-> {c}, packet |-> job.packet]
    <3>1. job = [step |-> job.step, from |-> job.from, packet |-> job.packet]
      BY <1>0, Jobs
    <3> QED BY <2>1, <3>1
  <2>3. job' \in Job /\ job # NoJob
    <3>1. job.packet \in SealedMessages
      BY <1>0, <2>1, Jobs, Packets
    <3>2. job' \in Job
      <4>1. [step |-> "opened", from |-> {c}, packet |-> job.packet] \in Job
        BY <3>1, Jobs
      <4> QED BY <2>1, <2>2, <4>1, Jobs, Zenon
    <3>3. job # NoJob
      BY <2>1, Jobs
    <3> QED BY <3>2, <3>3
  <2>4. /\ HostTypes' /\ ClientTypes' /\ LinkTypes' /\ HistoryTypes' /\ Windows'
        /\ OneAtATime'
    BY <1>0, <2>1, <2>3
    DEF HostTypes, ClientTypes, LinkTypes, HistoryTypes, Windows, OneAtATime, clientVars,
        history
  <2> QED BY <2>4 DEF TypeOK, Windows, OneAtATime
<1>5. CASE CheckNonce(c)
  <2>1. /\ job.from = {c} /\ job.step = "opened"
        /\ UNCHANGED <<mix, authorized, keys, relaying, clientVars, toHost, toClient, said,
                       removals, clean, due>>
    BY <1>5 DEF CheckNonce, At
  <2>2. /\ job.packet \in SealedMessages /\ job.packet.nonce \in Nonces
        /\ job.packet.nonce[1] \in Messages /\ job # NoJob
    BY <1>0, <2>1, Jobs, Packets, NonceMessages
  <2>3. CASE job' = NoJob /\ UNCHANGED <<seen, heard>>
    <3>1. /\ HostTypes' /\ ClientTypes' /\ LinkTypes' /\ HistoryTypes' /\ Windows'
          /\ OneAtATime'
      BY <1>0, <2>1, <2>3, Jobs
      DEF HostTypes, ClientTypes, LinkTypes, HistoryTypes, Windows, OneAtATime, clientVars,
          history
    <3> QED BY <3>1 DEF TypeOK, Windows, OneAtATime
  <2>4. CASE /\ job' = [job EXCEPT !.step = "shown"]
             /\ seen' = [seen EXCEPT ![c] = Remembered(seen[c], job.packet.nonce)]
             /\ Shown("host", job.packet.nonce[1])
    <3>1. job' = [step |-> "shown", from |-> {c}, packet |-> job.packet]
      <4>1. job = [step |-> job.step, from |-> job.from, packet |-> job.packet]
        BY <1>0, Jobs
      <4> QED BY <2>1, <2>4, <4>1
    <3>2. job' \in Job
      BY <2>2, <3>1, Jobs
    <3>3. seen \in [Clients -> Seq(Nonces)] /\ seen[c] \in Seq(Nonces) /\ Len(seen[c]) <= Window
      BY <1>0 DEF HostTypes, Windows
    <3>4. /\ Remembered(seen[c], job.packet.nonce) \in Seq(Nonces)
          /\ Len(Remembered(seen[c], job.packet.nonce)) <= Window
      BY <2>2, <3>3, Remembering
    <3>5. seen' \in [Clients -> Seq(Nonces)] /\ \A x \in Clients : Len(seen'[x]) <= Window
      BY <1>0, <2>4, <3>3, <3>4 DEF Windows
    <3>6. heard' \in [Clients \cup {"host"} -> [Messages -> Nat]]
      BY <1>0, <2>2, <2>4, Showing
    <3>7. /\ HostTypes' /\ ClientTypes' /\ LinkTypes' /\ HistoryTypes' /\ Windows'
          /\ OneAtATime'
      BY <1>0, <2>1, <2>2, <3>2, <3>5, <3>6
      DEF HostTypes, ClientTypes, LinkTypes, HistoryTypes, Windows, OneAtATime, clientVars
    <3> QED BY <3>7 DEF TypeOK, Windows, OneAtATime
  <2> QED BY <1>5, <2>3, <2>4 DEF CheckNonce
<1>6. CASE RelayReceived(c)
  <2>1. /\ job.from = {c} /\ job.step = "shown" /\ job' = NoJob
        /\ BeginRelay("receive", job.packet.nonce[1])
        /\ UNCHANGED <<mix, authorized, keys, seen, clientVars, toHost, toClient, said,
                       removals, heard, clean>>
    BY <1>6 DEF RelayReceived, At
  <2>2. job.packet.nonce[1] \in Messages
    BY <1>0, <2>1, Jobs, Packets, NonceMessages
  <2>3. relaying' \in [Threads -> Relay] /\ due' \in [Clients -> SUBSET Messages]
    <3> DEFINE m == job.packet.nonce[1]
    <3>1. heard["host"][m] \in Nat /\ authorized \in SUBSET Clients
      BY <1>0, <2>2 DEF HistoryTypes, HostTypes
    <3>2. <<m, heard["host"][m]>> \in Nonces
      BY <2>2, <3>1, MakeNonce
    <3>3. [nonce |-> <<m, heard["host"][m]>>, rest |-> authorized, to |-> {}, key |-> NoKey]
             \in Relay
      BY <3>1, <3>2, Relays
    <3>4. relaying' \in [Threads -> Relay]
      BY <1>0, <2>1, <3>3 DEF BeginRelay, HostTypes
    <3>5. due' \in [Clients -> SUBSET Messages]
      BY <1>0, <2>1, <2>2 DEF BeginRelay, HistoryTypes
    <3> QED BY <3>4, <3>5
  <2>4. /\ HostTypes' /\ ClientTypes' /\ LinkTypes' /\ HistoryTypes' /\ Windows'
        /\ OneAtATime'
    BY <1>0, <2>1, <2>3, Jobs
    DEF HostTypes, ClientTypes, LinkTypes, HistoryTypes, Windows, OneAtATime, clientVars
  <2> QED BY <2>4 DEF TypeOK, Windows, OneAtATime
<1> QED BY <1>1, <1>2, <1>3, <1>4, <1>5, <1>6 DEF HostReceives

\* A relay that begins.
LEMMA BeginningTypes ==
  ASSUME TypeOK, NEW t \in Threads, NEW m \in Messages, BeginRelay(t, m)
  PROVE  relaying' \in [Threads -> Relay] /\ due' \in [Clients -> SUBSET Messages]
<1>0. HostTypes /\ HistoryTypes
  BY DEF TypeOK
<1>1. heard["host"][m] \in Nat /\ authorized \in SUBSET Clients
  BY <1>0 DEF HistoryTypes, HostTypes
<1>2. <<m, heard["host"][m]>> \in Nonces
  BY <1>1, MakeNonce
<1>3. [nonce |-> <<m, heard["host"][m]>>, rest |-> authorized, to |-> {}, key |-> NoKey]
         \in Relay
  BY <1>1, <1>2, Relays
<1>4. relaying' \in [Threads -> Relay]
  BY <1>0, <1>3 DEF BeginRelay, HostTypes
<1>5. due' \in [Clients -> SUBSET Messages]
  BY <1>0 DEF BeginRelay, HistoryTypes
<1> QED BY <1>4, <1>5

\* A message that is counted.
LEMMA Saying ==
  ASSUME TypeOK, said < mix.messages
  PROVE  said + 1 \in Messages /\ said + 1 \in 0 .. MaxMessages
<1>1. said \in 0 .. MaxMessages /\ mix.messages \in 0 .. MaxMessages /\ MaxMessages \in Nat
  BY Sizes DEF TypeOK, HostTypes, HistoryTypes
<1> QED BY <1>1 DEF Messages

\* PickKey takes a peer from those that are left, with its key if it has one.
LEMMA Picking ==
  ASSUME HostTypes, NEW t \in Threads, NEW c \in Clients, PickKey(t, c)
  PROVE  /\ relaying[t] # NoRelay /\ relaying[t].to = {} /\ c \in relaying[t].rest
         /\ \E x \in Relay :
              /\ relaying' = [relaying EXCEPT ![t] = x]
              /\ x.nonce = relaying[t].nonce /\ x.rest = relaying[t].rest \ {c}
              /\ keys[c] = NoKey => x.to = {}
              /\ keys[c] # NoKey => x.to = {c}
              /\ x.key = keys[c]
         /\ UNCHANGED <<mix, authorized, keys, seen, job, clientVars, toHost, toClient, said,
                        removals, history>>
<1> DEFINE r == relaying[t]
           to == IF keys[c] = NoKey THEN {} ELSE {c}
           next == [nonce |-> r.nonce, rest |-> r.rest \ {c}, to |-> to, key |-> keys[c]]
<1>1. /\ r.to = {} /\ c \in r.rest /\ relaying' = [relaying EXCEPT ![t] = next]
      /\ UNCHANGED <<mix, authorized, keys, seen, job, clientVars, toHost, toClient, said,
                     removals, history>>
  BY DEF PickKey, Proceeds
<1>2. r \in Relay /\ keys[c] \in Keys \cup {NoKey}
  BY DEF HostTypes
<1>3. r # NoRelay /\ r.nonce \in Nonces /\ r.rest \ {c} \in SUBSET Clients
  BY <1>1, <1>2, Relays
<1>4. next \in Relay
  <2>1. CASE keys[c] = NoKey
    <3>1. next = [nonce |-> r.nonce, rest |-> r.rest \ {c}, to |-> {}, key |-> NoKey]
      BY <2>1
    <3> QED BY <1>3, <3>1, Relays
  <2>2. CASE keys[c] # NoKey
    <3>1. next = [nonce |-> r.nonce, rest |-> r.rest \ {c}, to |-> {c}, key |-> keys[c]]
      BY <2>2
    <3>2. keys[c] \in Keys
      BY <1>2, <2>2
    <3> QED BY <1>3, <3>1, <3>2, Relays
  <2> QED BY <2>1, <2>2
<1>5. /\ next.nonce = r.nonce /\ next.rest = r.rest \ {c} /\ next.to = to
      /\ next.key = keys[c]
  OBVIOUS
<1> HIDE DEF next
<1> QED BY <1>1, <1>3, <1>4, <1>5

\* SendSealed puts the message on the link of the peer that was picked.
LEMMA SendingSealed ==
  ASSUME HostTypes, NEW t \in Threads, NEW c \in Clients, SendSealed(t, c)
  PROVE  /\ relaying[t] # NoRelay /\ relaying[t].to = {c}
         /\ relaying[t].key \in Keys /\ relaying[t].nonce \in Nonces
         /\ \E x \in Relay :
              /\ relaying' = [relaying EXCEPT ![t] = x]
              /\ x.nonce = relaying[t].nonce /\ x.rest = relaying[t].rest /\ x.to = {}
         /\ toClient' = [toClient EXCEPT ![c] =
                           Append(toClient[c], Sealed(relaying[t].key, relaying[t].nonce))]
         /\ UNCHANGED <<mix, authorized, keys, seen, job, clientVars, toHost, said,
                        removals, history>>
<1> DEFINE r == relaying[t]
           sent == [nonce |-> r.nonce, rest |-> r.rest, to |-> {}, key |-> NoKey]
<1>1. /\ r.to = {c}
      /\ toClient' = [toClient EXCEPT ![c] = Append(toClient[c], Sealed(r.key, r.nonce))]
      /\ relaying' = [relaying EXCEPT ![t] = sent]
      /\ UNCHANGED <<mix, authorized, keys, seen, job, clientVars, toHost, said, removals,
                     history>>
  BY DEF SendSealed, Proceeds
<1>2. r \in Relay
  BY DEF HostTypes
<1>3. r # NoRelay /\ r.nonce \in Nonces /\ r.rest \in SUBSET Clients /\ r.key \in Keys
  BY <1>1, <1>2, Relays
<1>4. sent \in Relay
  BY <1>3, Relays
<1>5. sent.nonce = r.nonce /\ sent.rest = r.rest /\ sent.to = {}
  OBVIOUS
<1> HIDE DEF sent
<1> QED BY <1>1, <1>3, <1>4, <1>5

LEMMA HostRelaysTypes ==
  ASSUME TypeOK, HostSays \/ \E t \in Threads : HostRelays(t)
  PROVE  TypeOK'
<1>0. /\ HostTypes /\ ClientTypes /\ LinkTypes /\ HistoryTypes /\ Windows /\ OneAtATime
      /\ "receive" \in Threads /\ "qt" \in Threads /\ "receive" # "qt"
      /\ relaying \in [Threads -> Relay]
  BY TypeParts DEF HostTypes, Threads
<1>1. CASE HostSays
  <2>1. /\ said < mix.messages /\ said' = said + 1 /\ BeginRelay("qt", said + 1)
        /\ UNCHANGED <<mix, authorized, keys, seen, job, clientVars, toHost, toClient,
                       removals, heard, clean>>
    BY <1>1 DEF HostSays
  <2>2. said + 1 \in Messages /\ said' \in 0 .. MaxMessages
    BY <2>1, Saying
  <2>3. relaying' \in [Threads -> Relay] /\ due' \in [Clients -> SUBSET Messages]
    BY <1>0, <2>1, <2>2, BeginningTypes
  <2>4. relaying'["receive"] = relaying["receive"]
    BY <1>0, <2>1 DEF BeginRelay
  <2>5. /\ HostTypes' /\ ClientTypes' /\ LinkTypes' /\ HistoryTypes' /\ Windows'
        /\ OneAtATime'
    BY <1>0, <2>1, <2>2, <2>3, <2>4
    DEF HostTypes, ClientTypes, LinkTypes, HistoryTypes, Windows, OneAtATime, clientVars
  <2> QED BY <2>5 DEF TypeOK, Windows, OneAtATime
<1>2. ASSUME NEW t \in Threads, NEW r \in Relay, relaying[t] # NoRelay,
             relaying' = [relaying EXCEPT ![t] = r],
             UNCHANGED <<mix, authorized, keys, seen, job, clientVars, said, removals,
                         clean, due, toHost>>,
             toClient' \in [Clients -> Seq(Packet)],
             heard' \in [Clients \cup {"host"} -> [Messages -> Nat]]
      PROVE  TypeOK'
  <2>1. relaying' \in [Threads -> Relay]
    BY <1>0, <1>2
  <2>2. job # NoJob => relaying'["receive"] = NoRelay
    BY <1>0, <1>2 DEF OneAtATime
  <2>3. /\ HostTypes' /\ ClientTypes' /\ LinkTypes' /\ HistoryTypes' /\ Windows'
        /\ OneAtATime'
    BY <1>0, <1>2, <2>1, <2>2
    DEF HostTypes, ClientTypes, LinkTypes, HistoryTypes, Windows, OneAtATime, clientVars
  <2> QED BY <2>3 DEF TypeOK, Windows, OneAtATime
<1>3. toClient \in [Clients -> Seq(Packet)] /\ heard \in [Clients \cup {"host"} -> [Messages -> Nat]]
  BY <1>0 DEF LinkTypes, HistoryTypes
<1>4. ASSUME NEW t \in Threads, NEW c \in Clients, PickKey(t, c)
      PROVE  TypeOK'
  <2>1. /\ relaying[t] # NoRelay
        /\ \E x \in Relay : relaying' = [relaying EXCEPT ![t] = x]
        /\ UNCHANGED <<mix, authorized, keys, seen, job, clientVars, toHost, toClient, said,
                       removals, history>>
    <3>1. /\ relaying[t] # NoRelay
          /\ UNCHANGED <<mix, authorized, keys, seen, job, clientVars, toHost, toClient, said,
                         removals, history>>
      BY <1>0, <1>4, Picking
    <3>2. PICK x \in Relay : relaying' = [relaying EXCEPT ![t] = x]
      BY <1>0, <1>4, Picking
    <3> QED BY <3>1, <3>2
  <2>2. UNCHANGED <<mix, authorized, keys, seen, job, clientVars, said, removals,
                    clean, due, toHost, toClient, heard>>
    BY <2>1 DEF history
  <2> QED BY <1>2, <1>3, <2>1, <2>2
<1>5. ASSUME NEW t \in Threads, NEW c \in Clients, SendSealed(t, c)
      PROVE  TypeOK'
  <2> DEFINE r == relaying[t]
  <2>1. /\ r # NoRelay /\ r.key \in Keys /\ r.nonce \in Nonces
        /\ \E x \in Relay : relaying' = [relaying EXCEPT ![t] = x]
        /\ toClient' = [toClient EXCEPT ![c] = Append(toClient[c], Sealed(r.key, r.nonce))]
        /\ UNCHANGED <<mix, authorized, keys, seen, job, clientVars, toHost, said, removals,
                       history>>
    BY <1>0, <1>5, SendingSealed
  <2> HIDE DEF r
  <2>2. Sealed(r.key, r.nonce) \in Packet
    BY <2>1, Packets
  <2>3. toClient' \in [Clients -> Seq(Packet)]
    BY <1>0, <2>1, <2>2, LinkSteps
  <2>4. UNCHANGED <<mix, authorized, keys, seen, job, clientVars, said, removals,
                    clean, due, toHost, heard>>
    BY <2>1 DEF history
  <2> QED BY <1>2, <1>3, <2>1, <2>3, <2>4 DEF r
<1>6. ASSUME NEW t \in Threads, EndRelay(t)
      PROVE  TypeOK'
  <2>1. /\ relaying[t] # NoRelay
        /\ relaying' = [relaying EXCEPT ![t] = NoRelay]
        /\ \/ Shown("host", relaying[t].nonce[1])
           \/ UNCHANGED heard
        /\ UNCHANGED <<mix, authorized, keys, seen, job, clientVars, toHost, toClient, said,
                       removals, clean, due>>
    BY <1>6 DEF EndRelay
  <2>2. relaying[t].nonce[1] \in Messages
    BY <1>0, <2>1, Relays, NonceMessages
  <2>3. heard' \in [Clients \cup {"host"} -> [Messages -> Nat]]
    BY <1>0, <1>3, <2>1, <2>2, Showing
  <2> QED BY <1>2, <1>3, <2>1, <2>3, Relays
<1> QED BY <1>1, <1>4, <1>5, <1>6 DEF HostRelays

LEMMA ClientTypesHold ==
  ASSUME TypeOK, NEW c \in Clients,
         \/ ClientStart(c) \/ HelloAgain(c) \/ ClientStop(c)
         \/ ClientReceives(c) \/ ClientSays(c)
         \/ RepeatToHost(c) \/ RepeatToClient(c)
  PROVE  TypeOK'
<1>0. /\ HostTypes /\ ClientTypes /\ LinkTypes /\ HistoryTypes /\ Windows /\ OneAtATime
      /\ toHost \in [Clients -> Seq(Packet)] /\ toClient \in [Clients -> Seq(Packet)]
  BY TypeParts DEF LinkTypes
<1>1. CASE ClientStart(c)
  <2>1. /\ c \notin running /\ starts[c] < mix.starts[c]
        /\ starts' = [starts EXCEPT ![c] = starts[c] + 1]
        /\ running' = running \cup {c}
        /\ toHost' = [toHost EXCEPT ![c] = Append(toHost[c], Hello(starts[c] + 1))]
        /\ clean' = IF LinkIsEmpty(c) /\ c \in authorized THEN clean \cup {c} ELSE clean
        /\ UNCHANGED <<hostVars, ready, known, toClient, said, heard, removals, due>>
    BY <1>1 DEF ClientStart
  <2>2. starts[c] + 1 \in Keys /\ starts[c] + 1 \in 0 .. MaxStarts
    <3>1. mix \in Mixes
      BY <1>0 DEF HostTypes
    <3>2. mix.starts[c] \in 0 .. MaxStarts /\ starts[c] \in 0 .. MaxStarts /\ MaxStarts \in Nat
      BY <1>0, <3>1, Sizes DEF ClientTypes
    <3> QED BY <2>1, <3>2 DEF Keys
  <2>3. toHost' \in [Clients -> Seq(Packet)]
    BY <1>0, <2>1, <2>2, LinkSteps, Packets
  <2>4. starts' \in [Clients -> 0 .. MaxStarts]
    BY <1>0, <2>1, <2>2 DEF ClientTypes
  <2>5. clean' \in SUBSET (running' \cap authorized)
    BY <1>0, <2>1 DEF HistoryTypes
  <2>6. ClientTypes'
    <3>1. /\ running \in SUBSET Clients /\ ready \in SUBSET running
          /\ known \in [Clients -> Seq(Nonces)]
          /\ \A x \in running : starts[x] \in Keys
          /\ starts \in [Clients -> 0 .. MaxStarts]
      BY <1>0 DEF ClientTypes
    <3>2. \A x \in running' : starts'[x] \in Keys
      BY <2>1, <2>2, <3>1
    <3>3. running' \in SUBSET Clients /\ ready' \in SUBSET running'
      BY <2>1, <3>1
    <3>4. known' \in [Clients -> Seq(Nonces)]
      BY <2>1, <3>1
    <3> QED BY <2>4, <3>2, <3>3, <3>4 DEF ClientTypes
  <2>7. /\ HostTypes' /\ LinkTypes' /\ HistoryTypes' /\ Windows' /\ OneAtATime'
    BY <1>0, <2>1, <2>3, <2>5
    DEF HostTypes, LinkTypes, HistoryTypes, Windows, OneAtATime, hostVars
  <2> QED BY <2>6, <2>7 DEF TypeOK, Windows, OneAtATime
<1>2. CASE HelloAgain(c)
  <2>1. /\ c \in running \ ready
        /\ toHost' = [toHost EXCEPT ![c] = Append(toHost[c], Hello(starts[c]))]
        /\ UNCHANGED <<hostVars, clientVars, toClient, said, removals, history>>
    BY <1>2 DEF HelloAgain
  <2>2. Hello(starts[c]) \in Packet
    BY <1>0, <2>1, Packets DEF ClientTypes
  <2>3. toHost' \in [Clients -> Seq(Packet)]
    BY <1>0, <2>1, <2>2, LinkSteps
  <2>4. /\ HostTypes' /\ ClientTypes' /\ LinkTypes' /\ HistoryTypes' /\ Windows'
        /\ OneAtATime'
    BY <1>0, <2>1, <2>3
    DEF HostTypes, ClientTypes, LinkTypes, HistoryTypes, Windows, OneAtATime, hostVars,
        clientVars, history
  <2> QED BY <2>4 DEF TypeOK, Windows, OneAtATime
<1>3. CASE ClientStop(c)
  <2>1. /\ c \in running /\ running' = running \ {c} /\ ready' = ready \ {c}
        /\ known' = [known EXCEPT ![c] = <<>>]
        /\ clean' = clean \ {c} /\ due' = [due EXCEPT ![c] = {}]
        /\ UNCHANGED <<hostVars, starts, toHost, toClient, said, heard, removals>>
    BY <1>3 DEF ClientStop
  <2>2. known' \in [Clients -> Seq(Nonces)] /\ \A x \in Clients : Len(known'[x]) <= Window
    <3>1. Len(<<>>) <= Window /\ <<>> \in Seq(Nonces)
      BY Sizes, EmptyQueue
    <3>2. known \in [Clients -> Seq(Nonces)]
      BY <1>0 DEF ClientTypes
    <3> QED BY <1>0, <2>1, <3>1, <3>2 DEF Windows
  <2>3. HistoryTypes'
    BY <1>0, <2>1 DEF HistoryTypes, hostVars
  <2>4. /\ HostTypes' /\ ClientTypes' /\ LinkTypes' /\ Windows' /\ OneAtATime'
    BY <1>0, <2>1, <2>2
    DEF HostTypes, ClientTypes, LinkTypes, Windows, OneAtATime, hostVars
  <2> QED BY <2>3, <2>4 DEF TypeOK, Windows, OneAtATime
<1>4. CASE ReceiveAck(c)
  <2>1. /\ c \in running /\ toClient[c] # <<>>
        /\ toClient' = [toClient EXCEPT ![c] = Tail(toClient[c])]
        /\ ready' = ready \cup {c}
        /\ UNCHANGED <<hostVars, running, starts, known, toHost, said, removals, history>>
    BY <1>4 DEF ReceiveAck
  <2>2. toClient' \in [Clients -> Seq(Packet)]
    BY <1>0, <2>1, LinkSteps, Packets
  <2>3. /\ HostTypes' /\ ClientTypes' /\ LinkTypes' /\ HistoryTypes' /\ Windows'
        /\ OneAtATime'
    BY <1>0, <2>1, <2>2
    DEF HostTypes, ClientTypes, LinkTypes, HistoryTypes, Windows, OneAtATime, hostVars,
        history
  <2> QED BY <2>3 DEF TypeOK, Windows, OneAtATime
<1>5. CASE ReceiveMessage(c)
  <2> DEFINE packet == Head(toClient[c])
  <2>1. /\ toClient[c] # <<>> /\ packet.kind = "message"
        /\ toClient' = [toClient EXCEPT ![c] = Tail(toClient[c])]
        /\ \/ /\ known' = [known EXCEPT ![c] = Remembered(known[c], packet.nonce)]
              /\ Shown(c, packet.nonce[1])
           \/ UNCHANGED <<known, heard>>
        /\ UNCHANGED <<hostVars, running, starts, ready, toHost, said, removals, clean, due>>
    BY <1>5 DEF ReceiveMessage
  <2>2. toClient' \in [Clients -> Seq(Packet)] /\ packet \in Packet
    BY <1>0, <2>1, LinkSteps, Packets
  <2> HIDE DEF packet
  <2>3. packet.nonce \in Nonces /\ packet.nonce[1] \in Messages
    BY <2>1, <2>2, Packets, NonceMessages
  <2>4. /\ known' \in [Clients -> Seq(Nonces)] /\ \A x \in Clients : Len(known'[x]) <= Window
        /\ heard' \in [Clients \cup {"host"} -> [Messages -> Nat]]
    <3>1. /\ known \in [Clients -> Seq(Nonces)] /\ known[c] \in Seq(Nonces)
          /\ Len(known[c]) <= Window /\ \A x \in Clients : Len(known[x]) <= Window
          /\ heard \in [Clients \cup {"host"} -> [Messages -> Nat]]
      BY <1>0 DEF ClientTypes, Windows, HistoryTypes
    <3>2. CASE UNCHANGED <<known, heard>>
      BY <3>1, <3>2
    <3>3. CASE /\ known' = [known EXCEPT ![c] = Remembered(known[c], packet.nonce)]
               /\ Shown(c, packet.nonce[1])
      <4>1. /\ Remembered(known[c], packet.nonce) \in Seq(Nonces)
            /\ Len(Remembered(known[c], packet.nonce)) <= Window
        BY <2>3, <3>1, Remembering
      <4>2. heard' \in [Clients \cup {"host"} -> [Messages -> Nat]]
        BY <1>0, <2>3, <3>3, Showing
      <4> QED BY <3>1, <3>3, <4>1, <4>2
    <3> QED BY <2>1, <3>2, <3>3
  <2>5. /\ HostTypes' /\ ClientTypes' /\ LinkTypes' /\ HistoryTypes' /\ Windows'
        /\ OneAtATime'
    BY <1>0, <2>1, <2>2, <2>4
    DEF HostTypes, ClientTypes, LinkTypes, HistoryTypes, Windows, OneAtATime, hostVars
  <2> QED BY <2>5 DEF TypeOK, Windows, OneAtATime
<1>6. CASE ClientSays(c)
  <2>1. /\ c \in running /\ said < mix.messages
        /\ \/ /\ said' = said + 1
              /\ toHost' = [toHost EXCEPT ![c] =
                              Append(toHost[c], Sealed(starts[c], <<said + 1, 0>>))]
           \/ /\ toHost' = [toHost EXCEPT ![c] = Append(toHost[c], Hello(starts[c]))]
              /\ UNCHANGED said
        /\ UNCHANGED <<hostVars, clientVars, toClient, removals, history>>
    BY <1>6 DEF ClientSays
  <2>2. said + 1 \in Messages /\ said + 1 \in 0 .. MaxMessages
    BY <2>1, Saying
  <2>3. starts[c] \in Keys /\ <<said + 1, 0>> \in Nonces
    BY <1>0, <2>1, <2>2, MakeNonce DEF ClientTypes
  <2>4. Sealed(starts[c], <<said + 1, 0>>) \in Packet /\ Hello(starts[c]) \in Packet
    BY <2>3, Packets
  <2>5. toHost' \in [Clients -> Seq(Packet)] /\ said' \in 0 .. MaxMessages
    <3>1. said \in 0 .. MaxMessages
      BY <1>0 DEF HistoryTypes
    <3>2. ASSUME NEW p \in Packet
          PROVE  [toHost EXCEPT ![c] = Append(toHost[c], p)] \in [Clients -> Seq(Packet)]
      BY <1>0, LinkSteps
    <3> QED BY <2>1, <2>2, <2>4, <3>1, <3>2
  <2>6. /\ HostTypes' /\ ClientTypes' /\ LinkTypes' /\ HistoryTypes' /\ Windows'
        /\ OneAtATime'
    BY <1>0, <2>1, <2>5
    DEF HostTypes, ClientTypes, LinkTypes, HistoryTypes, Windows, OneAtATime, hostVars,
        clientVars, history
  <2> QED BY <2>6 DEF TypeOK, Windows, OneAtATime
<1>7. CASE RepeatToHost(c) \/ RepeatToClient(c)
  <2>1. /\ \/ /\ toHost' = [toHost EXCEPT ![c] = Append(toHost[c], Head(toHost[c]))]
              /\ toHost[c] # <<>> /\ UNCHANGED toClient
           \/ /\ toClient' = [toClient EXCEPT ![c] = Append(toClient[c], Head(toClient[c]))]
              /\ toClient[c] # <<>> /\ UNCHANGED toHost
        /\ UNCHANGED <<hostVars, clientVars, said, removals, history>>
    <3>1. Len(<<>>) = 0
      BY EmptyQueue
    <3>2. CASE RepeatToHost(c)
      <4>1. /\ 0 < Len(toHost[c])
            /\ toHost' = [toHost EXCEPT ![c] = Append(toHost[c], Head(toHost[c]))]
            /\ UNCHANGED <<hostVars, clientVars, toClient, said, removals, history>>
        BY <3>2 DEF RepeatToHost
      <4>2. toHost[c] # <<>>
        BY <3>1, <4>1
      <4> QED BY <4>1, <4>2
    <3>3. CASE RepeatToClient(c)
      <4>1. /\ 0 < Len(toClient[c])
            /\ toClient' = [toClient EXCEPT ![c] = Append(toClient[c], Head(toClient[c]))]
            /\ UNCHANGED <<hostVars, clientVars, toHost, said, removals, history>>
        BY <3>3 DEF RepeatToClient
      <4>2. toClient[c] # <<>>
        BY <3>1, <4>1
      <4> QED BY <4>1, <4>2
    <3> QED BY <1>7, <3>2, <3>3
  <2>2. /\ toHost[c] # <<>> => Head(toHost[c]) \in Packet
        /\ toClient[c] # <<>> => Head(toClient[c]) \in Packet
    BY <1>0, LinkSteps, Packets
  <2>3. LinkTypes'
    <3>1. ASSUME NEW p \in Packet
          PROVE  /\ [toHost EXCEPT ![c] = Append(toHost[c], p)] \in [Clients -> Seq(Packet)]
                 /\ [toClient EXCEPT ![c] = Append(toClient[c], p)] \in [Clients -> Seq(Packet)]
      BY <1>0, LinkSteps
    <3> QED BY <1>0, <2>1, <2>2, <3>1 DEF LinkTypes
  <2>4. HostTypes' /\ ClientTypes' /\ HistoryTypes' /\ Windows' /\ OneAtATime'
    BY <1>0, <2>1
    DEF HostTypes, ClientTypes, HistoryTypes, Windows, OneAtATime, hostVars, clientVars,
        history
  <2> QED BY <2>3, <2>4 DEF TypeOK, Windows, OneAtATime
<1> QED BY <1>1, <1>2, <1>3, <1>4, <1>5, <1>6, <1>7 DEF ClientReceives

LEMMA NextTypes == TypeOK /\ [Next]_vars => TypeOK'
<1> SUFFICES ASSUME TypeOK, [Next]_vars PROVE TypeOK'
  OBVIOUS
<1>1. CASE Next
  BY <1>1, MembershipTypes, HostReceivesTypes, HostRelaysTypes, ClientTypesHold, Zenon DEF Next
<1>2. CASE UNCHANGED vars
  BY <1>2 DEF vars, hostVars, clientVars, history, TypeOK, HostTypes, ClientTypes, LinkTypes,
              HistoryTypes
<1> QED BY <1>1, <1>2

\* The types hold for any number of clients, starts and messages; the windows stay
\* within their size and the receive thread of the host handles one packet at a time.
THEOREM ChatTypes == Spec => []TypeOK
BY InitTypes, NextTypes, PTL DEF Spec

-----------------------------------------------------------------------------
(* Keys *)

\* Nothing of an earlier start reaches the key of a client that started on an empty
\* link: every HELLO of it that is under way or being handled carries the key of its
\* present start, and the host has stored that key before it answers.
FreshFor(x) ==
    /\ \A p \in ToSet(toHost[x]) : p.kind = "hello" => p.key = starts[x]
    /\ job.from = {x} /\ job.packet.kind = "hello" => job.packet.key = starts[x]
    /\ job.from = {x} /\ job.step = "keyed" => keys[x] = starts[x]
    /\ x \in ready => keys[x] = starts[x]
    /\ (\E p \in ToSet(toClient[x]) : p.kind = "ack") => keys[x] = starts[x]

Fresh == \A x \in clean : FreshFor(x)

\* What a step puts on a link and takes off it.
LEMMA OnTheLink ==
  ASSUME LinkTypes, NEW c \in Clients, NEW p \in Packet
  PROVE  /\ ToSet(Append(toHost[c], p)) = ToSet(toHost[c]) \cup {p}
         /\ ToSet(Append(toClient[c], p)) = ToSet(toClient[c]) \cup {p}
<1>1. toHost[c] \in Seq(Packet) /\ toClient[c] \in Seq(Packet)
  BY DEF LinkTypes
<1> QED BY <1>1, QueueSteps

LEMMA OffTheLink ==
  ASSUME LinkTypes, NEW c \in Clients
  PROVE  /\ toHost[c] # <<>> =>
              /\ Head(toHost[c]) \in Packet
              /\ ToSet(toHost[c]) = {Head(toHost[c])} \cup ToSet(Tail(toHost[c]))
         /\ toClient[c] # <<>> =>
              /\ Head(toClient[c]) \in Packet
              /\ ToSet(toClient[c]) = {Head(toClient[c])} \cup ToSet(Tail(toClient[c]))
<1>1. toHost[c] \in Seq(Packet) /\ toClient[c] \in Seq(Packet)
  BY DEF LinkTypes
<1> QED BY <1>1, QueueHead

\* A step of somebody else, or one that brings no HELLO and no answer.
LEMMA FreshKept ==
  ASSUME NEW x, FreshFor(x),
         starts'[x] = starts[x], keys'[x] = keys[x], x \in ready' => x \in ready,
         \A p \in ToSet(toHost'[x]) :
            p \in ToSet(toHost[x]) \/ p.kind # "hello" \/ p.key = starts[x],
         \A p \in ToSet(toClient'[x]) : p \in ToSet(toClient[x]) \/ p.kind # "ack",
         \/ job' = job
         \/ job'.from # {x}
         \/ job'.packet.kind # "hello" /\ job'.step # "keyed"
  PROVE  FreshFor(x)'
BY DEF FreshFor

\* Steps that leave the links, the keys and the job alone.
LEMMA FreshAway ==
  ASSUME Fresh, clean' \subseteq clean,
         UNCHANGED <<starts, ready, toHost, toClient, job>>,
         \A x \in clean' : keys'[x] = keys[x]
  PROVE  Fresh'
<1>1. ASSUME NEW x \in clean'
      PROVE  FreshFor(x)'
  <2>1. FreshFor(x)
    BY <1>1 DEF Fresh
  <2> QED BY <1>1, <2>1, FreshKept
<1> QED BY <1>1 DEF Fresh

LEMMA FreshMembership ==
  ASSUME TypeOK, Fresh, NEW c \in Clients, AddPeer(c) \/ RemovePeer(c)
  PROVE  Fresh'
<1>0. keys \in [Clients -> Keys \cup {NoKey}] /\ clean \subseteq Clients
  BY DEF TypeOK, HostTypes, ClientTypes, HistoryTypes
<1>1. CASE AddPeer(c)
  <2>1. UNCHANGED <<starts, ready, toHost, toClient, job, keys, clean>>
    BY <1>1 DEF AddPeer, clientVars, history
  <2> QED BY <2>1, FreshAway
<1>2. CASE RemovePeer(c)
  <2>1. /\ keys' = [keys EXCEPT ![c] = NoKey] /\ clean' = clean \ {c}
        /\ UNCHANGED <<starts, ready, toHost, toClient, job>>
    BY <1>2 DEF RemovePeer, clientVars
  <2>2. clean' \subseteq clean /\ \A x \in clean' : keys'[x] = keys[x]
    BY <1>0, <2>1
  <2> QED BY <2>1, <2>2, FreshAway
<1> QED BY <1>1, <1>2

LEMMA FreshReceives ==
  ASSUME TypeOK, Fresh, NEW c \in Clients, HostReceives(c)
  PROVE  Fresh'
<1>0. /\ LinkTypes /\ job \in Job /\ toHost \in [Clients -> Seq(Packet)]
      /\ toClient \in [Clients -> Seq(Packet)] /\ keys \in [Clients -> Keys \cup {NoKey}]
      /\ clean \subseteq Clients
      /\ job = [step |-> job.step, from |-> job.from, packet |-> job.packet]
  BY Jobs DEF TypeOK, HostTypes, ClientTypes, HistoryTypes, LinkTypes
<1>1. CASE TakePacket(c)
  <2> DEFINE p == Head(toHost[c])
  <2>1. /\ toHost[c] # <<>> /\ toHost' = [toHost EXCEPT ![c] = Tail(toHost[c])]
        /\ job' \in {NoJob, [step |-> "allowed", from |-> {c}, packet |-> p]}
        /\ UNCHANGED <<keys, starts, ready, toClient, clean>>
    BY <1>1 DEF TakePacket, clientVars, history
  <2>2. ToSet(toHost[c]) = {p} \cup ToSet(Tail(toHost[c]))
    BY <1>0, <2>1, OffTheLink
  <2> HIDE DEF p
  <2>3. \/ job'.from = {}
        \/ job'.from = {c} /\ job'.step = "allowed" /\ job'.packet = p
    BY <2>1, Jobs
  <2>4. ASSUME NEW x \in clean
        PROVE  FreshFor(x)'
    <3>1. FreshFor(x) /\ x \in Clients
      BY <1>0, <2>4 DEF Fresh
    <3>2. CASE x # c
      <4>1. toHost'[x] = toHost[x] /\ job'.from # {x}
        BY <1>0, <2>1, <2>3, <3>1, <3>2
      <4> QED BY <2>1, <3>1, <4>1, FreshKept
    <3>3. CASE x = c
      <4>1. toHost'[x] = Tail(toHost[c])
        BY <1>0, <2>1, <3>3
      <4>2. /\ \A y \in ToSet(toHost'[x]) : y \in ToSet(toHost[x])
            /\ p \in ToSet(toHost[x])
        BY <2>2, <3>3, <4>1
      <4> QED BY <2>1, <2>3, <3>1, <4>2 DEF FreshFor
    <3> QED BY <3>2, <3>3
  <2> QED BY <2>1, <2>4 DEF Fresh
<1>2. CASE StoreKey(c)
  <2>1. /\ job.from = {c} /\ job.packet.kind = "hello"
        /\ keys' = [keys EXCEPT ![c] = job.packet.key]
        /\ job' = [job EXCEPT !.step = "keyed"]
        /\ UNCHANGED <<starts, ready, toHost, toClient, clean>>
    BY <1>2 DEF StoreKey, At, clientVars, history
  <2>2. job'.from = {c} /\ job'.packet = job.packet
    BY <1>0, <2>1
  <2>3. ASSUME NEW x \in clean
        PROVE  FreshFor(x)'
    <3>1. FreshFor(x) /\ x \in Clients
      BY <1>0, <2>3 DEF Fresh
    <3>2. CASE x # c
      <4>1. keys'[x] = keys[x] /\ job'.from # {x}
        BY <1>0, <2>1, <2>2, <3>1, <3>2
      <4> QED BY <2>1, <3>1, <4>1, FreshKept
    <3>3. CASE x = c
      <4>1. keys'[x] = job.packet.key
        BY <1>0, <2>1, <3>3
      <4>2. job.packet.key = starts[x]
        BY <2>1, <3>1, <3>3 DEF FreshFor
      <4> QED BY <2>1, <2>2, <3>1, <4>1, <4>2 DEF FreshFor
    <3> QED BY <3>2, <3>3
  <2> QED BY <2>1, <2>3 DEF Fresh
<1>3. CASE AnswerHello(c)
  <2>1. /\ job.from = {c} /\ job.step = "keyed" /\ job' = NoJob
        /\ toClient' = [toClient EXCEPT ![c] = Append(toClient[c], Ack)]
        /\ UNCHANGED <<keys, starts, ready, toHost, clean>>
    BY <1>3 DEF AnswerHello, At, clientVars, history
  <2>2. ToSet(Append(toClient[c], Ack)) = ToSet(toClient[c]) \cup {Ack}
    BY <1>0, OnTheLink, Packets
  <2>3. job'.from = {}
    BY <2>1, Jobs
  <2>4. ASSUME NEW x \in clean
        PROVE  FreshFor(x)'
    <3>1. FreshFor(x) /\ x \in Clients
      BY <1>0, <2>4 DEF Fresh
    <3>2. CASE x # c
      <4>1. toClient'[x] = toClient[x] /\ job'.from # {x}
        BY <1>0, <2>1, <2>3, <3>1, <3>2
      <4> QED BY <2>1, <3>1, <4>1, FreshKept
    <3>3. CASE x = c
      <4>1. keys[x] = starts[x]
        BY <2>1, <3>1, <3>3 DEF FreshFor
      <4> QED BY <2>1, <2>3, <3>1, <4>1 DEF FreshFor
    <3> QED BY <3>2, <3>3
  <2> QED BY <2>1, <2>4 DEF Fresh
<1>4. ASSUME job.packet.kind = "message" \/ job.step = "opened" \/ job.step = "shown",
             \/ job' = NoJob
             \/ job' = [job EXCEPT !.step = "opened"]
             \/ job' = [job EXCEPT !.step = "shown"],
             UNCHANGED <<keys, starts, ready, toHost, toClient, clean>>
      PROVE  Fresh'
  <2>1. job.packet.kind # "hello"
    BY <1>0, <1>4, Jobs, Packets
  <2>2. job'.from = {} \/ (job'.packet.kind # "hello" /\ job'.step # "keyed")
    BY <1>0, <1>4, <2>1, Jobs
  <2>3. ASSUME NEW x \in clean
        PROVE  FreshFor(x)'
    <3>1. FreshFor(x)
      BY <2>3 DEF Fresh
    <3> QED BY <1>4, <2>2, <3>1, FreshKept
  <2> QED BY <1>4, <2>3 DEF Fresh
<1>5. CASE OpenMessage(c)
  BY <1>4, <1>5 DEF OpenMessage, clientVars, history
<1>6. CASE CheckNonce(c)
  BY <1>4, <1>6 DEF CheckNonce, At, clientVars, history
<1>7. CASE RelayReceived(c)
  BY <1>4, <1>7 DEF RelayReceived, At, clientVars, history
<1> QED BY <1>1, <1>2, <1>3, <1>5, <1>6, <1>7 DEF HostReceives

LEMMA FreshRelays ==
  ASSUME TypeOK, Fresh, HostSays \/ \E t \in Threads : HostRelays(t)
  PROVE  Fresh'
<1>0. /\ HostTypes /\ LinkTypes /\ toClient \in [Clients -> Seq(Packet)]
      /\ clean \subseteq Clients
  BY DEF TypeOK, ClientTypes, HistoryTypes, LinkTypes
<1>1. CASE HostSays
  <2>1. UNCHANGED <<starts, ready, toHost, toClient, job, keys, clean>>
    BY <1>1 DEF HostSays, clientVars
  <2> QED BY <2>1, FreshAway
<1>2. ASSUME NEW t \in Threads, NEW c \in Clients, PickKey(t, c)
      PROVE  Fresh'
  <2>1. UNCHANGED <<starts, ready, toHost, toClient, job, keys, clean>>
    BY <1>2 DEF PickKey, clientVars, history
  <2> QED BY <2>1, FreshAway
<1>3. ASSUME NEW t \in Threads, NEW c \in Clients, SendSealed(t, c)
      PROVE  Fresh'
  <2> DEFINE p == Sealed(relaying[t].key, relaying[t].nonce)
  <2>1. /\ toClient' = [toClient EXCEPT ![c] = Append(toClient[c], p)]
        /\ UNCHANGED <<starts, ready, toHost, job, keys, clean>>
    BY <1>3 DEF SendSealed, clientVars, history
  <2>2. p \in Packet /\ p.kind # "ack"
    <3>1. relaying[t].key \in Keys /\ relaying[t].nonce \in Nonces
      BY <1>0, <1>3, SendingSealed
    <3>2. p.kind = "message"
      BY DEF Sealed
    <3> QED BY <3>1, <3>2, Packets
  <2> HIDE DEF p
  <2>3. ToSet(Append(toClient[c], p)) = ToSet(toClient[c]) \cup {p}
    BY <1>0, <2>2, OnTheLink
  <2>4. ASSUME NEW x \in clean
        PROVE  FreshFor(x)'
    <3>1. FreshFor(x) /\ x \in Clients
      BY <1>0, <2>4 DEF Fresh
    <3>2. \A y \in ToSet(toClient'[x]) : y \in ToSet(toClient[x]) \/ y.kind # "ack"
      BY <1>0, <2>1, <2>2, <2>3, <3>1
    <3> QED BY <2>1, <3>1, <3>2, FreshKept
  <2> QED BY <2>1, <2>4 DEF Fresh
<1>4. ASSUME NEW t \in Threads, EndRelay(t)
      PROVE  Fresh'
  <2>1. UNCHANGED <<starts, ready, toHost, toClient, job, keys, clean>>
    BY <1>4 DEF EndRelay, clientVars
  <2> QED BY <2>1, FreshAway
<1> QED BY <1>1, <1>2, <1>3, <1>4 DEF HostRelays

LEMMA FreshClients ==
  ASSUME TypeOK, Fresh, NEW c \in Clients,
         \/ ClientStart(c) \/ HelloAgain(c) \/ ClientStop(c)
         \/ ClientReceives(c) \/ ClientSays(c)
         \/ RepeatToHost(c) \/ RepeatToClient(c)
  PROVE  Fresh'
<1>0. /\ LinkTypes /\ toHost \in [Clients -> Seq(Packet)] /\ toClient \in [Clients -> Seq(Packet)]
      /\ clean \subseteq running /\ ready \subseteq running /\ running \subseteq Clients
      /\ starts \in [Clients -> 0 .. MaxStarts]
      /\ \A x \in running : starts[x] \in Keys
  BY DEF TypeOK, ClientTypes, HistoryTypes, LinkTypes
<1>1. CASE ClientStart(c)
  <2>1. /\ c \notin running
        /\ starts' = [starts EXCEPT ![c] = starts[c] + 1]
        /\ toHost' = [toHost EXCEPT ![c] = Append(toHost[c], Hello(starts[c] + 1))]
        /\ clean' = IF LinkIsEmpty(c) /\ c \in authorized THEN clean \cup {c} ELSE clean
        /\ UNCHANGED <<ready, toClient, job, keys>>
    BY <1>1 DEF ClientStart, hostVars
  <2>2. c \notin clean /\ c \notin ready
    BY <1>0, <2>1
  <2>3. ASSUME NEW x \in clean'
        PROVE  FreshFor(x)'
    <3>1. CASE x # c
      <4>1. x \in clean
        BY <2>1, <2>3, <3>1
      <4>2. FreshFor(x) /\ x \in Clients
        BY <1>0, <4>1 DEF Fresh
      <4>3. toHost'[x] = toHost[x] /\ starts'[x] = starts[x]
        BY <1>0, <2>1, <3>1, <4>2
      <4> QED BY <2>1, <4>2, <4>3, FreshKept
    <3>2. CASE x = c
      <4>1. toHost[c] = <<>> /\ toClient[c] = <<>> /\ job.from # {c}
        BY <2>1, <2>2, <2>3, <3>2 DEF LinkIsEmpty
      <4>2. /\ toHost'[c] = Append(<<>>, Hello(starts[c] + 1))
            /\ starts'[c] = starts[c] + 1
        BY <1>0, <2>1, <4>1
      <4>3. ToSet(toHost'[c]) = {Hello(starts'[c])} /\ ToSet(toClient'[c]) = {}
        <5>1. starts'[c] \in Nat
          BY <1>0, <4>2, Sizes
        <5>2. toHost'[c] = Append(<<>>, Hello(starts'[c])) /\ toClient'[c] = <<>>
          BY <2>1, <4>1, <4>2
        <5>3. ToSet(Append(<<>>, Hello(starts'[c]))) = ToSet(<<>>) \cup {Hello(starts'[c])}
          <6> DEFINE h == Hello(starts'[c])
          <6> HIDE DEF h
          <6>1. h \in {h} /\ <<>> \in Seq({h})
            BY EmptyQueue
          <6>2. ToSet(Append(<<>>, h)) = ToSet(<<>>) \cup {h}
            BY <6>1, QueueSteps
          <6> QED BY <6>2 DEF h
        <5> QED BY <5>2, <5>3, EmptyQueue
      <4>4. Hello(starts'[c]).key = starts'[c]
        BY DEF Hello
      <4> QED BY <2>1, <2>2, <3>2, <4>1, <4>3, <4>4 DEF FreshFor
    <3> QED BY <3>1, <3>2
  <2> QED BY <2>3 DEF Fresh
<1>2. ASSUME NEW p \in Packet, p.kind # "hello" \/ p.key = starts[c],
             toHost' = [toHost EXCEPT ![c] = Append(toHost[c], p)],
             UNCHANGED <<toClient, job, keys, starts, ready, clean>>
      PROVE  Fresh'
  <2>1. ToSet(Append(toHost[c], p)) = ToSet(toHost[c]) \cup {p}
    BY <1>0, OnTheLink
  <2>2. ASSUME NEW x \in clean
        PROVE  FreshFor(x)'
    <3>1. FreshFor(x) /\ x \in Clients
      BY <1>0, <2>2 DEF Fresh
    <3>2. \A y \in ToSet(toHost'[x]) :
             y \in ToSet(toHost[x]) \/ y.kind # "hello" \/ y.key = starts[x]
      BY <1>0, <1>2, <2>1, <3>1
    <3> QED BY <1>2, <3>1, <3>2, FreshKept
  <2> QED BY <1>2, <2>2 DEF Fresh
<1>3. ASSUME \A y \in ToSet(toClient'[c]) : y \in ToSet(toClient[c]) \/ y.kind # "ack",
             \A x \in Clients \ {c} : toClient'[x] = toClient[x],
             ready' \subseteq ready, clean' \subseteq clean,
             UNCHANGED <<toHost, job, keys, starts>>
      PROVE  Fresh'
  <2>1. ASSUME NEW x \in clean'
        PROVE  FreshFor(x)'
    <3>1. FreshFor(x) /\ x \in Clients
      BY <1>0, <1>3, <2>1 DEF Fresh
    <3>2. \A y \in ToSet(toClient'[x]) : y \in ToSet(toClient[x]) \/ y.kind # "ack"
      BY <1>3, <3>1
    <3> QED BY <1>3, <3>1, <3>2, FreshKept
  <2> QED BY <2>1 DEF Fresh
<1>4. CASE HelloAgain(c)
  <2>1. Hello(starts[c]) \in Packet /\ Hello(starts[c]).key = starts[c]
    <3>1. starts[c] \in Keys
      BY <1>0, <1>4 DEF HelloAgain
    <3> QED BY <3>1, Packets DEF Hello
  <2> QED BY <1>2, <1>4, <2>1 DEF HelloAgain, hostVars, clientVars, history
<1>5. CASE ClientStop(c)
  BY <1>3, <1>5 DEF ClientStop, hostVars
<1>6. CASE ReceiveAck(c)
  <2> DEFINE p == Head(toClient[c])
  <2>1. /\ toClient[c] # <<>> /\ p.kind = "ack"
        /\ toClient' = [toClient EXCEPT ![c] = Tail(toClient[c])]
        /\ ready' = ready \cup {c}
        /\ UNCHANGED <<toHost, job, keys, starts, clean>>
    BY <1>6 DEF ReceiveAck, hostVars, history
  <2>2. ToSet(toClient[c]) = {p} \cup ToSet(Tail(toClient[c]))
    BY <1>0, <2>1, OffTheLink
  <2> HIDE DEF p
  <2>3. ASSUME NEW x \in clean
        PROVE  FreshFor(x)'
    <3>1. FreshFor(x) /\ x \in Clients
      BY <1>0, <2>3 DEF Fresh
    <3>2. CASE x # c
      <4>1. toClient'[x] = toClient[x] /\ (x \in ready' => x \in ready)
        BY <1>0, <2>1, <3>1, <3>2
      <4> QED BY <2>1, <3>1, <4>1, FreshKept
    <3>3. CASE x = c
      <4>1. keys[x] = starts[x]
        BY <2>1, <2>2, <3>1, <3>3 DEF FreshFor
      <4> QED BY <2>1, <3>1, <4>1 DEF FreshFor
    <3> QED BY <3>2, <3>3
  <2> QED BY <2>1, <2>3 DEF Fresh
<1>7. CASE ReceiveMessage(c)
  <2>1. /\ toClient[c] # <<>> /\ toClient' = [toClient EXCEPT ![c] = Tail(toClient[c])]
        /\ UNCHANGED <<toHost, job, keys, starts, ready, clean>>
    BY <1>7 DEF ReceiveMessage, hostVars
  <2>2. ToSet(toClient[c]) = {Head(toClient[c])} \cup ToSet(Tail(toClient[c]))
    BY <1>0, <2>1, OffTheLink
  <2>3. toClient'[c] = Tail(toClient[c]) /\ \A x \in Clients \ {c} : toClient'[x] = toClient[x]
    BY <1>0, <2>1
  <2> QED BY <1>3, <2>1, <2>2, <2>3
<1>8. CASE ClientSays(c)
  <2>1. /\ c \in running /\ said < mix.messages
        /\ \/ toHost' = [toHost EXCEPT ![c] =
                           Append(toHost[c], Sealed(starts[c], <<said + 1, 0>>))]
           \/ toHost' = [toHost EXCEPT ![c] = Append(toHost[c], Hello(starts[c]))]
        /\ UNCHANGED <<toClient, job, keys, starts, ready, clean>>
    BY <1>8 DEF ClientSays, hostVars, clientVars, history
  <2>2. starts[c] \in Keys /\ <<said + 1, 0>> \in Nonces
    BY <1>0, <2>1, Saying, MakeNonce
  <2>3. /\ Sealed(starts[c], <<said + 1, 0>>) \in Packet
        /\ Sealed(starts[c], <<said + 1, 0>>).kind # "hello"
        /\ Hello(starts[c]) \in Packet /\ Hello(starts[c]).key = starts[c]
    BY <2>2, Packets DEF Sealed, Hello
  <2> QED BY <1>2, <2>1, <2>3
<1>9. CASE RepeatToHost(c)
  <2> DEFINE p == Head(toHost[c])
  <2>1. /\ 0 < Len(toHost[c]) /\ p.kind = "message"
        /\ toHost' = [toHost EXCEPT ![c] = Append(toHost[c], p)]
        /\ UNCHANGED <<toClient, job, keys, starts, ready, clean>>
    BY <1>9 DEF RepeatToHost, hostVars, clientVars, history
  <2>2. toHost[c] # <<>>
    BY <2>1, EmptyQueue
  <2>3. p \in Packet /\ p.kind # "hello"
    BY <1>0, <2>1, <2>2, OffTheLink
  <2> HIDE DEF p
  <2> QED BY <1>2, <2>1, <2>3
<1>10. CASE RepeatToClient(c)
  <2> DEFINE p == Head(toClient[c])
  <2>1. /\ 0 < Len(toClient[c]) /\ p.kind = "message"
        /\ toClient' = [toClient EXCEPT ![c] = Append(toClient[c], p)]
        /\ UNCHANGED <<toHost, job, keys, starts, ready, clean>>
    BY <1>10 DEF RepeatToClient, hostVars, clientVars, history
  <2>2. toClient[c] # <<>>
    BY <2>1, EmptyQueue
  <2>3. p \in Packet /\ p.kind # "ack"
    BY <1>0, <2>1, <2>2, OffTheLink
  <2> HIDE DEF p
  <2>4. ToSet(Append(toClient[c], p)) = ToSet(toClient[c]) \cup {p}
    BY <1>0, <2>3, OnTheLink
  <2>5. /\ toClient'[c] = Append(toClient[c], p)
        /\ \A x \in Clients \ {c} : toClient'[x] = toClient[x]
    BY <1>0, <2>1
  <2> QED BY <1>3, <2>1, <2>3, <2>4, <2>5
<1> QED BY <1>1, <1>4, <1>5, <1>6, <1>7, <1>8, <1>9, <1>10 DEF ClientReceives

LEMMA NextFresh == TypeOK /\ Fresh /\ [Next]_vars => Fresh'
<1> SUFFICES ASSUME TypeOK, Fresh, [Next]_vars PROVE Fresh'
  OBVIOUS
<1>1. CASE Next
  BY <1>1, FreshMembership, FreshReceives, FreshRelays, FreshClients, Zenon DEF Next
<1>2. CASE UNCHANGED vars
  BY <1>2, FreshAway DEF vars, hostVars, clientVars, history
<1> QED BY <1>1, <1>2

\* The key of a client that believes itself ready is the host's key for it, however
\* often it and others start, stop, are removed and granted access again, as long as
\* nothing of an earlier start was on its way when it started (_handle, _hello_loop).
THEOREM ReadyShared == Spec => []ReadyIsShared
<1>1. Init => Fresh
  BY DEF Init, Fresh
<1>2. Fresh => ReadyIsShared
  BY DEF Fresh, FreshFor, ReadyIsShared
<1> QED BY <1>1, <1>2, InitTypes, NextTypes, NextFresh, PTL DEF Spec

-----------------------------------------------------------------------------
(* Delivery *)

\* A message that thread t of the host will still put on the link of client x, sealed
\* with the key of its present start.
Relaying(t, x, m) ==
    /\ relaying[t].nonce[1] = m
    /\ \/ x \in relaying[t].rest
       \/ relaying[t].to = {x} /\ relaying[t].key = starts[x]

OnTheWay(x, m) ==
    \E p \in ToSet(toClient[x]) :
        p.kind = "message" /\ p.key = starts[x] /\ p.nonce[1] = m

Safe(x, m) ==
    \/ heard[x][m] > 0
    \/ \E t \in Threads : Relaying(t, x, m)
    \/ OnTheWay(x, m)

\* Only messages said to a ready client are due, a client has shown every message
\* whose nonce it remembers, and what is due is safe.
DueWhenReady == \A x \in Clients : due[x] # {} => x \in ready
RememberedIsShown == \A x \in Clients : \A n \in ToSet(known[x]) : heard[x][n[1]] > 0
NoneLost == \A x \in clean : \A m \in due[x] : Safe(x, m)
Kept == DueWhenReady /\ RememberedIsShown /\ NoneLost

\* A step that makes nothing due, and shows nothing to a client: what was on its way to
\* a client stays so.
LEMMA KeptOnItsWay ==
  ASSUME TypeOK, Kept, UNCHANGED <<ready, known, due>>, clean' \subseteq clean,
         heard' = heard \/ \E m \in Messages : Shown("host", m),
         \A x \in clean' : \A m \in due[x] :
            (\E t \in Threads : Relaying(t, x, m)) \/ OnTheWay(x, m)
               => (\E t \in Threads : Relaying(t, x, m)') \/ OnTheWay(x, m)'
  PROVE  Kept'
<1>0. /\ HistoryTypes /\ clean \subseteq Clients /\ due \in [Clients -> SUBSET Messages]
      /\ heard \in [Clients \cup {"host"} -> [Messages -> Nat]]
      /\ known \in [Clients -> Seq(Nonces)]
  BY DEF TypeOK, ClientTypes, HistoryTypes
<1>1. \A x \in Clients, m \in Messages : heard[x][m] <= heard'[x][m] /\ heard[x][m] \in Nat
                                      /\ heard'[x][m] \in Nat
  <2>1. CASE heard' = heard
    BY <1>0, <2>1
  <2>2. CASE \E m \in Messages : Shown("host", m)
    <3>1. PICK m \in Messages : Shown("host", m)
      BY <2>2
    <3> QED BY <1>0, <3>1, Showing
  <2> QED BY <2>1, <2>2
<1>2. DueWhenReady'
  BY DEF Kept, DueWhenReady
<1>3. RememberedIsShown'
  <2>1. ASSUME NEW x \in Clients, NEW n \in ToSet(known[x])
        PROVE  heard'[x][n[1]] > 0
    <3>1. heard[x][n[1]] > 0
      BY <2>1 DEF Kept, RememberedIsShown
    <3>2. n[1] \in Messages
      <4>1. ToSet(known[x]) \subseteq Nonces
        BY <1>0 DEF ToSet
      <4> QED BY <2>1, <4>1, NonceMessages
    <3>3. heard[x][n[1]] <= heard'[x][n[1]] /\ heard[x][n[1]] \in Nat /\ heard'[x][n[1]] \in Nat
      BY <1>1, <2>1, <3>2
    <3> QED BY <3>1, <3>3
  <2> QED BY <2>1 DEF RememberedIsShown
<1>4. NoneLost'
  <2>1. ASSUME NEW x \in clean', NEW m \in due[x]
        PROVE  Safe(x, m)'
    <3>1. x \in Clients /\ m \in Messages
      BY <1>0, <2>1
    <3>2. Safe(x, m)
      BY <2>1 DEF Kept, NoneLost
    <3>3. CASE heard[x][m] > 0
      <4>1. heard[x][m] <= heard'[x][m] /\ heard[x][m] \in Nat /\ heard'[x][m] \in Nat
        BY <1>1, <3>1
      <4> QED BY <3>3, <4>1 DEF Safe
    <3>4. CASE (\E t \in Threads : Relaying(t, x, m)) \/ OnTheWay(x, m)
      BY <2>1, <3>4 DEF Safe
    <3> QED BY <3>2, <3>3, <3>4 DEF Safe
  <2> QED BY <2>1 DEF NoneLost
<1> QED BY <1>2, <1>3, <1>4 DEF Kept

\* Steps that relay nothing, and take no message off the link of a client.
LEMMA KeptAway ==
  ASSUME TypeOK, Kept, UNCHANGED <<ready, known, due, relaying>>, clean' \subseteq clean,
         \A x \in clean' : starts'[x] = starts[x],
         \A x \in Clients : ToSet(toClient[x]) \subseteq ToSet(toClient'[x]),
         heard' = heard \/ \E m \in Messages : Shown("host", m)
  PROVE  Kept'
<1>0. clean \subseteq Clients
  BY DEF TypeOK, ClientTypes, HistoryTypes
<1>1. ASSUME NEW x \in clean', NEW m \in due[x]
      PROVE  (\E t \in Threads : Relaying(t, x, m)) \/ OnTheWay(x, m)
               => (\E t \in Threads : Relaying(t, x, m)') \/ OnTheWay(x, m)'
  <2>1. starts'[x] = starts[x] /\ ToSet(toClient[x]) \subseteq ToSet(toClient'[x])
    BY <1>0, <1>1
  <2>2. CASE \E t \in Threads : Relaying(t, x, m)
    BY <2>1, <2>2 DEF Relaying
  <2>3. CASE OnTheWay(x, m)
    BY <2>1, <2>3 DEF OnTheWay
  <2> QED BY <2>2, <2>3
<1> QED BY <1>1, KeptOnItsWay

\* A relay that begins on a thread that has none makes its message due for the clients
\* that are ready, and they are among its peers.
LEMMA KeptBegin ==
  ASSUME TypeOK, Kept, NEW t \in Threads, NEW m \in Messages, BeginRelay(t, m),
         relaying[t] = NoRelay, UNCHANGED <<ready, known, clean, starts, toClient, heard>>
  PROVE  Kept'
<1>0. /\ clean \subseteq Clients /\ clean \subseteq authorized
      /\ due \in [Clients -> SUBSET Messages] /\ relaying \in [Threads -> Relay]
  BY DEF TypeOK, HostTypes, ClientTypes, HistoryTypes
<1>1. /\ \A x \in Clients : due'[x] = IF x \in ready \cap clean THEN due[x] \cup {m} ELSE due[x]
      /\ relaying'[t].rest = authorized
      /\ relaying'[t].nonce[1] = m
      /\ \A u \in Threads \ {t} : relaying'[u] = relaying[u]
  BY <1>0 DEF BeginRelay
<1>2. DueWhenReady'
  <2>1. ASSUME NEW x \in Clients, due'[x] # {}
        PROVE  x \in ready
    <3>1. CASE x \in ready \cap clean
      BY <3>1
    <3>2. CASE x \notin ready \cap clean
      BY <1>1, <2>1, <3>2 DEF Kept, DueWhenReady
    <3> QED BY <3>1, <3>2
  <2> QED BY <2>1 DEF DueWhenReady
<1>3. RememberedIsShown'
  BY DEF Kept, RememberedIsShown
<1>4. NoneLost'
  <2>1. ASSUME NEW x \in clean, NEW n \in due'[x]
        PROVE  Safe(x, n)'
    <3>1. x \in Clients /\ x \in authorized
      BY <1>0, <2>1
    <3>2. CASE n = m
      BY <1>1, <3>1, <3>2 DEF Safe, Relaying
    <3>3. CASE n # m
      <4>1. n \in due[x]
        BY <1>1, <2>1, <3>1, <3>3
      <4>2. Safe(x, n)
        BY <2>1, <4>1 DEF Kept, NoneLost
      <4>3. CASE \E u \in Threads : Relaying(u, x, n)
        <5>1. PICK u \in Threads : Relaying(u, x, n)
          BY <4>3
        <5>2. u # t
          BY <5>1, Relays DEF Relaying
        <5> QED BY <1>1, <5>1, <5>2 DEF Safe, Relaying
      <4>4. CASE heard[x][n] > 0 \/ OnTheWay(x, n)
        BY <4>4 DEF Safe, OnTheWay
      <4> QED BY <4>2, <4>3, <4>4 DEF Safe
    <3> QED BY <3>2, <3>3
  <2> QED BY <2>1 DEF NoneLost
<1> QED BY <1>2, <1>3, <1>4 DEF Kept

LEMMA KeptMembership ==
  ASSUME TypeOK, Kept, NEW c \in Clients, AddPeer(c) \/ RemovePeer(c)
  PROVE  Kept'
<1>1. /\ UNCHANGED <<ready, known, due, relaying, starts, toClient, heard>>
      /\ clean' \subseteq clean
  BY DEF AddPeer, RemovePeer, clientVars, history
<1> QED BY <1>1, KeptAway

LEMMA KeptReceives ==
  ASSUME TypeOK, Kept, NEW c \in Clients, HostReceives(c)
  PROVE  Kept'
<1>0. /\ LinkTypes /\ job \in Job /\ toClient \in [Clients -> Seq(Packet)]
  BY DEF TypeOK, HostTypes, LinkTypes
<1>1. CASE TakePacket(c) \/ StoreKey(c) \/ OpenMessage(c)
  <2>1. UNCHANGED <<ready, known, due, relaying, starts, toClient, heard, clean>>
    BY <1>1 DEF TakePacket, StoreKey, OpenMessage, clientVars, history
  <2> QED BY <2>1, KeptAway
<1>2. CASE AnswerHello(c)
  <2>1. /\ toClient' = [toClient EXCEPT ![c] = Append(toClient[c], Ack)]
        /\ UNCHANGED <<ready, known, due, relaying, starts, heard, clean>>
    BY <1>2 DEF AnswerHello, clientVars, history
  <2>2. ToSet(Append(toClient[c], Ack)) = ToSet(toClient[c]) \cup {Ack}
    BY <1>0, OnTheLink, Packets
  <2>3. \A x \in Clients : ToSet(toClient[x]) \subseteq ToSet(toClient'[x])
    BY <1>0, <2>1, <2>2
  <2> QED BY <2>1, <2>3, KeptAway
<1>3. CASE CheckNonce(c)
  <2>1. job.step = "opened"
    BY <1>3 DEF CheckNonce, At
  <2>2. job.packet.nonce[1] \in Messages
    BY <1>0, <2>1, Jobs, Packets, NonceMessages
  <2>3. /\ heard' = heard \/ Shown("host", job.packet.nonce[1])
        /\ UNCHANGED <<ready, known, due, relaying, starts, toClient, clean>>
    BY <1>3 DEF CheckNonce, clientVars
  <2> QED BY <2>2, <2>3, KeptAway
<1>4. CASE RelayReceived(c)
  <2>1. /\ job.step = "shown" /\ BeginRelay("receive", job.packet.nonce[1])
        /\ UNCHANGED <<ready, known, clean, starts, toClient, heard>>
    BY <1>4 DEF RelayReceived, At, clientVars
  <2>2. job.packet.nonce[1] \in Messages /\ job # NoJob
    BY <1>0, <2>1, Jobs, Packets, NonceMessages
  <2>3. relaying["receive"] = NoRelay
    BY <2>2 DEF TypeOK
  <2>4. "receive" \in Threads
    BY DEF Threads
  <2> QED BY <2>1, <2>2, <2>3, <2>4, KeptBegin
<1> QED BY <1>1, <1>2, <1>3, <1>4 DEF HostReceives

LEMMA KeptRelays ==
  ASSUME TypeOK, Fresh, Kept, HostSays \/ \E t \in Threads : HostRelays(t)
  PROVE  Kept'
<1>0. /\ HostTypes /\ LinkTypes /\ toClient \in [Clients -> Seq(Packet)]
      /\ clean \subseteq Clients /\ clean \subseteq running
      /\ \A x \in running : starts[x] \in Keys
      /\ relaying \in [Threads -> Relay]
  BY DEF TypeOK, HostTypes, ClientTypes, HistoryTypes, LinkTypes
<1>1. CASE HostSays
  <2>1. /\ said < mix.messages /\ relaying["qt"] = NoRelay /\ BeginRelay("qt", said + 1)
        /\ UNCHANGED <<ready, known, clean, starts, toClient, heard>>
    BY <1>1 DEF HostSays, clientVars
  <2>2. said + 1 \in Messages /\ "qt" \in Threads
    BY <2>1, Saying DEF Threads
  <2> QED BY <2>1, <2>2, KeptBegin
<1>2. ASSUME NEW t \in Threads, NEW c \in Clients, PickKey(t, c)
      PROVE  Kept'
  <2>1. /\ relaying[t].to = {}
        /\ UNCHANGED <<ready, known, due, clean, starts, toClient, heard>>
    BY <1>2 DEF PickKey, clientVars, history
  <2>2. PICK r \in Relay :
           /\ relaying' = [relaying EXCEPT ![t] = r]
           /\ r.nonce = relaying[t].nonce /\ r.rest = relaying[t].rest \ {c}
           /\ keys[c] # NoKey => r.to = {c}
           /\ r.key = keys[c]
    BY <1>0, <1>2, Picking
  <2>3. relaying'[t] = r /\ \A u \in Threads \ {t} : relaying'[u] = relaying[u]
    BY <1>0, <2>2
  <2>4. ASSUME NEW x \in clean, NEW m \in due[x], NEW u \in Threads, Relaying(u, x, m)
        PROVE  Relaying(u, x, m)'
    <3>1. CASE u # t
      BY <2>1, <2>3, <2>4, <3>1 DEF Relaying
    <3>2. CASE u = t /\ x # c
      BY <2>1, <2>2, <2>3, <2>4, <3>2 DEF Relaying
    <3>3. CASE u = t /\ x = c
      <4>1. x \in ready
        BY <1>0, <2>4 DEF Kept, DueWhenReady
      <4>2. keys[x] = starts[x] /\ starts[x] \in Keys
        BY <1>0, <2>4, <4>1 DEF Fresh, FreshFor
      <4>3. keys[c] # NoKey
        BY <3>3, <4>2, Sizes DEF Keys, NoKey
      <4> QED BY <2>1, <2>2, <2>3, <2>4, <3>3, <4>2, <4>3 DEF Relaying
    <3> QED BY <3>1, <3>2, <3>3
  <2>5. ASSUME NEW x \in clean, NEW m \in due[x], OnTheWay(x, m)
        PROVE  OnTheWay(x, m)'
    BY <2>1, <2>5 DEF OnTheWay
  <2> QED BY <2>1, <2>4, <2>5, KeptOnItsWay
<1>3. ASSUME NEW t \in Threads, NEW c \in Clients, SendSealed(t, c)
      PROVE  Kept'
  <2> DEFINE p == Sealed(relaying[t].key, relaying[t].nonce)
  <2>1. /\ relaying[t].to = {c}
        /\ toClient' = [toClient EXCEPT ![c] = Append(toClient[c], p)]
        /\ UNCHANGED <<ready, known, due, clean, starts, heard>>
    BY <1>3 DEF SendSealed, clientVars, history
  <2>2. relaying[t].key \in Keys /\ relaying[t].nonce \in Nonces
    BY <1>0, <1>3, SendingSealed
  <2>3. PICK r \in Relay : /\ relaying' = [relaying EXCEPT ![t] = r]
                           /\ r.nonce = relaying[t].nonce /\ r.rest = relaying[t].rest
    BY <1>0, <1>3, SendingSealed
  <2>4. /\ p \in Packet /\ p.kind = "message" /\ p.key = relaying[t].key
        /\ p.nonce = relaying[t].nonce
    BY <2>2, Packets DEF Sealed
  <2> HIDE DEF p
  <2>5. ToSet(Append(toClient[c], p)) = ToSet(toClient[c]) \cup {p}
    BY <1>0, <2>4, OnTheLink
  <2>6. ToSet(toClient'[c]) = ToSet(toClient[c]) \cup {p}
    BY <1>0, <2>1, <2>5
  <2>7. relaying'[t] = r /\ \A u \in Threads \ {t} : relaying'[u] = relaying[u]
    BY <1>0, <2>3
  <2>8. ASSUME NEW x \in clean, NEW m \in due[x], NEW u \in Threads, Relaying(u, x, m)
        PROVE  Relaying(u, x, m)' \/ OnTheWay(x, m)'
    <3>1. CASE u # t
      BY <2>1, <2>7, <2>8, <3>1 DEF Relaying
    <3>2. CASE u = t /\ x \in relaying[t].rest
      BY <2>1, <2>3, <2>7, <2>8, <3>2 DEF Relaying
    <3>3. CASE u = t /\ relaying[t].to = {x} /\ relaying[t].key = starts[x]
      <4>1. x = c /\ p.key = starts[x] /\ p.nonce[1] = m /\ starts'[x] = starts[x]
        BY <2>1, <2>4, <2>8, <3>3 DEF Relaying
      <4>2. p \in ToSet(toClient'[x])
        BY <2>6, <4>1
      <4> QED BY <2>4, <4>1, <4>2 DEF OnTheWay
    <3> QED BY <2>8, <3>1, <3>2, <3>3 DEF Relaying
  <2>9. ASSUME NEW x \in clean, NEW m \in due[x], OnTheWay(x, m)
        PROVE  OnTheWay(x, m)'
    <3>1. ToSet(toClient[x]) \subseteq ToSet(toClient'[x])
      BY <1>0, <2>1, <2>6
    <3> QED BY <2>1, <2>9, <3>1 DEF OnTheWay
  <2> QED BY <2>1, <2>8, <2>9, KeptOnItsWay
<1>4. ASSUME NEW t \in Threads, EndRelay(t)
      PROVE  Kept'
  <2>1. /\ relaying[t] # NoRelay /\ relaying[t].rest = {} /\ relaying[t].to = {}
        /\ relaying' = [relaying EXCEPT ![t] = NoRelay]
        /\ heard' = heard \/ Shown("host", relaying[t].nonce[1])
        /\ UNCHANGED <<ready, known, due, clean, starts, toClient>>
    BY <1>4 DEF EndRelay, clientVars
  <2>2. relaying[t].nonce[1] \in Messages
    BY <1>0, <2>1, Relays, NonceMessages
  <2>3. \A u \in Threads \ {t} : relaying'[u] = relaying[u]
    BY <1>0, <2>1
  <2>4. ASSUME NEW x \in clean, NEW m \in due[x], NEW u \in Threads, Relaying(u, x, m)
        PROVE  Relaying(u, x, m)'
    <3>1. u # t
      BY <2>1, <2>4 DEF Relaying
    <3> QED BY <2>1, <2>3, <2>4, <3>1 DEF Relaying
  <2>5. ASSUME NEW x \in clean, NEW m \in due[x], OnTheWay(x, m)
        PROVE  OnTheWay(x, m)'
    BY <2>1, <2>5 DEF OnTheWay
  <2> QED BY <2>1, <2>2, <2>4, <2>5, KeptOnItsWay
<1> QED BY <1>1, <1>2, <1>3, <1>4 DEF HostRelays

LEMMA KeptClients ==
  ASSUME TypeOK, Kept, NEW c \in Clients,
         \/ ClientStart(c) \/ HelloAgain(c) \/ ClientStop(c)
         \/ ClientReceives(c) \/ ClientSays(c)
         \/ RepeatToHost(c) \/ RepeatToClient(c)
  PROVE  Kept'
<1>0. /\ LinkTypes /\ HistoryTypes /\ toClient \in [Clients -> Seq(Packet)]
      /\ clean \subseteq running /\ ready \subseteq running /\ running \subseteq Clients
      /\ starts \in [Clients -> 0 .. MaxStarts] /\ due \in [Clients -> SUBSET Messages]
      /\ known \in [Clients -> Seq(Nonces)]
      /\ heard \in [Clients \cup {"host"} -> [Messages -> Nat]]
  BY DEF TypeOK, ClientTypes, HistoryTypes, LinkTypes
<1>1. CASE HelloAgain(c) \/ ClientSays(c) \/ RepeatToHost(c)
  <2>1. UNCHANGED <<ready, known, due, relaying, starts, toClient, heard, clean>>
    BY <1>1 DEF HelloAgain, ClientSays, RepeatToHost, hostVars, clientVars, history
  <2> QED BY <2>1, KeptAway
<1>2. CASE RepeatToClient(c)
  <2> DEFINE p == Head(toClient[c])
  <2>1. /\ 0 < Len(toClient[c])
        /\ toClient' = [toClient EXCEPT ![c] = Append(toClient[c], p)]
        /\ UNCHANGED <<ready, known, due, relaying, starts, heard, clean>>
    BY <1>2 DEF RepeatToClient, hostVars, clientVars, history
  <2>2. toClient[c] # <<>>
    BY <2>1, EmptyQueue
  <2>3. p \in Packet
    BY <1>0, <2>2, OffTheLink
  <2> HIDE DEF p
  <2>4. ToSet(Append(toClient[c], p)) = ToSet(toClient[c]) \cup {p}
    BY <1>0, <2>3, OnTheLink
  <2>5. \A x \in Clients : ToSet(toClient[x]) \subseteq ToSet(toClient'[x])
    BY <1>0, <2>1, <2>4
  <2> QED BY <2>1, <2>5, KeptAway
<1>3. CASE ClientStart(c)
  <2>1. /\ c \notin running /\ starts' = [starts EXCEPT ![c] = starts[c] + 1]
        /\ clean' = clean \/ clean' = clean \cup {c}
        /\ UNCHANGED <<ready, known, due, relaying, toClient, heard>>
    BY <1>3 DEF ClientStart, hostVars
  <2>2. due[c] = {}
    BY <1>0, <2>1 DEF Kept, DueWhenReady
  <2>3. DueWhenReady' /\ RememberedIsShown'
    BY <2>1 DEF Kept, DueWhenReady, RememberedIsShown
  <2>4. ASSUME NEW x \in clean', NEW m \in due[x]
        PROVE  Safe(x, m)'
    <3>1. x # c /\ x \in clean /\ x \in Clients
      BY <1>0, <2>1, <2>2, <2>4
    <3>2. Safe(x, m)
      BY <2>4, <3>1 DEF Kept, NoneLost
    <3>3. starts'[x] = starts[x]
      BY <1>0, <2>1, <3>1
    <3> QED BY <2>1, <3>2, <3>3 DEF Safe, Relaying, OnTheWay
  <2> QED BY <2>1, <2>3, <2>4 DEF Kept, NoneLost
<1>4. CASE ClientStop(c)
  <2>1. /\ ready' = ready \ {c} /\ known' = [known EXCEPT ![c] = <<>>]
        /\ due' = [due EXCEPT ![c] = {}] /\ clean' = clean \ {c}
        /\ UNCHANGED <<relaying, starts, toClient, heard>>
    BY <1>4 DEF ClientStop, hostVars
  <2>2. ASSUME NEW x \in Clients
        PROVE  (due'[x] # {} => x \in ready') /\ \A n \in ToSet(known'[x]) : heard[x][n[1]] > 0
    <3>1. CASE x = c
      <4>1. due'[x] = {} /\ known'[x] = <<>>
        BY <1>0, <2>1, <3>1
      <4> QED BY <4>1, EmptyQueue
    <3>2. CASE x # c
      <4>1. due'[x] = due[x] /\ known'[x] = known[x] /\ (x \in ready => x \in ready')
        BY <1>0, <2>1, <3>2
      <4> QED BY <4>1 DEF Kept, DueWhenReady, RememberedIsShown
    <3> QED BY <3>1, <3>2
  <2>3. DueWhenReady' /\ RememberedIsShown'
    BY <2>1, <2>2 DEF DueWhenReady, RememberedIsShown
  <2>4. ASSUME NEW x \in clean', NEW m \in due'[x]
        PROVE  Safe(x, m)'
    <3>1. x \in clean /\ m \in due[x]
      BY <1>0, <2>1, <2>4
    <3>2. Safe(x, m)
      BY <3>1 DEF Kept, NoneLost
    <3>3. (\E t \in Threads : Relaying(t, x, m)) => (\E t \in Threads : Relaying(t, x, m)')
      BY <2>1 DEF Relaying
    <3>4. OnTheWay(x, m) => OnTheWay(x, m)'
      BY <2>1 DEF OnTheWay
    <3> QED BY <2>1, <3>2, <3>3, <3>4 DEF Safe
  <2> QED BY <2>3, <2>4 DEF Kept, NoneLost
<1>5. CASE ReceiveAck(c)
  <2> DEFINE p == Head(toClient[c])
  <2>1. /\ toClient[c] # <<>> /\ p.kind = "ack"
        /\ toClient' = [toClient EXCEPT ![c] = Tail(toClient[c])]
        /\ ready' = ready \cup {c}
        /\ UNCHANGED <<relaying, starts, known, due, clean, heard>>
    BY <1>5 DEF ReceiveAck, hostVars, history
  <2>2. ToSet(toClient[c]) = {p} \cup ToSet(Tail(toClient[c]))
    BY <1>0, <2>1, OffTheLink
  <2> HIDE DEF p
  <2>3. DueWhenReady' /\ RememberedIsShown'
    BY <2>1 DEF Kept, DueWhenReady, RememberedIsShown
  <2>4. ASSUME NEW x \in clean, NEW m \in due[x]
        PROVE  Safe(x, m)'
    <3>1. Safe(x, m) /\ x \in Clients
      BY <1>0, <2>4 DEF Kept, NoneLost
    <3>2. \A y \in ToSet(toClient[x]) : y.kind = "message" => y \in ToSet(toClient'[x])
      BY <1>0, <2>1, <2>2, <3>1
    <3> QED BY <2>1, <3>1, <3>2 DEF Safe, Relaying, OnTheWay
  <2> QED BY <2>1, <2>3, <2>4 DEF Kept, NoneLost
<1>6. CASE ReceiveMessage(c)
  <2> DEFINE p == Head(toClient[c])
             shown == /\ known' = [known EXCEPT ![c] = Remembered(known[c], p.nonce)]
                      /\ Shown(c, p.nonce[1])
  <2>1. /\ toClient[c] # <<>> /\ p.kind = "message"
        /\ toClient' = [toClient EXCEPT ![c] = Tail(toClient[c])]
        /\ shown \/ UNCHANGED <<known, heard>>
        /\ \/ shown
           \/ c \notin ready \/ ~Opens(p, starts[c]) \/ p.nonce \in ToSet(known[c])
        /\ UNCHANGED <<relaying, ready, starts, due, clean>>
    BY <1>6 DEF ReceiveMessage, hostVars
  <2>2. ToSet(toClient[c]) = {p} \cup ToSet(Tail(toClient[c])) /\ p \in Packet
    BY <1>0, <2>1, OffTheLink
  <2> HIDE DEF p
  <2>3. p.nonce \in Nonces /\ p.nonce[1] \in Messages
    BY <2>1, <2>2, Packets, NonceMessages
  <2>4. \A x \in Clients, m \in Messages : heard[x][m] <= heard'[x][m] /\ heard[x][m] \in Nat
                                        /\ heard'[x][m] \in Nat
    <3>1. CASE UNCHANGED heard
      BY <1>0, <3>1
    <3>2. CASE Shown(c, p.nonce[1])
      BY <1>0, <2>3, <3>2, Showing
    <3> QED BY <2>1, <3>1, <3>2
  <2>5. shown => heard'[c][p.nonce[1]] > 0
    <3>1. ASSUME shown PROVE heard'[c][p.nonce[1]] > 0
      <4>1. heard'[c][p.nonce[1]] = heard[c][p.nonce[1]] + 1
        BY <1>0, <2>3, <3>1, Showing
      <4> QED BY <2>3, <2>4, <4>1
    <3> QED BY <3>1
  <2>6. ASSUME NEW x \in Clients, NEW n \in ToSet(known'[x])
        PROVE  heard'[x][n[1]] > 0
    <3>1. n \in ToSet(known[x]) \/ (shown /\ x = c /\ n = p.nonce)
      <4>1. CASE UNCHANGED known
        BY <2>6, <4>1
      <4>2. CASE shown
        <5>1. known[c] \in Seq(Nonces) /\ Len(known[c]) <= Window
          BY <1>0 DEF TypeOK
        <5>2. ToSet(Remembered(known[c], p.nonce)) \subseteq ToSet(known[c]) \cup {p.nonce}
          BY <2>3, <5>1, Remembering
        <5> QED BY <1>0, <2>6, <4>2, <5>2
      <4> QED BY <2>1, <4>1, <4>2
    <3>2. CASE n \in ToSet(known[x])
      <4>1. heard[x][n[1]] > 0
        BY <2>6, <3>2 DEF Kept, RememberedIsShown
      <4>2. n[1] \in Messages
        <5>1. ToSet(known[x]) \subseteq Nonces
          BY <1>0, <2>6 DEF ToSet
        <5> QED BY <3>2, <5>1, NonceMessages
      <4>3. heard[x][n[1]] <= heard'[x][n[1]] /\ heard[x][n[1]] \in Nat /\ heard'[x][n[1]] \in Nat
        BY <2>4, <2>6, <4>2
      <4> QED BY <4>1, <4>3
    <3>3. CASE shown /\ x = c /\ n = p.nonce
      BY <2>5, <3>3
    <3> QED BY <3>1, <3>2, <3>3
  <2>7. DueWhenReady' /\ RememberedIsShown'
    BY <2>1, <2>6 DEF Kept, DueWhenReady, RememberedIsShown
  <2>8. ASSUME NEW x \in clean, NEW m \in due[x]
        PROVE  Safe(x, m)'
    <3>1. Safe(x, m) /\ x \in Clients /\ m \in Messages /\ x \in ready
      BY <1>0, <2>8 DEF Kept, NoneLost, DueWhenReady
    <3>2. CASE heard[x][m] > 0
      <4>1. heard[x][m] <= heard'[x][m] /\ heard[x][m] \in Nat /\ heard'[x][m] \in Nat
        BY <2>4, <3>1
      <4> QED BY <3>2, <4>1 DEF Safe
    <3>3. CASE \E t \in Threads : Relaying(t, x, m)
      BY <2>1, <3>3 DEF Safe, Relaying
    <3>4. CASE OnTheWay(x, m)
      <4>1. PICK y \in ToSet(toClient[x]) :
                   y.kind = "message" /\ y.key = starts[x] /\ y.nonce[1] = m
        BY <3>4 DEF OnTheWay
      <4>2. CASE y \in ToSet(toClient'[x])
        BY <2>1, <4>1, <4>2 DEF Safe, OnTheWay
      <4>3. CASE y \notin ToSet(toClient'[x])
        <5>1. x = c /\ y = p
          BY <1>0, <2>1, <2>2, <3>1, <4>1, <4>3
        <5>2. Opens(p, starts[c])
          BY <4>1, <5>1 DEF Opens
        <5>3. CASE shown
          BY <2>5, <4>1, <5>1, <5>3 DEF Safe
        <5>4. CASE p.nonce \in ToSet(known[c])
          <6>1. heard[x][m] > 0
            BY <4>1, <5>1, <5>4 DEF Kept, RememberedIsShown
          <6>2. heard[x][m] <= heard'[x][m] /\ heard[x][m] \in Nat /\ heard'[x][m] \in Nat
            BY <2>4, <3>1
          <6> QED BY <6>1, <6>2 DEF Safe
        <5> QED BY <2>1, <3>1, <5>1, <5>2, <5>3, <5>4
      <4> QED BY <4>2, <4>3
    <3> QED BY <3>1, <3>2, <3>3, <3>4 DEF Safe
  <2> QED BY <2>1, <2>7, <2>8 DEF Kept, NoneLost
<1> QED BY <1>1, <1>2, <1>3, <1>4, <1>5, <1>6 DEF ClientReceives

LEMMA NextKept == TypeOK /\ Fresh /\ Kept /\ [Next]_vars => Kept'
<1> SUFFICES ASSUME TypeOK, Fresh, Kept, [Next]_vars PROVE Kept'
  OBVIOUS
<1>1. CASE Next
  BY <1>1, KeptMembership, KeptReceives, KeptRelays, KeptClients, Zenon DEF Next
<1>2. CASE UNCHANGED vars
  BY <1>2, KeptAway DEF vars, hostVars, clientVars, history
<1> QED BY <1>1, <1>2

\* Whatever is said once a client is ready reaches it: no step of another client, of the
\* other relaying thread, of a removal or of a client that starts anew takes it away
\* (_relay_from_host, _send_encrypted).
THEOREM NothingLostOnceReady == Spec => []NoneLostOnceReady
<1>1. Init => Fresh
  BY DEF Init, Fresh
<1>2. Init => Kept
  BY EmptyQueue DEF Init, Kept, DueWhenReady, RememberedIsShown, NoneLost
<1>3. TypeOK /\ Kept => NoneLostOnceReady
  <2>1. ASSUME TypeOK, Kept, NEW x \in clean, NEW m \in due[x]
        PROVE  \/ heard[x][m] > 0
               \/ \E t \in Threads : RelayPending(t, x, m)
               \/ \E p \in ToSet(toClient[x]) : p.key = starts[x] /\ p.nonce[1] = m
    BY <2>1 DEF Kept, NoneLost, Safe, Relaying, OnTheWay, RelayPending
  <2> QED BY <2>1 DEF NoneLostOnceReady
<1> QED BY <1>1, <1>2, <1>3, InitTypes, NextTypes, NextFresh, NextKept, PTL DEF Spec

-----------------------------------------------------------------------------
(* Nothing is shown twice: what a window remembers *)

\* The first parts of the nonces in a window are all different.
Distinct(q) == \A i, j \in 1 .. Len(q) : q[i][1] = q[j][1] => i = j

\* A window of different messages out of k, none of them m, holds fewer than k.
LEMMA RoomForOne ==
  ASSUME NEW q \in Seq(Nonces), NEW k \in Nat, NEW m \in 1 .. k, Distinct(q),
         \A e \in ToSet(q) : e[1] \in 1 .. k /\ e[1] # m
  PROVE  Len(q) < k
<1> DEFINE f == [i \in 1 .. Len(q) + 1 |-> IF i = Len(q) + 1 THEN m ELSE q[i][1]]
<1>1. Len(q) \in Nat /\ DOMAIN q = 1 .. Len(q)
  OBVIOUS
<1>2. \A i \in 1 .. Len(q) : q[i][1] \in 1 .. k /\ q[i][1] # m
  BY <1>1 DEF ToSet
<1>3. \A i \in 1 .. Len(q) + 1 : i \in 1 .. Len(q) \/ i = Len(q) + 1
  BY <1>1
<1>4. /\ Len(q) + 1 \in 1 .. Len(q) + 1
      /\ \A i \in 1 .. Len(q) : i \in 1 .. Len(q) + 1 /\ i # Len(q) + 1
  BY <1>1
<1>5. f[Len(q) + 1] = m /\ \A i \in 1 .. Len(q) : f[i] = q[i][1]
  BY <1>4
<1>6. f \in [1 .. Len(q) + 1 -> 1 .. k]
  BY <1>2, <1>3
<1> HIDE DEF f
<1>7. \A i, j \in 1 .. Len(q) + 1 : f[i] = f[j] => i = j
  BY <1>2, <1>3, <1>5 DEF Distinct
<1>8. f \in Injection(1 .. Len(q) + 1, 1 .. k)
  BY <1>6, <1>7 DEF Injection, IsInjective
<1>9. IsFiniteSet(1 .. k) /\ Cardinality(1 .. k) = k
  BY FS_Interval
<1>10. Cardinality(1 .. Len(q) + 1) = Len(q) + 1
  BY <1>1, FS_Interval
<1>11. Cardinality(1 .. Len(q) + 1) <= Cardinality(1 .. k)
  BY <1>8, <1>9, FS_Injection
<1> QED BY <1>1, <1>9, <1>10, <1>11

\* As long as there are no more messages than a window holds, a window remembers a new
\* one without forgetting another.
LEMMA NothingForgotten ==
  ASSUME NEW q \in Seq(Nonces), NEW n \in Nonces, NEW k \in Nat, k <= Window, n[1] <= k,
         Distinct(q), \A e \in ToSet(q) : e[1] <= k /\ e[1] # n[1]
  PROVE  /\ ToSet(Remembered(q, n)) = ToSet(q) \cup {n}
         /\ Distinct(Remembered(q, n))
<1>1. Len(q) \in Nat /\ DOMAIN q = 1 .. Len(q) /\ Window \in Nat /\ MaxMessages \in Nat
  BY Sizes
<1>2. ToSet(q) \subseteq Nonces
  BY DEF ToSet
<1>3. \A e \in Nonces : e[1] \in Nat /\ e[1] >= 1
  BY <1>1, NonceMessages DEF Messages
<1>4. n[1] \in 1 .. k /\ \A e \in ToSet(q) : e[1] \in 1 .. k /\ e[1] # n[1]
  BY <1>2, <1>3
<1>5. Len(q) < k
  BY <1>4, RoomForOne
<1>6. Remembered(q, n) = Append(q, n)
  BY <1>1, <1>5 DEF Remembered
<1>7. ToSet(Append(q, n)) = ToSet(q) \cup {n}
  BY QueueSteps
<1>8. Distinct(Append(q, n))
  <2>1. /\ Len(Append(q, n)) = Len(q) + 1 /\ Append(q, n)[Len(q) + 1] = n
        /\ \A i \in 1 .. Len(q) : Append(q, n)[i] = q[i]
    OBVIOUS
  <2>2. \A i \in 1 .. Len(q) + 1 : i \in 1 .. Len(q) \/ i = Len(q) + 1
    BY <1>1
  <2>3. \A i \in 1 .. Len(q) : q[i][1] # n[1]
    BY <1>1, <1>4 DEF ToSet
  <2>4. ASSUME NEW i \in 1 .. Len(q) + 1, NEW j \in 1 .. Len(q) + 1,
               Append(q, n)[i][1] = Append(q, n)[j][1]
        PROVE  i = j
    BY <2>1, <2>2, <2>3, <2>4 DEF Distinct
  <2> QED BY <2>1, <2>4 DEF Distinct
<1> QED BY <1>6, <1>7, <1>8

-----------------------------------------------------------------------------
(* Nothing is shown twice: the keys of earlier starts *)

\* The messages among the packets of a link.
Carried(q) == {p \in ToSet(q) : p.kind = "message"}

LEMMA Carrying ==
  ASSUME NEW q \in Seq(Packet), NEW p \in Packet
  PROVE  /\ Append(q, p) \in Seq(Packet)
         /\ ToSet(Append(q, p)) = ToSet(q) \cup {p}
         /\ Carried(Append(q, p)) \subseteq Carried(q) \cup {p}
         /\ p.kind # "message" => Carried(Append(q, p)) = Carried(q)
         /\ p \in Carried(q) => Carried(Append(q, p)) = Carried(q)
<1>1. Append(q, p) \in Seq(Packet) /\ ToSet(Append(q, p)) = ToSet(q) \cup {p}
  BY QueueSteps
<1> QED BY <1>1, Zenon DEF Carried

LEMMA CarryingOff ==
  ASSUME NEW q \in Seq(Packet), q # <<>>
  PROVE  /\ Tail(q) \in Seq(Packet) /\ Head(q) \in Packet /\ Head(q) \in ToSet(q)
         /\ ToSet(Tail(q)) \subseteq ToSet(q)
         /\ Carried(Tail(q)) \subseteq Carried(q)
         /\ Head(q).kind = "message" => Head(q) \in Carried(q)
<1>1. /\ Head(q) \in Packet /\ Tail(q) \in Seq(Packet)
      /\ ToSet(q) = {Head(q)} \cup ToSet(Tail(q))
  BY QueueHead
<1> QED BY <1>1, Zenon DEF Carried

\* Every key in the tables, in the threads and on the links is of a start the client
\* has made, so that a new start finds no packet of its own.
KeysKnown == \A x \in Clients : keys[x] <= starts[x]
HellosKnown == \A x \in Clients : \A p \in ToSet(toHost[x]) : p.kind = "hello" => p.key <= starts[x]
JobKnown ==
  \A x \in Clients : job.from = {x} /\ job.packet.kind = "hello" => job.packet.key <= starts[x]
RelaysKnown ==
  \A x \in Clients : \A t \in Threads : relaying[t].to = {x} => relaying[t].key <= starts[x]
SealedKnown == \A x \in Clients : \A p \in Carried(toClient[x]) : p.key <= starts[x]
StartsKnown == KeysKnown /\ HellosKnown /\ JobKnown /\ RelaysKnown /\ SealedKnown

LEMMA StartsKept ==
  ASSUME TypeOK, TypeOK', StartsKnown,
         \A x \in Clients : starts[x] <= starts'[x],
         \A x \in Clients : keys'[x] = keys[x] \/ keys'[x] <= starts'[x],
         \A x \in Clients : \A p \in ToSet(toHost'[x]) :
            p.kind = "hello" => p \in ToSet(toHost[x]) \/ p.key <= starts'[x],
         \A x \in Clients :
            job'.from = {x} /\ job'.packet.kind = "hello" =>
               (job.from = {x} /\ job.packet = job'.packet) \/ job'.packet.key <= starts'[x],
         \A t \in Threads, x \in Clients :
            relaying'[t].to = {x} =>
               relaying'[t] = relaying[t] \/ relaying'[t].key <= starts'[x],
         \A x \in Clients : \A p \in Carried(toClient'[x]) :
            p \in Carried(toClient[x]) \/ p.key <= starts'[x]
  PROVE  StartsKnown'
<1>1. /\ keys \in [Clients -> Keys \cup {NoKey}] /\ Keys \subseteq Nat /\ NoKey \in Nat
      /\ starts \in [Clients -> 0 .. MaxStarts] /\ starts' \in [Clients -> 0 .. MaxStarts]
      /\ toHost \in [Clients -> Seq(Packet)] /\ toClient \in [Clients -> Seq(Packet)]
      /\ job \in Job /\ relaying \in [Threads -> Relay] /\ MaxStarts \in Nat
  BY Sizes DEF TypeOK, HostTypes, ClientTypes, LinkTypes, Keys, NoKey
<1>2. \A k \in Nat, x \in Clients : k <= starts[x] => k <= starts'[x]
  BY <1>1
<1>3. KeysKnown'
  <2>1. \A x \in Clients : keys[x] \in Nat
    BY <1>1
  <2> QED BY <1>2, <2>1, Zenon DEF StartsKnown, KeysKnown
<1>4. HellosKnown'
  <2>1. \A x \in Clients : \A p \in ToSet(toHost[x]) : p.kind = "hello" => p.key \in Nat
    <3>1. \A x \in Clients : ToSet(toHost[x]) \subseteq Packet
      BY <1>1 DEF ToSet
    <3> QED BY <1>1, <3>1, Packets
  <2> QED BY <1>2, <2>1, Zenon DEF StartsKnown, HellosKnown
<1>5. JobKnown'
  <2>1. job.packet.kind = "hello" => job.packet.key \in Nat
    BY <1>1, Jobs, Packets
  <2>2. ASSUME NEW x \in Clients, job'.from = {x}, job'.packet.kind = "hello"
        PROVE  job'.packet.key <= starts'[x]
    <3>1. CASE job.from = {x} /\ job.packet = job'.packet
      <4>1. job.packet.key <= starts[x] /\ job.packet.key \in Nat
        BY <2>1, <2>2, <3>1 DEF StartsKnown, JobKnown
      <4> QED BY <1>2, <3>1, <4>1
    <3> QED BY <2>2, <3>1
  <2> QED BY <2>2 DEF JobKnown
<1>6. RelaysKnown'
  <2>1. \A t \in Threads : relaying[t].key \in Nat
    <3>1. \A r \in Relay : r.key \in Nat
      BY <1>1, Relays
    <3> QED BY <1>1, <3>1
  <2>2. ASSUME NEW x \in Clients, NEW t \in Threads, relaying'[t].to = {x}
        PROVE  relaying'[t].key <= starts'[x]
    <3>1. CASE relaying'[t] = relaying[t]
      <4>1. relaying[t].key <= starts[x] /\ relaying[t].key \in Nat
        BY <2>1, <2>2, <3>1 DEF StartsKnown, RelaysKnown
      <4> QED BY <1>2, <3>1, <4>1
    <3> QED BY <2>2, <3>1
  <2> QED BY <2>2 DEF RelaysKnown
<1>7. SealedKnown'
  <2>1. \A x \in Clients : \A p \in Carried(toClient[x]) : p.key \in Nat
    <3>1. \A x \in Clients : ToSet(toClient[x]) \subseteq Packet
      BY <1>1 DEF ToSet
    <3> QED BY <1>1, <3>1, Packets DEF Carried
  <2> QED BY <1>2, <2>1, Zenon DEF StartsKnown, SealedKnown
<1> QED BY <1>3, <1>4, <1>5, <1>6, <1>7 DEF StartsKnown

LEMMA InitStarts == Init => StartsKnown
<1> SUFFICES ASSUME Init PROVE StartsKnown
  OBVIOUS
<1>1. KeysKnown /\ HellosKnown
  BY EmptyQueue DEF Init, KeysKnown, HellosKnown, NoKey
<1>2. JobKnown
  BY Jobs DEF Init, JobKnown
<1>3. RelaysKnown
  BY Relays DEF Init, RelaysKnown
<1>4. SealedKnown
  BY EmptyQueue DEF Init, SealedKnown, Carried
<1> QED BY <1>1, <1>2, <1>3, <1>4 DEF StartsKnown

LEMMA StartsHost ==
  ASSUME TypeOK, TypeOK', StartsKnown, NEW c \in Clients,
         AddPeer(c) \/ RemovePeer(c) \/ HostReceives(c)
  PROVE  StartsKnown'
<1>0. /\ starts \in [Clients -> 0 .. MaxStarts] /\ keys \in [Clients -> Keys \cup {NoKey}]
      /\ toHost \in [Clients -> Seq(Packet)] /\ toClient \in [Clients -> Seq(Packet)]
      /\ job \in Job /\ MaxStarts \in Nat
      /\ \A x \in Clients : NoKey <= starts[x] /\ starts[x] <= starts[x]
  <2>1. /\ starts \in [Clients -> 0 .. MaxStarts] /\ keys \in [Clients -> Keys \cup {NoKey}]
        /\ toHost \in [Clients -> Seq(Packet)] /\ toClient \in [Clients -> Seq(Packet)]
        /\ job \in Job
    BY DEF TypeOK, HostTypes, ClientTypes, LinkTypes
  <2>2. MaxStarts \in Nat
    BY Sizes
  <2>3. \A x \in Clients : NoKey <= starts[x] /\ starts[x] <= starts[x]
    BY <2>1, <2>2 DEF NoKey
  <2> QED BY <2>1, <2>2, <2>3
<1>1. CASE AddPeer(c)
  <2>1. UNCHANGED <<keys, starts, toHost, job, relaying, toClient>>
    BY <1>1 DEF AddPeer, clientVars
  <2> QED BY <1>0, <2>1, StartsKept
<1>2. CASE RemovePeer(c)
  <2>1. /\ keys' = [keys EXCEPT ![c] = NoKey]
        /\ UNCHANGED <<starts, toHost, job, relaying, toClient>>
    BY <1>2 DEF RemovePeer, clientVars
  <2>2. \A x \in Clients : keys'[x] = keys[x] \/ keys'[x] <= starts'[x]
    BY <1>0, <2>1
  <2> QED BY <1>0, <2>1, <2>2, StartsKept
<1>3. CASE TakePacket(c)
  <2>1. /\ toHost[c] # <<>>
        /\ toHost' = [toHost EXCEPT ![c] = Tail(toHost[c])]
        /\ job' \in {NoJob, [step |-> "allowed", from |-> {c}, packet |-> Head(toHost[c])]}
        /\ UNCHANGED <<keys, starts, relaying, toClient>>
    BY <1>3 DEF TakePacket, clientVars
  <2>2. Head(toHost[c]) \in ToSet(toHost[c]) /\ ToSet(Tail(toHost[c])) \subseteq ToSet(toHost[c])
    BY <1>0, <2>1, CarryingOff
  <2>3. \A x \in Clients : ToSet(toHost'[x]) \subseteq ToSet(toHost[x])
    BY <1>0, <2>1, <2>2
  <2>4. ASSUME NEW x \in Clients, job'.from = {x}, job'.packet.kind = "hello"
        PROVE  job'.packet.key <= starts'[x]
    <3>1. job'.from = {c} /\ job'.packet = Head(toHost[c])
      BY <2>1, <2>4, Jobs
    <3>2. x = c
      BY <2>4, <3>1
    <3>3. job'.packet.key <= starts[c]
      BY <2>2, <2>4, <3>1 DEF StartsKnown, HellosKnown
    <3> QED BY <2>1, <3>2, <3>3
  <2> QED BY <1>0, <2>1, <2>3, <2>4, StartsKept
<1>4. CASE StoreKey(c)
  <2>1. /\ job.from = {c} /\ job.packet.kind = "hello"
        /\ keys' = [keys EXCEPT ![c] = job.packet.key]
        /\ job' = [job EXCEPT !.step = "keyed"]
        /\ UNCHANGED <<starts, toHost, relaying, toClient>>
    BY <1>4 DEF StoreKey, At, clientVars
  <2>2. job.packet.key <= starts[c]
    BY <2>1 DEF StartsKnown, JobKnown
  <2>3. \A x \in Clients : keys'[x] = keys[x] \/ keys'[x] <= starts'[x]
    BY <1>0, <2>1, <2>2
  <2>4. job'.from = job.from /\ job'.packet = job.packet
    <3>1. job = [step |-> job.step, from |-> job.from, packet |-> job.packet]
      BY <1>0, Jobs
    <3> QED BY <2>1, <3>1
  <2> QED BY <1>0, <2>1, <2>3, <2>4, StartsKept
<1>5. CASE AnswerHello(c)
  <2>1. /\ job' = NoJob
        /\ toClient' = [toClient EXCEPT ![c] = Append(toClient[c], Ack)]
        /\ UNCHANGED <<keys, starts, toHost, relaying>>
    BY <1>5 DEF AnswerHello, clientVars
  <2>2. Ack.kind # "message"
    BY DEF Ack
  <2>3. Carried(Append(toClient[c], Ack)) = Carried(toClient[c])
    BY <1>0, <2>2, Packets, Carrying
  <2>4. \A x \in Clients : Carried(toClient'[x]) = Carried(toClient[x])
    BY <1>0, <2>1, <2>3
  <2>5. \A x \in Clients : job'.from # {x}
    BY <2>1, Jobs
  <2> QED BY <1>0, <2>1, <2>4, <2>5, StartsKept
<1>6. CASE OpenMessage(c) \/ CheckNonce(c) \/ RelayReceived(c)
  <2>1. /\ UNCHANGED <<keys, starts, toHost, toClient>>
        /\ job' \in {job, NoJob, [job EXCEPT !.step = "opened"], [job EXCEPT !.step = "shown"]}
    BY <1>6 DEF OpenMessage, CheckNonce, RelayReceived, clientVars
  <2>2. ASSUME NEW x \in Clients, job'.from = {x}
        PROVE  job.from = {x} /\ job.packet = job'.packet
    <3>1. job = [step |-> job.step, from |-> job.from, packet |-> job.packet]
      BY <1>0, Jobs
    <3>2. job' # NoJob
      BY <2>2, Jobs
    <3> QED BY <2>1, <2>2, <3>1, <3>2
  <2>3. \A t \in Threads : relaying'[t] = relaying[t] \/ relaying'[t].to = {}
    <3>1. CASE OpenMessage(c) \/ CheckNonce(c)
      BY <3>1 DEF OpenMessage, CheckNonce
    <3>2. CASE RelayReceived(c)
      <4>1. BeginRelay("receive", job.packet.nonce[1]) /\ relaying \in [Threads -> Relay]
        BY <3>2 DEF RelayReceived, TypeOK, HostTypes
      <4> QED BY <4>1 DEF BeginRelay
    <3> QED BY <1>6, <3>1, <3>2
  <2> QED BY <1>0, <2>1, <2>2, <2>3, StartsKept
<1> QED BY <1>1, <1>2, <1>3, <1>4, <1>5, <1>6 DEF HostReceives

LEMMA StartsRelays ==
  ASSUME TypeOK, TypeOK', StartsKnown, HostSays \/ \E t \in Threads : HostRelays(t)
  PROVE  StartsKnown'
<1>0. /\ starts \in [Clients -> 0 .. MaxStarts] /\ HostTypes
      /\ toClient \in [Clients -> Seq(Packet)]
      /\ relaying \in [Threads -> Relay] /\ MaxStarts \in Nat
      /\ \A x \in Clients : starts[x] <= starts[x]
  BY Sizes DEF TypeOK, HostTypes, ClientTypes, LinkTypes
<1>1. CASE HostSays
  <2>1. BeginRelay("qt", said + 1) /\ UNCHANGED <<keys, starts, toHost, job, toClient>>
    BY <1>1 DEF HostSays, clientVars
  <2>2. \A t \in Threads : relaying'[t] = relaying[t] \/ relaying'[t].to = {}
    BY <1>0, <2>1 DEF BeginRelay
  <2> QED BY <1>0, <2>1, <2>2, StartsKept
<1>2. ASSUME NEW t \in Threads, NEW c \in Clients, PickKey(t, c)
      PROVE  StartsKnown'
  <2>1. UNCHANGED <<keys, starts, toHost, job, toClient>>
    BY <1>2 DEF PickKey, clientVars
  <2>2. PICK r \in Relay : /\ relaying' = [relaying EXCEPT ![t] = r]
                           /\ keys[c] = NoKey => r.to = {}
                           /\ keys[c] # NoKey => r.to = {c}
                           /\ r.key = keys[c]
    BY <1>0, <1>2, Picking
  <2>3. relaying'[t] = r /\ \A u \in Threads \ {t} : relaying'[u] = relaying[u]
    BY <1>0, <2>2
  <2>4. keys[c] <= starts[c]
    BY DEF StartsKnown, KeysKnown
  <2>5. ASSUME NEW u \in Threads, NEW x \in Clients, relaying'[u].to = {x}
        PROVE  relaying'[u] = relaying[u] \/ relaying'[u].key <= starts'[x]
    <3>1. CASE u = t
      <4>1. x = c
        BY <2>2, <2>3, <2>5, <3>1
      <4> QED BY <2>1, <2>2, <2>3, <2>4, <3>1, <4>1
    <3> QED BY <2>3, <3>1
  <2> QED BY <1>0, <2>1, <2>5, StartsKept
<1>3. ASSUME NEW t \in Threads, NEW c \in Clients, SendSealed(t, c)
      PROVE  StartsKnown'
  <2> DEFINE p == Sealed(relaying[t].key, relaying[t].nonce)
  <2>1. /\ relaying[t].to = {c}
        /\ toClient' = [toClient EXCEPT ![c] = Append(toClient[c], p)]
        /\ UNCHANGED <<keys, starts, toHost, job>>
    BY <1>3 DEF SendSealed, clientVars
  <2>2. relaying[t].key \in Keys /\ relaying[t].nonce \in Nonces
    BY <1>0, <1>3, SendingSealed
  <2>3. PICK r \in Relay : relaying' = [relaying EXCEPT ![t] = r] /\ r.to = {}
    BY <1>0, <1>3, SendingSealed
  <2>4. p \in Packet /\ p.key = relaying[t].key
    BY <2>2, Packets DEF Sealed
  <2>5. p.key <= starts[c]
    BY <2>1, <2>4 DEF StartsKnown, RelaysKnown
  <2> HIDE DEF p
  <2>6. Carried(Append(toClient[c], p)) \subseteq Carried(toClient[c]) \cup {p}
    BY <1>0, <2>4, Carrying
  <2>7. \A x \in Clients : \A q \in Carried(toClient'[x]) :
           q \in Carried(toClient[x]) \/ q.key <= starts'[x]
    BY <1>0, <2>1, <2>5, <2>6
  <2>8. \A u \in Threads : relaying'[u] = relaying[u] \/ relaying'[u].to = {}
    BY <1>0, <2>3
  <2> QED BY <1>0, <2>1, <2>7, <2>8, StartsKept
<1>4. ASSUME NEW t \in Threads, EndRelay(t)
      PROVE  StartsKnown'
  <2>1. /\ relaying' = [relaying EXCEPT ![t] = NoRelay]
        /\ UNCHANGED <<keys, starts, toHost, job, toClient>>
    BY <1>4 DEF EndRelay, clientVars
  <2>2. \A u \in Threads : relaying'[u] = relaying[u] \/ relaying'[u].to = {}
    BY <1>0, <2>1, Relays
  <2> QED BY <1>0, <2>1, <2>2, StartsKept
<1> QED BY <1>1, <1>2, <1>3, <1>4 DEF HostRelays

LEMMA StartsClients ==
  ASSUME TypeOK, TypeOK', StartsKnown, NEW c \in Clients,
         \/ ClientStart(c) \/ HelloAgain(c) \/ ClientStop(c)
         \/ ClientReceives(c) \/ ClientSays(c)
         \/ RepeatToHost(c) \/ RepeatToClient(c)
  PROVE  StartsKnown'
<1>0. /\ starts \in [Clients -> 0 .. MaxStarts] /\ LinkTypes
      /\ toHost \in [Clients -> Seq(Packet)] /\ toClient \in [Clients -> Seq(Packet)]
      /\ MaxStarts \in Nat
      /\ \A x \in Clients : starts[x] <= starts[x]
      /\ \A x \in running : starts[x] \in Keys
  BY Sizes DEF TypeOK, ClientTypes, LinkTypes
<1>1. CASE ClientStart(c)
  <2>1. /\ starts' = [starts EXCEPT ![c] = starts[c] + 1]
        /\ toHost' = [toHost EXCEPT ![c] = Append(toHost[c], Hello(starts[c] + 1))]
        /\ running' = running \cup {c}
        /\ UNCHANGED <<keys, job, relaying, toClient>>
    BY <1>1 DEF ClientStart, hostVars
  <2>2. \A x \in Clients : starts[x] <= starts'[x]
    BY <1>0, <2>1
  <2>3. starts'[c] = starts[c] + 1 /\ starts'[c] <= starts'[c] /\ starts'[c] \in Keys
    BY <1>0, <2>1 DEF TypeOK, ClientTypes
  <2>4. Hello(starts[c] + 1) \in Packet /\ Hello(starts[c] + 1).key = starts'[c]
    BY <2>3, Packets DEF Hello
  <2>5. ToSet(Append(toHost[c], Hello(starts[c] + 1))) = ToSet(toHost[c]) \cup {Hello(starts[c] + 1)}
    BY <1>0, <2>4, Carrying
  <2>6. \A x \in Clients : \A p \in ToSet(toHost'[x]) :
           p \in ToSet(toHost[x]) \/ p.key <= starts'[x]
    BY <1>0, <2>1, <2>3, <2>4, <2>5
  <2> QED BY <2>1, <2>2, <2>6, StartsKept
<1>2. CASE HelloAgain(c) \/ ClientSays(c)
  <2>1. /\ UNCHANGED <<keys, starts, job, relaying, toClient>>
        /\ c \in running
    BY <1>2 DEF HelloAgain, ClientSays, hostVars, clientVars
  <2>2. PICK p \in Packet : /\ p.kind = "hello" => p.key = starts[c]
                            /\ toHost' = [toHost EXCEPT ![c] = Append(toHost[c], p)]
    <3>1. starts[c] \in Keys
      BY <1>0, <2>1
    <3>2. Hello(starts[c]) \in Packet /\ Hello(starts[c]).key = starts[c]
      BY <3>1, Packets DEF Hello
    <3>3. CASE HelloAgain(c)
      BY <3>2, <3>3 DEF HelloAgain
    <3>4. CASE ClientSays(c)
      <4>1. said < mix.messages
        BY <3>4 DEF ClientSays
      <4>2. <<said + 1, 0>> \in Nonces
        BY <4>1, Saying, MakeNonce
      <4>3. /\ Sealed(starts[c], <<said + 1, 0>>) \in Packet
            /\ Sealed(starts[c], <<said + 1, 0>>).kind # "hello"
        BY <3>1, <4>2, Packets DEF Sealed
      <4> QED BY <3>2, <3>4, <4>3 DEF ClientSays
    <3> QED BY <1>2, <3>3, <3>4
  <2>4. ToSet(Append(toHost[c], p)) = ToSet(toHost[c]) \cup {p}
    BY <1>0, <2>2, Carrying
  <2>5. \A x \in Clients : \A q \in ToSet(toHost'[x]) :
           q.kind = "hello" => q \in ToSet(toHost[x]) \/ q.key <= starts'[x]
    BY <1>0, <2>1, <2>2, <2>4
  <2> QED BY <1>0, <2>1, <2>5, StartsKept
<1>3. CASE ClientStop(c)
  <2>1. UNCHANGED <<keys, starts, toHost, job, relaying, toClient>>
    BY <1>3 DEF ClientStop, hostVars
  <2> QED BY <1>0, <2>1, StartsKept
<1>4. CASE ClientReceives(c)
  <2>1. /\ toClient[c] # <<>> /\ toClient' = [toClient EXCEPT ![c] = Tail(toClient[c])]
        /\ UNCHANGED <<keys, starts, toHost, job, relaying>>
    BY <1>4 DEF ClientReceives, ReceiveAck, ReceiveMessage, hostVars
  <2>2. \A x \in Clients : Carried(toClient'[x]) \subseteq Carried(toClient[x])
    BY <1>0, <2>1, CarryingOff
  <2> QED BY <1>0, <2>1, <2>2, StartsKept
<1>5. CASE RepeatToHost(c)
  <2>1. /\ 0 < Len(toHost[c]) /\ toHost' = [toHost EXCEPT ![c] = Append(toHost[c], Head(toHost[c]))]
        /\ UNCHANGED <<keys, starts, job, relaying, toClient>>
    BY <1>5 DEF RepeatToHost, hostVars, clientVars
  <2>2. Head(toHost[c]) \in Packet /\ Head(toHost[c]) \in ToSet(toHost[c])
    BY <1>0, <2>1, CarryingOff
  <2>3. ToSet(Append(toHost[c], Head(toHost[c]))) = ToSet(toHost[c])
    <3>1. \A q \in Seq(Packet), p \in Packet : ToSet(Append(q, p)) = ToSet(q) \cup {p}
      BY Carrying
    <3>2. ToSet(Append(toHost[c], Head(toHost[c]))) = ToSet(toHost[c]) \cup {Head(toHost[c])}
      BY <1>0, <2>2, <3>1
    <3> QED BY <2>2, <3>2
  <2>4. \A x \in Clients : ToSet(toHost'[x]) = ToSet(toHost[x])
    BY <1>0, <2>1, <2>3
  <2> QED BY <1>0, <2>1, <2>4, StartsKept
<1>6. CASE RepeatToClient(c)
  <2>1. /\ 0 < Len(toClient[c]) /\ Head(toClient[c]).kind = "message"
        /\ toClient' = [toClient EXCEPT ![c] = Append(toClient[c], Head(toClient[c]))]
        /\ UNCHANGED <<keys, starts, job, relaying, toHost>>
    BY <1>6 DEF RepeatToClient, hostVars, clientVars
  <2>2. Head(toClient[c]) \in Packet /\ Head(toClient[c]) \in Carried(toClient[c])
    BY <1>0, <2>1, CarryingOff
  <2>3. Carried(Append(toClient[c], Head(toClient[c]))) = Carried(toClient[c])
    BY <1>0, <2>2, Carrying
  <2>4. \A x \in Clients : Carried(toClient'[x]) = Carried(toClient[x])
    BY <1>0, <2>1, <2>3
  <2> QED BY <1>0, <2>1, <2>4, StartsKept
<1> QED BY <1>1, <1>2, <1>3, <1>4, <1>5, <1>6

LEMMA NextStarts == TypeOK /\ TypeOK' /\ StartsKnown /\ [Next]_vars => StartsKnown'
<1> SUFFICES ASSUME TypeOK, TypeOK', StartsKnown, [Next]_vars PROVE StartsKnown'
  OBVIOUS
<1>1. CASE HostSays \/ \E t \in Threads : HostRelays(t)
  BY <1>1, StartsRelays
<1>2. ASSUME NEW c \in Clients, AddPeer(c) \/ RemovePeer(c) \/ HostReceives(c)
      PROVE  StartsKnown'
  BY <1>2, StartsHost
<1>3. ASSUME NEW c \in Clients,
             \/ ClientStart(c) \/ HelloAgain(c) \/ ClientStop(c)
             \/ ClientReceives(c) \/ ClientSays(c)
             \/ RepeatToHost(c) \/ RepeatToClient(c)
      PROVE  StartsKnown'
  BY <1>3, StartsClients
<1>4. CASE UNCHANGED vars
  <2>1. UNCHANGED <<keys, starts, toHost, job, relaying, toClient>>
    BY <1>4 DEF vars, hostVars, clientVars
  <2> QED
    BY <2>1
    DEF StartsKnown, KeysKnown, HellosKnown, JobKnown, RelaysKnown, SealedKnown
<1> QED BY <1>1, <1>2, <1>3, <1>4 DEF Next

-----------------------------------------------------------------------------
(* Nothing is shown twice: the invariant *)

\* The windows have not lost a nonce: nobody was removed, and no more messages were
\* said than a window holds.
WindowsHold == said <= Window /\ \A c \in Clients : removals[c] = 0

\* The nonces on their way from a client to the host, and those the host remembers.
OnLink(c, n) == \E p \in Carried(toHost[c]) : p.nonce = n
InJob(c, n) == job.from = {c} /\ job.packet.kind = "message" /\ job.packet.nonce = n
Up(c, n) == OnLink(c, n) \/ InJob(c, n) \/ n \in ToSet(seen[c])

\* The message m has reached the link to x.
Arrived(x, m) == \E p \in Carried(toClient[x]) : p.nonce[1] = m

\* The relay of thread t still has x to serve.
Serves(t, x) == x \in relaying[t].rest \cup relaying[t].to

\* The relay of m is still to come; and nothing of it has happened.
Waiting(m) ==
  \/ m > said
  \/ heard["host"][m] = 0 /\ \E c \in Clients : Up(c, <<m, 0>>)
  \/ job.step = "shown" /\ job.packet.nonce[1] = m
NotRelayed(m) ==
  /\ \A t \in Threads : relaying[t].nonce[1] # m
  /\ \A x \in Clients : heard[x][m] = 0 /\ ~Arrived(x, m)

\* A message comes from one client, under its first nonce.
OneSender ==
  \A c \in Clients : \A n \in Nonces :
      Up(c, n) => /\ n = <<n[1], 0>> /\ n[1] <= said
                  /\ \A d \in Clients : Up(d, n) => d = c

\* The host has shown a message once: its own when the relay ends, that of a client when
\* it puts the nonce in its window.
ShownByHost ==
  \A m \in Messages :
      /\ heard["host"][m] <= 1
      /\ m > said => heard["host"][m] = 0
      /\ relaying["qt"].nonce[1] = m => heard["host"][m] = 0
      /\ job.step = "shown" /\ job.packet.nonce[1] = m => heard["host"][m] > 0
      /\ \A c \in Clients :
            Up(c, <<m, 0>>) /\ heard["host"][m] > 0 => <<m, 0>> \in ToSet(seen[c])

\* It is relayed once, after that, by one thread; who is still to be served has not got it.
RelayedLater == \A m \in Messages : Waiting(m) => NotRelayed(m)
ServedOnce ==
  \A t \in Threads, x \in Clients, m \in Messages :
      Serves(t, x) /\ relaying[t].nonce[1] = m => heard[x][m] = 0 /\ ~Arrived(x, m)
NextOnly == \A t \in Threads : relaying[t].rest \cap relaying[t].to = {}
OneRelay ==
  \A t, u \in Threads : \A m \in Messages :
      relaying[t].nonce[1] = m /\ relaying[u].nonce[1] = m => t = u

\* What arrives of it at a client are copies of one packet, and a client that has shown
\* it in this start knows the nonce of those it can open.
Copies ==
  \A x \in Clients : \A p, q \in Carried(toClient[x]) : p.nonce[1] = q.nonce[1] => p = q
ShownOnce == \A x \in Clients : \A m \in Messages : heard[x][m] <= 1
KnownWhenShown ==
  \A x \in running : \A p \in Carried(toClient[x]) :
      p.key = starts[x] /\ heard[x][p.nonce[1]] > 0 => p.nonce \in ToSet(known[x])

SeenDistinct == \A c \in Clients : Distinct(seen[c])
KnownDistinct == \A x \in Clients : Distinct(known[x])

Relayed == RelayedLater /\ ServedOnce /\ NextOnly /\ OneRelay
Delivered == Copies /\ ShownOnce /\ KnownWhenShown /\ KnownDistinct
Once == OneSender /\ ShownByHost /\ SeenDistinct /\ Relayed /\ Delivered

\* What the types say of the parts of the invariant.
LEMMA OnceTypes ==
  ASSUME TypeOK
  PROVE  /\ heard \in [Clients \cup {"host"} -> [Messages -> Nat]]
         /\ \A w \in Clients \cup {"host"}, m \in Messages : heard[w][m] \in Nat
         /\ seen \in [Clients -> Seq(Nonces)] /\ known \in [Clients -> Seq(Nonces)]
         /\ \A c \in Clients : ToSet(seen[c]) \subseteq Nonces /\ ToSet(known[c]) \subseteq Nonces
         /\ toHost \in [Clients -> Seq(Packet)] /\ toClient \in [Clients -> Seq(Packet)]
         /\ job \in Job /\ relaying \in [Threads -> Relay]
         /\ said \in Nat /\ Window \in Nat /\ Messages \subseteq Nat
         /\ running \subseteq Clients
         /\ \A x \in Clients : \A p \in Carried(toClient[x]) :
               p.nonce \in Nonces /\ p.nonce[1] \in Messages
         /\ "host" \notin Clients
<1>1. /\ heard \in [Clients \cup {"host"} -> [Messages -> Nat]]
      /\ seen \in [Clients -> Seq(Nonces)] /\ known \in [Clients -> Seq(Nonces)]
      /\ toHost \in [Clients -> Seq(Packet)] /\ toClient \in [Clients -> Seq(Packet)]
      /\ job \in Job /\ relaying \in [Threads -> Relay] /\ running \subseteq Clients
      /\ said \in 0 .. MaxMessages
  BY DEF TypeOK, HostTypes, ClientTypes, LinkTypes, HistoryTypes
<1>2. \A c \in Clients : ToSet(seen[c]) \subseteq Nonces /\ ToSet(known[c]) \subseteq Nonces
  BY <1>1 DEF ToSet
<1>3. \A x \in Clients : ToSet(toClient[x]) \subseteq Packet
  BY <1>1 DEF ToSet
<1>4. \A x \in Clients : \A p \in Carried(toClient[x]) :
               p.nonce \in Nonces /\ p.nonce[1] \in Messages
  BY <1>3, Packets, NonceMessages DEF Carried
<1>5. said \in Nat /\ Window \in Nat /\ Messages \subseteq Nat
  BY <1>1, Sizes DEF Messages
<1>6. \A w \in Clients \cup {"host"}, m \in Messages : heard[w][m] \in Nat
  BY <1>1
<1> QED BY <1>1, <1>2, <1>4, <1>5, <1>6, ChatAssumption

\* A relay is of a message said before, and no relay is of none.
LEMMA RelayNonces ==
  ASSUME TypeOK
  PROVE  /\ \A t \in Threads : relaying[t] # NoRelay => relaying[t].nonce[1] \in Messages
         /\ NoRelay.nonce[1] \notin Messages
<1>1. \A t \in Threads : relaying[t] # NoRelay => relaying[t].nonce \in Nonces
  BY Relays DEF TypeOK, HostTypes
<1>2. NoRelay.nonce[1] = 0
  BY DEF NoRelay, NoNonce
<1>3. 0 \notin Messages
  BY Sizes DEF Messages
<1> QED BY <1>1, <1>2, <1>3, NonceMessages

\* Steps that show nothing and say nothing: what is under way is at most what was, and a
\* relay goes on with fewer left to serve.
LEMMA QuietUp ==
  ASSUME TypeOK, OneSender, ShownByHost, SeenDistinct, UNCHANGED <<said, seen, heard>>,
         \A c \in Clients, n \in Nonces : Up(c, n)' => Up(c, n),
         job'.step = "shown" => job' = job,
         relaying'["qt"].nonce = relaying["qt"].nonce \/ relaying'["qt"] = NoRelay
  PROVE  OneSender' /\ ShownByHost' /\ SeenDistinct'
<1>1. OneSender'
  BY Zenon DEF OneSender
<1>2. ShownByHost'
  <2>1. ASSUME NEW m \in Messages
        PROVE  relaying'["qt"].nonce[1] = m => relaying["qt"].nonce[1] = m
    BY <2>1, RelayNonces
  <2>2. \A m \in Messages : <<m, 0>> \in Nonces
    BY MakeNonce
  <2> QED BY <2>1, <2>2, Zenon DEF ShownByHost
<1>3. SeenDistinct'
  BY DEF SeenDistinct
<1> QED BY <1>1, <1>2, <1>3

LEMMA RelaysGoOn ==
  ASSUME TypeOK, Relayed,
         \A x \in Clients, m \in Messages : heard'[x][m] = heard[x][m],
         \A m \in Messages : Waiting(m)' => Waiting(m),
         \A t \in Threads :
            \/ relaying'[t] = NoRelay
            \/ /\ relaying'[t].nonce = relaying[t].nonce
               /\ \A x \in Clients : Serves(t, x)' => Serves(t, x)
               /\ relaying'[t].rest \cap relaying'[t].to = {},
         \A x \in Clients : Carried(toClient'[x]) \subseteq Carried(toClient[x])
  PROVE  Relayed'
<1>1. ASSUME NEW t \in Threads, NEW m \in Messages, relaying'[t].nonce[1] = m
      PROVE  /\ relaying[t].nonce[1] = m
             /\ \A x \in Clients : Serves(t, x)' => Serves(t, x)
             /\ relaying'[t].rest \cap relaying'[t].to = {}
  BY <1>1, RelayNonces
<1>2. \A x \in Clients, m \in Messages : Arrived(x, m)' => Arrived(x, m)
  BY Zenon DEF Arrived
<1>3. \A m \in Messages : NotRelayed(m) => NotRelayed(m)'
  BY <1>1, <1>2, Zenon DEF NotRelayed
<1>4. RelayedLater'
  BY <1>3, Zenon DEF Relayed, RelayedLater
<1>5. ServedOnce'
  <2>1. ASSUME NEW t \in Threads, NEW x \in Clients, NEW m \in Messages,
               Serves(t, x)', relaying'[t].nonce[1] = m
        PROVE  heard'[x][m] = 0 /\ ~Arrived(x, m)'
    <3>1. Serves(t, x) /\ relaying[t].nonce[1] = m
      BY <1>1, <2>1
    <3>2. heard[x][m] = 0 /\ ~Arrived(x, m)
      BY <3>1, Zenon DEF Relayed, ServedOnce
    <3> QED BY <1>2, <3>2
  <2> QED BY <2>1 DEF ServedOnce
<1>6. NextOnly'
  BY Relays DEF NextOnly
<1>7. OneRelay'
  BY <1>1, Zenon DEF Relayed, OneRelay
<1> QED BY <1>4, <1>5, <1>6, <1>7 DEF Relayed

LEMMA QuietRelays ==
  ASSUME TypeOK, Relayed, UNCHANGED <<said, heard>>,
         \A c \in Clients, n \in Nonces : Up(c, n)' => Up(c, n),
         job'.step = "shown" => job' = job,
         \A t \in Threads :
            \/ relaying'[t] = NoRelay
            \/ /\ relaying'[t].nonce = relaying[t].nonce
               /\ \A x \in Clients : Serves(t, x)' => Serves(t, x)
               /\ relaying'[t].rest \cap relaying'[t].to = {},
         \A x \in Clients : Carried(toClient'[x]) \subseteq Carried(toClient[x])
  PROVE  Relayed'
<1>1. \A m \in Messages : Waiting(m)' => Waiting(m)
  <2>1. \A m \in Messages : <<m, 0>> \in Nonces
    BY MakeNonce
  <2> QED BY <2>1, Zenon DEF Waiting
<1>2. \A x \in Clients, m \in Messages : heard'[x][m] = heard[x][m]
  OBVIOUS
<1> QED BY <1>1, <1>2, RelaysGoOn

LEMMA QuietClients ==
  ASSUME TypeOK, Delivered,
         \A x \in Clients, m \in Messages : heard'[x][m] = heard[x][m],
         \A x \in Clients : Carried(toClient'[x]) \subseteq Carried(toClient[x]),
         \A x \in Clients : known'[x] = known[x] \/ known'[x] = <<>>,
         running' \subseteq Clients,
         \A x \in running' :
            \/ x \in running /\ starts'[x] = starts[x] /\ known'[x] = known[x]
            \/ \A p \in Carried(toClient'[x]) : p.key # starts'[x]
  PROVE  Delivered'
<1>1. Copies' /\ ShownOnce'
  BY Zenon DEF Delivered, Copies, ShownOnce
<1>2. KnownWhenShown'
  <2>1. ASSUME NEW x \in running', NEW p \in Carried(toClient'[x]),
               p.key = starts'[x], heard'[x][p.nonce[1]] > 0
        PROVE  p.nonce \in ToSet(known'[x])
    <3>1. x \in running /\ starts'[x] = starts[x] /\ known'[x] = known[x]
      BY <2>1
    <3>2. p \in Carried(toClient[x]) /\ x \in Clients
      BY <2>1
    <3>3. heard'[x][p.nonce[1]] = heard[x][p.nonce[1]]
      BY <3>2, OnceTypes
    <3> QED BY <2>1, <3>1, <3>2, <3>3 DEF Delivered, KnownWhenShown
  <2> QED BY <2>1 DEF KnownWhenShown
<1>3. KnownDistinct'
  <2>1. Distinct(<<>>)
    BY DEF Distinct
  <2> QED BY <2>1 DEF Delivered, KnownDistinct
<1> QED BY <1>1, <1>2, <1>3 DEF Delivered

\* The links and the receive thread by themselves, when no window changes.
LEMMA UpShrinks ==
  ASSUME UNCHANGED seen,
         \A c \in Clients : \A p \in Carried(toHost'[c]) : OnLink(c, p.nonce),
         \A c \in Clients, n \in Nonces : InJob(c, n)' => Up(c, n)
  PROVE  \A c \in Clients, n \in Nonces : Up(c, n)' => Up(c, n)
<1>1. ASSUME NEW c \in Clients, NEW n \in Nonces, OnLink(c, n)'
      PROVE  OnLink(c, n)
  <2>1. PICK p \in Carried(toHost'[c]) : p.nonce = n
    BY <1>1 DEF OnLink
  <2> QED BY <2>1
<1> QED BY <1>1, Zenon DEF Up

LEMMA SameLink ==
  ASSUME \A c \in Clients : Carried(toHost'[c]) \subseteq Carried(toHost[c])
  PROVE  \A c \in Clients : \A p \in Carried(toHost'[c]) : OnLink(c, p.nonce)
BY Zenon DEF OnLink

\* Steps of the host's receive thread that show nothing.
LEMMA OnceReceives ==
  ASSUME TypeOK, Once, NEW c \in Clients,
         AddPeer(c) \/ TakePacket(c) \/ StoreKey(c) \/ AnswerHello(c) \/ OpenMessage(c)
  PROVE  Once'
<1>0. /\ toHost \in [Clients -> Seq(Packet)] /\ toClient \in [Clients -> Seq(Packet)]
      /\ job \in Job /\ running \subseteq Clients
      /\ job = [step |-> job.step, from |-> job.from, packet |-> job.packet]
  BY OnceTypes, Jobs
<1>1. /\ UNCHANGED <<said, seen, heard, relaying, known, running, starts>>
  BY DEF AddPeer, TakePacket, StoreKey, AnswerHello, OpenMessage, clientVars, history
<1>2. \A x \in Clients : Carried(toClient'[x]) \subseteq Carried(toClient[x])
  <2>1. CASE AnswerHello(c)
    <3>1. toClient' = [toClient EXCEPT ![c] = Append(toClient[c], Ack)]
      BY <2>1 DEF AnswerHello
    <3>2. Ack.kind # "message"
      BY DEF Ack
    <3>3. Carried(Append(toClient[c], Ack)) = Carried(toClient[c])
      BY <1>0, <3>2, Packets, Carrying
    <3> QED BY <1>0, <3>1, <3>3
  <2>2. CASE AddPeer(c) \/ TakePacket(c) \/ StoreKey(c) \/ OpenMessage(c)
    <3>1. UNCHANGED toClient
      BY <2>2 DEF AddPeer, TakePacket, StoreKey, OpenMessage
    <3> QED BY <3>1
  <2> QED BY <2>1, <2>2
<1>3. \A x \in Clients : Carried(toHost'[x]) \subseteq Carried(toHost[x])
  <2>1. CASE TakePacket(c)
    <3>1. toHost[c] # <<>> /\ toHost' = [toHost EXCEPT ![c] = Tail(toHost[c])]
      BY <2>1 DEF TakePacket
    <3>2. Carried(Tail(toHost[c])) \subseteq Carried(toHost[c])
      BY <1>0, <3>1, CarryingOff
    <3> QED BY <1>0, <3>1, <3>2
  <2>2. CASE AddPeer(c) \/ AnswerHello(c) \/ StoreKey(c) \/ OpenMessage(c)
    <3>1. UNCHANGED toHost
      BY <2>2 DEF AddPeer, AnswerHello, StoreKey, OpenMessage
    <3> QED BY <3>1
  <2> QED BY <2>1, <2>2
<1>4. ASSUME NEW d \in Clients, NEW n \in Nonces, InJob(d, n)'
      PROVE  Up(d, n)
  <2>0. job'.from = {d} /\ job'.packet.kind = "message" /\ job'.packet.nonce = n /\ job' # NoJob
    BY <1>4, Jobs DEF InJob
  <2>1. CASE AddPeer(c) \/ OpenMessage(c) \/ StoreKey(c)
    <3>1. job' \in {job, NoJob, [job EXCEPT !.step = "opened"], [job EXCEPT !.step = "keyed"]}
      BY <2>1 DEF AddPeer, OpenMessage, StoreKey
    <3>2. job'.from = job.from /\ job'.packet = job.packet
      BY <1>0, <2>0, <3>1
    <3> QED BY <2>0, <3>2 DEF Up, InJob
  <2>2. CASE TakePacket(c)
    <3>1. /\ toHost[c] # <<>>
          /\ job' = [step |-> "allowed", from |-> {c}, packet |-> Head(toHost[c])]
      BY <2>0, <2>2 DEF TakePacket
    <3>2. d = c /\ Head(toHost[c]) \in Carried(toHost[c]) /\ Head(toHost[c]).nonce = n
      BY <1>0, <2>0, <3>1, CarryingOff
    <3> QED BY <3>2 DEF Up, OnLink
  <2>3. CASE AnswerHello(c)
    BY <2>0, <2>3 DEF AnswerHello
  <2> QED BY <2>1, <2>2, <2>3
<1>5. \A d \in Clients, n \in Nonces : Up(d, n)' => Up(d, n)
  BY <1>1, <1>3, <1>4, SameLink, UpShrinks
<1>6. job'.step = "shown" => job' = job
  <2>1. job' \in {job, NoJob, [job EXCEPT !.step = "opened"], [job EXCEPT !.step = "keyed"],
                  [step |-> "allowed", from |-> {c}, packet |-> Head(toHost[c])]}
    BY DEF AddPeer, TakePacket, StoreKey, AnswerHello, OpenMessage
  <2> QED BY <1>0, <2>1, Jobs
<1>7. \A t \in Threads : /\ relaying'[t].nonce = relaying[t].nonce
                         /\ \A x \in Clients : Serves(t, x)' => Serves(t, x)
                         /\ relaying'[t].rest \cap relaying'[t].to = {}
  BY <1>1 DEF Serves, Once, Relayed, NextOnly
<1>8. "qt" \in Threads
  BY DEF Threads
<1>9. OneSender' /\ ShownByHost' /\ SeenDistinct'
  BY <1>1, <1>5, <1>6, <1>7, <1>8, QuietUp DEF Once
<1>10. Relayed'
  BY <1>1, <1>2, <1>5, <1>6, <1>7, QuietRelays DEF Once
<1>11. Delivered'
  BY <1>0, <1>1, <1>2, QuietClients DEF Once
<1> QED BY <1>9, <1>10, <1>11 DEF Once

\* The clients and the carrier, when they show and say nothing.
LEMMA OnceClients ==
  ASSUME TypeOK, StartsKnown, Once, NEW c \in Clients,
         \/ ClientStart(c) \/ HelloAgain(c) \/ ClientStop(c) \/ ReceiveAck(c)
         \/ RepeatToHost(c) \/ RepeatToClient(c)
         \/ ClientSays(c) /\ c \notin ready
  PROVE  Once'
<1>0. /\ toHost \in [Clients -> Seq(Packet)] /\ toClient \in [Clients -> Seq(Packet)]
      /\ running \subseteq Clients /\ known \in [Clients -> Seq(Nonces)]
      /\ starts \in [Clients -> 0 .. MaxStarts] /\ MaxStarts \in Nat
      /\ \A x \in running : starts[x] \in Keys
  BY OnceTypes, Sizes DEF TypeOK, ClientTypes
<1>1. UNCHANGED <<said, seen, heard, relaying, job>>
  BY DEF ClientStart, HelloAgain, ClientStop, ReceiveAck, RepeatToHost, RepeatToClient,
         ClientSays, hostVars, clientVars, history
<1>2. \A x \in Clients : Carried(toClient'[x]) \subseteq Carried(toClient[x])
  <2>1. CASE ReceiveAck(c)
    <3>1. toClient[c] # <<>> /\ toClient' = [toClient EXCEPT ![c] = Tail(toClient[c])]
      BY <2>1 DEF ReceiveAck
    <3>2. Carried(Tail(toClient[c])) \subseteq Carried(toClient[c])
      BY <1>0, <3>1, CarryingOff
    <3> QED BY <1>0, <3>1, <3>2
  <2>2. CASE RepeatToClient(c)
    <3>1. /\ toClient[c] # <<>> /\ Head(toClient[c]).kind = "message"
          /\ toClient' = [toClient EXCEPT ![c] = Append(toClient[c], Head(toClient[c]))]
      BY <1>0, <2>2 DEF RepeatToClient
    <3>2. Head(toClient[c]) \in Packet /\ Head(toClient[c]) \in Carried(toClient[c])
      BY <1>0, <3>1, CarryingOff
    <3>3. Carried(Append(toClient[c], Head(toClient[c]))) = Carried(toClient[c])
      BY <1>0, <3>2, Carrying
    <3> QED BY <1>0, <3>1, <3>3
  <2>3. CASE ClientStart(c) \/ HelloAgain(c) \/ ClientStop(c) \/ RepeatToHost(c) \/ ClientSays(c)
    <3>1. UNCHANGED toClient
      BY <2>3 DEF ClientStart, HelloAgain, ClientStop, RepeatToHost, ClientSays
    <3> QED BY <3>1
  <2> QED BY <2>1, <2>2, <2>3
<1>3. \A x \in Clients : Carried(toHost'[x]) \subseteq Carried(toHost[x])
  <2>1. CASE RepeatToHost(c)
    <3>1. /\ toHost[c] # <<>> /\ Head(toHost[c]).kind = "message"
          /\ toHost' = [toHost EXCEPT ![c] = Append(toHost[c], Head(toHost[c]))]
      BY <1>0, <2>1 DEF RepeatToHost
    <3>2. Head(toHost[c]) \in Packet /\ Head(toHost[c]) \in Carried(toHost[c])
      BY <1>0, <3>1, CarryingOff
    <3>3. Carried(Append(toHost[c], Head(toHost[c]))) = Carried(toHost[c])
      BY <1>0, <3>2, Carrying
    <3> QED BY <1>0, <3>1, <3>3
  <2>2. ASSUME NEW k \in Keys, toHost' = [toHost EXCEPT ![c] = Append(toHost[c], Hello(k))]
        PROVE  \A x \in Clients : Carried(toHost'[x]) \subseteq Carried(toHost[x])
    <3>1. Hello(k) \in Packet /\ Hello(k).kind # "message"
      BY Packets DEF Hello
    <3>2. Carried(Append(toHost[c], Hello(k))) = Carried(toHost[c])
      BY <1>0, <3>1, Carrying
    <3> QED BY <1>0, <2>2, <3>2
  <2>3. CASE HelloAgain(c) \/ (ClientSays(c) /\ c \notin ready)
    <3>1. c \in running /\ toHost' = [toHost EXCEPT ![c] = Append(toHost[c], Hello(starts[c]))]
      BY <2>3 DEF HelloAgain, ClientSays
    <3> QED BY <1>0, <2>2, <3>1
  <2>4. CASE ClientStart(c)
    <3>1. /\ toHost' = [toHost EXCEPT ![c] = Append(toHost[c], Hello(starts[c] + 1))]
          /\ starts[c] < mix.starts[c]
      BY <2>4 DEF ClientStart
    <3>2. starts[c] + 1 \in Keys
      <4>1. mix.starts[c] \in 0 .. MaxStarts /\ starts[c] \in 0 .. MaxStarts
        BY <1>0, Sizes DEF TypeOK, HostTypes
      <4> QED BY <1>0, <3>1, <4>1 DEF Keys
    <3> QED BY <2>2, <3>1, <3>2
  <2>5. CASE ClientStop(c) \/ ReceiveAck(c) \/ RepeatToClient(c)
    <3>1. UNCHANGED toHost
      BY <2>5 DEF ClientStop, ReceiveAck, RepeatToClient
    <3> QED BY <3>1
  <2> QED BY <2>1, <2>3, <2>4, <2>5
<1>4. \A d \in Clients, n \in Nonces : InJob(d, n)' => Up(d, n)
  BY <1>1 DEF InJob, Up
<1>5. \A d \in Clients, n \in Nonces : Up(d, n)' => Up(d, n)
  BY <1>1, <1>3, <1>4, SameLink, UpShrinks
<1>6. \A t \in Threads : /\ relaying'[t].nonce = relaying[t].nonce
                         /\ \A x \in Clients : Serves(t, x)' => Serves(t, x)
                         /\ relaying'[t].rest \cap relaying'[t].to = {}
  BY <1>1 DEF Serves, Once, Relayed, NextOnly
<1>7. "qt" \in Threads
  BY DEF Threads
<1>8. OneSender' /\ ShownByHost' /\ SeenDistinct'
  BY <1>1, <1>5, <1>6, <1>7, QuietUp DEF Once
<1>9. Relayed'
  BY <1>1, <1>2, <1>5, <1>6, QuietRelays DEF Once
<1>10. Delivered'
  <2>1. CASE ClientStart(c)
    <3>1. /\ starts' = [starts EXCEPT ![c] = starts[c] + 1] /\ running' = running \cup {c}
          /\ c \notin running /\ UNCHANGED <<known, toClient>>
      BY <2>1 DEF ClientStart, hostVars
    <3>2. \A p \in Carried(toClient[c]) : p.key # starts[c] + 1
      <4>1. \A p \in Carried(toClient[c]) : p.key <= starts[c]
        BY DEF StartsKnown, SealedKnown
      <4>2. starts[c] \in Nat
        BY <1>0
      <4> QED BY <4>1, <4>2
    <3>3. starts'[c] = starts[c] + 1 /\ \A x \in running : starts'[x] = starts[x]
      BY <1>0, <3>1
    <3>4. running' \subseteq Clients
      BY <1>0, <3>1
    <3>5. \A x \in running' :
            \/ x \in running /\ starts'[x] = starts[x] /\ known'[x] = known[x]
            \/ \A p \in Carried(toClient'[x]) : p.key # starts'[x]
      <4>1. ASSUME NEW x \in running', x # c
            PROVE  x \in running /\ starts'[x] = starts[x] /\ known'[x] = known[x]
        BY <3>1, <3>3, <4>1
      <4>2. \A p \in Carried(toClient'[c]) : p.key # starts'[c]
        BY <3>1, <3>2, <3>3
      <4> QED BY <4>1, <4>2
    <3> QED BY <1>1, <1>2, <3>1, <3>4, <3>5, QuietClients DEF Once
  <2>2. CASE ClientStop(c)
    <3>1. /\ running' = running \ {c} /\ known' = [known EXCEPT ![c] = <<>>]
          /\ UNCHANGED starts
      BY <2>2 DEF ClientStop
    <3>2. \A x \in Clients : known'[x] = known[x] \/ known'[x] = <<>>
      BY <1>0, <3>1
    <3>3. running' \subseteq Clients
      BY <1>0, <3>1
    <3>4. \A x \in running' : x \in running /\ starts'[x] = starts[x] /\ known'[x] = known[x]
      BY <1>0, <3>1
    <3> QED BY <1>1, <1>2, <3>2, <3>3, <3>4, QuietClients DEF Once
  <2>3. CASE \/ HelloAgain(c) \/ ReceiveAck(c) \/ RepeatToHost(c) \/ RepeatToClient(c)
             \/ ClientSays(c)
    <3>1. UNCHANGED <<starts, running, known>>
      BY <2>3 DEF HelloAgain, ReceiveAck, RepeatToHost, RepeatToClient, ClientSays, clientVars
    <3> QED BY <1>0, <1>1, <1>2, <3>1, QuietClients DEF Once
  <2> QED BY <2>1, <2>2, <2>3
<1> QED BY <1>8, <1>9, <1>10 DEF Once

\* A relay begins: its message was waiting for it, and waits no more.
LEMMA RelayBegins ==
  ASSUME TypeOK, Relayed, UNCHANGED <<heard, toClient>>,
         NEW t \in Threads, NEW m \in Messages, BeginRelay(t, m), Waiting(m),
         \A k \in Messages : Waiting(k)' => Waiting(k) /\ k # m
  PROVE  Relayed'
<1>1. NotRelayed(m)
  BY DEF Relayed, RelayedLater
<1>2. /\ relaying'[t].nonce[1] = m /\ relaying'[t].rest = authorized /\ relaying'[t].to = {}
      /\ \A u \in Threads \ {t} : relaying'[u] = relaying[u]
  <2>1. relaying \in [Threads -> Relay]
    BY OnceTypes
  <2> QED BY <2>1 DEF BeginRelay
<1>3. \A u \in Threads \ {t} : relaying[u].nonce[1] # m
  BY <1>1 DEF NotRelayed
<1>4. RelayedLater'
  <2>1. ASSUME NEW k \in Messages, NotRelayed(k), k # m
        PROVE  NotRelayed(k)'
    <3>1. \A x \in Clients : heard'[x][k] = 0 /\ ~Arrived(x, k)'
      BY <2>1 DEF NotRelayed, Arrived
    <3>2. \A u \in Threads : relaying'[u].nonce[1] # k
      BY <1>2, <2>1, Zenon DEF NotRelayed
    <3> QED BY <3>1, <3>2 DEF NotRelayed
  <2> QED BY <2>1 DEF Relayed, RelayedLater
<1>5. ServedOnce'
  <2>1. ASSUME NEW u \in Threads, NEW x \in Clients, NEW k \in Messages,
               Serves(u, x)', relaying'[u].nonce[1] = k
        PROVE  heard'[x][k] = 0 /\ ~Arrived(x, k)'
    <3>1. CASE u = t
      BY <1>1, <1>2, <2>1, <3>1 DEF NotRelayed, Arrived
    <3>2. CASE u # t
      <4>1. relaying'[u] = relaying[u]
        BY <1>2, <3>2
      <4>2. Serves(u, x) /\ relaying[u].nonce[1] = k
        BY <2>1, <4>1 DEF Serves
      <4> QED BY <4>2 DEF Relayed, ServedOnce, Arrived
    <3> QED BY <3>1, <3>2
  <2> QED BY <2>1 DEF ServedOnce
<1>6. NextOnly'
  <2>1. ASSUME NEW u \in Threads PROVE relaying'[u].rest \cap relaying'[u].to = {}
    BY <1>2 DEF Relayed, NextOnly
  <2> QED BY <2>1 DEF NextOnly
<1>7. OneRelay'
  <2>1. ASSUME NEW u \in Threads, NEW v \in Threads, NEW k \in Messages,
               relaying'[u].nonce[1] = k, relaying'[v].nonce[1] = k
        PROVE  u = v
    <3>1. CASE u = t \/ v = t
      BY <1>2, <1>3, <2>1, <3>1, Zenon
    <3>2. CASE u # t /\ v # t
      BY <1>2, <2>1, <3>2 DEF Relayed, OneRelay
    <3> QED BY <3>1, <3>2
  <2> QED BY <2>1 DEF OneRelay
<1> QED BY <1>4, <1>5, <1>6, <1>7 DEF Relayed

LEMMA OnceHostSays ==
  ASSUME TypeOK, Once, HostSays
  PROVE  Once'
<1>1. /\ said < mix.messages /\ relaying["qt"] = NoRelay /\ said' = said + 1
      /\ BeginRelay("qt", said + 1)
      /\ UNCHANGED <<seen, job, toHost, toClient, heard, running, starts, known>>
  BY DEF HostSays, clientVars
<1>2. said + 1 \in Messages /\ said \in Nat /\ Messages \subseteq Nat
  BY <1>1, Saying, OnceTypes
<1>3. "qt" \in Threads /\ relaying \in [Threads -> Relay] /\ running \subseteq Clients
  BY OnceTypes DEF Threads
<1>4. relaying'["qt"].nonce[1] = said + 1
  BY <1>1, <1>3 DEF BeginRelay
<1>5. \A c \in Clients : \A n \in Nonces : Up(c, n)' <=> Up(c, n)
  BY <1>1 DEF Up, OnLink, InJob
<1>6. \A k \in Messages : k > said + 1 => k > said
  BY <1>2
<1>7. \A n \in Nonces : n[1] <= said => n[1] <= said + 1 /\ n[1] # said + 1
  <2>1. \A k \in Nat : k <= said => k <= said + 1 /\ k # said + 1
    BY <1>2
  <2>2. \A n \in Nonces : n[1] \in Nat
    BY <1>2, NonceMessages
  <2> QED BY <2>1, <2>2
<1>8. ~(said + 1 > said + 1) /\ said + 1 > said
  BY <1>2
<1>9. OneSender'
  BY <1>1, <1>5, <1>7, Zenon DEF Once, OneSender
<1>10. ShownByHost'
  <2>1. ASSUME NEW m \in Messages
        PROVE  /\ heard'["host"][m] <= 1
               /\ m > said' => heard'["host"][m] = 0
               /\ relaying'["qt"].nonce[1] = m => heard'["host"][m] = 0
    BY <1>1, <1>4, <1>6, <1>8 DEF Once, ShownByHost
  <2>2. \A m \in Messages : <<m, 0>> \in Nonces
    BY MakeNonce
  <2> QED BY <1>1, <1>5, <2>1, <2>2, Zenon DEF Once, ShownByHost
<1>11. Relayed'
  <2>1. Waiting(said + 1)
    BY <1>8 DEF Waiting
  <2>2. ASSUME NEW k \in Messages, Waiting(k)'
        PROVE  Waiting(k) /\ k # said + 1
    <3>1. <<k, 0>> \in Nonces /\ <<k, 0>>[1] = k
      BY MakeNonce
    <3>2. CASE k > said'
      BY <1>1, <1>6, <1>8, <3>2 DEF Waiting
    <3>3. CASE heard'["host"][k] = 0 /\ \E c \in Clients : Up(c, <<k, 0>>)'
      <4>1. PICK c \in Clients : Up(c, <<k, 0>>)
        BY <1>5, <3>1, <3>3
      <4>2. <<k, 0>>[1] # said + 1
        BY <1>7, <3>1, <4>1 DEF Once, OneSender
      <4> QED BY <1>1, <3>1, <3>3, <4>1, <4>2 DEF Waiting
    <3>4. CASE job'.step = "shown" /\ job'.packet.nonce[1] = k
      <4>1. Waiting(k)
        BY <1>1, <3>4 DEF Waiting
      <4>2. heard["host"][k] > 0 /\ heard["host"][said + 1] = 0
        BY <1>1, <1>2, <1>8, <3>4 DEF Once, ShownByHost
      <4> QED BY <4>1, <4>2
    <3> QED BY <2>2, <3>2, <3>3, <3>4 DEF Waiting
  <2> QED BY <1>1, <1>2, <1>3, <2>1, <2>2, RelayBegins DEF Once
<1>12. Delivered' /\ SeenDistinct'
  <2>1. Delivered'
    BY <1>1, <1>3, QuietClients DEF Once
  <2> QED BY <1>1, <2>1 DEF Once, SeenDistinct
<1> QED BY <1>9, <1>10, <1>11, <1>12 DEF Once

LEMMA OnceRelayReceived ==
  ASSUME TypeOK, Once, NEW c \in Clients, RelayReceived(c)
  PROVE  Once'
<1> DEFINE m == job.packet.nonce[1]
<1>1. /\ job.from = {c} /\ job.step = "shown" /\ job' = NoJob
      /\ BeginRelay("receive", m)
      /\ UNCHANGED <<said, seen, toHost, toClient, heard, running, starts, known>>
  BY DEF RelayReceived, At, clientVars
<1>2. /\ "receive" \in Threads /\ "qt" \in Threads /\ "qt" # "receive"
      /\ relaying \in [Threads -> Relay] /\ running \subseteq Clients /\ job \in Job
  BY OnceTypes DEF Threads
<1>3. job.packet.nonce \in Nonces /\ m \in Messages /\ job.packet.kind = "message"
  BY <1>1, <1>2, Jobs, Packets, NonceMessages
<1>4. Waiting(m)
  BY <1>1 DEF Waiting
<1>5. relaying'["qt"] = relaying["qt"]
  BY <1>1, <1>2 DEF BeginRelay
<1>6. job'.from = {} /\ job'.step = "idle"
  BY <1>1, Jobs
<1>7. \A d \in Clients, n \in Nonces : Up(d, n)' => Up(d, n)
  <2>1. \A d \in Clients, n \in Nonces : InJob(d, n)' => Up(d, n)
    BY <1>6 DEF InJob
  <2> QED BY <1>1, <2>1, SameLink, UpShrinks
<1>8. OneSender' /\ ShownByHost' /\ SeenDistinct'
  BY <1>1, <1>5, <1>6, <1>7, QuietUp DEF Once
<1>9. Relayed'
  <2>1. m <= said
    <3>1. Up(c, job.packet.nonce)
      BY <1>1, <1>3 DEF Up, InJob
    <3> QED BY <1>3, <3>1 DEF Once, OneSender
  <2>2. heard["host"][m] > 0
    BY <1>1, <1>3 DEF Once, ShownByHost
  <2>3. ASSUME NEW k \in Messages, Waiting(k)'
        PROVE  Waiting(k) /\ k # m
    <3>1. <<k, 0>> \in Nonces /\ m \in Nat /\ said \in Nat /\ heard["host"][m] \in Nat
      BY <1>3, MakeNonce, OnceTypes
    <3>2. CASE k > said'
      <4>1. k > said /\ k # m
        BY <1>1, <2>1, <3>1, <3>2
      <4> QED BY <4>1 DEF Waiting
    <3>3. CASE heard'["host"][k] = 0 /\ \E d \in Clients : Up(d, <<k, 0>>)'
      <4>1. heard["host"][k] = 0 /\ \E d \in Clients : Up(d, <<k, 0>>)
        BY <1>1, <1>7, <3>1, <3>3
      <4>2. k # m
        BY <2>2, <4>1
      <4> QED BY <4>1, <4>2 DEF Waiting
    <3> QED BY <1>6, <2>3, <3>2, <3>3 DEF Waiting
  <2> HIDE DEF m
  <2> QED BY <1>1, <1>2, <1>3, <1>4, <2>3, RelayBegins DEF Once
<1>10. Delivered'
  BY <1>1, <1>2, QuietClients DEF Once
<1> QED BY <1>8, <1>9, <1>10 DEF Once

LEMMA OncePickKey ==
  ASSUME TypeOK, Once, NEW t \in Threads, NEW c \in Clients, PickKey(t, c)
  PROVE  Once'
<1>1. HostTypes /\ running \subseteq Clients /\ relaying \in [Threads -> Relay]
  BY OnceTypes DEF TypeOK
<1>2. /\ relaying[t].to = {} /\ c \in relaying[t].rest
      /\ UNCHANGED <<said, seen, job, toHost, toClient, heard, running, starts, known>>
  BY <1>1, Picking DEF clientVars, history
<1>3. PICK r \in Relay : /\ relaying' = [relaying EXCEPT ![t] = r]
                         /\ r.nonce = relaying[t].nonce /\ r.rest = relaying[t].rest \ {c}
                         /\ r.to \in {{}, {c}}
  BY <1>1, Picking
<1>4. relaying'[t] = r /\ \A u \in Threads \ {t} : relaying'[u] = relaying[u]
  BY <1>1, <1>3
<1>5. ASSUME NEW u \in Threads
      PROVE  /\ relaying'[u].nonce = relaying[u].nonce
             /\ \A x \in Clients : Serves(u, x)' => Serves(u, x)
             /\ relaying'[u].rest \cap relaying'[u].to = {}
  <2>1. CASE u = t
    <3>1. /\ r.nonce = relaying[t].nonce
          /\ \A x \in Clients : x \in r.rest \cup r.to => x \in relaying[t].rest \cup relaying[t].to
          /\ r.rest \cap r.to = {}
      BY <1>2, <1>3
    <3> QED BY <1>4, <2>1, <3>1 DEF Serves
  <2>2. CASE u # t
    BY <1>4, <2>2 DEF Serves, Once, Relayed, NextOnly
  <2> QED BY <2>1, <2>2
<1>6. \A d \in Clients, n \in Nonces : Up(d, n)' => Up(d, n)
  BY <1>2 DEF Up, OnLink, InJob
<1>7. "qt" \in Threads
  BY DEF Threads
<1>8. OneSender' /\ ShownByHost' /\ SeenDistinct'
  BY <1>2, <1>5, <1>6, <1>7, QuietUp DEF Once
<1>9. Relayed'
  BY <1>2, <1>5, <1>6, QuietRelays DEF Once
<1>10. Delivered'
  BY <1>1, <1>2, QuietClients DEF Once
<1> QED BY <1>8, <1>9, <1>10 DEF Once

LEMMA OnceSendSealed ==
  ASSUME TypeOK, Once, NEW t \in Threads, NEW c \in Clients, SendSealed(t, c)
  PROVE  Once'
<1> DEFINE p == Sealed(relaying[t].key, relaying[t].nonce)
           m == relaying[t].nonce[1]
<1>1. /\ HostTypes /\ running \subseteq Clients /\ relaying \in [Threads -> Relay]
      /\ toClient \in [Clients -> Seq(Packet)]
  BY OnceTypes DEF TypeOK
<1>2. /\ relaying[t].to = {c} /\ relaying[t].key \in Keys /\ relaying[t].nonce \in Nonces
      /\ toClient' = [toClient EXCEPT ![c] = Append(toClient[c], p)]
      /\ UNCHANGED <<said, seen, job, toHost, heard, running, starts, known>>
  BY <1>1, SendingSealed DEF clientVars, history
<1>3. PICK r \in Relay : /\ relaying' = [relaying EXCEPT ![t] = r]
                         /\ r.nonce = relaying[t].nonce /\ r.rest = relaying[t].rest
                         /\ r.to = {}
  BY <1>1, SendingSealed
<1>4. relaying'[t] = r /\ \A u \in Threads \ {t} : relaying'[u] = relaying[u]
  BY <1>1, <1>3
<1>5. p \in Packet /\ p.nonce = relaying[t].nonce /\ p.nonce[1] = m /\ m \in Messages
  BY <1>2, Packets, NonceMessages DEF Sealed
<1>6. relaying[t].nonce[1] = m
  OBVIOUS
<1> HIDE DEF p, m
<1>7. Carried(Append(toClient[c], p)) \subseteq Carried(toClient[c]) \cup {p}
  BY <1>1, <1>5, Carrying
<1>8. /\ Carried(toClient'[c]) \subseteq Carried(toClient[c]) \cup {p}
      /\ \A x \in Clients \ {c} : toClient'[x] = toClient[x]
  BY <1>1, <1>2, <1>7
<1>9. Serves(t, c) /\ c \notin relaying[t].rest
  BY <1>2 DEF Serves, Once, Relayed, NextOnly
<1>10. heard[c][m] = 0 /\ ~Arrived(c, m)
  BY <1>5, <1>6, <1>9 DEF Once, Relayed, ServedOnce
<1>11. ASSUME NEW x \in Clients, NEW k \in Messages, x # c \/ k # m, Arrived(x, k)'
       PROVE  Arrived(x, k)
  <2>1. PICK q \in Carried(toClient'[x]) : q.nonce[1] = k
    BY <1>11 DEF Arrived
  <2>2. q \in Carried(toClient[x])
    BY <1>5, <1>8, <1>11, <2>1
  <2> QED BY <2>1, <2>2 DEF Arrived
<1>12. ASSUME NEW u \in Threads
       PROVE  /\ relaying'[u].nonce = relaying[u].nonce
              /\ \A x \in Clients : Serves(u, x)' => Serves(u, x) /\ (u = t => x # c)
              /\ relaying'[u].rest \cap relaying'[u].to = {}
  <2>1. CASE u = t
    BY <1>3, <1>4, <1>9, <2>1 DEF Serves
  <2>2. CASE u # t
    BY <1>4, <2>2 DEF Serves, Once, Relayed, NextOnly
  <2> QED BY <2>1, <2>2
<1>13. \A d \in Clients, n \in Nonces : Up(d, n)' <=> Up(d, n)
  BY <1>2 DEF Up, OnLink, InJob
<1>14. OneSender' /\ ShownByHost' /\ SeenDistinct'
  <2>1. "qt" \in Threads
    BY DEF Threads
  <2> QED BY <1>2, <1>12, <1>13, <2>1, QuietUp DEF Once
<1>15. Relayed'
  <2>1. RelayedLater'
    <3>1. ASSUME NEW k \in Messages, Waiting(k)'
          PROVE  NotRelayed(k)'
      <4>1. <<k, 0>> \in Nonces
        BY MakeNonce
      <4>2. Waiting(k)
        BY <1>2, <1>13, <3>1, <4>1, Zenon DEF Waiting
      <4>3. NotRelayed(k)
        BY <4>2 DEF Once, Relayed, RelayedLater
      <4>4. k # m
        BY <1>6, <4>3 DEF NotRelayed
      <4> QED BY <1>2, <1>11, <1>12, <4>3, <4>4, Zenon DEF NotRelayed
    <3> QED BY <3>1 DEF RelayedLater
  <2>2. ServedOnce'
    <3>1. ASSUME NEW u \in Threads, NEW x \in Clients, NEW k \in Messages,
                 Serves(u, x)', relaying'[u].nonce[1] = k
          PROVE  heard'[x][k] = 0 /\ ~Arrived(x, k)'
      <4>1. Serves(u, x) /\ relaying[u].nonce[1] = k
        BY <1>12, <3>1
      <4>2. heard[x][k] = 0 /\ ~Arrived(x, k)
        BY <4>1 DEF Once, Relayed, ServedOnce
      <4>3. x # c \/ k # m
        <5>1. CASE u = t
          BY <1>12, <3>1, <5>1
        <5>2. CASE u # t
          BY <1>5, <1>6, <4>1, <5>2 DEF Once, Relayed, OneRelay
        <5> QED BY <5>1, <5>2
      <4> QED BY <1>2, <1>11, <4>2, <4>3
    <3> QED BY <3>1 DEF ServedOnce
  <2>3. NextOnly'
    BY <1>12 DEF NextOnly
  <2>4. OneRelay'
    BY <1>12, Zenon DEF Once, Relayed, OneRelay
  <2> QED BY <2>1, <2>2, <2>3, <2>4 DEF Relayed
<1>16. Delivered'
  <2>1. Copies'
    <3>1. ASSUME NEW x \in Clients, NEW q \in Carried(toClient'[x]),
                 NEW s \in Carried(toClient'[x]), q.nonce[1] = s.nonce[1]
          PROVE  q = s
      <4>1. CASE x # c
        BY <1>8, <3>1, <4>1 DEF Once, Delivered, Copies
      <4>2. CASE x = c
        <5>1. \A e \in Carried(toClient[c]) : e.nonce[1] # m
          BY <1>10 DEF Arrived
        <5> QED BY <1>5, <1>8, <3>1, <4>2, <5>1 DEF Once, Delivered, Copies
      <4> QED BY <4>1, <4>2
    <3> QED BY <3>1 DEF Copies
  <2>2. KnownWhenShown'
    <3>1. ASSUME NEW x \in running, NEW q \in Carried(toClient'[x]),
                 q.key = starts[x], heard[x][q.nonce[1]] > 0
          PROVE  q.nonce \in ToSet(known[x])
      <4>1. q \in Carried(toClient[x])
        <5>1. CASE x # c
          BY <1>1, <1>8, <3>1, <5>1
        <5>2. CASE x = c
          BY <1>5, <1>8, <1>10, <3>1, <5>2
        <5> QED BY <5>1, <5>2
      <4> QED BY <3>1, <4>1 DEF Once, Delivered, KnownWhenShown
    <3> QED BY <1>2, <3>1 DEF KnownWhenShown
  <2>3. ShownOnce' /\ KnownDistinct'
    BY <1>2 DEF Once, Delivered, ShownOnce, KnownDistinct
  <2> QED BY <2>1, <2>2, <2>3 DEF Delivered
<1> QED BY <1>14, <1>15, <1>16 DEF Once

\* A message is shown to one, who has not seen it.
LEMMA ShownTo ==
  ASSUME TypeOK, NEW w \in Clients \cup {"host"}, NEW m \in Messages, Shown(w, m)
  PROVE  /\ heard'[w][m] = heard[w][m] + 1
         /\ \A x \in Clients \cup {"host"}, k \in Messages :
               x # w \/ k # m => heard'[x][k] = heard[x][k]
<1>1. heard \in [Clients \cup {"host"} -> [Messages -> Nat]]
  BY OnceTypes
<1>2. heard' = [heard EXCEPT ![w] = [heard[w] EXCEPT ![m] = heard[w][m] + 1]]
  BY DEF Shown
<1> QED BY <1>1, <1>2

LEMMA OnceEndRelay ==
  ASSUME TypeOK, Once, NEW t \in Threads, EndRelay(t)
  PROVE  Once'
<1>1. /\ relaying[t] # NoRelay /\ relaying' = [relaying EXCEPT ![t] = NoRelay]
      /\ UNCHANGED <<said, seen, job, toHost, toClient, running, starts, known>>
  BY DEF EndRelay, clientVars
<1>2. relaying \in [Threads -> Relay] /\ running \subseteq Clients /\ "qt" \in Threads
  BY OnceTypes DEF Threads
<1>3. relaying'[t] = NoRelay /\ \A u \in Threads \ {t} : relaying'[u] = relaying[u]
  BY <1>1, <1>2
<1>4. \A d \in Clients, n \in Nonces : Up(d, n)' <=> Up(d, n)
  BY <1>1 DEF Up, OnLink, InJob
<1>5. \A u \in Threads :
            \/ relaying'[u] = NoRelay
            \/ /\ relaying'[u].nonce = relaying[u].nonce
               /\ \A x \in Clients : Serves(u, x)' => Serves(u, x)
               /\ relaying'[u].rest \cap relaying'[u].to = {}
  BY <1>3 DEF Serves, Once, Relayed, NextOnly
<1>6. CASE t # "qt"
  <2>1. UNCHANGED heard
    BY <1>6 DEF EndRelay
  <2>2. relaying'["qt"].nonce = relaying["qt"].nonce \/ relaying'["qt"] = NoRelay
    BY <1>2, <1>5
  <2>3. OneSender' /\ ShownByHost' /\ SeenDistinct'
    BY <1>1, <1>4, <2>1, <2>2, QuietUp DEF Once
  <2>4. Relayed'
    BY <1>1, <1>4, <1>5, <2>1, QuietRelays DEF Once
  <2>5. Delivered'
    BY <1>1, <1>2, <2>1, QuietClients DEF Once
  <2> QED BY <2>3, <2>4, <2>5 DEF Once
<1>7. CASE t = "qt"
  <2> DEFINE m == relaying["qt"].nonce[1]
  <2>1. Shown("host", m)
    BY <1>7 DEF EndRelay
  <2>2. m \in Messages
    BY <1>1, <1>7, RelayNonces
  <2>3. heard["host"][m] = 0
    BY <2>2 DEF Once, ShownByHost
  <2> HIDE DEF m
  <2>4. /\ heard'["host"][m] = 1
        /\ \A k \in Messages : k # m => heard'["host"][k] = heard["host"][k]
    BY <2>1, <2>2, <2>3, ShownTo
  <2>5. \A x \in Clients, k \in Messages : heard'[x][k] = heard[x][k]
    <3>1. \A x \in Clients : x \in Clients \cup {"host"} /\ x # "host"
      BY OnceTypes
    <3>2. \A x \in Clients \cup {"host"}, k \in Messages :
             x # "host" \/ k # m => heard'[x][k] = heard[x][k]
      BY <2>1, <2>2, ShownTo
    <3> QED BY <3>1, <3>2, Zenon
  <2>6. ~Waiting(m)
    <3>1. ~NotRelayed(m)
      BY <1>2 DEF NotRelayed, m
    <3> QED BY <2>2, <3>1 DEF Once, Relayed, RelayedLater
  <2>7. \A k \in Messages : <<k, 0>> \in Nonces
    BY MakeNonce
  <2>8. ASSUME NEW k \in Messages, Waiting(k)'
        PROVE  Waiting(k)
    <3>1. k # m => heard'["host"][k] = heard["host"][k]
      BY <2>4
    <3>2. k = m => heard["host"][k] = 0
      BY <2>3
    <3> QED BY <1>1, <1>4, <2>7, <2>8, <3>1, <3>2, Zenon DEF Waiting
  <2>9. ShownByHost'
    <3>1. ASSUME NEW k \in Messages
          PROVE  /\ heard'["host"][k] <= 1
                 /\ k > said' => heard'["host"][k] = 0
                 /\ relaying'["qt"].nonce[1] = k => heard'["host"][k] = 0
                 /\ job'.step = "shown" /\ job'.packet.nonce[1] = k => heard'["host"][k] > 0
                 /\ \A c \in Clients :
                       Up(c, <<k, 0>>)' /\ heard'["host"][k] > 0 => <<k, 0>> \in ToSet(seen'[c])
      <4>1. relaying'["qt"].nonce[1] # k
        BY <1>3, <1>7, <3>1, RelayNonces
      <4>2. CASE k = m
        <5>1. /\ ~(m > said)
              /\ \A c \in Clients : ~Up(c, <<m, 0>>)
          BY <2>3, <2>6 DEF Waiting
        <5> QED BY <1>1, <1>4, <2>4, <2>7, <4>1, <4>2, <5>1
      <4>3. CASE k # m
        <5>1. heard'["host"][k] = heard["host"][k]
          BY <2>4, <4>3
        <5> QED BY <1>1, <1>4, <2>7, <4>1, <5>1, Zenon DEF Once, ShownByHost
      <4> QED BY <4>2, <4>3
    <3> QED BY <3>1, Zenon DEF ShownByHost
  <2>10. OneSender' /\ SeenDistinct'
    BY <1>1, <1>4, Zenon DEF Once, OneSender, SeenDistinct
  <2>11. Relayed'
    BY <1>1, <1>5, <2>5, <2>8, RelaysGoOn DEF Once
  <2>12. Delivered'
    BY <1>1, <1>2, <2>5, QuietClients DEF Once
  <2> QED BY <2>9, <2>10, <2>11, <2>12 DEF Once
<1> QED BY <1>6, <1>7

\* The host shows a message when its nonce is new in the window of its sender.
LEMMA OnceCheckNonce ==
  ASSUME TypeOK, Once, said <= Window, NEW c \in Clients, CheckNonce(c)
  PROVE  Once'
<1> DEFINE n == job.packet.nonce
           m == n[1]
<1>0. /\ job \in Job /\ relaying \in [Threads -> Relay] /\ running \subseteq Clients
      /\ seen \in [Clients -> Seq(Nonces)] /\ ToSet(seen[c]) \subseteq Nonces
      /\ said \in Nat /\ "qt" \in Threads
      /\ job = [step |-> job.step, from |-> job.from, packet |-> job.packet]
  BY OnceTypes, Jobs DEF Threads
<1>1. /\ job.from = {c} /\ job.step = "opened"
      /\ UNCHANGED <<said, relaying, toHost, toClient, running, starts, known>>
  BY DEF CheckNonce, At, clientVars
<1>2. n \in Nonces /\ m \in Messages /\ job.packet.kind = "message"
  BY <1>0, <1>1, Jobs, Packets, NonceMessages
<1>3. Up(c, n)
  BY <1>1, <1>2 DEF Up, InJob
<1>4. n = <<m, 0>> /\ m <= said /\ \A d \in Clients : Up(d, n) => d = c
  BY <1>2, <1>3 DEF Once, OneSender
<1>5. \A u \in Threads : /\ relaying'[u].nonce = relaying[u].nonce
                         /\ \A x \in Clients : Serves(u, x)' => Serves(u, x)
                         /\ relaying'[u].rest \cap relaying'[u].to = {}
  BY <1>1 DEF Serves, Once, Relayed, NextOnly
<1>6. CASE n \in ToSet(seen[c])
  <2>1. job' = NoJob /\ UNCHANGED <<seen, heard>>
    BY <1>6 DEF CheckNonce
  <2>2. job'.from = {} /\ job'.step = "idle"
    BY <2>1, Jobs
  <2>3. \A d \in Clients, k \in Nonces : Up(d, k)' => Up(d, k)
    <3>1. \A d \in Clients, k \in Nonces : InJob(d, k)' => Up(d, k)
      BY <2>2 DEF InJob
    <3> QED BY <1>1, <2>1, <3>1, SameLink, UpShrinks
  <2>4. OneSender' /\ ShownByHost' /\ SeenDistinct'
    BY <1>0, <1>1, <1>5, <2>1, <2>2, <2>3, QuietUp DEF Once
  <2>5. Relayed'
    BY <1>1, <1>5, <2>1, <2>2, <2>3, QuietRelays DEF Once
  <2>6. Delivered'
    BY <1>0, <1>1, <2>1, QuietClients DEF Once
  <2> QED BY <2>4, <2>5, <2>6 DEF Once
<1>7. CASE n \notin ToSet(seen[c])
  <2>1. /\ job' = [job EXCEPT !.step = "shown"]
        /\ seen' = [seen EXCEPT ![c] = Remembered(seen[c], n)]
        /\ Shown("host", m)
    BY <1>7 DEF CheckNonce
  <2>2. job'.step = "shown" /\ job'.from = job.from /\ job'.packet = job.packet
    BY <1>0, <2>1
  <2>3. ASSUME NEW d \in Clients, NEW k \in Nonces, InJob(d, k)'
        PROVE  InJob(d, k)
    BY <2>2, <2>3 DEF InJob
  <2>4. job'.packet.nonce[1] = m
    BY <2>2
  <2> HIDE DEF n, m
  <2>5. heard["host"][m] = 0
    <3>1. heard["host"][m] \in Nat
      BY <1>2, OnceTypes
    <3>2. ~(heard["host"][m] > 0)
      BY <1>2, <1>3, <1>4, <1>7 DEF Once, ShownByHost
    <3> QED BY <3>1, <3>2
  <2>6. /\ heard'["host"][m] = 1
        /\ \A k \in Messages : k # m => heard'["host"][k] = heard["host"][k]
    BY <1>2, <2>1, <2>5, ShownTo
  <2>7. \A x \in Clients, k \in Messages : heard'[x][k] = heard[x][k]
    <3>1. \A x \in Clients : x \in Clients \cup {"host"} /\ x # "host"
      BY OnceTypes
    <3>2. \A x \in Clients \cup {"host"}, k \in Messages :
             x # "host" \/ k # m => heard'[x][k] = heard[x][k]
      BY <1>2, <2>1, ShownTo
    <3> QED BY <3>1, <3>2, Zenon
  <2>8. Waiting(m)
    BY <1>3, <1>4, <2>5 DEF Waiting
  <2>9. relaying["qt"].nonce[1] # m
    BY <1>0, <1>2, <2>8 DEF Once, Relayed, RelayedLater, NotRelayed
  <2>10. /\ ToSet(Remembered(seen[c], n)) = ToSet(seen[c]) \cup {n}
         /\ Distinct(Remembered(seen[c], n))
    <3>1. ASSUME NEW e \in ToSet(seen[c])
          PROVE  e[1] <= said /\ e[1] # n[1]
      <4>1. e \in Nonces /\ Up(c, e)
        BY <1>0, <3>1 DEF Up
      <4>2. e = <<e[1], 0>> /\ e[1] <= said
        BY <4>1 DEF Once, OneSender
      <4>3. n = <<n[1], 0>>
        BY <1>4 DEF m
      <4> QED BY <1>7, <3>1, <4>2, <4>3
    <3>2. n[1] <= said
      BY <1>4 DEF m
    <3> QED BY <1>0, <1>2, <3>1, <3>2, NothingForgotten DEF Once, SeenDistinct
  <2>11. /\ ToSet(seen'[c]) = ToSet(seen[c]) \cup {n} /\ Distinct(seen'[c])
         /\ \A d \in Clients \ {c} : seen'[d] = seen[d]
    BY <1>0, <2>1, <2>10
  <2>12. \A d \in Clients, k \in Nonces : Up(d, k)' => Up(d, k)
    <3>1. ASSUME NEW d \in Clients, NEW k \in Nonces, k \in ToSet(seen'[d])
          PROVE  Up(d, k)
      <4>1. CASE d = c
        BY <1>3, <2>11, <3>1, <4>1 DEF Up
      <4>2. CASE d # c
        BY <2>11, <3>1, <4>2 DEF Up
      <4> QED BY <4>1, <4>2
    <3>2. \A d \in Clients, k \in Nonces : OnLink(d, k)' => OnLink(d, k)
      BY <1>1 DEF OnLink
    <3> QED BY <2>3, <3>1, <3>2, Zenon DEF Up
  <2>13. \A k \in Messages : <<k, 0>> \in Nonces
    BY MakeNonce
  <2>14. ShownByHost'
    <3>1. ASSUME NEW k \in Messages
          PROVE  /\ heard'["host"][k] <= 1
                 /\ k > said' => heard'["host"][k] = 0
                 /\ relaying'["qt"].nonce[1] = k => heard'["host"][k] = 0
                 /\ job'.step = "shown" /\ job'.packet.nonce[1] = k => heard'["host"][k] > 0
                 /\ \A d \in Clients :
                       Up(d, <<k, 0>>)' /\ heard'["host"][k] > 0 => <<k, 0>> \in ToSet(seen'[d])
      <4>1. CASE k = m
        <5>1. ~(m > said)
          BY <1>0, <1>2, <1>4, OnceTypes
        <5>2. \A d \in Clients : Up(d, <<m, 0>>) => d = c
          BY <1>4
        <5>3. <<m, 0>> \in ToSet(seen'[c])
          BY <1>4, <2>11
        <5> QED BY <1>1, <2>6, <2>9, <2>12, <2>13, <4>1, <5>1, <5>2, <5>3
      <4>2. CASE k # m
        <5>1. heard'["host"][k] = heard["host"][k]
          BY <2>6, <4>2
        <5>2. \A d \in Clients : ToSet(seen[d]) \subseteq ToSet(seen'[d])
          BY <2>11
        <5>3. ASSUME NEW d \in Clients, Up(d, <<k, 0>>)', heard'["host"][k] > 0
              PROVE  <<k, 0>> \in ToSet(seen'[d])
          <6>1. Up(d, <<k, 0>>)
            BY <2>12, <2>13, <5>3
          <6> QED BY <5>1, <5>2, <5>3, <6>1 DEF Once, ShownByHost
        <5>4. job'.packet.nonce[1] # k
          BY <2>4, <4>2
        <5> QED BY <1>1, <5>1, <5>3, <5>4, Zenon DEF Once, ShownByHost
      <4> QED BY <4>1, <4>2
    <3> QED BY <3>1, Zenon DEF ShownByHost
  <2>15. OneSender'
    BY <1>1, <2>12, Zenon DEF Once, OneSender
  <2>16. SeenDistinct'
    BY <2>11 DEF Once, SeenDistinct
  <2>17. ASSUME NEW k \in Messages, Waiting(k)'
         PROVE  Waiting(k)
    <3>1. CASE k = m
      BY <2>8, <3>1
    <3>2. CASE k # m
      <4>1. heard'["host"][k] = heard["host"][k] /\ job'.packet.nonce[1] # k
        BY <2>4, <2>6, <3>2
      <4> QED BY <1>1, <2>12, <2>13, <2>17, <4>1, Zenon DEF Waiting
    <3> QED BY <3>1, <3>2
  <2>18. Relayed'
    BY <1>1, <1>5, <2>7, <2>17, RelaysGoOn DEF Once
  <2>19. Delivered'
    BY <1>0, <1>1, <2>7, QuietClients DEF Once
  <2> QED BY <2>14, <2>15, <2>16, <2>18, <2>19 DEF Once
<1> QED BY <1>6, <1>7

\* A client shows a message when it can open it and its nonce is new.
LEMMA OnceReceiveMessage ==
  ASSUME TypeOK, RememberedIsShown, Once, said <= Window, NEW c \in Clients, ReceiveMessage(c)
  PROVE  Once'
<1> DEFINE p == Head(toClient[c])
           m == p.nonce[1]
<1>0. /\ toClient \in [Clients -> Seq(Packet)] /\ relaying \in [Threads -> Relay]
      /\ running \subseteq Clients /\ known \in [Clients -> Seq(Nonces)]
      /\ ToSet(known[c]) \subseteq Nonces /\ said \in Nat /\ "qt" \in Threads
  BY OnceTypes DEF Threads
<1>1. /\ c \in running /\ toClient[c] # <<>> /\ p.kind = "message"
      /\ toClient' = [toClient EXCEPT ![c] = Tail(toClient[c])]
      /\ UNCHANGED <<said, seen, job, relaying, toHost, running, starts>>
  BY DEF ReceiveMessage, hostVars
<1>2. p \in Carried(toClient[c]) /\ Carried(Tail(toClient[c])) \subseteq Carried(toClient[c])
  BY <1>0, <1>1, CarryingOff
<1>3. \A x \in Clients : Carried(toClient'[x]) \subseteq Carried(toClient[x])
  BY <1>0, <1>1, <1>2
<1>4. p.nonce \in Nonces /\ m \in Messages
  BY <1>2, OnceTypes
<1>5. \A d \in Clients, n \in Nonces : Up(d, n)' <=> Up(d, n)
  BY <1>1 DEF Up, OnLink, InJob
<1>6. \A u \in Threads : /\ relaying'[u].nonce = relaying[u].nonce
                         /\ \A x \in Clients : Serves(u, x)' <=> Serves(u, x)
                         /\ relaying'[u].rest \cap relaying'[u].to = {}
  BY <1>1 DEF Serves, Once, Relayed, NextOnly
<1>7. CASE UNCHANGED <<known, heard>>
  <2>1. OneSender' /\ ShownByHost' /\ SeenDistinct'
    BY <1>0, <1>1, <1>5, <1>6, <1>7, QuietUp DEF Once
  <2>2. Relayed'
    BY <1>1, <1>3, <1>5, <1>6, <1>7, QuietRelays DEF Once
  <2>3. Delivered'
    BY <1>0, <1>1, <1>3, <1>7, QuietClients DEF Once
  <2> QED BY <2>1, <2>2, <2>3 DEF Once
<1>8. CASE /\ p.key = starts[c] /\ p.nonce \notin ToSet(known[c])
           /\ known' = [known EXCEPT ![c] = Remembered(known[c], p.nonce)]
           /\ Shown(c, m)
  <2>1. heard[c][m] = 0
    <3>1. heard[c][m] \in Nat
      BY <1>4, OnceTypes
    <3>2. ~(heard[c][m] > 0)
      BY <1>1, <1>2, <1>8 DEF Once, Delivered, KnownWhenShown
    <3> QED BY <3>1, <3>2
  <2>2. Arrived(c, m)
    BY <1>2 DEF Arrived
  <2> HIDE DEF p, m
  <2>3. /\ heard'[c][m] = 1
        /\ \A x \in Clients, k \in Messages : x # c \/ k # m => heard'[x][k] = heard[x][k]
        /\ \A k \in Messages : heard'["host"][k] = heard["host"][k]
    <3>1. c \in Clients \cup {"host"} /\ "host" \in Clients \cup {"host"} /\ c # "host"
      BY OnceTypes
    <3>2. /\ heard'[c][m] = heard[c][m] + 1
          /\ \A x \in Clients \cup {"host"}, k \in Messages :
                x # c \/ k # m => heard'[x][k] = heard[x][k]
      BY <1>4, <1>8, <3>1, ShownTo
    <3>3. heard'[c][m] = 1
      BY <2>1, <3>2
    <3>4. \A x \in Clients : x \in Clients \cup {"host"}
      OBVIOUS
    <3> QED BY <3>1, <3>2, <3>3, <3>4, Zenon
  <2>4. ~Waiting(m)
    BY <1>4, <2>2 DEF Once, Relayed, RelayedLater, NotRelayed
  <2>5. m <= said
    <3>1. m \in Nat /\ ~(m > said)
      BY <1>4, <2>4, OnceTypes DEF Waiting
    <3> QED BY <1>0, <3>1
  <2>6. /\ ToSet(Remembered(known[c], p.nonce)) = ToSet(known[c]) \cup {p.nonce}
        /\ Distinct(Remembered(known[c], p.nonce))
    <3>1. ASSUME NEW e \in ToSet(known[c])
          PROVE  e[1] <= said /\ e[1] # p.nonce[1]
      <4>1. heard[c][e[1]] > 0 /\ e[1] \in Messages
        BY <1>0, <3>1, NonceMessages DEF RememberedIsShown
      <4>2. heard[c][e[1]] # 0
        BY <4>1, OnceTypes
      <4>3. e[1] # m
        BY <2>1, <4>2
      <4>4. ~NotRelayed(e[1])
        BY <4>2 DEF NotRelayed
      <4>5. ~(e[1] > said)
        BY <4>1, <4>4 DEF Once, Relayed, RelayedLater, Waiting
      <4>6. e[1] \in Nat
        BY <4>1, OnceTypes
      <4> QED BY <1>0, <4>3, <4>5, <4>6 DEF m
    <3>2. p.nonce[1] <= said
      BY <2>5 DEF m
    <3> QED BY <1>0, <1>4, <3>1, <3>2, NothingForgotten DEF Once, Delivered, KnownDistinct
  <2>7. /\ ToSet(known'[c]) = ToSet(known[c]) \cup {p.nonce} /\ Distinct(known'[c])
        /\ \A x \in Clients \ {c} : known'[x] = known[x]
    BY <1>0, <1>8, <2>6
  <2>8. \A k \in Messages : <<k, 0>> \in Nonces
    BY MakeNonce
  <2>9. \A k \in Messages : Waiting(k)' <=> Waiting(k)
    BY <1>1, <1>5, <2>3, <2>8, Zenon DEF Waiting
  <2>10. OneSender' /\ SeenDistinct'
    BY <1>1, <1>5, Zenon DEF Once, OneSender, SeenDistinct
  <2>11. ShownByHost'
    BY <1>1, <1>5, <2>3, <2>8, Zenon DEF Once, ShownByHost
  <2>12. \A x \in Clients, k \in Messages : Arrived(x, k)' => Arrived(x, k)
    BY <1>3, Zenon DEF Arrived
  <2>13. Relayed'
    <3>1. RelayedLater'
      <4>1. ASSUME NEW k \in Messages, Waiting(k)'
            PROVE  NotRelayed(k)'
        <5>1. Waiting(k) /\ k # m
          BY <2>4, <2>9, <4>1
        <5>2. NotRelayed(k)
          BY <5>1 DEF Once, Relayed, RelayedLater
        <5>3. \A x \in Clients : heard'[x][k] = heard[x][k]
          BY <2>3, <5>1
        <5> QED BY <1>6, <2>12, <5>2, <5>3 DEF NotRelayed
      <4> QED BY <4>1 DEF RelayedLater
    <3>2. ServedOnce'
      <4>1. ASSUME NEW u \in Threads, NEW x \in Clients, NEW k \in Messages,
                   Serves(u, x)', relaying'[u].nonce[1] = k
            PROVE  heard'[x][k] = 0 /\ ~Arrived(x, k)'
        <5>1. Serves(u, x) /\ relaying[u].nonce[1] = k
          BY <1>6, <4>1
        <5>2. heard[x][k] = 0 /\ ~Arrived(x, k)
          BY <5>1 DEF Once, Relayed, ServedOnce
        <5>3. x # c \/ k # m
          BY <2>2, <5>2
        <5> QED BY <2>3, <2>12, <5>2, <5>3
      <4> QED BY <4>1 DEF ServedOnce
    <3>3. NextOnly' /\ OneRelay'
      BY <1>1 DEF Once, Relayed, NextOnly, OneRelay
    <3> QED BY <3>1, <3>2, <3>3 DEF Relayed
  <2>14. Delivered'
    <3>1. Copies'
      BY <1>3, Zenon DEF Once, Delivered, Copies
    <3>2. ShownOnce'
      <4>1. ASSUME NEW x \in Clients, NEW k \in Messages
            PROVE  heard'[x][k] <= 1
        <5>1. CASE x = c /\ k = m
          BY <2>3, <5>1
        <5>2. CASE x # c \/ k # m
          <6>1. heard'[x][k] = heard[x][k]
            BY <2>3, <5>2
          <6> QED BY <6>1 DEF Once, Delivered, ShownOnce
        <5> QED BY <5>1, <5>2
      <4> QED BY <4>1 DEF ShownOnce
    <3>3. KnownWhenShown'
      <4>1. ASSUME NEW x \in running, NEW q \in Carried(toClient'[x]),
                   q.key = starts[x], heard'[x][q.nonce[1]] > 0
            PROVE  q.nonce \in ToSet(known'[x])
        <5>1. x \in Clients /\ q \in Carried(toClient[x])
          BY <1>0, <1>3, <4>1
        <5>2. q.nonce[1] \in Messages
          BY <5>1, OnceTypes
        <5>3. CASE x = c /\ q.nonce[1] = m
          <6>1. q = p
            BY <1>2, <5>1, <5>3 DEF Once, Delivered, Copies, m
          <6> QED BY <2>7, <5>3, <6>1
        <5>4. CASE x # c \/ q.nonce[1] # m
          <6>1. heard[x][q.nonce[1]] > 0
            BY <2>3, <4>1, <5>1, <5>2, <5>4
          <6>2. q.nonce \in ToSet(known[x])
            BY <4>1, <5>1, <6>1 DEF Once, Delivered, KnownWhenShown
          <6> QED BY <2>7, <5>1, <6>2
        <5> QED BY <5>3, <5>4
      <4> QED BY <1>1, <4>1 DEF KnownWhenShown
    <3>4. KnownDistinct'
      BY <2>7 DEF Once, Delivered, KnownDistinct
    <3> QED BY <3>1, <3>2, <3>3, <3>4 DEF Delivered
  <2> QED BY <2>10, <2>11, <2>13, <2>14 DEF Once
<1>9. \/ UNCHANGED <<known, heard>>
      \/ /\ p.key = starts[c] /\ p.nonce \notin ToSet(known[c])
         /\ known' = [known EXCEPT ![c] = Remembered(known[c], p.nonce)]
         /\ Shown(c, m)
  BY DEF ReceiveMessage, Opens
<1> QED BY <1>7, <1>8, <1>9

\* A client says a message: it is new to everybody.
LEMMA OnceClientSays ==
  ASSUME TypeOK, Once, NEW c \in Clients, ClientSays(c), c \in ready
  PROVE  Once'
<1> DEFINE n == <<said + 1, 0>>
           p == Sealed(starts[c], n)
<1>0. /\ toHost \in [Clients -> Seq(Packet)] /\ running \subseteq Clients /\ said \in Nat
      /\ Messages \subseteq Nat /\ \A x \in running : starts[x] \in Keys
  BY OnceTypes DEF TypeOK, ClientTypes
<1>1. /\ c \in running /\ said < mix.messages /\ said' = said + 1
      /\ toHost' = [toHost EXCEPT ![c] = Append(toHost[c], p)]
      /\ UNCHANGED <<seen, job, relaying, toClient, heard, running, starts, known>>
  BY DEF ClientSays, hostVars, clientVars, history
<1>2. said + 1 \in Messages /\ n \in Nonces /\ n[1] = said + 1
  BY <1>1, Saying, MakeNonce
<1>3. p \in Packet /\ p.nonce = n
  BY <1>0, <1>1, <1>2, Packets DEF Sealed
<1>4. \A k \in Messages : <<k, 0>> \in Nonces /\ <<k, 0>>[1] = k
  BY MakeNonce
<1> HIDE DEF p
<1>5. Carried(Append(toHost[c], p)) \subseteq Carried(toHost[c]) \cup {p}
  BY <1>0, <1>3, Carrying
<1>6. /\ Carried(toHost'[c]) \subseteq Carried(toHost[c]) \cup {p}
      /\ \A x \in Clients \ {c} : toHost'[x] = toHost[x]
  BY <1>0, <1>1, <1>5
<1>7. ASSUME NEW d \in Clients, NEW e \in Nonces, Up(d, e)'
      PROVE  Up(d, e) \/ (d = c /\ e = n)
  <2>1. CASE OnLink(d, e)'
    <3>1. PICK q \in Carried(toHost'[d]) : q.nonce = e
      BY <2>1 DEF OnLink
    <3>2. CASE q \in Carried(toHost[d])
      BY <3>1, <3>2 DEF Up, OnLink
    <3>3. CASE q \notin Carried(toHost[d])
      BY <1>3, <1>6, <3>1, <3>3
    <3> QED BY <3>2, <3>3
  <2>2. CASE InJob(d, e)' \/ e \in ToSet(seen'[d])
    BY <1>1, <2>2 DEF Up, InJob
  <2> QED BY <1>7, <2>1, <2>2 DEF Up
<1>8. \A d \in Clients : ~Up(d, n)
  <2>1. ~(said + 1 <= said)
    BY <1>0
  <2> QED BY <1>2, <2>1 DEF Once, OneSender
<1>9. ~(said + 1 > said') /\ said + 1 > said
  BY <1>0, <1>1
<1>10. OneSender'
  <2>1. ASSUME NEW d \in Clients, NEW e \in Nonces, Up(d, e)'
        PROVE  /\ e = <<e[1], 0>> /\ e[1] <= said'
               /\ \A f \in Clients : Up(f, e)' => f = d
    <3>1. CASE d = c /\ e = n
      <4>1. said + 1 <= said'
        BY <1>0, <1>1
      <4>2. e[1] = said + 1 /\ e = <<e[1], 0>>
        BY <1>2, <3>1
      <4>3. \A f \in Clients : Up(f, e)' => f = c
        BY <1>7, <1>8, <2>1, <3>1
      <4> QED BY <3>1, <4>1, <4>2, <4>3
    <3>2. CASE Up(d, e)
      <4>1. e = <<e[1], 0>> /\ e[1] <= said /\ \A f \in Clients : Up(f, e) => f = d
        BY <2>1, <3>2 DEF Once, OneSender
      <4>2. e[1] <= said'
        <5>1. e[1] \in Nat
          BY <1>0, <2>1, NonceMessages
        <5> QED BY <1>0, <1>1, <4>1, <5>1
      <4>3. e # n
        BY <1>8, <3>2
      <4> QED BY <1>7, <2>1, <4>1, <4>2, <4>3
    <3> QED BY <1>7, <2>1, <3>1, <3>2
  <2> QED BY <2>1, Zenon DEF OneSender
<1>11. \A k \in Messages : k > said' => k > said
  BY <1>0, <1>1
<1>12. heard["host"][said + 1] = 0
  BY <1>2, <1>9 DEF Once, ShownByHost
<1>13. ShownByHost'
  <2>1. ASSUME NEW k \in Messages, NEW d \in Clients, Up(d, <<k, 0>>)', heard["host"][k] > 0
        PROVE  <<k, 0>> \in ToSet(seen[d])
    <3>1. CASE Up(d, <<k, 0>>)
      BY <2>1, <3>1 DEF Once, ShownByHost
    <3>2. CASE <<k, 0>> = n
      <4>1. k = said + 1
        BY <1>2, <1>4, <3>2
      <4> QED BY <1>12, <2>1, <4>1
    <3> QED BY <1>4, <1>7, <2>1, <3>1, <3>2
  <2> QED BY <1>1, <1>11, <2>1, Zenon DEF Once, ShownByHost
<1>14. ASSUME NEW k \in Messages, Waiting(k)'
       PROVE  Waiting(k)
  <2>1. CASE k > said'
    BY <1>11, <2>1 DEF Waiting
  <2>2. CASE heard'["host"][k] = 0 /\ \E d \in Clients : Up(d, <<k, 0>>)'
    <3>1. PICK d \in Clients : Up(d, <<k, 0>>)'
      BY <2>2
    <3>2. CASE Up(d, <<k, 0>>)
      BY <1>1, <2>2, <3>2 DEF Waiting
    <3>3. CASE <<k, 0>> = n
      <4>1. k = said + 1
        BY <1>2, <1>4, <3>3
      <4> QED BY <1>9, <4>1 DEF Waiting
    <3> QED BY <1>4, <1>7, <3>1, <3>2, <3>3
  <2>3. CASE job'.step = "shown" /\ job'.packet.nonce[1] = k
    BY <1>1, <2>3 DEF Waiting
  <2> QED BY <1>14, <2>1, <2>2, <2>3 DEF Waiting
<1>15. \A u \in Threads : /\ relaying'[u].nonce = relaying[u].nonce
                          /\ \A x \in Clients : Serves(u, x)' => Serves(u, x)
                          /\ relaying'[u].rest \cap relaying'[u].to = {}
  BY <1>1 DEF Serves, Once, Relayed, NextOnly
<1>16. Relayed'
  BY <1>1, <1>14, <1>15, RelaysGoOn DEF Once
<1>17. Delivered'
  BY <1>0, <1>1, QuietClients DEF Once
<1>18. SeenDistinct'
  BY <1>1 DEF Once, SeenDistinct
<1> QED BY <1>10, <1>13, <1>16, <1>17, <1>18 DEF Once

LEMMA InitOnce == Init => Once
<1> SUFFICES ASSUME Init PROVE Once
  OBVIOUS
<1>1. TypeOK
  BY InitTypes
<1>2. \A c \in Clients : Carried(toHost[c]) = {} /\ Carried(toClient[c]) = {} /\ ToSet(seen[c]) = {}
  BY EmptyQueue DEF Init, Carried
<1>3. \A c \in Clients : \A n \in Nonces : ~Up(c, n)
  BY <1>2, Jobs DEF Init, Up, OnLink, InJob
<1>4. \A x \in Clients \cup {"host"}, m \in Messages : heard[x][m] = 0
  BY DEF Init
<1>5. \A t \in Threads : /\ relaying[t] = NoRelay
                         /\ \A m \in Messages : relaying[t].nonce[1] # m
                         /\ \A x \in Clients : ~Serves(t, x)
  BY <1>1, RelayNonces, Relays DEF Init, Serves
<1>6. OneSender
  BY <1>3 DEF OneSender
<1>7. ShownByHost
  <2>1. job.step # "shown" /\ "host" \in Clients \cup {"host"}
    BY Jobs DEF Init
  <2>2. \A m \in Messages : <<m, 0>> \in Nonces
    BY MakeNonce
  <2>3. \A m \in Messages : heard["host"][m] = 0
    BY <1>4, <2>1
  <2>4. 0 <= 1 /\ ~(0 > 0)
    OBVIOUS
  <2> QED BY <1>3, <2>1, <2>2, <2>3, <2>4, Zenon DEF ShownByHost
<1>8. Distinct(<<>>)
  BY DEF Distinct
<1>9. SeenDistinct /\ KnownDistinct
  BY <1>8 DEF Init, SeenDistinct, KnownDistinct
<1>10. Relayed
  <2>1. RelayedLater
    BY <1>2, <1>4, <1>5 DEF RelayedLater, NotRelayed, Arrived
  <2>2. ServedOnce /\ OneRelay
    BY <1>5 DEF ServedOnce, OneRelay
  <2>3. NextOnly
    BY <1>5, Relays DEF NextOnly
  <2> QED BY <2>1, <2>2, <2>3 DEF Relayed
<1>11. Copies /\ ShownOnce
  BY <1>2, <1>4 DEF Copies, ShownOnce
<1>12. KnownWhenShown
  BY DEF Init, KnownWhenShown
<1> QED BY <1>6, <1>7, <1>9, <1>10, <1>11, <1>12 DEF Once, Delivered

\* What the windows have held, they held before.
LEMMA HeldBefore ==
  ASSUME TypeOK, TypeOK', [Next]_vars, WindowsHold'
  PROVE  WindowsHold /\ said <= Window /\ \A c \in Clients : ~RemovePeer(c)
<1>1. /\ said \in Nat /\ said' \in Nat /\ Window \in Nat
      /\ removals \in [Clients -> 0 .. MaxRemovals]
  BY Sizes DEF TypeOK, HistoryTypes
<1>2. ASSUME NEW c \in Clients, RemovePeer(c)
      PROVE  FALSE
  <2>1. removals' = [removals EXCEPT ![c] = removals[c] + 1]
    BY <1>2 DEF RemovePeer
  <2>2. removals'[c] = removals[c] + 1 /\ removals[c] \in Nat
    BY <1>1, <2>1
  <2>3. removals'[c] = 0
    BY DEF WindowsHold
  <2> QED BY <2>2, <2>3
<1>3. UNCHANGED removals /\ said' \in {said, said + 1}
  <2>1. CASE HostSays \/ \E t \in Threads : HostRelays(t)
    BY <2>1 DEF HostSays, HostRelays, PickKey, SendSealed, EndRelay
  <2>2. ASSUME NEW c \in Clients, AddPeer(c) \/ HostReceives(c)
        PROVE  UNCHANGED removals /\ said' \in {said, said + 1}
    BY <2>2 DEF AddPeer, HostReceives, TakePacket, StoreKey, AnswerHello, OpenMessage, CheckNonce,
                RelayReceived
  <2>3. ASSUME NEW c \in Clients,
               \/ ClientStart(c) \/ HelloAgain(c) \/ ClientStop(c)
               \/ ClientReceives(c) \/ ClientSays(c)
               \/ RepeatToHost(c) \/ RepeatToClient(c)
        PROVE  UNCHANGED removals /\ said' \in {said, said + 1}
    BY <2>3 DEF ClientStart, HelloAgain, ClientStop, ClientReceives, ReceiveAck, ReceiveMessage,
                ClientSays, RepeatToHost, RepeatToClient
  <2>4. CASE UNCHANGED vars
    BY <2>4 DEF vars
  <2> QED BY <1>2, <2>1, <2>2, <2>3, <2>4 DEF Next
<1>4. said <= Window
  BY <1>1, <1>3 DEF WindowsHold
<1> QED BY <1>2, <1>3, <1>4 DEF WindowsHold

LEMMA NextOnce ==
  ASSUME TypeOK, TypeOK', RememberedIsShown, StartsKnown, Once, WindowsHold', [Next]_vars
  PROVE  Once'
<1>1. said <= Window /\ \A c \in Clients : ~RemovePeer(c)
  BY HeldBefore
<1>2. CASE HostSays
  BY <1>2, OnceHostSays
<1>3. ASSUME NEW t \in Threads, HostRelays(t)
      PROVE  Once'
  BY <1>3, OncePickKey, OnceSendSealed, OnceEndRelay DEF HostRelays
<1>4. ASSUME NEW c \in Clients, AddPeer(c) \/ HostReceives(c)
      PROVE  Once'
  BY <1>1, <1>4, OnceReceives, OnceCheckNonce, OnceRelayReceived DEF HostReceives
<1>5. ASSUME NEW c \in Clients,
             \/ ClientStart(c) \/ HelloAgain(c) \/ ClientStop(c)
             \/ ClientReceives(c) \/ ClientSays(c)
             \/ RepeatToHost(c) \/ RepeatToClient(c)
      PROVE  Once'
  <2>1. CASE c \in ready
    BY <1>1, <1>5, <2>1, OnceClients, OnceReceiveMessage, OnceClientSays DEF ClientReceives
  <2>2. CASE c \notin ready
    BY <1>1, <1>5, <2>2, OnceClients, OnceReceiveMessage DEF ClientReceives
  <2> QED BY <2>1, <2>2
<1>6. CASE UNCHANGED vars
  <2>1. UNCHANGED <<seen, job, relaying, running, starts, known, toHost, toClient, said, heard>>
    BY <1>6 DEF vars, hostVars, clientVars, history
  <2>2. /\ \A c \in Clients, n \in Nonces : Up(c, n)' => Up(c, n)
        /\ \A t \in Threads : /\ relaying'[t].nonce = relaying[t].nonce
                              /\ \A x \in Clients : Serves(t, x)' => Serves(t, x)
                              /\ relaying'[t].rest \cap relaying'[t].to = {}
        /\ "qt" \in Threads /\ running \subseteq Clients
    BY <2>1, OnceTypes
    DEF Up, OnLink, InJob, Serves, Once, Relayed, NextOnly, Threads
  <2>3. OneSender' /\ ShownByHost' /\ SeenDistinct'
    BY <2>1, <2>2, QuietUp DEF Once
  <2>4. Relayed'
    BY <2>1, <2>2, QuietRelays DEF Once
  <2>5. Delivered'
    BY <2>1, <2>2, QuietClients DEF Once
  <2> QED BY <2>3, <2>4, <2>5 DEF Once
<1> QED BY <1>1, <1>2, <1>3, <1>4, <1>5, <1>6 DEF Next

\* A message that is repeated on its way, at any distance and to any number of clients
\* that start again as often as they like, is shown once, by the host and by each client,
\* as long as there are no more messages than a window holds and nobody is removed
\* (_decrypt's window of nonces, the nonce drawn once for each relay).
THEOREM ChatHeardOnce ==
  Spec => [](said <= Window /\ (\A c \in Clients : removals[c] = 0) => HeardOnce)
<1>1. Init => TypeOK /\ Fresh /\ Kept /\ StartsKnown /\ (WindowsHold => Once)
  <2>1. Init => Fresh
    BY DEF Init, Fresh
  <2>2. Init => Kept
    BY EmptyQueue DEF Init, Kept, DueWhenReady, RememberedIsShown, NoneLost
  <2> QED BY <2>1, <2>2, InitTypes, InitStarts, InitOnce
<1>2. /\ TypeOK /\ TypeOK' /\ Fresh /\ Kept /\ StartsKnown /\ (WindowsHold => Once)
      /\ [Next]_vars
      => (WindowsHold => Once)'
  BY HeldBefore, NextOnce DEF Kept
<1>3. TypeOK /\ (WindowsHold => Once)
      => (said <= Window /\ (\A c \in Clients : removals[c] = 0) => HeardOnce)
  <2> SUFFICES ASSUME TypeOK, Once PROVE HeardOnce
    BY DEF WindowsHold
  <2>1. \A m \in Messages : heard["host"][m] <= 1 /\ heard["host"][m] \in Nat
    BY OnceTypes DEF Once, ShownByHost
  <2>2. \A m \in Messages : ~(heard["host"][m] > 1)
    BY <2>1
  <2>3. \A m \in Messages : \A c \in Clients : heard[c][m] <= 1
    BY DEF Once, Delivered, ShownOnce
  <2> QED BY <2>2, <2>3 DEF HeardOnce
<1> QED
  BY <1>1, <1>2, <1>3, NextTypes, NextFresh, NextKept, NextStarts, PTL DEF Spec
=============================================================================
