------------------------------ MODULE UdpTunnel ------------------------------
(***************************************************************************)
(* UDP forwarding between one client and the host (SteamyLan/tunnel.py     *)
(* TunnelEngine): each local program is given a stream number, the host    *)
(* engine opens a socket per stream, and datagrams too large for a packet  *)
(* are cut into fragments and put together again.                          *)
(*                                                                         *)
(* Steam sends these packets unreliably: they may be lost, reordered or    *)
(* doubled.  The packets that were sent are kept in a set, and each may    *)
(* arrive at any time, repeatedly or never.  A datagram is traced by whom  *)
(* it concerns and its number, which the code does not see.                *)
(***************************************************************************)
EXTENDS Naturals, Sequences, FiniteSets, SequencesExt

CONSTANTS
    Programs,   \* addresses of the local programs
    Nobody,     \* no program
    MaxUdp,     \* _MAX_UDP
    MaxPartial, \* the 256 datagrams being put together
    MaxFragments, \* the 128 fragments of a datagram
    MaxSends,   \* bound: the datagrams the programs send
    Loads       \* the bounds to explore: how many datagrams the programs and
                \* the server send, in how many fragments, and how often the
                \* client's engine is replaced

ASSUME UdpAssumption ==
    /\ Nobody \notin Programs
    /\ MaxUdp \in Nat /\ MaxPartial \in Nat \ {0}
    /\ MaxFragments \in Nat \ {0} /\ MaxSends \in Nat
    /\ Loads \subseteq [sends : 0 .. MaxSends, replies : Nat,
                        fragments : 1 .. MaxFragments, reopenings : Nat]

Sides == {"client", "host"}
Far(s) == IF s = "client" THEN "host" ELSE "client"
Streams == 1 .. MaxSends
Sizes == 1 .. MaxFragments

VARIABLES
    load,       \* the bounds of this behaviour
    streamOf,   \* _by_address of the client's engine, 0 if there is none
    clientOf,   \* its _clients
    newStream,  \* its _next_stream
    sockets,    \* _udp of the host's engine: stream, and history: for whom
    partial,    \* _udp_reassembly of each engine, oldest first
    newId,      \* _next_datagram of each engine
    air,        \* packets under way to each side
    delivered,  \* history: what was handed to a program or the server last
    numbered,   \* history: how many datagrams each side sent
    reopened    \* how often the client's engine was replaced

udpVars == <<load, streamOf, clientOf, newStream, sockets, partial, newId, air,
             delivered, numbered, reopened>>

\* A piece of the n-th datagram a side sent, which concerns a program.
Places == 0 .. MaxFragments - 1
Piece == [who : Programs, n : Nat, part : Places, of : Sizes]
Packet == [stream : Streams, id : Nat, index : Places, total : Sizes, piece : Piece]
Entry == [stream : Streams, id : Nat, got : SUBSET Packet]

UdpTypeOK ==
    /\ load \in Loads /\ reopened \in Nat
    /\ streamOf \in [Programs -> Streams \cup {0}]
    /\ clientOf \in [Streams -> Programs \cup {Nobody}]
    /\ newStream \in 1 .. MaxSends + 1
    /\ sockets \subseteq [stream : Streams, who : Programs]
    /\ partial \in [Sides -> Seq(Entry)]
    /\ air \in [Sides -> SUBSET Packet]
    /\ newId \in [Sides -> Nat \ {0}] /\ numbered \in [Sides -> Nat]
    /\ delivered \in [to : Sides, who : Programs \cup {Nobody}, pieces : Seq(Piece)]

UdpInit ==
    /\ load \in Loads
    /\ streamOf = [p \in Programs |-> 0]
    /\ clientOf = [s \in Streams |-> Nobody]
    /\ newStream = 1
    /\ sockets = {}
    /\ partial = [s \in Sides |-> <<>>]
    /\ newId = [s \in Sides |-> 1]
    /\ air = [s \in Sides |-> {}]
    /\ delivered = [to |-> "host", who |-> Nobody, pieces |-> <<>>]
    /\ numbered = [s \in Sides |-> 0]
    /\ reopened = 0

-----------------------------------------------------------------------------
(* Sending *)

\* _send_udp_datagram: in one packet, or in fragments under a new number (32 bits
\* in the code, so that no number comes back within the 3 s an entry lives).
Transmit(s, stream, who, total) ==
    LET n == numbered[s] + 1
        packet(i) == [stream |-> stream, id |-> IF total = 1 THEN 0 ELSE newId[s],
                      index |-> i, total |-> total,
                      piece |-> [who |-> who, n |-> n, part |-> i, of |-> total]]
    IN /\ air' = [air EXCEPT ![Far(s)] = @ \cup {packet(i) : i \in 0 .. total - 1}]
       /\ newId' = [newId EXCEPT ![s] = IF total = 1 THEN @ ELSE @ + 1]
       /\ numbered' = [numbered EXCEPT ![s] = n]

Senders == {p \in Programs : streamOf[p] # 0}

\* _client_udp: a stranger is ignored while the table is full.
ProgramSends(p, total) ==
    /\ numbered["client"] < load.sends
    /\ \/ /\ streamOf[p] # 0
          /\ Transmit("client", streamOf[p], p, total)
          /\ UNCHANGED <<streamOf, clientOf, newStream>>
       \/ /\ streamOf[p] = 0
          /\ Cardinality(Senders) < MaxUdp
          /\ streamOf' = [streamOf EXCEPT ![p] = newStream]
          /\ clientOf' = [clientOf EXCEPT ![newStream] = p]
          /\ newStream' = newStream + 1
          /\ Transmit("client", newStream, p, total)
    /\ UNCHANGED <<sockets, partial, delivered, reopened>>

\* Faulty variant: the address keeps its entry.
ExpireHalf(p) ==
    /\ streamOf[p] # 0
    /\ clientOf' = [clientOf EXCEPT ![streamOf[p]] = Nobody]
    /\ UNCHANGED <<streamOf, newStream, sockets, partial, newId, air, delivered,
                   numbered, reopened>>

\* _expire_udp: nothing was sent by the program for 300 s.  What it received
\* does not count.
Expire(p) ==
    /\ streamOf[p] # 0
    /\ clientOf' = [clientOf EXCEPT ![streamOf[p]] = Nobody]
    /\ streamOf' = [streamOf EXCEPT ![p] = 0]
    /\ UNCHANGED <<newStream, sockets, partial, newId, air, delivered, numbered,
                   reopened>>

\* _read_target_udp, for a socket of the host.
ServerSends(k, total) ==
    /\ numbered["host"] < load.replies
    /\ k \in sockets
    /\ Transmit("host", k.stream, k.who, total)
    /\ UNCHANGED <<streamOf, clientOf, newStream, sockets, partial, delivered, reopened>>

\* _read_target_udp: no traffic for 300 s, or the server refuses.
CloseSocket(k) ==
    /\ k \in sockets
    /\ sockets' = sockets \ {k}
    /\ UNCHANGED <<streamOf, clientOf, newStream, partial, newId, air, delivered,
                   numbered, reopened>>

\* The port is closed and opened again, or moved (SessionManager).
Reopen ==
    /\ reopened < load.reopenings
    /\ reopened' = reopened + 1
    /\ streamOf' = [p \in Programs |-> 0]
    /\ clientOf' = [s \in Streams |-> Nobody]
    /\ newStream' = 1
    /\ partial' = [partial EXCEPT !["client"] = <<>>]
    /\ newId' = [newId EXCEPT !["client"] = 1]
    /\ UNCHANGED <<sockets, air, delivered, numbered>>

-----------------------------------------------------------------------------
(* Receiving *)

\* What is handed over for a stream: on the host through its socket, which is
\* opened if there is room, on the client to the program's address.
HandOver(s, stream, pieces) ==
    LET here == {k \in sockets : k.stream = stream}
        new == [stream |-> stream, who |-> Head(pieces).who]
        to(who) == [to |-> s, who |-> who, pieces |-> pieces]
    IN \/ /\ s = "host"
          /\ \E k \in here : delivered' = to(k.who)
          /\ UNCHANGED sockets
       \/ /\ s = "host" /\ here = {}
          /\ Cardinality(sockets) < MaxUdp
          /\ sockets' = sockets \cup {new}
          /\ delivered' = to(new.who)
       \/ /\ s = "host" /\ here = {}
          /\ Cardinality(sockets) >= MaxUdp
          /\ UNCHANGED <<sockets, delivered>>
       \/ /\ s = "client" /\ clientOf[stream] # Nobody
          /\ delivered' = to(clientOf[stream])
          /\ UNCHANGED sockets
       \/ /\ s = "client" /\ clientOf[stream] = Nobody
          /\ UNCHANGED <<sockets, delivered>>

\* PT_UDP.
ReceiveWhole(s, packet) ==
    /\ packet \in air[s]
    /\ packet.total = 1
    /\ HandOver(s, packet.stream, <<packet.piece>>)
    /\ UNCHANGED <<streamOf, clientOf, newStream, partial, newId, air, numbered,
                   reopened>>

\* Faulty variant: fragments are told apart by their stream.
SameByStream(entry, packet) == entry.stream = packet.stream

\* The key of _udp_reassembly.
Same(entry, packet) == entry.stream = packet.stream /\ entry.id = packet.id

\* Where the table has the datagram of a fragment, which it has once at most.
Mine(s, packet) == {i \in DOMAIN partial[s] : Same(partial[s][i], packet)}

\* The table without it.
Others(s, packet) ==
    IF Mine(s, packet) = {} THEN partial[s]
    ELSE RemoveAt(partial[s], CHOOSE i \in Mine(s, packet) : TRUE)

\* The fragments of it that the table has.
Held(s, packet) ==
    IF Mine(s, packet) = {} THEN {}
    ELSE partial[s][CHOOSE i \in Mine(s, packet) : TRUE].got

\* A number that is used again for a datagram of another length.
Conflicting(s, packet) == \E p \in Held(s, packet) : p.total # packet.total

\* The fragments with a new one: parts.setdefault keeps the first that came for
\* a place.
Joined(s, packet) ==
    IF \E p \in Held(s, packet) : p.index = packet.index THEN Held(s, packet)
    ELSE Held(s, packet) \cup {packet}

\* The table with an entry, which costs the oldest its place if it is full.
Entered(s, packet, entry) ==
    IF Mine(s, packet) # {}
    THEN [i \in DOMAIN partial[s] |-> IF i \in Mine(s, packet) THEN entry ELSE partial[s][i]]
    ELSE Append(IF Len(partial[s]) < MaxPartial THEN partial[s] ELSE Tail(partial[s]),
                entry)

\* PT_UDP_FRAGMENT: _udp_fragment, and what follows when it was the last one.
ReceiveFragment(s, packet) ==
    /\ packet \in air[s]
    /\ packet.total > 1
    /\ LET got == Joined(s, packet)
           entry == [stream |-> packet.stream, id |-> packet.id, got |-> got]
           at(i) == CHOOSE p \in got : p.index = i - 1
       IN \/ /\ Conflicting(s, packet)
             /\ partial' = [partial EXCEPT ![s] = Others(s, packet)]
             /\ UNCHANGED <<sockets, delivered>>
          \/ /\ ~Conflicting(s, packet)
             /\ Cardinality(got) < packet.total
             /\ partial' = [partial EXCEPT ![s] = Entered(s, packet, entry)]
             /\ UNCHANGED <<sockets, delivered>>
          \/ /\ ~Conflicting(s, packet)
             /\ Cardinality(got) = packet.total
             /\ partial' = [partial EXCEPT ![s] = Others(s, packet)]
             /\ HandOver(s, packet.stream, [i \in 1 .. packet.total |-> at(i).piece])
    /\ UNCHANGED <<streamOf, clientOf, newStream, newId, air, numbered, reopened>>

\* _udp_fragment: an entry older than 3 s goes when a fragment arrives.
DropOldest(s) ==
    /\ partial[s] # <<>>
    /\ partial' = [partial EXCEPT ![s] = Tail(@)]
    /\ UNCHANGED <<streamOf, clientOf, newStream, sockets, newId, air, delivered,
                   numbered, reopened>>

UdpNext ==
    /\ UNCHANGED load
    /\ \/ \E p \in Programs, total \in 1 .. load.fragments : ProgramSends(p, total)
       \/ \E p \in Programs : Expire(p)
       \/ \E k \in sockets, total \in 1 .. load.fragments : ServerSends(k, total)
       \/ \E k \in sockets : CloseSocket(k)
       \/ Reopen
       \/ \E s \in Sides : \E packet \in air[s] :
              ReceiveWhole(s, packet) \/ ReceiveFragment(s, packet)
       \/ \E s \in Sides : DropOldest(s)

UdpSpec == UdpInit /\ [][UdpNext]_udpVars

-----------------------------------------------------------------------------
(* Properties *)

\* Every datagram handed over is one that was sent, whole and unmixed, and it
\* is handed to the program it concerns, whatever the order in which fragments
\* arrive and tables overflow.  A replaced engine starts its numbers anew, and
\* the host cannot tell them from the old.  (tunnel.py _udp_fragment,
\* _target_udp, _reply_udp.)
DeliveredAsSent ==
    reopened = 0 =>
        \A i \in DOMAIN delivered.pieces :
            delivered.pieces[i] =
                [who |-> delivered.who, n |-> delivered.pieces[1].n, part |-> i - 1,
                 of |-> Len(delivered.pieces)]

\* The tables stay within their limits and agree: a program with a stream is
\* found under it, and no stream leads to a program that lost it.
\* (_client_udp, _expire_udp, _target_udp, _udp_fragment.)
UdpTablesAgree ==
    /\ Cardinality(Senders) <= MaxUdp
    /\ \A p \in Programs, s \in Streams : streamOf[p] = s <=> clientOf[s] = p
    /\ Cardinality(sockets) <= MaxUdp
    /\ \A j, k \in sockets : j.stream = k.stream => j = k
    /\ \A s \in Sides : Len(partial[s]) <= MaxPartial
=============================================================================
