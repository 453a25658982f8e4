------------------------------ MODULE TcpTunnel ------------------------------
(***************************************************************************)
(* TCP forwarding between one client and the host (SteamyLan/tunnel.py     *)
(* TunnelEngine): an engine on each side of one reliable, ordered Steam    *)
(* channel.  A local connection to the client engine is given a stream     *)
(* number; the host engine opens a socket to the shared server for it.     *)
(*                                                                         *)
(* The threads of an engine are its receive thread, one connect thread per *)
(* stream being opened on the host, and a reader and a writer per socket.  *)
(* The code locks the tables of the engine, not its sockets and queues; an *)
(* action is what a thread does between two points where another thread    *)
(* can come in.  Connections are numbered in the order they are accepted,  *)
(* so that a packet can be traced to the connection it belongs to, which   *)
(* the code cannot: its packets carry the stream number only.              *)
(***************************************************************************)
EXTENDS Naturals, Sequences, FiniteSets, SequencesExt

CONSTANTS
    MaxConns,       \* bound: connections the local program makes
    QueueSize,      \* _QUEUE_SIZE
    Mixes           \* the bounds to explore: connections made, _MAX_TCP less what
                    \* other programs use, chunks written by the program at each
                    \* end, times each engine is replaced, PT_CLOSE packets that
                    \* cannot be sent

Sides == {"client", "host"}
ASSUME TunnelAssumption ==
    /\ {MaxConns, QueueSize} \subseteq Nat
    /\ Mixes \subseteq [conns : 0 .. MaxConns, room : Nat, chunks : [Sides -> Nat],
                        restarts : [Sides -> Nat], untold : Nat]

Other(s) == IF s = "client" THEN "host" ELSE "client"

Conns == 1 .. MaxConns
NoConn == 0
Ids == 1 .. MaxConns      \* _next_stream does not wrap around before that

Chunk == Conns \X (Nat \ {0})
Fin == <<0, 0>>           \* the None that ends a queue
Packet == [kind : {"open", "data", "close"}, id : Ids, chunk : Chunk \cup {Fin},
           conn : Conns \cup {NoConn}]

VARIABLES
    mix,        \* the bounds of this behaviour
    accepted,   \* how many connections the client engines accepted so far
    nextStream, \* _next_stream of the client engine
    idOf,       \* the stream number each connection was given
    phase,      \* of the socket of each connection on each side
    how,        \* history: why that socket was closed
    tcp,        \* _tcp: the connection whose socket is under a stream number
    writes,     \* _writes: the connection whose queue is under a number
    connecting, \* _connecting of the host engine
    cancelled,  \* _cancelled of the host engine
    reading,    \* the reader threads that run
    draining,   \* the queue each writer thread drains, NoConn if none runs
    queue,      \* contents of the queues
    sent,       \* chunks read from each socket and sent
    got,        \* chunks written to each socket
    net,        \* the packets under way to each side
    owed,       \* PT_CLOSE packets a thread is about to send
    untold,     \* history: the PT_CLOSE packets that could not be sent
    restarts    \* how often each engine was replaced

vars == <<mix, accepted, nextStream, idOf, phase, how, tcp, writes, connecting,
          cancelled, reading, draining, queue, sent, got, net, owed, untold, restarts>>

Phases == {"none", "connecting", "failed", "connected", "open", "closed"}
Reasons == {"none", "ended", "drained", "full", "overflow", "unsent", "broken",
            "refused", "abandoned", "stopped"}

TypeOK ==
    /\ mix \in Mixes
    /\ accepted \in 0 .. MaxConns
    /\ nextStream \in 1 .. (MaxConns + 1)
    /\ idOf \in [Conns -> Ids \cup {0}]
    /\ phase \in [Sides -> [Conns -> Phases]]
    /\ how \in [Sides -> [Conns -> Reasons]]
    /\ tcp \in [Sides -> [Ids -> Conns \cup {NoConn}]]
    /\ writes \in [Sides -> [Ids -> Conns \cup {NoConn}]]
    /\ connecting \in SUBSET Ids
    /\ cancelled \in SUBSET Ids
    /\ reading \in SUBSET (Sides \X Conns)
    /\ draining \in [Sides -> [Conns -> Conns \cup {NoConn}]]
    /\ \A s \in Sides, k \in Conns :
           /\ queue[s][k] \in Seq(Chunk \cup {Fin})
           /\ Len(queue[s][k]) <= QueueSize
           /\ got[s][k] \in Seq(Chunk)
    /\ \A s \in Sides : sent[s] \in [Conns -> 0 .. mix.chunks[s]]
    /\ \A s \in Sides : net[s] \in Seq(Packet)
    /\ owed \in SUBSET (Sides \X Ids)
    /\ untold \in SUBSET (Sides \X Ids)
    /\ restarts \in [Sides -> Nat]

Everywhere(x) == [s \in Sides |-> [k \in Conns |-> x]]

Init ==
    /\ mix \in Mixes
    /\ accepted = 0
    /\ nextStream = 1
    /\ idOf = [k \in Conns |-> 0]
    /\ phase = Everywhere("none")
    /\ how = Everywhere("none")
    /\ tcp = Everywhere(NoConn)
    /\ writes = Everywhere(NoConn)
    /\ connecting = {}
    /\ cancelled = {}
    /\ reading = {}
    /\ draining = Everywhere(NoConn)
    /\ queue = Everywhere(<<>>)
    /\ sent = Everywhere(0)
    /\ got = Everywhere(<<>>)
    /\ net = [s \in Sides |-> <<>>]
    /\ owed = {}
    /\ untold = {}
    /\ restarts = [s \in Sides |-> 0]

-----------------------------------------------------------------------------
(* What the handlers share *)

Open(k, id) == [kind |-> "open", id |-> id, chunk |-> Fin, conn |-> k]
Data(c, id) == [kind |-> "data", id |-> id, chunk |-> c, conn |-> NoConn]
Close(id) == [kind |-> "close", id |-> id, chunk |-> Fin, conn |-> NoConn]

Sending(s, packet) == [net EXCEPT ![Other(s)] = Append(@, packet)]

\* _offer: put_nowait, which drops the item if the queue is full.
Offered(q, s, k, item) ==
    IF k # NoConn /\ Len(q[s][k]) < QueueSize
    THEN [q EXCEPT ![s][k] = Append(@, item)]
    ELSE q

\* _close of the socket of a connection, for the reason given.
CloseSocket(s, k, why) ==
    IF k # NoConn /\ phase[s][k] = "open"
    THEN /\ phase' = [phase EXCEPT ![s][k] = "closed"]
         /\ how' = [how EXCEPT ![s][k] = why]
    ELSE UNCHANGED <<phase, how>>

\* The locked part of _close_tcp and _remote_close_tcp.
TakeStream(s, id) ==
    /\ cancelled' = IF s = "host" THEN cancelled \cup ({id} \cap connecting)
                                  ELSE cancelled
    /\ tcp' = [tcp EXCEPT ![s][id] = NoConn]
    /\ writes' = [writes EXCEPT ![s][id] = NoConn]

\* _close_tcp with notify: the PT_CLOSE is sent once the lock is released.
CloseTcp(s, id, why, q) ==
    /\ TakeStream(s, id)
    /\ queue' = Offered(q, s, writes[s][id], Fin)
    /\ CloseSocket(s, tcp[s][id], why)
    /\ owed' = IF tcp[s][id] # NoConn \/ writes[s][id] # NoConn
               THEN owed \cup {<<s, id>>} ELSE owed

\* _send of a PT_CLOSE over the channels n.  What it returns is ignored: that Steam
\* refused the packet, which the other side then never learns of.
Tell(s, id, n) ==
    \/ /\ net' = [n EXCEPT ![Other(s)] = Append(@, Close(id))]
       /\ UNCHANGED untold
    \/ /\ net' = n
       /\ Cardinality(untold) < mix.untold
       /\ untold' = untold \cup {<<s, id>>}

SendClose(s, id) ==
    /\ <<s, id>> \in owed
    /\ owed' = owed \ {<<s, id>>}
    /\ Tell(s, id, net)
    /\ UNCHANGED <<mix, accepted, nextStream, idOf, phase, how, tcp, writes, connecting,
                   cancelled, reading, draining, queue, sent, got, restarts>>

-----------------------------------------------------------------------------
(* Opening a stream *)

\* Faulty variant: the stream number is not advanced.
AcceptSameNumber(k) ==
    /\ k = accepted + 1 /\ k <= mix.conns
    /\ accepted' = k
    /\ idOf' = [idOf EXCEPT ![k] = nextStream]
    /\ tcp' = [tcp EXCEPT !["client"][nextStream] = k]
    /\ writes' = [writes EXCEPT !["client"][nextStream] = k]
    /\ net' = Sending("client", Open(k, nextStream))
    /\ phase' = [phase EXCEPT !["client"][k] = "open"]
    /\ reading' = reading \cup {<<"client", k>>}
    /\ draining' = [draining EXCEPT !["client"][k] = k]
    /\ UNCHANGED <<mix, nextStream, how, connecting, cancelled, queue, sent, got, owed,
                   restarts, untold>>

\* _client_tcp: the listener accepts, registers and announces a connection.
Accept(k) ==
    /\ k = accepted + 1 /\ k <= mix.conns
    /\ accepted' = k
    /\ idOf' = [idOf EXCEPT ![k] = nextStream]
    /\ nextStream' = nextStream + 1
    /\ tcp' = [tcp EXCEPT !["client"][nextStream] = k]
    /\ writes' = [writes EXCEPT !["client"][nextStream] = k]
    /\ net' = Sending("client", Open(k, nextStream))
    /\ phase' = [phase EXCEPT !["client"][k] = "open"]
    /\ reading' = reading \cup {<<"client", k>>}
    /\ draining' = [draining EXCEPT !["client"][k] = k]
    /\ UNCHANGED <<mix, how, connecting, cancelled, queue, sent, got, owed,
                   restarts, untold>>

\* _client_tcp: the announcement could not be sent.
AcceptUnannounced(k) ==
    /\ k = accepted + 1 /\ k <= mix.conns
    /\ accepted' = k
    /\ idOf' = [idOf EXCEPT ![k] = nextStream]
    /\ nextStream' = nextStream + 1
    /\ phase' = [phase EXCEPT !["client"][k] = "closed"]
    /\ how' = [how EXCEPT !["client"][k] = "unsent"]
    /\ UNCHANGED <<mix, tcp, writes, connecting, cancelled, reading, draining, queue,
                   sent, got, net, owed, restarts, untold>>

Receives(s, kind, packet) ==
    /\ net[s] # <<>>
    /\ packet = Head(net[s])
    /\ packet.kind = kind

Used(id) == tcp["host"][id] # NoConn \/ id \in connecting

InUse == Cardinality({id \in Ids : tcp["host"][id] # NoConn}) + Cardinality(connecting)

\* Faulty variant: a stream over the limit is ignored, not refused.
ReceiveOpenIgnoring(packet) ==
    /\ Receives("host", "open", packet)
    /\ net' = [net EXCEPT !["host"] = Tail(@)]
    /\ IF Used(packet.id) \/ InUse >= mix.room
       THEN UNCHANGED <<connecting, writes, phase>>
       ELSE /\ connecting' = connecting \cup {packet.id}
            /\ writes' = [writes EXCEPT !["host"][packet.id] = packet.conn]
            /\ phase' = [phase EXCEPT !["host"][packet.conn] = "connecting"]
    /\ UNCHANGED <<mix, accepted, nextStream, idOf, how, tcp, cancelled, reading,
                   draining, queue, sent, got, owed, restarts, untold>>

\* _open_target_tcp
ReceiveOpen(packet) ==
    /\ Receives("host", "open", packet)
    /\ LET id == packet.id
           rest == [net EXCEPT !["host"] = Tail(@)]
       IN  \/ /\ Used(id)
              /\ net' = rest
              /\ UNCHANGED <<connecting, writes, phase, untold>>
           \/ /\ ~Used(id)
              /\ InUse >= mix.room
              /\ Tell("host", id, rest)
              /\ UNCHANGED <<connecting, writes, phase>>
           \/ /\ ~Used(id)
              /\ InUse < mix.room
              /\ net' = rest
              /\ UNCHANGED untold
              /\ connecting' = connecting \cup {id}
              /\ writes' = [writes EXCEPT !["host"][id] = packet.conn]
              /\ phase' = [phase EXCEPT !["host"][packet.conn] = "connecting"]
    /\ UNCHANGED <<mix, accepted, nextStream, idOf, how, tcp, cancelled, reading,
                   draining, queue, sent, got, owed, restarts>>

\* _connect_target_tcp: the shared server did not answer.  The _close_tcp of its number
\* closes the socket of an earlier connection that has the number too.
ConnectFails(k) ==
    LET id == idOf[k]
        other == {j \in Conns \ {k} : tcp["host"][id] = j /\ phase["host"][j] = "open"}
    IN  /\ phase["host"][k] = "connecting"
        /\ TakeStream("host", id)
        /\ queue' = Offered(queue, "host", writes["host"][id], Fin)
        /\ owed' = IF tcp["host"][id] # NoConn \/ writes["host"][id] # NoConn
                   THEN owed \cup {<<"host", id>>} ELSE owed
        /\ phase' = [phase EXCEPT !["host"] =
                       [j \in Conns |-> IF j = k THEN "failed"
                                        ELSE IF j \in other THEN "closed" ELSE @[j]]]
        /\ how' = [how EXCEPT !["host"] =
                       [j \in Conns |-> IF j \in other \cup {k} THEN "refused" ELSE @[j]]]
        /\ UNCHANGED <<mix, accepted, nextStream, idOf, connecting, reading, draining, sent,
                       got, net, restarts, untold>>

\* The finally clause of _connect_target_tcp.
ConnectEnds(k) ==
    /\ phase["host"][k] \in {"connecting", "failed"}
    /\ connecting' = connecting \ {idOf[k]}
    /\ phase' = [phase EXCEPT !["host"][k] = IF @ = "failed" THEN "closed" ELSE "connected"]
    /\ UNCHANGED <<mix, accepted, nextStream, idOf, how, tcp, writes, cancelled, reading,
                   draining, queue, sent, got, net, owed, restarts, untold>>

\* Faulty variant: the socket is used whatever happened to the stream.
ConnectSettlesUnchecked(k) ==
    /\ phase["host"][k] = "connected"
    /\ cancelled' = cancelled \ {idOf[k]}
    /\ phase' = [phase EXCEPT !["host"][k] = "open"]
    /\ tcp' = [tcp EXCEPT !["host"][idOf[k]] = k]
    /\ reading' = reading \cup {<<"host", k>>}
    /\ draining' = [draining EXCEPT !["host"][k] = writes["host"][idOf[k]]]
    /\ UNCHANGED <<mix, accepted, nextStream, idOf, how, writes, connecting, queue, sent,
                   got, net, owed, restarts, untold>>

\* _connect_target_tcp: the lock is taken once more to use the socket, unless
\* the stream was closed while it was being connected.
ConnectSettles(k) ==
    /\ phase["host"][k] = "connected"
    /\ LET id == idOf[k]
           gone == id \in cancelled \/ writes["host"][id] = NoConn
       IN  /\ cancelled' = cancelled \ {id}
           /\ IF gone
              THEN /\ phase' = [phase EXCEPT !["host"][k] = "closed"]
                   /\ how' = [how EXCEPT !["host"][k] = "abandoned"]
                   /\ UNCHANGED <<tcp, reading, draining>>
              ELSE /\ phase' = [phase EXCEPT !["host"][k] = "open"]
                   /\ tcp' = [tcp EXCEPT !["host"][id] = k]
                   /\ reading' = reading \cup {<<"host", k>>}
                   /\ draining' = [draining EXCEPT !["host"][k] = writes["host"][id]]
                   /\ UNCHANGED how
    /\ UNCHANGED <<mix, accepted, nextStream, idOf, writes, connecting, queue, sent, got,
                   net, owed, restarts, untold>>

-----------------------------------------------------------------------------
(* Readers and writers *)

\* _read_tcp: a chunk is read from the socket and sent.
ReadChunk(s, k) ==
    /\ <<s, k>> \in reading
    /\ phase[s][k] = "open"
    /\ sent[s][k] < mix.chunks[s]
    /\ sent' = [sent EXCEPT ![s][k] = @ + 1]
    /\ net' = Sending(s, Data(<<k, sent[s][k] + 1>>, idOf[k]))
    /\ UNCHANGED <<mix, accepted, nextStream, idOf, phase, how, tcp, writes, connecting,
                   cancelled, reading, draining, queue, got, owed, restarts, untold>>

\* Faulty variant: the other side is not notified.
ReadEndsQuietly(s, k, why) ==
    /\ <<s, k>> \in reading
    /\ why \in {"ended", "unsent"}
    /\ reading' = reading \ {<<s, k>>}
    /\ TakeStream(s, idOf[k])
    /\ queue' = Offered(queue, s, writes[s][idOf[k]], Fin)
    /\ CloseSocket(s, tcp[s][idOf[k]], why)
    /\ UNCHANGED <<mix, accepted, nextStream, idOf, connecting, draining, sent, got, net,
                   owed, restarts, untold>>

\* _read_tcp: the program closed the connection, the socket was closed under
\* the reader, or the chunk it read could not be sent.
ReadEnds(s, k, why) ==
    /\ <<s, k>> \in reading
    /\ why \in {"ended", "unsent"}
    /\ reading' = reading \ {<<s, k>>}
    /\ CloseTcp(s, idOf[k], why, queue)
    /\ UNCHANGED <<mix, accepted, nextStream, idOf, connecting, draining, sent, got, net,
                   restarts, untold>>

\* Faulty variant: a chunk that cannot be written is skipped.
WriteSkipping(s, k) ==
    /\ draining[s][k] # NoConn
    /\ LET from == draining[s][k]
           rest == [queue EXCEPT ![s][from] = Tail(@)]
       IN  /\ queue[s][from] # <<>>
           /\ queue' = rest
           /\ \/ /\ Head(queue[s][from]) = Fin
                 /\ draining' = [draining EXCEPT ![s][k] = NoConn]
                 /\ CloseSocket(s, k, "drained")
                 /\ UNCHANGED got
              \/ /\ Head(queue[s][from]) # Fin
                 /\ phase[s][k] = "open"
                 /\ got' = [got EXCEPT ![s][k] = Append(@, Head(queue[s][from]))]
                 /\ UNCHANGED <<draining, phase, how>>
              \/ /\ Head(queue[s][from]) # Fin
                 /\ UNCHANGED <<draining, phase, how, got>>
    /\ UNCHANGED <<mix, accepted, nextStream, idOf, tcp, writes, connecting, cancelled,
                   reading, sent, net, owed, restarts, untold>>

\* _write_tcp: one item of the queue.
Write(s, k) ==
    /\ draining[s][k] # NoConn
    /\ LET from == draining[s][k]
           rest == [queue EXCEPT ![s][from] = Tail(@)]
       IN  /\ queue[s][from] # <<>>
           /\ \/ /\ Head(queue[s][from]) = Fin
                 /\ queue' = rest
                 /\ draining' = [draining EXCEPT ![s][k] = NoConn]
                 /\ CloseSocket(s, k, "drained")
                 /\ UNCHANGED <<tcp, writes, cancelled, got, owed>>
              \/ /\ Head(queue[s][from]) # Fin
                 /\ phase[s][k] = "open"
                 /\ queue' = rest
                 /\ got' = [got EXCEPT ![s][k] = Append(@, Head(queue[s][from]))]
                 /\ UNCHANGED <<tcp, writes, cancelled, draining, phase, how, owed>>
              \/ \* the socket is closed, or the program has closed its end
                 /\ Head(queue[s][from]) # Fin
                 /\ draining' = [draining EXCEPT ![s][k] = NoConn]
                 /\ CloseTcp(s, idOf[k], "broken", rest)
                 /\ UNCHANGED got
    /\ UNCHANGED <<mix, accepted, nextStream, idOf, connecting, reading, sent, net,
                   restarts, untold>>

\* Neither table nor thread refers to the socket: CPython closes it.
Collect(s, k) ==
    /\ phase[s][k] = "open"
    /\ tcp[s][idOf[k]] # k
    /\ <<s, k>> \notin reading
    /\ draining[s][k] = NoConn
    /\ CloseSocket(s, k, "broken")
    /\ UNCHANGED <<mix, accepted, nextStream, idOf, tcp, writes, connecting, cancelled,
                   reading, draining, queue, sent, got, net, owed, restarts, untold>>

-----------------------------------------------------------------------------
(* Received data and close packets *)

\* _queue_tcp
ReceiveData(s, packet) ==
    /\ Receives(s, "data", packet)
    /\ net' = [net EXCEPT ![s] = Tail(@)]
    /\ LET k == writes[s][packet.id]
       IN  IF k = NoConn \/ Len(queue[s][k]) < QueueSize
           THEN /\ queue' = Offered(queue, s, k, packet.chunk)
                /\ UNCHANGED <<tcp, writes, cancelled, phase, how, owed>>
           ELSE CloseTcp(s, packet.id, "overflow", queue)
    /\ UNCHANGED <<mix, accepted, nextStream, idOf, connecting, reading, draining, sent,
                   got, restarts, untold>>

\* Faulty variant: what is queued is thrown away.
ReceiveCloseClearing(s, packet) ==
    /\ Receives(s, "close", packet)
    /\ net' = [net EXCEPT ![s] = Tail(@)]
    /\ TakeStream(s, packet.id)
    /\ LET k == writes[s][packet.id]
       IN  queue' = IF k = NoConn THEN queue ELSE [queue EXCEPT ![s][k] = <<Fin>>]
    /\ UNCHANGED <<mix, accepted, nextStream, idOf, phase, how, connecting, reading,
                   draining, sent, got, owed, restarts, untold>>

\* _remote_close_tcp: what is queued is still written, if the end of the queue
\* can be marked.
ReceiveClose(s, packet) ==
    /\ Receives(s, "close", packet)
    /\ net' = [net EXCEPT ![s] = Tail(@)]
    /\ TakeStream(s, packet.id)
    /\ LET k == writes[s][packet.id]
       IN  /\ queue' = Offered(queue, s, k, Fin)
           /\ IF k # NoConn /\ Len(queue[s][k]) = QueueSize
              THEN CloseSocket(s, tcp[s][packet.id], "full")
              ELSE UNCHANGED <<phase, how>>
    /\ UNCHANGED <<mix, accepted, nextStream, idOf, connecting, reading, draining, sent,
                   got, owed, restarts, untold>>

-----------------------------------------------------------------------------
(* stop, and an engine for the same channel in its place *)

Stopped(s, k) == phase[s][k] \notin {"none", "closed"}

\* The tables go and the sockets are closed; nothing is sent to the other side.
Restart(s) ==
    /\ phase' = [phase EXCEPT ![s] =
                   [k \in Conns |-> IF Stopped(s, k) THEN "closed" ELSE phase[s][k]]]
    /\ how' = [how EXCEPT ![s] =
                   [k \in Conns |-> IF Stopped(s, k) THEN "stopped" ELSE how[s][k]]]
    /\ tcp' = [tcp EXCEPT ![s] = [id \in Ids |-> NoConn]]
    /\ writes' = [writes EXCEPT ![s] = [id \in Ids |-> NoConn]]
    /\ reading' = {t \in reading : t[1] # s}
    /\ draining' = [draining EXCEPT ![s] = [k \in Conns |-> NoConn]]
    /\ owed' = {o \in owed : o[1] # s}
    /\ restarts' = [restarts EXCEPT ![s] = @ + 1]
    /\ UNCHANGED <<mix, accepted, idOf, queue, sent, got, net, untold>>

\* revoke_client_service, then accept_client_service.
ReopenLocally ==
    /\ restarts["client"] < mix.restarts["client"]
    /\ Restart("client")
    /\ nextStream' = 1
    /\ UNCHANGED <<connecting, cancelled>>

\* reconfigure_server, when any shared port changed.
RebuildHost ==
    /\ restarts["host"] < mix.restarts["host"]
    /\ Restart("host")
    /\ connecting' = {}
    /\ cancelled' = {}
    /\ UNCHANGED nextStream

-----------------------------------------------------------------------------

Receive(s) ==
    \/ \E packet \in ToSet(net[s]) :
          \/ s = "host" /\ ReceiveOpen(packet)
          \/ ReceiveData(s, packet)
          \/ ReceiveClose(s, packet)

Connect(k) == ConnectFails(k) \/ ConnectEnds(k) \/ ConnectSettles(k)

Next ==
    \/ \E k \in Conns : Accept(k) \/ AcceptUnannounced(k) \/ Connect(k)
    \/ \E s \in Sides, k \in Conns :
          \/ ReadChunk(s, k)
          \/ \E why \in {"ended", "unsent"} : ReadEnds(s, k, why)
          \/ Write(s, k)
          \/ Collect(s, k)
    \/ \E s \in Sides : Receive(s)
    \/ \E s \in Sides, id \in Ids : SendClose(s, id)
    \/ ReopenLocally
    \/ RebuildHost

Spec == Init /\ [][Next]_vars

\* A socket taken out of its table is closed or shut down for reading.
ReaderWakes(s, k) ==
    /\ <<s, k>> \in reading
    /\ tcp[s][idOf[k]] # k
    /\ ReadEnds(s, k, "ended")

\* Threads keep running, the channel is reliable, a connection attempt ends
\* within its timeout, and the programs at both ends read what they are sent.
FairSpec ==
    /\ Spec
    /\ \A k \in Conns : WF_vars(Connect(k))
    /\ \A s \in Sides, k \in Conns :
           /\ WF_vars(Write(s, k))
           /\ WF_vars(ReaderWakes(s, k))
           /\ WF_vars(Collect(s, k))
    /\ \A s \in Sides : WF_vars(Receive(s))
    /\ \A s \in Sides, id \in Ids : WF_vars(SendClose(s, id))

-----------------------------------------------------------------------------
(* Properties *)

\* What a socket is sent is what the other socket of the same connection gave,
\* from its first chunk on, in order, with nothing missing and nothing foreign:
\* while the target is being connected, when a queue overflows, when several
\* connections open and close at once, when the host engine is replaced.
InOrder ==
    \A s \in Sides, k \in Conns : \A i \in 1 .. Len(got[s][k]) : got[s][k][i] = <<k, i>>

\* Every entry of a table belongs to a connection that is being opened or is
\* open: no path out of a stream leaves its number or its queue behind.
NoStaleStream ==
    \A s \in Sides, id \in Ids :
        /\ tcp[s][id] # NoConn => writes[s][id] = tcp[s][id]
        /\ writes[s][id] # NoConn =>
               /\ idOf[writes[s][id]] = id
               /\ phase[s][writes[s][id]] \in {"connecting", "connected", "open"}

\* Both, for connections that open, send, end and are refused at once: they share
\* one channel and two tables, told apart by the stream number only.
StreamsStayApart == InOrder /\ NoStaleStream

\* A socket that is closed because its queue was drained got everything the
\* program at the other end had written when it closed the connection.
DrainedIsComplete ==
    \A s \in Sides, k \in Conns :
        how[s][k] = "drained" /\ how[Other(s)][k] = "ended"
            => Len(got[s][k]) = sent[Other(s)][k]

\* The engines the connections started on are still in place.
Undisturbed == \A s \in Sides : restarts[s] = 0

\* A connection that closes on one side closes on the other, for good, unless the
\* side that closed it could not send its PT_CLOSE, or an engine was replaced: _send
\* returns False for the first (tunnel.py:370), which nothing looks at (tunnel.py:509),
\* and stop tells the other side nothing.
Told(s, k) == <<s, idOf[k]>> \notin untold /\ Undisturbed

CloseReachesHost ==
    \A k \in Conns :
        phase["client"][k] = "closed"
            ~> [](phase["host"][k] \in {"none", "closed"}) \/ ~Told("client", k)

CloseReachesClient ==
    \A k \in Conns :
        phase["host"][k] = "closed"
            ~> phase["client"][k] = "closed" \/ ~Told("host", k)

\* Both: whichever thread of whichever side takes the stream out of its tables
\* first, no half of a connection that the other side was told of is left open
\* (_close_tcp, _remote_close_tcp).
CloseReachesOther == CloseReachesHost /\ CloseReachesClient

\* Every local connection reaches the shared server or is closed, also when the
\* stream limit is reached, if the host can send what refuses it (tunnel.py:436).
EveryConnectionAnswered ==
    \A k \in Conns :
        phase["client"][k] = "open"
            ~> \/ phase["host"][k] = "open"
               \/ phase["client"][k] = "closed"
               \/ ~Told("host", k)
=============================================================================
