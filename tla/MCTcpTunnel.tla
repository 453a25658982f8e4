----------------------------- MODULE MCTcpTunnel -----------------------------
(* One connection in detail, and two at once. *)
EXTENDS TcpTunnel

Each(m, n) == [s \in Sides |-> IF s = "client" THEN m ELSE n]

\* Full queues in both directions, either engine replaced once; packets that cannot
\* be sent; and a host that has no stream left.
MCStream == {
    [conns |-> 1, room |-> 1, chunks |-> Each(3, 1), restarts |-> Each(1, 1), untold |-> 0],
    [conns |-> 1, room |-> 1, chunks |-> Each(2, 1), restarts |-> Each(0, 0), untold |-> 2],
    [conns |-> 1, room |-> 0, chunks |-> Each(1, 0), restarts |-> Each(0, 1), untold |-> 1]}

\* Two connections, with room for both or for one.
MCStreams == {
    [conns |-> 2, room |-> 2, chunks |-> Each(1, 0), restarts |-> Each(0, 0), untold |-> 0],
    [conns |-> 2, room |-> 1, chunks |-> Each(0, 0), restarts |-> Each(0, 0), untold |-> 1]}

\* The client closes and reopens the port between two connections.
MCReopened == {
    [conns |-> 2, room |-> 2, chunks |-> Each(1, 0), restarts |-> Each(1, 0), untold |-> 0]}
=============================================================================
