------------------------------ MODULE MCTraffic ------------------------------
(* A control link and a UDP tunnel to one peer.  They share nothing but the   *)
(* peer, so each is explored while the other has nothing to do.               *)
EXTENDS UdpTunnel, PeerHealth
CONSTANTS a, b

NoLoad == [sends |-> 0, replies |-> 0, fragments |-> 1, reopenings |-> 0]
MCLoads == {
    NoLoad,
    \* fragments of two datagrams, and of an engine that was replaced
    [sends |-> 2, replies |-> 0, fragments |-> 3, reopenings |-> 1],
    [sends |-> 2, replies |-> 1, fragments |-> 2, reopenings |-> 0],
    [sends |-> 1, replies |-> 2, fragments |-> 2, reopenings |-> 0],
    \* streams that expire while the tables are full
    [sends |-> 3, replies |-> 1, fragments |-> 1, reopenings |-> 0]}

NoChange == [starts |-> 0, stops |-> 0, links |-> 0, unlinks |-> 0, reconnects |-> 0,
             rebuilds |-> 0, outages |-> 0, queue |-> 1, client |-> FALSE]
Linked == [NoChange EXCEPT !.starts = 1, !.links = 1]
Client == [NoChange EXCEPT !.starts = 1, !.client = TRUE]
MCChanges == {
    NoChange,
    \* the peer falls silent and returns
    [Linked EXCEPT !.outages = 2],
    [Linked EXCEPT !.outages = 1, !.rebuilds = 1],
    [Client EXCEPT !.outages = 1, !.reconnects = 1],
    \* the peer leaves and is linked again, or the session is
    [Linked EXCEPT !.links = 2, !.unlinks = 1],
    [Linked EXCEPT !.links = 2, !.starts = 2, !.stops = 1],
    [Client EXCEPT !.starts = 2, !.stops = 1]}

Init == UdpInit /\ HealthInit /\ ((load = NoLoad) # (left = NoChange))
Next == \/ UdpNext /\ UNCHANGED healthVars
        \/ HealthNext /\ UNCHANGED udpVars
Spec == Init /\ [][Next]_<<udpVars, healthVars>> /\ HealthFairness
=============================================================================
