---------------------------- MODULE MCBroadcast ----------------------------
EXTENDS BroadcastRedirector
MCMixes == {
    \* one session: its ports change while the helper starts, serves or fails
    [sessions |-> 1, changes |-> 2, faults |-> 1],
    \* two sessions: the helper of the first is late or fails
    [sessions |-> 2, changes |-> 0, faults |-> 1]}
=============================================================================
