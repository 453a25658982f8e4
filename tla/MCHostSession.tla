---------------------------- MODULE MCHostSession ----------------------------
\* One peer: no handler reads the state of another peer, and the settings all
\* peers share are changed by actions of their own.
EXTENDS HostSession
CONSTANT p1
=============================================================================
