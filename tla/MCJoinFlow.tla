------------------------------ MODULE MCJoinFlow ------------------------------
EXTENDS JoinFlow
CONSTANTS l1, l2
MCLobbies == {l1, l2}
=============================================================================
