------------------------------ MODULE MCLobbyChat ------------------------------
(* A chat that starts twice or says two messages, and two clients together. *)
EXTENDS LobbyChat

CONSTANTS c1, c2

Each(m, n) == c1 :> m @@ c2 :> n

MCMixes == {
    [starts |-> Each(2, 0), messages |-> 1, removals |-> Each(1, 0), net |-> 2],
    [starts |-> Each(1, 0), messages |-> 2, removals |-> Each(1, 0), net |-> 2],
    [starts |-> Each(1, 1), messages |-> 1, removals |-> Each(0, 1), net |-> 1]}
=============================================================================
