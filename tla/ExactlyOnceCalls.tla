-------------------------- MODULE ExactlyOnceCalls --------------------------
(***************************************************************************)
(* What SteamClient.await_call promises its callers (steam_api.py          *)
(* 1309-1316): a Steam call made and awaited is answered by running the    *)
(* caller's handler, and it is never answered twice.  Shutting the client  *)
(* down abandons the calls not answered yet; a call abandoned is never     *)
(* answered later.                                                         *)
(***************************************************************************)
CONSTANT Calls          \* the call handles Steam gives out

VARIABLE outcome        \* what the caller of each handle can observe

States == {"unused", "open", "answered", "abandoned"}

Init == outcome = [c \in Calls |-> "unused"]

Issue(c) ==
    /\ outcome[c] = "unused"
    /\ outcome' = [outcome EXCEPT ![c] = "open"]

Answer(c) ==
    /\ outcome[c] = "open"
    /\ outcome' = [outcome EXCEPT ![c] = "answered"]

\* Shutdown abandons any of the calls that have no answer.
Abandon ==
    \E lost \in SUBSET {c \in Calls : outcome[c] = "open"} :
        outcome' = [c \in Calls |-> IF c \in lost THEN "abandoned" ELSE outcome[c]]

Next ==
    \/ \E c \in Calls : Issue(c) \/ Answer(c)
    \/ Abandon

Spec == Init /\ [][Next]_outcome
=============================================================================
