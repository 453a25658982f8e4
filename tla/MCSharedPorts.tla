---------------------------- MODULE MCSharedPorts ----------------------------
(* Small mixes of events, explored side by side. *)
EXTENDS SharedPorts

Calm == [updates |-> 1, joins |-> 1, acts |-> 0, refusals |-> 0, failures |-> 0,
         gaps |-> 0, breaks |-> 0, races |-> 0, toggles |-> 0, binds |-> 0,
         redraws |-> FALSE, heard |-> TRUE, auto |-> TRUE, unread |-> 2, shared |-> <<1>>]

MCMixes == {
    \* the user opens, moves and closes ports while the host changes them
    [Calm EXCEPT !.updates = 2, !.acts = 1, !.shared = <<1, 2>>],
    [Calm EXCEPT !.updates = 2, !.acts = 1, !.auto = FALSE],
    \* ports are opened automatically, and another program takes some
    [Calm EXCEPT !.races = 1, !.binds = 2, !.toggles = 1, !.acts = 1],
    \* the member leaves and joins again before the host notices
    [Calm EXCEPT !.updates = 2, !.joins = 2, !.races = 1],
    \* the session breaks, and the host's engines do not start
    [Calm EXCEPT !.updates = 2, !.failures = 1, !.breaks = 1],
    \* a change is not sent
    [Calm EXCEPT !.updates = 2, !.heard = FALSE],
    \* channels are drawn again
    [Calm EXCEPT !.updates = 2, !.redraws = TRUE],
    \* Steam refuses a change, or loses a member for a moment
    [Calm EXCEPT !.updates = 2, !.refusals = 1, !.gaps = 1],
    [Calm EXCEPT !.updates = 2, !.gaps = 1, !.breaks = 1, !.joins = 2]}
=============================================================================
