--------------------------- MODULE MCSteamService ---------------------------
(* Small mixes of outside events, explored side by side. *)
EXTENDS SteamService
CONSTANTS c1, c2, c3, l1, l2
MCCalls == {c1, c2, c3}
MCLobbies == {l1, l2}

\* The window reopens on the page it was left on (last_page).
Still == [signIns |-> 1, failures |-> 0, personas |-> 0, lobbies |-> 0, ticks |-> 0,
          blanks |-> 0, misses |-> 0, switches |-> 0, sessions |-> 0, launches |-> 0,
          invites |-> 0, quits |-> 0, calls |-> 0, searches |-> 0, page |-> "create"]

MCMixes == {
    \* three calls of the session while the user signs in
    [Still EXCEPT !.signIns = 0, !.calls = 3, !.quits = 1],
    \* a lobby search
    [Still EXCEPT !.searches = 1, !.quits = 1, !.page = "join"],
    \* friends change while they are refreshed
    [Still EXCEPT !.personas = 2, !.ticks = 1],
    \* the friend list is open and avatars are missing
    [Still EXCEPT !.personas = 1, !.blanks = 1, !.sessions = 1],
    \* the friend's lobbies change while the pages do
    [Still EXCEPT !.lobbies = 2, !.misses = 1, !.switches = 2, !.page = "join"],
    \* launch requests around the start and the end of Steam
    [Still EXCEPT !.failures = 1, !.launches = 2, !.invites = 1, !.quits = 1]}
=============================================================================
