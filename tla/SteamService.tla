---------------------------- MODULE SteamService ----------------------------
(***************************************************************************)
(* Steam data refresh (SteamyLan/services.py: SteamService), the caches of *)
(* SteamClient it reads through (steam_api.py), the pages of the window    *)
(* that switch it on and off, and the start and end of the application     *)
(* (app.py).                                                               *)
(*                                                                         *)
(* Threads: the Qt thread runs every slot and timer; each refresh runs in  *)
(* a pool worker, which reports result (or error) and then finished to the *)
(* Qt thread (workers.py); the dispatch thread of SteamClient delivers     *)
(* Steam's callbacks.  The lobby search shares the registry of SteamCalls  *)
(* with the session's own calls.                                           *)
(*                                                                         *)
(* One friend stands for the friend list: friends are independent of each  *)
(* other in all of this code.                                              *)
(***************************************************************************)
EXTENDS SteamCalls, FiniteSets

CONSTANTS
    Mixes,      \* the bounds to explore: what the outside world may do
    Lobbies,    \* the lobbies a start of the program may be for (+connect_lobby)
    None        \* nothing cached, nothing shown, no lobby, no call

Pages == {"join", "create", "server"}

\* How often each event may happen, and the page the window opens on.
Mix == [signIns : Nat, failures : Nat, personas : Nat, lobbies : Nat, ticks : Nat,
        blanks : Nat, misses : Nat, switches : Nat, sessions : Nat, launches : Nat,
        invites : Nat, quits : Nat, calls : Nat, searches : Nat, page : Pages]

\* Every call a mix allows gets a handle.
ASSUME MixesAssumption ==
    /\ Mixes \subseteq Mix
    /\ \A mix \in Mixes : mix.calls + mix.searches <= Cardinality(Calls)

VARIABLES
    limit,      \* how often each event of the outside world may still happen
    signedIn,   \* Steam: the account is logged on
    persona,    \* Steam: the friend's presence and looks (name and avatar)
    callbacks,  \* Steam: persona change callbacks not dispatched yet
    lobby,      \* Steam: the lobby the friend is in
    api,        \* SteamClient.initialized, and whether the API was shut down
    starting,   \* the initialization worker (_initializing)
    announced,  \* ready was emitted
    names,      \* _friend_name_cache
    avatars,    \* _avatar_cache
    overlapped, \* a callback cleared the caches while a worker held a value
    friendJob,  \* the friend refresh worker (_friend_refresh_running)
    friendAgain,\* _friend_refresh_again
    friendShots,\* pending single shots of refresh_friends
    shown,      \* _friends: the row of the friend
    avatarJob,  \* the avatar worker (_avatar_refresh_running)
    avatarWanted, \* _avatar_refresh_pending
    active,     \* _lobby_discovery_active
    ticking,    \* _discover_timer runs
    lobbyShot,  \* a single shot of refresh_lobbies is pending
    hostJob,    \* the friend lobby worker (_discovery_running)
    hosts,      \* _hosts
    searchJob,  \* the public lobby worker (_public_discovery_running)
    page,       \* the page of the window
    session,    \* SessionManager.snapshot.mode
    launch,     \* pending_launch_lobby
    launchShot, \* the lobby of handle_steam_ready's single shot, while it is pending
    asked,      \* history: the newest lobby asked for, until it is joined or declined
    closing     \* cleanup: not begun, waiting for the pool, for the dispatch thread, over

callVars == vars
startVars == <<signedIn, api, starting, announced>>
steamVars == <<persona, callbacks, lobby>>
cacheVars == <<names, avatars, overlapped>>
friendVars == <<friendJob, friendAgain, friendShots, shown>>
avatarVars == <<avatarJob, avatarWanted>>
browseVars == <<active, ticking, lobbyShot, hostJob, hosts, searchJob>>
windowVars == <<page, session, launch, launchShot, asked, closing>>

serviceVars == <<callVars, limit, startVars, steamVars, cacheVars, friendVars,
                 avatarVars, browseVars, windowVars>>

Looks == Nat \cup {None}
JobPhases == {"idle", "reading", "result", "finished"}

FriendJobs == [at : JobPhases \cup {"name", "keepName", "avatar", "keepAvatar"},
               online : BOOLEAN, name : Looks, avatar : Looks]
Rows == [online : BOOLEAN, name : Looks, avatar : Looks]
AvatarJobs == [at : JobPhases \cup {"keep"}, avatar : Looks]
HostJobs == [at : JobPhases, rows : Looks]
SearchJobs == [at : JobPhases \cup {"waiting"}, call : Calls \cup {None}]

StartTypes ==
    /\ signedIn \in BOOLEAN /\ announced \in BOOLEAN
    /\ api \in {"down", "up", "closed"}
    /\ starting \in {"idle", "connecting", "signingIn", "result", "error", "finished"}

SteamTypes ==
    persona \in [online : BOOLEAN, look : Nat] /\ callbacks \in Nat /\ lobby \in Looks

CacheTypes == names \in Looks /\ avatars \in Looks /\ overlapped \in BOOLEAN

FriendTypes ==
    /\ friendJob \in FriendJobs /\ shown \in Rows
    /\ friendAgain \in BOOLEAN /\ friendShots \in SUBSET {"dirty", "again"}

AvatarTypes == avatarJob \in AvatarJobs /\ avatarWanted \in BOOLEAN

BrowseTypes ==
    /\ active \in BOOLEAN /\ ticking \in BOOLEAN /\ lobbyShot \in BOOLEAN
    /\ hostJob \in HostJobs /\ hosts \in Looks /\ searchJob \in SearchJobs

WindowTypes ==
    /\ page \in Pages /\ session \in {"idle", "joining", "sharing"}
    /\ {launch, launchShot, asked} \subseteq Lobbies \cup {None}
    /\ closing \in {"no", "waiting", "joining", "over"}

OwnTypeOK ==
    /\ limit \in Mix
    /\ StartTypes /\ SteamTypes /\ CacheTypes /\ FriendTypes
    /\ AvatarTypes /\ BrowseTypes /\ WindowTypes

ServiceTypeOK == TypeOK /\ OwnTypeOK

ServiceInit ==
    /\ Init
    /\ limit \in Mixes
    /\ signedIn = FALSE
    /\ persona = [online |-> TRUE, look |-> 0]
    /\ callbacks = 0
    /\ lobby = None
    /\ api = "down" /\ starting = "idle" /\ announced = FALSE
    /\ names = None /\ avatars = None /\ overlapped = FALSE
    /\ friendJob = [at |-> "idle", online |-> FALSE, name |-> None, avatar |-> None]
    /\ friendAgain = FALSE /\ friendShots = {}
    /\ shown = [online |-> FALSE, name |-> None, avatar |-> None]
    /\ avatarJob = [at |-> "idle", avatar |-> None] /\ avatarWanted = FALSE
    /\ page = limit.page /\ active = (page = "join") /\ ticking = FALSE /\ lobbyShot = FALSE
    /\ hostJob = [at |-> "idle", rows |-> None] /\ hosts = None
    /\ searchJob = [at |-> "idle", call |-> None]
    /\ session = "idle"
    /\ launch \in IF limit.launches > 0 THEN Lobbies \cup {None} ELSE {None}
    /\ launchShot = None /\ asked = launch
    /\ closing = "no"

\* An event of the outside world, while its bound lasts.
Spend(event) ==
    /\ limit[event] > 0
    /\ limit' = [limit EXCEPT ![event] = @ - 1]

\* The Qt thread handles events until cleanup blocks it.
Qt == closing = "no"

-----------------------------------------------------------------------------
(* Starting the requests: parts of the slots below. *)

\* Faulty variant: a request made while a refresh runs is forgotten.
RefreshFriendsOnce ==
    /\ friendJob' = [friendJob EXCEPT !.at = IF @ = "idle" THEN "reading" ELSE @]
    /\ UNCHANGED friendAgain

\* refresh_friends: one worker at a time, a request meanwhile is remembered.
RefreshFriends ==
    IF friendJob.at = "idle"
    THEN friendJob' = [friendJob EXCEPT !.at = "reading"] /\ UNCHANGED friendAgain
    ELSE friendAgain' = TRUE /\ UNCHANGED friendJob

\* refresh_lobbies: discover_hosts and discover_public_lobbies, each dropped
\* while its worker runs.
RefreshLobbies ==
    /\ hostJob' = IF active /\ hostJob.at = "idle"
                  THEN [hostJob EXCEPT !.at = "reading"] ELSE hostJob
    /\ searchJob' = IF /\ active /\ searchJob.at = "idle"
                       /\ limit.searches > 0
                    THEN [searchJob EXCEPT !.at = "reading"] ELSE searchJob

\* Faulty variant: the timer is not started again.
SyncDiscoveryOnce(p, s) ==
    /\ active' = (p = "join" /\ s = "idle")
    /\ ticking' = (ticking /\ active')
    /\ UNCHANGED lobbyShot

\* _sync_lobby_discovery and set_lobby_discovery_active.
SyncDiscovery(p, s) ==
    /\ active' = (p = "join" /\ s = "idle")
    /\ IF api = "up"
       THEN /\ ticking' = active'
            /\ lobbyShot' = (lobbyShot \/ (active' /\ ~active))
       ELSE UNCHANGED <<ticking, lobbyShot>>

\* The page and mode of the window change together with the browser's.
Show(p, s) ==
    /\ page' = p
    /\ session' = s
    /\ SyncDiscovery(p, s)
    /\ UNCHANGED <<hostJob, hosts, searchJob>>

FriendsListed(p, s) == p = "server" /\ s = "sharing"

\* _render_friend_rows draws the friends and collects the missing avatars.
MissesAvatar(row) == row.name # None /\ row.avatar = None

\* hydrate_friend_avatars: _start_avatar_refresh takes the request unless its
\* worker runs.
Hydrate(row) ==
    LET wanted == avatarWanted \/ MissesAvatar(row)
    IN  IF wanted /\ avatarJob.at = "idle"
        THEN avatarJob' = [avatarJob EXCEPT !.at = "reading"] /\ avatarWanted' = FALSE
        ELSE avatarWanted' = wanted /\ UNCHANGED avatarJob

-----------------------------------------------------------------------------
(* Starting Steam: initialize and _initialize_until_ready. *)

\* Until Steam is ready, _render_steam_problem shows the Retry button.
RetryOffered == ~announced

\* The first call (app.py) and the window's Retry button.
Initialize ==
    /\ Qt /\ RetryOffered
    /\ starting = "idle"
    /\ starting' = "connecting"
    /\ UNCHANGED <<callVars, limit, signedIn, api, announced, steamVars, cacheVars,
                   friendVars, avatarVars, browseVars, windowVars>>

\* SteamClient.initialize; a failure after the API started shuts it down again.
Connect ==
    /\ starting = "connecting"
    /\ \/ /\ api' = "up"
          /\ starting' = "signingIn"
          /\ UNCHANGED limit
       \/ /\ api = "down"
          /\ Spend("failures")
          /\ starting' = "error"
          /\ UNCHANGED api
    /\ UNCHANGED <<callVars, signedIn, announced, steamVars, cacheVars, friendVars,
                   avatarVars, browseVars, windowVars>>

\* The user signs in to Steam.
SignIn ==
    /\ Spend("signIns")
    /\ signedIn' = TRUE
    /\ UNCHANGED <<callVars, api, starting, announced, steamVars, cacheVars,
                   friendVars, avatarVars, browseVars, windowVars>>

\* The worker polls logged_on until it is, or until the application ends.
SignedIn ==
    /\ starting = "signingIn"
    /\ \/ ~Qt /\ starting' = "finished"
       \/ Qt /\ signedIn /\ starting' = "result"
    /\ UNCHANGED <<callVars, limit, signedIn, api, announced, steamVars, cacheVars,
                   friendVars, avatarVars, browseVars, windowVars>>

\* _init_ready_result; ready also reaches the window (_steam_ready) and the
\* launch request (handle_steam_ready).
InitReady ==
    /\ Qt /\ starting = "result"
    /\ starting' = "finished"
    /\ announced' = TRUE
    /\ active' = (page = "join" /\ session = "idle")
    /\ ticking' = active'
    /\ lobbyShot' = (lobbyShot \/ active')
    /\ launchShot' = launch
    /\ RefreshFriends
    /\ UNCHANGED <<callVars, limit, signedIn, api, steamVars, cacheVars, friendShots,
                   shown, avatarVars, hostJob, hosts, searchJob, page, session, launch,
                   asked, closing>>

\* _init_error and _init_finished.
InitOver ==
    /\ Qt
    /\ \/ starting = "error" /\ starting' = "finished"
       \/ starting = "finished" /\ starting' = "idle"
    /\ UNCHANGED <<callVars, limit, signedIn, api, announced, steamVars, cacheVars,
                   friendVars, avatarVars, browseVars, windowVars>>

-----------------------------------------------------------------------------
(* Steam's side: the friend changes, joins and leaves lobbies. *)

PersonaChanges ==
    /\ api = "up"
    /\ Spend("personas")
    /\ \/ persona' = [persona EXCEPT !.online = ~@]
       \/ persona' = [persona EXCEPT !.look = @ + 1]
    /\ callbacks' = callbacks + 1
    /\ UNCHANGED <<callVars, startVars, lobby, cacheVars, friendVars, avatarVars,
                   browseVars, windowVars>>

LobbyChanges ==
    /\ Spend("lobbies")
    /\ lobby' \in {None, limit.lobbies} \ {lobby}
    /\ UNCHANGED <<callVars, startVars, persona, callbacks, cacheVars, friendVars,
                   avatarVars, browseVars, windowVars>>

\* Faulty variant: the cached avatar survives the change.
DispatchPersonaNameOnly ==
    /\ api = "up" /\ callbacks > 0
    /\ callbacks' = callbacks - 1
    /\ names' = None
    /\ overlapped' = (overlapped \/ friendJob.at \in {"keepName", "keepAvatar"}
                                 \/ avatarJob.at = "keep")
    /\ friendShots' = friendShots \cup {"dirty"}
    /\ UNCHANGED <<callVars, limit, startVars, persona, lobby, avatars, friendJob,
                   friendAgain, shown, avatarVars, browseVars, windowVars>>

\* _handle_callback for a persona change, then friends_changed: _steam_event
\* posts _friendsDirty, which starts the debounce timer.
DispatchPersona ==
    /\ api = "up" /\ callbacks > 0
    /\ callbacks' = callbacks - 1
    /\ names' = None /\ avatars' = None
    /\ overlapped' = (overlapped \/ friendJob.at \in {"keepName", "keepAvatar"}
                                 \/ avatarJob.at = "keep")
    /\ friendShots' = friendShots \cup {"dirty"}
    /\ UNCHANGED <<callVars, limit, startVars, persona, lobby, friendJob, friendAgain,
                   shown, avatarVars, browseVars, windowVars>>

-----------------------------------------------------------------------------
(* The friend refresh: friends_list in a worker, its results on Qt. *)

\* The debounce timer or the shot of _friend_finished.
FriendShot(shot) ==
    /\ Qt /\ shot \in friendShots
    /\ friendShots' = friendShots \ {shot}
    /\ RefreshFriends
    /\ UNCHANGED <<callVars, limit, startVars, steamVars, cacheVars, shown, avatarVars,
                   browseVars, windowVars>>

\* The 60 s timer, which runs once Steam is ready.
FriendTick ==
    /\ Qt /\ announced
    /\ Spend("ticks")
    /\ RefreshFriends
    /\ UNCHANGED <<callVars, startVars, steamVars, cacheVars, friendShots, shown,
                   avatarVars, browseVars, windowVars>>

ReadPresence ==
    /\ friendJob.at = "reading"
    /\ friendJob' = [friendJob EXCEPT !.at = "name", !.online = persona.online]
    /\ UNCHANGED <<callVars, limit, startVars, steamVars, cacheVars, friendAgain,
                   friendShots, shown, avatarVars, browseVars, windowVars>>

\* friend_name: the cached name, or Steam's, which is then kept.
ReadName ==
    /\ friendJob.at = "name"
    /\ friendJob' = IF names # None
                    THEN [friendJob EXCEPT !.at = "avatar", !.name = names]
                    ELSE [friendJob EXCEPT !.at = "keepName", !.name = persona.look]
    /\ UNCHANGED <<callVars, limit, startVars, steamVars, cacheVars, friendAgain,
                   friendShots, shown, avatarVars, browseVars, windowVars>>

KeepName ==
    /\ friendJob.at = "keepName"
    /\ names' = friendJob.name
    /\ friendJob' = [friendJob EXCEPT !.at = "avatar"]
    /\ UNCHANGED <<callVars, limit, startVars, steamVars, avatars, overlapped,
                   friendAgain, friendShots, shown, avatarVars, browseVars, windowVars>>

\* An avatar Steam has not loaded is left out.
AvatarMissing == Spend("blanks")

\* The cached avatar; Steam's for a friend who is online and has none cached.
ReadAvatar ==
    /\ friendJob.at = "avatar"
    /\ \/ /\ avatars = None /\ friendJob.online
          /\ friendJob' = [friendJob EXCEPT !.at = "keepAvatar", !.avatar = persona.look]
          /\ UNCHANGED limit
       \/ /\ avatars = None /\ friendJob.online
          /\ friendJob' = [friendJob EXCEPT !.at = "result", !.avatar = None]
          /\ AvatarMissing
       \/ /\ avatars # None \/ ~friendJob.online
          /\ friendJob' = [friendJob EXCEPT !.at = "result", !.avatar = avatars]
          /\ UNCHANGED limit
    /\ UNCHANGED <<callVars, startVars, steamVars, cacheVars, friendAgain, friendShots,
                   shown, avatarVars, browseVars, windowVars>>

KeepAvatar ==
    /\ friendJob.at = "keepAvatar"
    /\ avatars' = friendJob.avatar
    /\ friendJob' = [friendJob EXCEPT !.at = "result"]
    /\ UNCHANGED <<callVars, limit, startVars, steamVars, names, overlapped,
                   friendAgain, friendShots, shown, avatarVars, browseVars, windowVars>>

\* _friend_result, and the window's _friends_updated when rows changed.
FriendResult ==
    LET row == [online |-> friendJob.online, name |-> friendJob.name,
                avatar |-> friendJob.avatar]
    IN  /\ Qt /\ friendJob.at = "result"
        /\ friendJob' = [friendJob EXCEPT !.at = "finished"]
        /\ shown' = row
        /\ lobbyShot' = (lobbyShot \/ (row # shown /\ active))
        /\ IF row # shown /\ FriendsListed(page, session)
           THEN Hydrate(row) ELSE UNCHANGED avatarVars
        /\ UNCHANGED <<callVars, limit, startVars, steamVars, cacheVars, friendAgain,
                       friendShots, active, ticking, hostJob, hosts, searchJob,
                       windowVars>>

\* _friend_finished: a remembered request is repeated after 500 ms.
FriendFinished ==
    /\ Qt /\ friendJob.at = "finished"
    /\ friendJob' = [friendJob EXCEPT !.at = "idle"]
    /\ friendAgain' = FALSE
    /\ friendShots' = IF friendAgain THEN friendShots \cup {"again"} ELSE friendShots
    /\ UNCHANGED <<callVars, limit, startVars, steamVars, cacheVars, shown, avatarVars,
                   browseVars, windowVars>>

-----------------------------------------------------------------------------
(* The avatars of listed friends without one. *)

LoadAvatar ==
    /\ avatarJob.at = "reading"
    /\ \/ /\ avatars = None
          /\ avatarJob' = [at |-> "keep", avatar |-> persona.look]
          /\ UNCHANGED limit
       \/ /\ avatars = None
          /\ avatarJob' = [at |-> "result", avatar |-> None]
          /\ AvatarMissing
       \/ /\ avatars # None
          /\ avatarJob' = [at |-> "result", avatar |-> avatars]
          /\ UNCHANGED limit
    /\ UNCHANGED <<callVars, startVars, steamVars, cacheVars, friendVars, avatarWanted,
                   browseVars, windowVars>>

KeepLoadedAvatar ==
    /\ avatarJob.at = "keep"
    /\ avatars' = avatarJob.avatar
    /\ avatarJob' = [avatarJob EXCEPT !.at = "result"]
    /\ UNCHANGED <<callVars, limit, startVars, steamVars, names, overlapped, friendVars,
                   avatarWanted, browseVars, windowVars>>

\* _avatar_result: only an avatar that was found replaces the row's.
AvatarResult ==
    /\ Qt /\ avatarJob.at = "result"
    /\ shown' = IF avatarJob.avatar # None
                THEN [shown EXCEPT !.avatar = avatarJob.avatar] ELSE shown
    /\ avatarJob' = [avatarJob EXCEPT !.at = "finished"]
    /\ UNCHANGED <<callVars, limit, startVars, steamVars, cacheVars, friendJob,
                   friendAgain, friendShots, avatarWanted, browseVars, windowVars>>

\* _avatar_finished, and the shot that starts the requests left meanwhile.
AvatarFinished ==
    /\ Qt /\ avatarJob.at = "finished"
    /\ avatarJob' = [avatarJob EXCEPT !.at = IF avatarWanted THEN "reading" ELSE "idle"]
    /\ avatarWanted' = FALSE
    /\ UNCHANGED <<callVars, limit, startVars, steamVars, cacheVars, friendVars,
                   browseVars, windowVars>>

-----------------------------------------------------------------------------
(* The lobby browser. *)

\* _discover_timer.
DiscoverTick ==
    /\ Qt /\ ticking
    /\ RefreshLobbies
    /\ UNCHANGED <<callVars, limit, startVars, steamVars, cacheVars, friendVars,
                   avatarVars, active, ticking, lobbyShot, hosts, windowVars>>

LobbyShot ==
    /\ Qt /\ lobbyShot
    /\ lobbyShot' = FALSE
    /\ RefreshLobbies
    /\ UNCHANGED <<callVars, limit, startVars, steamVars, cacheVars, friendVars,
                   avatarVars, active, ticking, hosts, windowVars>>

\* discover_hosts: the lobbies of the friends known so far; _load_lobby gives
\* up on one whose data does not arrive in time.
FindHosts ==
    /\ hostJob.at = "reading"
    /\ \/ /\ hostJob' = [at |-> "result",
                         rows |-> IF shown.name # None THEN lobby ELSE None]
          /\ UNCHANGED limit
       \/ /\ Spend("misses")
          /\ hostJob' = [at |-> "result", rows |-> None]
    /\ UNCHANGED <<callVars, startVars, steamVars, cacheVars, friendVars, avatarVars,
                   active, ticking, lobbyShot, hosts, searchJob, windowVars>>

HostsResult ==
    /\ Qt /\ hostJob.at = "result"
    /\ hosts' = hostJob.rows
    /\ hostJob' = [hostJob EXCEPT !.at = "finished"]
    /\ UNCHANGED <<callVars, limit, startVars, steamVars, cacheVars, friendVars,
                   avatarVars, active, ticking, lobbyShot, searchJob, windowVars>>

HostsFinished ==
    /\ Qt /\ hostJob.at = "finished"
    /\ hostJob' = [hostJob EXCEPT !.at = "idle"]
    /\ UNCHANGED <<callVars, limit, startVars, steamVars, cacheVars, friendVars,
                   avatarVars, active, ticking, lobbyShot, hosts, searchJob, windowVars>>

\* discover_public_lobbies: the worker asks Steam and awaits the call.
SearchAsks(c) ==
    /\ searchJob.at = "reading"
    /\ IssueCall(c)
    /\ Spend("searches")
    /\ searchJob' = [at |-> "waiting", call |-> c]
    /\ UNCHANGED <<startVars, steamVars, cacheVars, friendVars, avatarVars,
                   active, ticking, lobbyShot, hostJob, hosts, windowVars>>

\* The answer sets the worker's event.
SearchAnswered ==
    /\ searchJob.at = "waiting"
    /\ caller[searchJob.call] = "returned" /\ answers[searchJob.call] > 0
    /\ searchJob' = [at |-> "result", call |-> None]
    /\ UNCHANGED <<callVars, limit, startVars, steamVars, cacheVars, friendVars,
                   avatarVars, active, ticking, lobbyShot, hostJob, hosts, windowVars>>

\* No answer for 6 s: the worker raises and leaves its handler registered.
SearchTimesOut ==
    /\ searchJob.at = "waiting"
    /\ caller[searchJob.call] = "returned" /\ answers[searchJob.call] = 0
    /\ searchJob' = [at |-> "finished", call |-> None]
    /\ UNCHANGED <<callVars, limit, startVars, steamVars, cacheVars, friendVars,
                   avatarVars, active, ticking, lobbyShot, hostJob, hosts, windowVars>>

\* _public_lobbies_result (the rows are left out) and _public_lobbies_finished.
SearchOver ==
    /\ Qt
    /\ \/ searchJob.at = "result" /\ searchJob' = [searchJob EXCEPT !.at = "finished"]
       \/ searchJob.at = "finished" /\ searchJob' = [searchJob EXCEPT !.at = "idle"]
    /\ UNCHANGED <<callVars, limit, startVars, steamVars, cacheVars, friendVars,
                   avatarVars, active, ticking, lobbyShot, hostJob, hosts, windowVars>>

-----------------------------------------------------------------------------
(* The window and the session. *)

\* _switch: the server page only while a session runs.
SwitchPage(p) ==
    /\ Qt /\ Spend("switches")
    /\ p # page /\ (p = "server" => session # "idle")
    /\ Show(p, session)
    /\ IF FriendsListed(p, session) THEN Hydrate(shown) ELSE UNCHANGED avatarVars
    /\ UNCHANGED <<callVars, startVars, steamVars, cacheVars, friendVars, launch,
                   launchShot, asked, closing>>

\* The user shares, and _session_changed shows the server page.
ShareStarts ==
    /\ Qt /\ Spend("sessions")
    /\ announced /\ session = "idle"
    /\ Show("server", "sharing")
    /\ Hydrate(shown)
    /\ UNCHANGED <<callVars, startVars, steamVars, cacheVars, friendVars, launch,
                   launchShot, asked, closing>>

SessionEnds ==
    /\ Qt /\ session # "idle"
    /\ Show(IF page = "server" THEN "join" ELSE page, "idle")
    /\ UNCHANGED <<callVars, limit, startVars, steamVars, cacheVars, friendVars,
                   avatarVars, launch, launchShot, asked, closing>>

\* The session makes a call of its own: CreateLobby or JoinLobby.
SessionCalls(c) ==
    /\ api = "up" /\ Qt /\ Spend("calls")
    /\ IssueCall(c)
    /\ UNCHANGED <<startVars, steamVars, cacheVars, friendVars, avatarVars,
                   browseVars, windowVars>>

\* A thread that entered await_call, and the dispatch thread, take their steps.
CallStep(c) ==
    /\ Caller(c) \/ Dispatcher(c) \/ (api = "up" /\ SteamCompletes(c))
    /\ UNCHANGED <<limit, startVars, steamVars, cacheVars, friendVars, avatarVars,
                   browseVars, windowVars>>

\* Faulty variant: while one request waits for Steam, another is dropped.
RequestLaunchLobbyOnce(l) ==
    /\ launch' = IF session # "idle" \/ api = "up" THEN None
                 ELSE IF launch = None THEN l ELSE launch
    /\ IF session = "idle" /\ api = "up"
       THEN Show("server", "joining")
       ELSE UNCHANGED <<page, session, active, ticking, lobbyShot, hostJob, hosts,
                        searchJob>>

\* request_launch_lobby: declined while a session runs, which may be that of the
\* lobby itself; kept until Steam is initialized, in place of another; joined
\* otherwise.
RequestLaunchLobby(l) ==
    /\ launch' = IF session = "idle" /\ api # "up" THEN l ELSE None
    /\ IF session = "idle" /\ api = "up"
       THEN Show("server", "joining")
       ELSE UNCHANGED <<page, session, active, ticking, lobbyShot, hostJob, hosts,
                        searchJob>>

\* It was neither joined nor declined.
StillAsked == session = "idle" /\ session' = "idle"

\* A second start of the program forwards its arguments.
ForwardedArgs(l) ==
    /\ Qt /\ Spend("launches")
    /\ RequestLaunchLobby(l)
    /\ asked' = IF StillAsked THEN l ELSE None
    /\ UNCHANGED <<callVars, startVars, steamVars, cacheVars, friendVars, avatarVars,
                   launchShot, closing>>

LaunchShot ==
    /\ Qt /\ launchShot # None
    /\ launchShot' = None
    /\ RequestLaunchLobby(launchShot)
    /\ asked' = IF asked = launchShot /\ ~StillAsked THEN None ELSE asked
    /\ UNCHANGED <<callVars, limit, startVars, steamVars, cacheVars, friendVars,
                   avatarVars, closing>>

\* The user chose Join in Steam: _steam_lobby_join_requested obeys when idle.
JoinRequested ==
    /\ Qt /\ api = "up" /\ Spend("invites")
    /\ session = "idle"
    /\ Show("server", "joining")
    /\ UNCHANGED <<callVars, startVars, steamVars, cacheVars, friendVars, avatarVars,
                   launch, launchShot, asked, closing>>

-----------------------------------------------------------------------------
(* The end: cleanup stops the session and the timers and waits 25 s for the *)
(* pool; Steam is shut down only if every worker is out of it.              *)

Quit ==
    /\ Qt /\ Spend("quits")
    /\ closing' = "waiting"
    /\ session' = "idle"
    /\ ticking' = FALSE
    /\ friendShots' = friendShots \ {"dirty"}
    /\ UNCHANGED <<callVars, startVars, steamVars, cacheVars, friendJob, friendAgain,
                   shown, avatarVars, active, lobbyShot, hostJob, hosts, searchJob, page,
                   launch, launchShot, asked>>

Reported == {"idle", "result", "error", "finished"}

PoolDone ==
    /\ starting \in Reported
    /\ friendJob.at \in Reported /\ avatarJob.at \in Reported
    /\ hostJob.at \in Reported /\ searchJob.at \in Reported

\* SteamClient.shutdown: the dispatch loop is told to stop and waited for;
CloseSteam ==
    /\ closing = "waiting" /\ PoolDone
    /\ closing' = "joining"
    /\ StopDispatch
    /\ UNCHANGED <<limit, startVars, steamVars, cacheVars, friendVars, avatarVars,
                   browseVars, page, session, launch, launchShot, asked>>

\* the API is shut down, and the callback registry and the caches are emptied.
ShutSteam ==
    /\ closing = "joining"
    /\ closing' = "over"
    /\ api' = "closed"
    /\ Shutdown
    /\ names' = None /\ avatars' = None
    /\ UNCHANGED <<limit, signedIn, starting, announced, steamVars, overlapped,
                   friendVars, avatarVars, browseVars, page, session, launch, launchShot,
                   asked>>

LeaveSteam ==
    /\ closing = "waiting" /\ ~PoolDone
    /\ closing' = "over"
    /\ UNCHANGED <<callVars, limit, startVars, steamVars, cacheVars, friendVars,
                   avatarVars, browseVars, page, session, launch, launchShot, asked>>

-----------------------------------------------------------------------------

InitStep == Connect \/ SignedIn \/ InitReady \/ InitOver

FriendWorker ==
    ReadPresence \/ ReadName \/ KeepName \/ ReadAvatar \/ KeepAvatar

FriendStep ==
    FriendWorker \/ FriendResult \/ FriendFinished

AvatarStep == LoadAvatar \/ KeepLoadedAvatar \/ AvatarResult \/ AvatarFinished

HostStep == FindHosts \/ HostsResult \/ HostsFinished

SearchStep ==
    \/ \E c \in Calls : SearchAsks(c)
    \/ SearchAnswered
    \/ SearchTimesOut
    \/ SearchOver

World ==
    \/ SignIn
    \/ PersonaChanges
    \/ LobbyChanges
    \/ FriendTick
    \/ \E p \in Pages : SwitchPage(p)
    \/ ShareStarts
    \/ SessionEnds
    \/ \E l \in Lobbies : ForwardedArgs(l)
    \/ JoinRequested
    \/ Quit
    \/ \E c \in Calls : SessionCalls(c)

ServiceNext ==
    \/ Initialize
    \/ InitStep
    \/ DispatchPersona
    \/ \E shot \in {"dirty", "again"} : FriendShot(shot)
    \/ FriendStep
    \/ AvatarStep
    \/ DiscoverTick
    \/ LobbyShot
    \/ HostStep
    \/ SearchStep
    \/ \E c \in Calls : CallStep(c)
    \/ LaunchShot
    \/ CloseSteam
    \/ ShutSteam
    \/ LeaveSteam
    \/ World

ServiceSpec == ServiceInit /\ [][ServiceNext]_serviceVars

\* A worker that runs keeps running, the dispatch thread polls, and the Qt
\* thread delivers what is queued and what its running timers fire.  Nothing
\* is assumed of the outside world, nor of the 60 s timer.
ServiceFairSpec ==
    /\ ServiceSpec
    /\ WF_serviceVars(InitStep)
    /\ WF_serviceVars(DispatchPersona)
    /\ \A shot \in {"dirty", "again"} : WF_serviceVars(FriendShot(shot))
    /\ WF_serviceVars(FriendStep)
    /\ WF_serviceVars(AvatarStep)
    /\ WF_serviceVars(DiscoverTick)
    /\ WF_serviceVars(LobbyShot)
    /\ WF_serviceVars(HostStep)
    /\ WF_serviceVars(SearchStep)
    /\ WF_serviceVars(LaunchShot)
    /\ WF_serviceVars(CloseSteam \/ ShutSteam \/ LeaveSteam)
    /\ \A c \in Calls : CallsFair(c)

-----------------------------------------------------------------------------
(* Properties *)

Serving == announced /\ Qt

\* The friend list catches up with Steam: whatever changes while a refresh
\* runs or its result is on the way, the row ends with the friend's presence,
\* and, unless a callback overtook a read, with the name; the 60 s timer is
\* not needed for it.
FriendsConverge ==
    <>[]Serving =>
        <>[](/\ shown.online = persona.online
             /\ ~overlapped => shown.name = persona.look)

\* While the browser is open it ends with the lobby the friend is in, though
\* requests are dropped while a search runs and lobby data may time out.
BrowserConverges ==
    <>[](Serving /\ active) => <>[](hosts = lobby)

\* Once Steam is ready, the newest lobby the program was started for, or another
\* start handed over, is joined or declined: never kept, and never lost behind an
\* older one, though a request may come before Steam is initialized, while the user
\* signs in, or while the shot of an older one is pending.  An older one may be lost,
\* for the newest replaces it (app.py 127-130).
LaunchServed ==
    \A l \in Lobbies : (asked = l /\ announced) ~> (asked # l \/ ~Qt)

\* A cached name or avatar is Steam's current one, unless the callback that
\* clears it is still on the way or overtook the read that filled it.
CacheFresh ==
    (callbacks = 0 /\ ~overlapped) => {names, avatars} \subseteq {None, persona.look}

\* Steam is shut down only when no worker is inside it, and none goes in again.
ClosedUnused == api = "closed" => PoolDone /\ cleared
=============================================================================
