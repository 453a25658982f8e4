------------------------------- MODULE JoinFlow -------------------------------
(***************************************************************************)
(* How a user joins lobbies, one attempt after the other                   *)
(* (SteamyLan/services.py SessionManager, client side up to the granted    *)
(* access, with the client role of invite_broker.py InviteBroker).         *)
(*                                                                         *)
(* Slots run on the Qt thread and take what Steam's dispatcher, the broker *)
(* thread, the config workers and the control link posted, in the order it *)
(* was posted: inbox.  An attempt can end while a call, a worker or a      *)
(* timer it started is under way; whatever comes of that is handled in the *)
(* state of the attempt that runs by then.                                 *)
(*                                                                         *)
(* A share code names its lobby, or nothing but its host (a fixed code),   *)
(* and then the lobby is Unknown until the host answers.                   *)
(***************************************************************************)
EXTENDS Naturals, Sequences, FiniteSets, SequencesExt

CONSTANTS
    Lobbies,
    Locked,     \* lobbies that have a password
    None,       \* no lobby
    Unknown,    \* the lobby of a fixed share code, before the host answers
    MaxTries,   \* bound: attempts of the user
    MaxInbox    \* bound: posted events that wait

ASSUME JoinAssumption ==
    /\ Locked \subseteq Lobbies
    /\ None \notin Lobbies /\ Unknown \notin Lobbies /\ None # Unknown
    /\ {MaxTries, MaxInbox} \subseteq Nat

VARIABLES
    session,    \* SessionManager, see Session
    watchdogs,  \* lobbies of the 20 s timers of the current _join_attempt_id
    codeTimer,  \* whether a 300 ms timer for _request_join_current is pending
    broker,     \* whether an invite broker asks the host
    calls,      \* JoinLobby calls Steam has not answered
    workers,    \* _load_join_config workers that run
    owed,       \* events of answered calls that Steam has not handed over
    links,      \* control links that run
    inside,     \* lobbies this user is a member of
    inbox,      \* events posted to the Qt thread
    tries,      \* history: attempts made
    asked,      \* history: JoinLobby calls of the current attempt
    patient,    \* history: every attempt waited for the leftovers of the last
    expelled    \* history: a result came so late that the session left its lobby

history == <<tries, patient, expelled>>
vars == <<session, watchdogs, codeTimer, broker, calls, owed, workers, links, inside,
          inbox, asked, history>>

\* What a call, a worker and a link work on, and for which attempt.
Job == [lobby : Lobbies, try : 1 .. MaxTries]
NoJob == [lobby |-> None, try |-> 0]

Session ==
    [mode : {"idle", "joining", "connected"},  \* _snapshot.mode
     lobby : Lobbies \cup {None, Unknown},     \* _snapshot.lobby_id
     joining : Lobbies \cup {None, Unknown},   \* lobby of _joining_host
     loading : BOOLEAN,                        \* _join_loading
     callStarted : BOOLEAN,                    \* _join_call_started
     codePending : BOOLEAN,                    \* _code_invite_pending
     password : BOOLEAN,                       \* whether _join_password is set
     prompt : Job \cup {NoJob},                \* _pending_password_config
     config : Lobbies \cup {None},             \* lobby _config describes
     control : Job \cup {NoJob}]               \* _client_control

Idle == [mode |-> "idle", lobby |-> None, joining |-> None, loading |-> FALSE,
         callStarted |-> FALSE, codePending |-> FALSE, password |-> FALSE,
         prompt |-> NoJob, config |-> None, control |-> NoJob]

Event == [kind : {"enter", "result", "lost", "config", "noConfig", "codeGranted",
                  "codeDenied", "steamInvite", "granted", "denied"},
          lobby : Lobbies \cup {None}, ok : BOOLEAN, try : 0 .. MaxTries]

TypeOK ==
    /\ session \in Session
    /\ watchdogs \in SUBSET Lobbies
    /\ codeTimer \in BOOLEAN
    /\ broker \in BOOLEAN
    /\ calls \in SUBSET Job
    /\ owed \in SUBSET Event
    /\ workers \in SUBSET Job
    /\ links \in SUBSET Job
    /\ inside \in SUBSET Lobbies
    /\ inbox \in Seq(Event)
    /\ tries \in 0 .. MaxTries
    /\ asked \in Nat
    /\ patient \in BOOLEAN
    /\ expelled \in BOOLEAN

Init ==
    /\ session = Idle
    /\ watchdogs = {}
    /\ codeTimer = FALSE
    /\ broker = FALSE
    /\ calls = {}
    /\ owed = {}
    /\ workers = {}
    /\ links = {}
    /\ inside = {}
    /\ inbox = <<>>
    /\ tries = 0
    /\ asked = 0
    /\ patient = TRUE
    /\ expelled = FALSE

-----------------------------------------------------------------------------
(* What the slots share *)

Note(kind, lobby, ok, try) == [kind |-> kind, lobby |-> lobby, ok |-> ok, try |-> try]

Posted(events) ==
    /\ Len(inbox) + Len(events) <= MaxInbox
    /\ inbox' = inbox \o events

\* An attempt ends without stop: the slots each clear their own selection.
Abandoned(s) == [s EXCEPT !.mode = "idle", !.lobby = None, !.joining = None,
                          !.callStarted = FALSE, !.codePending = FALSE,
                          !.password = FALSE, !.prompt = NoJob]

\* stop: the broker and the current link end, and the lobby shown is left.
StopSession ==
    /\ session' = Idle
    /\ watchdogs' = {}
    /\ broker' = FALSE
    /\ links' = links \ {session.control}
    /\ inside' = inside \ {session.lobby}

\* The part of _request_join_current that follows its checks.
CallJoinLobby(s, try) ==
    /\ session' = [s EXCEPT !.callStarted = TRUE]
    /\ calls' = calls \cup {[lobby |-> s.joining, try |-> try]}
    /\ watchdogs' = {s.joining}
    /\ broker' = FALSE
    /\ asked' = IF try = tries THEN asked + 1 ELSE 1

\* Faulty variant: a call under way is not noticed.
RequestJoinAgain(s, try) ==
    IF s.joining \in Lobbies
    THEN CallJoinLobby(s, try)
    ELSE /\ session' = s
         /\ UNCHANGED <<calls, watchdogs, broker, asked>>

\* _request_join_current, for the lobby that s is joining in its attempt.
RequestJoin(s, try) ==
    \/ /\ s.joining \in {None, Unknown} \/ s.callStarted
       /\ session' = s
       /\ UNCHANGED <<calls, watchdogs, broker, asked>>
    \/ /\ s.joining \in Lobbies
       /\ ~s.callStarted
       /\ CallJoinLobby(s, try)
    \/ \* Steam did not take the call
       /\ s.joining \in Lobbies
       /\ ~s.callStarted
       /\ session' = Abandoned(s)
       /\ broker' = FALSE
       /\ UNCHANGED <<calls, watchdogs, asked>>

-----------------------------------------------------------------------------
(* The user *)

\* Nothing is left under way of the attempts made so far.
Settled ==
    /\ calls = {} /\ owed = {} /\ workers = {} /\ links = {} /\ inbox = <<>>
    /\ ~codeTimer

MayTry ==
    /\ session.mode = "idle"
    /\ tries < MaxTries
    /\ tries' = tries + 1
    /\ patient' = (patient /\ Settled)
    /\ expelled' = FALSE

\* _start_join
Join(l, password) ==
    /\ MayTry
    /\ RequestJoin([session EXCEPT !.mode = "joining", !.lobby = l, !.joining = l,
                        !.loading = FALSE, !.callStarted = FALSE, !.codePending = FALSE,
                        !.password = password, !.prompt = NoJob],
                   tries + 1)
    /\ UNCHANGED <<codeTimer, owed, workers, links, inside, inbox>>

\* join_code
JoinByCode(l, password) ==
    /\ MayTry
    /\ session' = [session EXCEPT !.mode = "joining", !.lobby = l, !.joining = l,
                      !.loading = FALSE, !.callStarted = FALSE, !.codePending = TRUE,
                      !.password = password]
    /\ broker' = TRUE
    /\ asked' = 0
    /\ UNCHANGED <<watchdogs, codeTimer, calls, owed, workers, links, inside, inbox>>

Disconnect ==
    /\ session.mode # "idle"
    /\ StopSession
    /\ UNCHANGED <<codeTimer, calls, owed, workers, inbox, history, asked>>

-----------------------------------------------------------------------------
(* Steam, the broker, the workers and the links post events *)

\* Steam answers a call with a LobbyEnter callback and the result of the call,
\* which may be lost. One of them is dispatched first, and the other is owed.
SteamAnswers(c, ok) ==
    LET enter == Note("enter", c.lobby, ok, c.try)
        result == Note("result", c.lobby, ok, c.try)
        lost == Note("lost", None, FALSE, c.try)
    IN  /\ c \in calls
        /\ calls' = calls \ {c}
        /\ inside' = IF ok THEN inside \cup {c.lobby} ELSE inside
        /\ \E outcome \in {result, lost} :
               \/ Posted(<<enter>>) /\ owed' = owed \cup {outcome}
               \/ Posted(<<outcome>>) /\ owed' = owed \cup {enter}
        /\ UNCHANGED <<session, watchdogs, codeTimer, broker, workers, links, history, asked>>

\* The other one follows, at once or much later.
Deliver(e) ==
    /\ e \in owed
    /\ owed' = owed \ {e}
    /\ Posted(<<e>>)
    /\ UNCHANGED <<session, watchdogs, codeTimer, broker, calls, workers, links, inside,
                   history, asked>>

\* The host's answer to the share code (its Steam invitation may overtake the
\* packet), or the time limit; a late answer can meet the expired limit.
BrokerAnswers(l) ==
    LET granted == Note("codeGranted", l, TRUE, tries)
        invited == Note("steamInvite", l, TRUE, tries)
        denied == Note("codeDenied", None, FALSE, tries)
    IN  /\ broker
        /\ broker' = FALSE
        /\ \/ Posted(<<granted>>) \/ Posted(<<denied>>)
           \/ Posted(<<invited, granted>>) \/ Posted(<<granted, invited>>)
           \/ Posted(<<granted, denied>>) \/ Posted(<<invited, denied>>)
        /\ UNCHANGED <<session, watchdogs, codeTimer, calls, owed, workers, links,
                   inside, history, asked>>

\* A friend invites the user to some lobby while a share code is pending. Steam
\* hands over no other invitation that _on_lobby_invite_for_code would notice.
FriendInvites(l) ==
    /\ session.codePending
    /\ ~\E i \in DOMAIN inbox : inbox[i].kind = "steamInvite"
    /\ Posted(<<Note("steamInvite", l, TRUE, tries)>>)
    /\ UNCHANGED <<session, watchdogs, codeTimer, broker, calls, owed, workers, links,
                   inside, history, asked>>

\* _load_join_config ends within 12 s, with the config of its lobby or an error.
WorkerEnds(w, ok) ==
    /\ w \in workers
    /\ workers' = workers \ {w}
    /\ Posted(<<Note(IF ok THEN "config" ELSE "noConfig", w.lobby, ok, w.try)>>)
    /\ UNCHANGED <<session, watchdogs, codeTimer, broker, calls, owed, links, inside,
                   history, asked>>

\* The host a link talks to grants a member access, or denies, revokes or ends it.
HostAnswers(link, kind) ==
    /\ link \in links
    /\ kind \in {"granted", "denied"}
    /\ kind = "granted" => link.lobby \in inside
    /\ ~\E i \in DOMAIN inbox : inbox[i].kind = kind /\ inbox[i].lobby = link.lobby
    /\ Posted(<<Note(kind, link.lobby, TRUE, link.try)>>)
    /\ UNCHANGED <<session, watchdogs, codeTimer, broker, calls, owed, workers,
                   links, inside, history, asked>>

-----------------------------------------------------------------------------
(* Slots for posted events *)

Takes(kind, e) ==
    /\ inbox # <<>>
    /\ e = Head(inbox)
    /\ e.kind = kind
    /\ inbox' = Tail(inbox)

\* _begin_join
BeginJoin(e) ==
    \/ /\ session.joining # e.lobby \/ session.loading
       /\ UNCHANGED <<session, workers>>
    \/ /\ session.joining = e.lobby /\ ~session.loading
       /\ ~e.ok
       /\ session' = Abandoned(session)
       /\ UNCHANGED workers
    \/ /\ session.joining = e.lobby /\ ~session.loading
       /\ e.ok
       /\ session' = [session EXCEPT !.loading = TRUE]
       /\ workers' = workers \cup {[lobby |-> e.lobby, try |-> tries]}

\* Faulty variant: a lobby entered too late is kept.
HandleEnterKeeping(e) ==
    /\ Takes("enter", e)
    /\ BeginJoin(e)
    /\ UNCHANGED <<watchdogs, codeTimer, broker, calls, owed, links, inside, history,
                   asked>>

\* _on_lobby_entered
HandleEnter(e) ==
    /\ Takes("enter", e)
    /\ IF session.joining = None /\ session.mode = "idle" /\ e.ok
       THEN /\ inside' = inside \ {e.lobby}
            /\ UNCHANGED <<session, workers>>
       ELSE /\ BeginJoin(e)
            /\ UNCHANGED inside
    /\ UNCHANGED <<watchdogs, codeTimer, broker, calls, owed, links, history, asked>>

\* _on_join_call
HandleResult(e) ==
    /\ Takes("result", e)
    /\ IF session.joining = None
       THEN /\ inside' = inside \ {e.lobby}
            /\ expelled' = (expelled \/ session.lobby = e.lobby)
            /\ UNCHANGED <<session, workers>>
       ELSE /\ BeginJoin(e)
            /\ UNCHANGED <<inside, expelled>>
    /\ UNCHANGED <<watchdogs, codeTimer, broker, calls, owed, links, tries, patient, asked>>

\* _on_join_call with no result: LobbyEnter decides.
HandleLost(e) ==
    /\ Takes("lost", e)
    /\ UNCHANGED <<session, watchdogs, codeTimer, broker, calls, owed, workers,
                   links, inside, history, asked>>

\* Faulty variant: the link is started, but not kept.
ApplyConfigUnheld(s, job) ==
    \/ /\ s.joining = None
       /\ session' = s
       /\ UNCHANGED <<watchdogs, broker, links, inside>>
    \/ /\ s.joining # None
       /\ session' = [s EXCEPT !.prompt = NoJob, !.config = job.lobby, !.lobby = s.joining]
       /\ links' = links \cup {job}
       /\ UNCHANGED <<watchdogs, broker, inside>>

\* _finish_join_config
ApplyConfig(s, job) ==
    \/ /\ s.joining = None
       /\ session' = s
       /\ UNCHANGED <<watchdogs, broker, links, inside>>
    \/ /\ s.joining # None
       /\ job.lobby \in Locked /\ ~s.password
       /\ session' = [s EXCEPT !.prompt = job]
       /\ UNCHANGED <<watchdogs, broker, links, inside>>
    \/ /\ s.joining # None
       /\ job.lobby \in Locked => s.password
       /\ session' = [s EXCEPT !.prompt = NoJob, !.config = job.lobby, !.control = job,
                               !.lobby = s.joining]
       /\ links' = links \cup {job}
       /\ UNCHANGED <<watchdogs, broker, inside>>
    \/ \* no key can be derived from the password
       /\ s.joining # None
       /\ job.lobby \in Locked /\ s.password
       /\ StopSession

HandleConfig(e) ==
    /\ Takes("config", e)
    /\ ApplyConfig(session, [lobby |-> e.lobby, try |-> e.try])
    /\ UNCHANGED <<codeTimer, calls, owed, workers, history, asked>>

\* _join_config_failed
HandleNoConfig(e) ==
    /\ Takes("noConfig", e)
    /\ inside' = inside \ {session.joining}
    /\ session' = [Abandoned(session) EXCEPT !.loading = FALSE, !.config = None]
    /\ UNCHANGED <<watchdogs, codeTimer, broker, calls, owed, workers, links,
                   history, asked>>

\* _on_code_invite_denied, once it is known to be for a pending code.
RejectCode ==
    /\ StopSession
    /\ UNCHANGED <<codeTimer, calls, asked>>

\* _on_code_invite_granted
HandleCodeGranted(e) ==
    /\ Takes("codeGranted", e)
    /\ \/ /\ ~session.codePending \/ session.joining = None
          /\ UNCHANGED <<session, watchdogs, codeTimer, broker, links, inside, calls, asked>>
       \/ /\ session.codePending
          /\ session.joining \in Lobbies \ {e.lobby}
          /\ RejectCode
       \/ /\ session.codePending
          /\ session.joining \in {Unknown, e.lobby}
          /\ session' = [session EXCEPT !.joining = e.lobby,
                            !.lobby = IF session.joining = Unknown THEN e.lobby ELSE @]
          /\ codeTimer' = TRUE
          /\ UNCHANGED <<watchdogs, broker, links, inside, calls, asked>>
    /\ UNCHANGED <<owed, workers, history>>

HandleCodeDenied(e) ==
    /\ Takes("codeDenied", e)
    /\ IF session.codePending
       THEN RejectCode
       ELSE UNCHANGED <<session, watchdogs, broker, links, inside, codeTimer, calls, asked>>
    /\ UNCHANGED <<owed, workers, history>>

\* _on_lobby_invite_for_code
HandleSteamInvite(e) ==
    /\ Takes("steamInvite", e)
    /\ IF session.codePending /\ session.joining \in {Unknown, e.lobby}
       THEN RequestJoin([session EXCEPT !.joining = e.lobby,
                            !.lobby = IF session.joining = Unknown THEN e.lobby ELSE @],
                        tries)
       ELSE UNCHANGED <<session, calls, watchdogs, broker, asked>>
    /\ UNCHANGED <<codeTimer, owed, workers, links, inside, history>>

\* _on_auth_granted
HandleGranted(e) ==
    /\ Takes("granted", e)
    /\ \/ /\ session.config = None \/ session.mode # "joining"
          /\ UNCHANGED <<session, watchdogs, broker, links, inside>>
       \/ /\ session.config # None /\ session.mode = "joining"
          /\ session' = [session EXCEPT !.mode = "connected", !.joining = None,
                            !.loading = FALSE, !.callStarted = FALSE,
                            !.codePending = FALSE, !.password = FALSE]
          /\ UNCHANGED <<watchdogs, broker, links, inside>>
       \/ \* a local port could not be opened
          /\ session.config # None /\ session.mode = "joining"
          /\ StopSession
    /\ UNCHANGED <<codeTimer, calls, owed, workers, history, asked>>

\* _on_auth_denied, _on_auth_revoked, _on_auth_disconnected
HandleDenied(e) ==
    /\ Takes("denied", e)
    /\ StopSession
    /\ UNCHANGED <<codeTimer, calls, owed, workers, history, asked>>

-----------------------------------------------------------------------------
(* Timers and answers of the user *)

\* Faulty variant: the timer ends no attempt.
WatchdogIdle(l) ==
    /\ l \in watchdogs
    /\ watchdogs' = watchdogs \ {l}
    /\ UNCHANGED <<session, codeTimer, broker, calls, owed, workers, links, inside,
                   inbox, history, asked>>

\* _join_watchdog of the current attempt; those of others do nothing.
Watchdog(l) ==
    /\ l \in watchdogs
    /\ watchdogs' = watchdogs \ {l}
    /\ session' = IF session.joining = l /\ ~session.loading
                  THEN Abandoned(session) ELSE session
    /\ UNCHANGED <<codeTimer, broker, calls, owed, workers, links, inside, inbox,
                   history, asked>>

CodeTimerFires ==
    /\ codeTimer
    /\ codeTimer' = FALSE
    /\ RequestJoin(session, tries)
    /\ UNCHANGED <<owed, workers, links, inside, inbox, history>>

\* provide_password; an empty one ends the attempt.
ProvidePassword ==
    /\ session.mode = "joining"
    /\ session.prompt # NoJob
    /\ \/ StopSession
       \/ ApplyConfig([session EXCEPT !.password = TRUE], session.prompt)
    /\ UNCHANGED <<codeTimer, calls, owed, workers, inbox, history, asked>>

\* _check_members: the host is no longer listed in the lobby.
HostGone ==
    /\ session.mode \in {"joining", "connected"}
    /\ session.config # None
    /\ StopSession
    /\ UNCHANGED <<codeTimer, calls, owed, workers, inbox, history, asked>>

-----------------------------------------------------------------------------

User ==
    \/ \E l \in Lobbies, password \in BOOLEAN : Join(l, password)
    \/ \E l \in Lobbies \cup {Unknown}, password \in BOOLEAN : JoinByCode(l, password)
    \/ Disconnect
    \/ ProvidePassword

Broker == \E l \in Lobbies : BrokerAnswers(l)

Worker(w) == \E ok \in BOOLEAN : WorkerEnds(w, ok)

Slot == \E e \in ToSet(inbox) :
    \/ HandleEnter(e) \/ HandleResult(e) \/ HandleLost(e)
    \/ HandleConfig(e) \/ HandleNoConfig(e)
    \/ HandleCodeGranted(e) \/ HandleCodeDenied(e) \/ HandleSteamInvite(e)
    \/ HandleGranted(e) \/ HandleDenied(e)

Next ==
    \/ User
    \/ \E c \in calls, ok \in BOOLEAN : SteamAnswers(c, ok)
    \/ \E e \in owed : Deliver(e)
    \/ \E l \in Lobbies : FriendInvites(l)
    \/ Broker
    \/ \E w \in workers : Worker(w)
    \/ \E link \in links, kind \in {"granted", "denied"} : HostAnswers(link, kind)
    \/ Slot
    \/ \E l \in Lobbies : Watchdog(l)
    \/ CodeTimerFires
    \/ HostGone

Spec == Init /\ [][Next]_vars

\* The Qt thread, the timers, the broker and the workers, which all have time
\* limits, keep going; Steam, hosts and users owe nothing.
FairSpec ==
    /\ Spec
    /\ WF_vars(Slot) /\ WF_vars(CodeTimerFires) /\ WF_vars(Broker)
    /\ \A l \in Lobbies : WF_vars(Watchdog(l))
    /\ \A w \in Job : WF_vars(Worker(w))

-----------------------------------------------------------------------------
(* Properties *)

\* An attempt asks Steam to enter a lobby at most once, although the host's
\* answer, the Steam invitation and the 300 ms timer, of this or an earlier
\* share code, each lead to the call.
AskedOnce == asked <= 1

\* While no lobby is being entered, a user who lets the leftovers of an attempt
\* end before the next one is in no lobby but the one shown: one entered after
\* its attempt had ended is left again.
NoGhostLobby ==
    patient /\ calls = {} /\ owed = {} /\ inbox = <<>> => inside \subseteq {session.lobby}

\* After an attempt, however it ended, no control link runs and no lobby's
\* configuration is kept, if it waited for the leftovers of the one before.
IdleIsClean ==
    patient /\ session.mode = "idle" =>
        links = {} /\ session.config = None /\ session.joining = None

\* Both: every way an attempt can end (refused, timed out, denied, disconnected,
\* lobby closed) undoes what it did with Steam and with the control link.
NothingLeftBehind == NoGhostLobby /\ IdleIsClean

\* A connected session whose user waited runs on the configuration of the lobby
\* it shows, through the one link there is, and the user is in that lobby unless
\* the result of the very call that entered it was handled after the access was
\* granted: the slot then leaves the lobby (services.py:1152-1158).
ConnectedIsConsistent ==
    patient /\ session.mode = "connected" =>
        /\ session.config = session.lobby
        /\ session.lobby \in inside \/ expelled
        /\ links = {session.control}

\* An attempt does not hang before the host is asked for access: it ends, or it
\* has a configuration, or the user is asked for the password.
JoinResolves ==
    session.mode = "joining" /\ session.config = None /\ session.prompt = NoJob
        ~> session.mode # "joining" \/ session.config # None \/ session.prompt # NoJob

\* services.py:1252: a configuration is only used if its host owns the lobby.
\* Fails: the worker of an abandoned attempt delivers into the next attempt.
ConfigOfThisLobby ==
    session.config # None /\ session.lobby \in Lobbies => session.config = session.lobby
==============================================================================
