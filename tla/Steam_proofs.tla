---------------------------- MODULE Steam_proofs ----------------------------
(***************************************************************************)
(* SteamCalls answers every call at most once, loses no completion, and    *)
(* implements ExactlyOnceCalls, for any set of calls.                      *)
(*                                                                         *)
(* SteamService, which uses that registry, keeps these promises whatever   *)
(* its refreshes, searches and shutdown do, keeps its caches fresh, and    *)
(* shuts Steam down only when no worker is inside it.                      *)
(***************************************************************************)
EXTENDS SteamService, TLAPS

-----------------------------------------------------------------------------
(* The inductive invariant: which thread owns a call at each point. *)

UnusedOwnsNothing(c) ==
    caller[c] = "unused" =>
        /\ steam[c] = "unused"
        /\ answers[c] = 0

IssuedIsParkedOrAhead(c) ==
    caller[c] = "issued" =>
        /\ steam[c] # "unused"
        /\ answers[c] = 0
        /\ ~cleared /\ steam[c] = "delivered" => c \in unclaimed

ClaimedIsDelivered(c) ==
    caller[c] = "claimed" => steam[c] = "delivered" /\ answers[c] = 0

PendingWaits(c) ==
    c \in pending =>
        /\ caller[c] = "returned"
        /\ answers[c] = 0
        /\ c \notin dispatched
        /\ ~cleared => steam[c] \in {"working", "completed"}

ParkedWaits(c) ==
    c \in unclaimed => ~cleared /\ caller[c] = "issued" /\ steam[c] = "delivered"

DispatchedIsTaken(c) ==
    c \in dispatched =>
        caller[c] = "returned" /\ steam[c] = "delivered" /\ answers[c] = 0

ReturnedIsHeld(c) ==
    ~cleared /\ caller[c] = "returned" /\ answers[c] = 0 =>
        c \in pending \/ c \in dispatched

AnsweredIsDone(c) ==
    answers[c] = 1 => steam[c] = "delivered" /\ caller[c] = "returned"

OwnershipInv ==
    \A c \in Calls :
        /\ answers[c] \in {0, 1}
        /\ UnusedOwnsNothing(c)
        /\ IssuedIsParkedOrAhead(c)
        /\ ClaimedIsDelivered(c)
        /\ PendingWaits(c)
        /\ ParkedWaits(c)
        /\ DispatchedIsTaken(c)
        /\ ReturnedIsHeld(c)
        /\ AnsweredIsDone(c)

IInv == TypeOK /\ OwnershipInv

-----------------------------------------------------------------------------
\* The variables keep their types, whatever the calls.
THEOREM TypeCorrect == Spec => []TypeOK
<1>1. ASSUME Init PROVE TypeOK
  <2>1. /\ steam = [c \in Calls |-> "unused"] /\ caller = [c \in Calls |-> "unused"]
        /\ answers = [c \in Calls |-> 0]
        /\ pending = {} /\ unclaimed = {} /\ dispatched = {}
    BY <1>1 DEF Init
  <2>2. running \in BOOLEAN /\ cleared \in BOOLEAN
    BY <1>1 DEF Init
  <2>3. QED
    BY <2>1, <2>2 DEF TypeOK
<1>2. TypeOK /\ [Next]_vars => TypeOK'
  <2> SUFFICES ASSUME TypeOK, [Next]_vars
               PROVE  TypeOK'
    OBVIOUS
  <2> USE DEF TypeOK
  <2>1. ASSUME NEW c \in Calls, IssueCall(c)
        PROVE  TypeOK'
    BY <2>1 DEF IssueCall
  <2>2. ASSUME NEW c \in Calls, Caller(c)
        PROVE  TypeOK'
    BY <2>2 DEF Caller, ClaimParked, RegisterHandler, AnswerClaimed
  <2>3. ASSUME NEW c \in Calls, SteamCompletes(c)
        PROVE  TypeOK'
    BY <2>3 DEF SteamCompletes
  <2>4. ASSUME NEW c \in Calls, Dispatcher(c)
        PROVE  TypeOK'
    BY <2>4 DEF Dispatcher, DispatchCompletion, AnswerDispatched
  <2>5. CASE StopDispatch \/ Shutdown
    BY <2>5 DEF StopDispatch, Shutdown
  <2>6. CASE UNCHANGED vars
    BY <2>6 DEF vars
  <2>7. QED
    BY <2>1, <2>2, <2>3, <2>4, <2>5, <2>6 DEF Next
<1>3. QED
  BY <1>1, <1>2, PTL DEF Spec

\* Each call is owned by exactly the thread the invariant names.
THEOREM OwnershipCorrect == Spec => []IInv
<1> USE DEF UnusedOwnsNothing, IssuedIsParkedOrAhead, ClaimedIsDelivered,
            PendingWaits, ParkedWaits, DispatchedIsTaken, ReturnedIsHeld, AnsweredIsDone
<1>1. Init => OwnershipInv
  <2> SUFFICES ASSUME Init
               PROVE  OwnershipInv
    OBVIOUS
  <2>1. ASSUME NEW c \in Calls
        PROVE  /\ steam[c] = "unused" /\ caller[c] = "unused" /\ answers[c] = 0
               /\ c \notin pending /\ c \notin unclaimed /\ c \notin dispatched
    BY DEF Init
  <2>2. running \in BOOLEAN /\ cleared \in BOOLEAN
    BY DEF Init
  <2>3. ASSUME NEW c \in Calls
        PROVE  /\ answers[c] \in {0, 1}
               /\ UnusedOwnsNothing(c)
               /\ IssuedIsParkedOrAhead(c)
               /\ ClaimedIsDelivered(c)
               /\ PendingWaits(c)
               /\ ParkedWaits(c)
               /\ DispatchedIsTaken(c)
               /\ ReturnedIsHeld(c)
               /\ AnsweredIsDone(c)
    BY <2>1, <2>2
  <2>4. QED
    BY <2>3 DEF OwnershipInv
<1>2. TypeOK /\ OwnershipInv /\ [Next]_vars => OwnershipInv'
  <2> SUFFICES ASSUME TypeOK, OwnershipInv, [Next]_vars
               PROVE  OwnershipInv'
    OBVIOUS
  <2> USE DEF TypeOK, OwnershipInv
  <2>1. ASSUME NEW c \in Calls, IssueCall(c)
        PROVE  OwnershipInv'
    BY <2>1 DEF IssueCall
  <2>2. ASSUME NEW c \in Calls, ClaimParked(c)
        PROVE  OwnershipInv'
    BY <2>2 DEF ClaimParked
  <2>3. ASSUME NEW c \in Calls, RegisterHandler(c)
        PROVE  OwnershipInv'
    BY <2>3 DEF RegisterHandler
  <2>4. ASSUME NEW c \in Calls, AnswerClaimed(c)
        PROVE  OwnershipInv'
    BY <2>4 DEF AnswerClaimed
  <2>5. ASSUME NEW c \in Calls, SteamCompletes(c)
        PROVE  OwnershipInv'
    BY <2>5 DEF SteamCompletes
  <2>6. ASSUME NEW c \in Calls, DispatchCompletion(c)
        PROVE  OwnershipInv'
    BY <2>6 DEF DispatchCompletion
  <2>7. ASSUME NEW c \in Calls, AnswerDispatched(c)
        PROVE  OwnershipInv'
    BY <2>7 DEF AnswerDispatched
  <2>8. CASE StopDispatch \/ Shutdown
    BY <2>8 DEF StopDispatch, Shutdown
  <2>9. CASE UNCHANGED vars
    BY <2>9 DEF vars
  <2>10. QED
    BY <2>1, <2>2, <2>3, <2>4, <2>5, <2>6, <2>7, <2>8, <2>9 DEF Next, Caller, Dispatcher
<1>3. QED
  BY <1>1, <1>2, TypeCorrect, PTL DEF Spec, IInv

\* No completion is lost to the registration race.
THEOREM NoCompletionLost == Spec => []CompletionNotLost
<1>1. IInv => CompletionNotLost
  BY DEF IInv, TypeOK, OwnershipInv, CompletionNotLost, UnusedOwnsNothing,
         IssuedIsParkedOrAhead, PendingWaits, ReturnedIsHeld
<1>2. QED
  BY <1>1, OwnershipCorrect, PTL

\* No handler runs twice.
THEOREM NeverAnsweredTwice == Spec => []AtMostOneAnswer
<1>1. IInv => AtMostOneAnswer
  <2> SUFFICES ASSUME IInv, NEW c \in Calls
               PROVE  answers[c] <= 1
    BY DEF AtMostOneAnswer
  <2>1. answers[c] \in {0, 1}
    BY DEF IInv, OwnershipInv
  <2>2. QED
    BY <2>1
<1>2. QED
  BY <1>1, OwnershipCorrect, PTL

-----------------------------------------------------------------------------
(* Refinement.  A step of one call changes only that call's outcome. *)

LEMMA InitRefines == Init => Promise!Init
BY DEF Init, Promise!Init, Outcome, OutcomeOf, Abandoned

\* A step that leaves every call's outcome alone is a stuttering step.
LEMMA OutcomeStutters ==
    ASSUME \A c \in Calls : OutcomeOf(c)' = OutcomeOf(c)
    PROVE  Outcome' = Outcome
BY DEF Outcome

\* A step that changes one call's outcome updates the mapped function there.
LEMMA OutcomeUpdates ==
    ASSUME NEW c \in Calls, NEW v,
           OutcomeOf(c)' = v,
           \A d \in Calls \ {c} : OutcomeOf(d)' = OutcomeOf(d)
    PROVE  Outcome' = [Outcome EXCEPT ![c] = v]
BY DEF Outcome

LEMMA StepRefines == IInv /\ [Next]_vars => [Promise!Next]_Outcome
<1> SUFFICES ASSUME IInv, [Next]_vars
             PROVE  Promise!Next \/ Outcome' = Outcome
  OBVIOUS
<1> USE DEF IInv, TypeOK, OwnershipInv, OutcomeOf, Abandoned
<1>1. ASSUME NEW c \in Calls, IssueCall(c)
      PROVE  Promise!Next
  <2>1. Outcome[c] = "unused"
    BY <1>1 DEF IssueCall, UnusedOwnsNothing, Outcome
  <2>2. Outcome' = [Outcome EXCEPT ![c] = "open"]
    <3>1. OutcomeOf(c)' = "open"
      BY <1>1 DEF IssueCall, UnusedOwnsNothing
    <3>2. \A d \in Calls \ {c} : OutcomeOf(d)' = OutcomeOf(d)
      BY <1>1 DEF IssueCall
    <3>3. QED
      BY <3>1, <3>2, OutcomeUpdates
  <2>3. QED
    BY <2>1, <2>2 DEF Promise!Next, Promise!Issue
<1>2. ASSUME NEW c \in Calls, ClaimParked(c)
      PROVE  Outcome' = Outcome
  <2>1. \A d \in Calls : OutcomeOf(d)' = OutcomeOf(d)
    BY <1>2 DEF ClaimParked, ParkedWaits
  <2>2. QED
    BY <2>1, OutcomeStutters
<1>3. ASSUME NEW c \in Calls, RegisterHandler(c)
      PROVE  Outcome' = Outcome
  <2>1. \A d \in Calls : OutcomeOf(d)' = OutcomeOf(d)
    BY <1>3 DEF RegisterHandler
  <2>2. QED
    BY <2>1, OutcomeStutters
<1>4. ASSUME NEW c \in Calls, AnswerClaimed(c)
      PROVE  Promise!Next
  <2>1. Outcome[c] = "open"
    BY <1>4 DEF AnswerClaimed, ClaimedIsDelivered, Outcome
  <2>2. Outcome' = [Outcome EXCEPT ![c] = "answered"]
    <3>1. OutcomeOf(c)' = "answered"
      BY <1>4 DEF AnswerClaimed, ClaimedIsDelivered
    <3>2. \A d \in Calls \ {c} : OutcomeOf(d)' = OutcomeOf(d)
      BY <1>4 DEF AnswerClaimed
    <3>3. QED
      BY <3>1, <3>2, OutcomeUpdates
  <2>3. QED
    BY <2>1, <2>2 DEF Promise!Next, Promise!Answer
<1>5. ASSUME NEW c \in Calls, SteamCompletes(c)
      PROVE  Outcome' = Outcome
  <2>1. \A d \in Calls : OutcomeOf(d)' = OutcomeOf(d)
    BY <1>5 DEF SteamCompletes
  <2>2. QED
    BY <2>1, OutcomeStutters
<1>6. ASSUME NEW c \in Calls, DispatchCompletion(c)
      PROVE  Outcome' = Outcome
  <2>1. \A d \in Calls : OutcomeOf(d)' = OutcomeOf(d)
    BY <1>6 DEF DispatchCompletion
  <2>2. QED
    BY <2>1, OutcomeStutters
<1>7. ASSUME NEW c \in Calls, AnswerDispatched(c)
      PROVE  Promise!Next
  <2>1. Outcome[c] = "open"
    BY <1>7 DEF AnswerDispatched, DispatchedIsTaken, Outcome
  <2>2. Outcome' = [Outcome EXCEPT ![c] = "answered"]
    <3>1. OutcomeOf(c)' = "answered"
      BY <1>7 DEF AnswerDispatched, DispatchedIsTaken
    <3>2. \A d \in Calls \ {c} : OutcomeOf(d)' = OutcomeOf(d)
      BY <1>7 DEF AnswerDispatched
    <3>3. QED
      BY <3>1, <3>2, OutcomeUpdates
  <2>3. QED
    BY <2>1, <2>2 DEF Promise!Next, Promise!Answer
<1>8. ASSUME Shutdown
      PROVE  Promise!Next
  <2> DEFINE lost == {c \in Calls : OutcomeOf(c) = "open" /\ OutcomeOf(c)' = "abandoned"}
  <2>1. \A c \in Calls : OutcomeOf(c)' = IF c \in lost THEN "abandoned" ELSE OutcomeOf(c)
    BY <1>8 DEF Shutdown
  <2>2. lost \in SUBSET {c \in Calls : Outcome[c] = "open"}
    BY DEF Outcome
  <2>3. Outcome' = [c \in Calls |-> IF c \in lost THEN "abandoned" ELSE Outcome[c]]
    BY <2>1 DEF Outcome
  <2>4. QED
    BY <2>2, <2>3 DEF Promise!Next, Promise!Abandon
<1>9. CASE StopDispatch \/ UNCHANGED vars
  <2>1. \A d \in Calls : OutcomeOf(d)' = OutcomeOf(d)
    BY <1>9 DEF StopDispatch, vars
  <2>2. QED
    BY <2>1, OutcomeStutters
<1>10. QED
  BY <1>1, <1>2, <1>3, <1>4, <1>5, <1>6, <1>7, <1>8, <1>9 DEF Next, Caller, Dispatcher

\* The two racing threads keep await_call's promise, for any set of calls.
THEOREM CallsImplementPromise == Spec => ImplementsPromise
<1>1. QED
  BY InitRefines, StepRefines, OwnershipCorrect, PTL
     DEF Spec, ImplementsPromise, Promise!Spec
-----------------------------------------------------------------------------
(* SteamService: every step is a step of the registry, or leaves it alone. *)

LEMMA ServiceStepIsCallStep == [ServiceNext]_serviceVars => [Next]_vars
<1> SUFFICES ASSUME [ServiceNext]_serviceVars
             PROVE  [Next]_vars
  OBVIOUS
<1>1. ASSUME NEW c \in Calls, SearchAsks(c) \/ SessionCalls(c)
      PROVE  [Next]_vars
  BY <1>1 DEF SearchAsks, SessionCalls, Next
<1>2. ASSUME NEW c \in Calls, CallStep(c)
      PROVE  [Next]_vars
  BY <1>2 DEF CallStep, Next
<1>3. ASSUME CloseSteam \/ ShutSteam
      PROVE  [Next]_vars
  BY <1>3 DEF CloseSteam, ShutSteam, Next
<1>4. ASSUME InitStep \/ Initialize \/ DispatchPersona \/ LaunchShot \/ LeaveSteam
      PROVE  [Next]_vars
  BY <1>4 DEF InitStep, Initialize, Connect, SignedIn, InitReady, InitOver, DispatchPersona,
              LaunchShot, LeaveSteam, callVars
<1>5. ASSUME NEW shot \in {"dirty", "again"}, FriendShot(shot)
      PROVE  [Next]_vars
  BY <1>5 DEF FriendShot, callVars
<1>6. ASSUME FriendStep
      PROVE  [Next]_vars
  BY <1>6 DEF FriendStep, FriendWorker, ReadPresence, ReadName, KeepName, ReadAvatar,
              KeepAvatar, FriendResult, FriendFinished, callVars
<1>7. ASSUME AvatarStep
      PROVE  [Next]_vars
  BY <1>7 DEF AvatarStep, LoadAvatar, KeepLoadedAvatar, AvatarResult, AvatarFinished, callVars
<1>8. ASSUME DiscoverTick \/ LobbyShot \/ HostStep
      PROVE  [Next]_vars
  BY <1>8 DEF DiscoverTick, LobbyShot, HostStep, FindHosts, HostsResult, HostsFinished, callVars
<1>9. ASSUME SearchAnswered \/ SearchTimesOut \/ SearchOver
      PROVE  [Next]_vars
  BY <1>9 DEF SearchAnswered, SearchTimesOut, SearchOver, callVars
<1>10. ASSUME SignIn \/ PersonaChanges \/ LobbyChanges \/ FriendTick \/ Quit
       PROVE  [Next]_vars
  BY <1>10 DEF SignIn, PersonaChanges, LobbyChanges, FriendTick, Quit, callVars
<1>11. ASSUME NEW p \in Pages, SwitchPage(p)
       PROVE  [Next]_vars
  BY <1>11 DEF SwitchPage, callVars
<1>12. ASSUME ShareStarts \/ SessionEnds \/ JoinRequested \/ \E l \in Lobbies : ForwardedArgs(l)
       PROVE  [Next]_vars
  BY <1>12 DEF ShareStarts, SessionEnds, ForwardedArgs, JoinRequested, callVars
<1>13. CASE UNCHANGED serviceVars
  BY <1>13 DEF serviceVars, callVars
<1>14. QED
  BY <1>1, <1>2, <1>3, <1>4, <1>5, <1>6, <1>7, <1>8, <1>9, <1>10, <1>11, <1>12, <1>13
     DEF ServiceNext, SearchStep, World

\* The service uses the registry as await_call's contract allows.
THEOREM ServiceUsesRegistry == ServiceSpec => Spec
<1>1. ServiceInit => Init
  BY DEF ServiceInit
<1>2. QED
  BY <1>1, ServiceStepIsCallStep, PTL DEF ServiceSpec, Spec

\* No search, refresh, session call or shutdown of the application loses or
\* repeats the answer of a Steam call.
THEOREM ServiceKeepsPromise ==
    ServiceSpec => []CompletionNotLost /\ []AtMostOneAnswer /\ ImplementsPromise
BY ServiceUsesRegistry, NoCompletionLost, NeverAnsweredTwice, CallsImplementPromise, PTL

-----------------------------------------------------------------------------
(* Types of the service's own variables. *)

LEMMA OwnTypesInit == ServiceInit => OwnTypeOK
<1> SUFFICES ASSUME ServiceInit
             PROVE  OwnTypeOK
  OBVIOUS
<1>1. limit \in Mix /\ limit.page \in Pages
  BY MixesAssumption DEF ServiceInit, Mix
<1>2. StartTypes /\ SteamTypes /\ CacheTypes
  BY DEF ServiceInit, StartTypes, SteamTypes, CacheTypes, Looks
<1>3. FriendTypes /\ AvatarTypes
  BY DEF ServiceInit, FriendTypes, FriendJobs, Rows, AvatarTypes, AvatarJobs, Looks, JobPhases
<1>4. BrowseTypes
  BY DEF ServiceInit, BrowseTypes, HostJobs, SearchJobs, Looks, JobPhases
<1>5. WindowTypes
  BY <1>1 DEF ServiceInit, WindowTypes
<1>6. QED
  BY <1>1, <1>2, <1>3, <1>4, <1>5 DEF OwnTypeOK

Events == {"signIns", "failures", "personas", "lobbies", "ticks", "blanks", "misses",
           "switches", "sessions", "launches", "invites", "quits", "calls", "searches"}

\* An event that happened leaves the bounds bounds.
LEMMA SpendTypes ==
    ASSUME limit \in Mix, NEW event \in Events, Spend(event)
    PROVE  limit' \in Mix
<1>1. limit[event] \in Nat /\ limit[event] > 0
  BY DEF Spend, Mix, Events
<1>2. limit[event] - 1 \in Nat
  BY <1>1
<1>3. limit' = [limit EXCEPT ![event] = limit[event] - 1]
  BY DEF Spend
<1>4. QED
  BY <1>2, <1>3 DEF Mix, Events

LEMMA Frames ==
    ASSUME OwnTypeOK
    PROVE  /\ UNCHANGED limit => limit' \in Mix
           /\ UNCHANGED startVars => StartTypes'
           /\ UNCHANGED steamVars => SteamTypes'
           /\ UNCHANGED cacheVars => CacheTypes'
           /\ UNCHANGED friendVars => FriendTypes'
           /\ UNCHANGED avatarVars => AvatarTypes'
           /\ UNCHANGED browseVars => BrowseTypes'
           /\ UNCHANGED windowVars => WindowTypes'
<1>1. UNCHANGED limit => limit' \in Mix
  BY DEF OwnTypeOK
<1>2. UNCHANGED startVars => StartTypes'
  BY DEF OwnTypeOK, StartTypes, startVars
<1>3. UNCHANGED steamVars => SteamTypes'
  BY DEF OwnTypeOK, SteamTypes, steamVars
<1>4. UNCHANGED cacheVars => CacheTypes'
  BY DEF OwnTypeOK, CacheTypes, cacheVars
<1>5. UNCHANGED friendVars => FriendTypes'
  BY DEF OwnTypeOK, FriendTypes, friendVars
<1>6. UNCHANGED avatarVars => AvatarTypes'
  BY DEF OwnTypeOK, AvatarTypes, avatarVars
<1>7. UNCHANGED browseVars => BrowseTypes'
  BY DEF OwnTypeOK, BrowseTypes, browseVars
<1>8. UNCHANGED windowVars => WindowTypes'
  BY DEF OwnTypeOK, WindowTypes, windowVars
<1>9. QED
  BY <1>1, <1>2, <1>3, <1>4, <1>5, <1>6, <1>7, <1>8

\* Starting a refresh keeps the types of its worker and flags.
LEMMA RefreshFriendsTypes ==
    ASSUME FriendTypes, RefreshFriends
    PROVE  friendJob' \in FriendJobs /\ friendAgain' \in BOOLEAN
<1>1. "reading" \in JobPhases \cup {"name", "keepName", "avatar", "keepAvatar"}
  BY DEF JobPhases
<1>2. CASE friendJob.at = "idle"
  BY <1>1, <1>2 DEF RefreshFriends, FriendTypes, FriendJobs
<1>3. CASE friendJob.at # "idle"
  BY <1>3 DEF RefreshFriends, FriendTypes
<1>4. QED
  BY <1>2, <1>3

LEMMA RefreshLobbiesTypes ==
    ASSUME BrowseTypes, RefreshLobbies
    PROVE  hostJob' \in HostJobs /\ searchJob' \in SearchJobs
<1>1. hostJob \in HostJobs /\ [hostJob EXCEPT !.at = "reading"] \in HostJobs
  BY DEF BrowseTypes, HostJobs, JobPhases
<1>2. searchJob \in SearchJobs /\ [searchJob EXCEPT !.at = "reading"] \in SearchJobs
  BY DEF BrowseTypes, SearchJobs, JobPhases
<1>3. QED
  BY <1>1, <1>2 DEF RefreshLobbies

LEMMA HydrateTypes ==
    ASSUME AvatarTypes, NEW row, Hydrate(row)
    PROVE  AvatarTypes'
<1>1. [avatarJob EXCEPT !.at = "reading"] \in AvatarJobs
  BY DEF AvatarTypes, AvatarJobs, JobPhases
<1>2. QED
  BY <1>1 DEF AvatarTypes, Hydrate, MissesAvatar

LEMMA ShowTypes ==
    ASSUME BrowseTypes, NEW p, NEW s, Show(p, s)
    PROVE  BrowseTypes'
BY DEF BrowseTypes, Show, SyncDiscovery

LEMMA RequestTypes ==
    ASSUME WindowTypes, NEW l \in Lobbies \cup {None}, RequestLaunchLobby(l)
    PROVE  /\ page' \in Pages /\ session' \in {"idle", "joining", "sharing"}
           /\ launch' \in Lobbies \cup {None}
BY DEF RequestLaunchLobby, Show, WindowTypes, Pages

LEMMA OwnTypesNext == OwnTypeOK /\ [ServiceNext]_serviceVars => OwnTypeOK'
<1> SUFFICES ASSUME OwnTypeOK, [ServiceNext]_serviceVars
             PROVE  OwnTypeOK'
  OBVIOUS
<1> USE DEF OwnTypeOK
<1>1. ASSUME Initialize
      PROVE  OwnTypeOK'
  <2>1. StartTypes'
    BY <1>1 DEF Initialize, StartTypes
  <2>2. QED
    BY <1>1, <2>1, Frames DEF Initialize
<1>2. ASSUME Connect
      PROVE  OwnTypeOK'
  <2>1. limit' \in Mix
    BY <1>2, SpendTypes DEF Connect, Events
  <2>2. StartTypes'
    BY <1>2 DEF Connect, StartTypes
  <2>3. QED
    BY <1>2, <2>1, <2>2, Frames DEF Connect
<1>3. ASSUME SignedIn
      PROVE  OwnTypeOK'
  <2>1. StartTypes'
    BY <1>3 DEF SignedIn, StartTypes
  <2>2. QED
    BY <1>3, <2>1, Frames DEF SignedIn
<1>4. ASSUME InitReady
      PROVE  OwnTypeOK'
  <2>1. StartTypes'
    BY <1>4 DEF InitReady, StartTypes
  <2>2. FriendTypes'
    BY <1>4, RefreshFriendsTypes DEF InitReady, FriendTypes
  <2>3. BrowseTypes'
    BY <1>4 DEF InitReady, HostJobs, SearchJobs, JobPhases, BrowseTypes
  <2>4. WindowTypes'
    BY <1>4 DEF InitReady, WindowTypes
  <2>5. QED
    BY <1>4, <2>1, <2>2, <2>3, <2>4, Frames DEF InitReady
<1>5. ASSUME InitOver
      PROVE  OwnTypeOK'
  <2>1. StartTypes'
    BY <1>5 DEF InitOver, StartTypes
  <2>2. QED
    BY <1>5, <2>1, Frames DEF InitOver
<1>6. ASSUME DispatchPersona
      PROVE  OwnTypeOK'
  <2>1. SteamTypes'
    BY <1>6 DEF DispatchPersona, SteamTypes
  <2>2. CacheTypes'
    BY <1>6 DEF DispatchPersona, CacheTypes, Looks
  <2>3. FriendTypes'
    BY <1>6 DEF DispatchPersona, FriendJobs, Rows, JobPhases, FriendTypes
  <2>4. QED
    BY <1>6, <2>1, <2>2, <2>3, Frames DEF DispatchPersona
<1>7. ASSUME NEW shot \in {"dirty", "again"}, FriendShot(shot)
      PROVE  OwnTypeOK'
  <2>1. FriendTypes'
    BY <1>7, RefreshFriendsTypes DEF FriendShot, FriendTypes
  <2>2. QED
    BY <1>7, <2>1, Frames DEF FriendShot
<1>8. ASSUME ReadPresence
      PROVE  OwnTypeOK'
  <2>1. FriendTypes'
    BY <1>8 DEF ReadPresence, FriendJobs, FriendTypes, SteamTypes
  <2>2. QED
    BY <1>8, <2>1, Frames DEF ReadPresence
<1>9. ASSUME ReadName
      PROVE  OwnTypeOK'
  <2>1. FriendTypes'
    BY <1>9 DEF ReadName, FriendJobs, Looks, FriendTypes, CacheTypes, SteamTypes
  <2>2. QED
    BY <1>9, <2>1, Frames DEF ReadName
<1>10. ASSUME KeepName
      PROVE  OwnTypeOK'
  <2>1. CacheTypes'
    BY <1>10 DEF KeepName, CacheTypes, FriendTypes, FriendJobs
  <2>2. FriendTypes'
    BY <1>10 DEF KeepName, FriendJobs, Rows, JobPhases, FriendTypes
  <2>3. QED
    BY <1>10, <2>1, <2>2, Frames DEF KeepName
<1>11. ASSUME ReadAvatar
      PROVE  OwnTypeOK'
  <2>1. limit' \in Mix
    BY <1>11, SpendTypes DEF ReadAvatar, AvatarMissing, Events
  <2>2. FriendTypes'
    <3>1. persona.look \in Looks /\ avatars \in Looks /\ None \in Looks
      BY DEF SteamTypes, CacheTypes, Looks
    <3>2. [friendJob EXCEPT !.at = "keepAvatar", !.avatar = persona.look] \in FriendJobs
      BY <3>1 DEF FriendTypes, FriendJobs
    <3>3. /\ [friendJob EXCEPT !.at = "result", !.avatar = None] \in FriendJobs
          /\ [friendJob EXCEPT !.at = "result", !.avatar = avatars] \in FriendJobs
      BY <3>1 DEF FriendTypes, FriendJobs, JobPhases
    <3>4. friendJob' \in FriendJobs
      BY <1>11, <3>2, <3>3 DEF ReadAvatar
    <3>5. QED
      BY <1>11, <3>4 DEF ReadAvatar, FriendTypes
  <2>3. QED
    BY <1>11, <2>1, <2>2, Frames DEF ReadAvatar
<1>12. ASSUME KeepAvatar
      PROVE  OwnTypeOK'
  <2>1. CacheTypes'
    BY <1>12 DEF KeepAvatar, CacheTypes, FriendTypes, FriendJobs
  <2>2. FriendTypes'
    BY <1>12 DEF KeepAvatar, FriendJobs, Rows, JobPhases, FriendTypes
  <2>3. QED
    BY <1>12, <2>1, <2>2, Frames DEF KeepAvatar
<1>13. ASSUME FriendResult
      PROVE  OwnTypeOK'
  <2>1. FriendTypes'
    BY <1>13 DEF FriendResult, FriendJobs, Rows, JobPhases, FriendTypes
  <2>2. AvatarTypes'
    BY <1>13, HydrateTypes, Frames DEF FriendResult
  <2>3. BrowseTypes'
    BY <1>13 DEF FriendResult, HostJobs, SearchJobs, JobPhases, BrowseTypes
  <2>4. QED
    BY <1>13, <2>1, <2>2, <2>3, Frames DEF FriendResult
<1>14. ASSUME FriendFinished
      PROVE  OwnTypeOK'
  <2>1. FriendTypes'
    BY <1>14 DEF FriendFinished, FriendJobs, Rows, JobPhases, FriendTypes
  <2>2. QED
    BY <1>14, <2>1, Frames DEF FriendFinished
<1>15. ASSUME LoadAvatar
      PROVE  OwnTypeOK'
  <2>1. limit' \in Mix
    BY <1>15, SpendTypes DEF LoadAvatar, AvatarMissing, Events
  <2>2. AvatarTypes'
    BY <1>15 DEF LoadAvatar, AvatarJobs, JobPhases, Looks, AvatarTypes, CacheTypes, SteamTypes
  <2>3. QED
    BY <1>15, <2>1, <2>2, Frames DEF LoadAvatar
<1>16. ASSUME KeepLoadedAvatar
      PROVE  OwnTypeOK'
  <2>1. CacheTypes'
    BY <1>16 DEF KeepLoadedAvatar, CacheTypes, AvatarTypes, AvatarJobs
  <2>2. AvatarTypes'
    BY <1>16 DEF KeepLoadedAvatar, AvatarJobs, JobPhases, AvatarTypes
  <2>3. QED
    BY <1>16, <2>1, <2>2, Frames DEF KeepLoadedAvatar
<1>17. ASSUME AvatarResult
      PROVE  OwnTypeOK'
  <2>1. FriendTypes'
    BY <1>17 DEF AvatarResult, Rows, FriendTypes, AvatarTypes, AvatarJobs
  <2>2. AvatarTypes'
    BY <1>17 DEF AvatarResult, AvatarJobs, JobPhases, AvatarTypes
  <2>3. QED
    BY <1>17, <2>1, <2>2, Frames DEF AvatarResult
<1>18. ASSUME AvatarFinished
      PROVE  OwnTypeOK'
  <2>1. AvatarTypes'
    BY <1>18 DEF AvatarFinished, AvatarJobs, JobPhases, AvatarTypes
  <2>2. QED
    BY <1>18, <2>1, Frames DEF AvatarFinished
<1>19. ASSUME DiscoverTick
      PROVE  OwnTypeOK'
  <2>1. BrowseTypes'
    BY <1>19, RefreshLobbiesTypes DEF DiscoverTick, BrowseTypes
  <2>2. QED
    BY <1>19, <2>1, Frames DEF DiscoverTick
<1>20. ASSUME LobbyShot
      PROVE  OwnTypeOK'
  <2>1. BrowseTypes'
    BY <1>20, RefreshLobbiesTypes DEF LobbyShot, BrowseTypes
  <2>2. QED
    BY <1>20, <2>1, Frames DEF LobbyShot
<1>21. ASSUME FindHosts
      PROVE  OwnTypeOK'
  <2>1. limit' \in Mix
    BY <1>21, SpendTypes DEF FindHosts, Events
  <2>2. BrowseTypes'
    BY <1>21 DEF FindHosts, HostJobs, JobPhases, Looks, BrowseTypes, SteamTypes
  <2>3. QED
    BY <1>21, <2>1, <2>2, Frames DEF FindHosts
<1>22. ASSUME HostsResult
      PROVE  OwnTypeOK'
  <2>1. BrowseTypes'
    BY <1>22 DEF HostsResult, HostJobs, SearchJobs, JobPhases, BrowseTypes
  <2>2. QED
    BY <1>22, <2>1, Frames DEF HostsResult
<1>23. ASSUME HostsFinished
      PROVE  OwnTypeOK'
  <2>1. BrowseTypes'
    BY <1>23 DEF HostsFinished, HostJobs, SearchJobs, JobPhases, BrowseTypes
  <2>2. QED
    BY <1>23, <2>1, Frames DEF HostsFinished
<1>24. ASSUME NEW c \in Calls, SearchAsks(c)
      PROVE  OwnTypeOK'
  <2>1. limit' \in Mix
    BY <1>24, SpendTypes DEF SearchAsks, Events
  <2>2. BrowseTypes'
    BY <1>24 DEF SearchAsks, HostJobs, SearchJobs, JobPhases, BrowseTypes
  <2>3. QED
    BY <1>24, <2>1, <2>2, Frames DEF SearchAsks
<1>25. ASSUME SearchAnswered
      PROVE  OwnTypeOK'
  <2>1. BrowseTypes'
    BY <1>25 DEF SearchAnswered, HostJobs, SearchJobs, JobPhases, BrowseTypes
  <2>2. QED
    BY <1>25, <2>1, Frames DEF SearchAnswered
<1>26. ASSUME SearchTimesOut
      PROVE  OwnTypeOK'
  <2>1. BrowseTypes'
    BY <1>26 DEF SearchTimesOut, HostJobs, SearchJobs, JobPhases, BrowseTypes
  <2>2. QED
    BY <1>26, <2>1, Frames DEF SearchTimesOut
<1>27. ASSUME SearchOver
      PROVE  OwnTypeOK'
  <2>1. BrowseTypes'
    BY <1>27 DEF SearchOver, HostJobs, SearchJobs, JobPhases, BrowseTypes
  <2>2. QED
    BY <1>27, <2>1, Frames DEF SearchOver
<1>28. ASSUME NEW c \in Calls, CallStep(c)
      PROVE  OwnTypeOK'
  BY <1>28, Frames DEF CallStep
<1>29. ASSUME LaunchShot
      PROVE  OwnTypeOK'
  <2>1. BrowseTypes'
    BY <1>29, ShowTypes DEF LaunchShot, RequestLaunchLobby, BrowseTypes
  <2>2. WindowTypes'
    BY <1>29, RequestTypes DEF LaunchShot, WindowTypes
  <2>3. QED
    BY <1>29, <2>1, <2>2, Frames DEF LaunchShot
<1>30. ASSUME CloseSteam \/ ShutSteam
      PROVE  OwnTypeOK'
  <2>1. StartTypes'
    BY <1>30 DEF CloseSteam, ShutSteam, StartTypes, startVars
  <2>2. CacheTypes'
    BY <1>30 DEF CloseSteam, ShutSteam, CacheTypes, cacheVars, Looks
  <2>3. WindowTypes'
    BY <1>30 DEF CloseSteam, ShutSteam, WindowTypes
  <2>4. QED
    BY <1>30, <2>1, <2>2, <2>3, Frames DEF CloseSteam, ShutSteam
<1>31. ASSUME LeaveSteam
      PROVE  OwnTypeOK'
  <2>1. WindowTypes'
    BY <1>31 DEF LeaveSteam, WindowTypes
  <2>2. QED
    BY <1>31, <2>1, Frames DEF LeaveSteam
<1>32. ASSUME SignIn
      PROVE  OwnTypeOK'
  <2>1. limit' \in Mix
    BY <1>32, SpendTypes DEF SignIn, Events
  <2>2. StartTypes'
    BY <1>32 DEF SignIn, StartTypes
  <2>3. QED
    BY <1>32, <2>1, <2>2, Frames DEF SignIn
<1>33. ASSUME PersonaChanges
      PROVE  OwnTypeOK'
  <2>1. limit' \in Mix
    BY <1>33, SpendTypes DEF PersonaChanges, Events
  <2>2. SteamTypes'
    <3>1. callbacks' \in Nat
      BY <1>33 DEF PersonaChanges, SteamTypes
    <3>2. persona' \in [online : BOOLEAN, look : Nat]
      <4>1. CASE persona' = [persona EXCEPT !.online = ~@]
        BY <4>1 DEF SteamTypes
      <4>2. CASE persona' = [persona EXCEPT !.look = @ + 1]
        BY <4>2 DEF SteamTypes
      <4>3. QED
        BY <1>33, <4>1, <4>2 DEF PersonaChanges
    <3>3. QED
      BY <1>33, <3>1, <3>2 DEF PersonaChanges, SteamTypes
  <2>3. QED
    BY <1>33, <2>1, <2>2, Frames DEF PersonaChanges
<1>34. ASSUME LobbyChanges
      PROVE  OwnTypeOK'
  <2>1. limit' \in Mix
    BY <1>34, SpendTypes DEF LobbyChanges, Events
  <2>2. SteamTypes'
    BY <1>34 DEF LobbyChanges, SteamTypes, Looks, Mix
  <2>3. QED
    BY <1>34, <2>1, <2>2, Frames DEF LobbyChanges
<1>35. ASSUME FriendTick
      PROVE  OwnTypeOK'
  <2>1. limit' \in Mix
    BY <1>35, SpendTypes DEF FriendTick, Events
  <2>2. FriendTypes'
    BY <1>35, RefreshFriendsTypes DEF FriendTick, FriendTypes
  <2>3. QED
    BY <1>35, <2>1, <2>2, Frames DEF FriendTick
<1>36. ASSUME NEW p \in Pages, SwitchPage(p)
      PROVE  OwnTypeOK'
  <2>1. limit' \in Mix
    BY <1>36, SpendTypes DEF SwitchPage, Events
  <2>2. AvatarTypes'
    BY <1>36, HydrateTypes, Frames DEF SwitchPage
  <2>3. BrowseTypes'
    BY <1>36, ShowTypes DEF SwitchPage, BrowseTypes
  <2>4. WindowTypes'
    BY <1>36 DEF SwitchPage, Show, WindowTypes, Pages
  <2>5. QED
    BY <1>36, <2>1, <2>2, <2>3, <2>4, Frames DEF SwitchPage
<1>37. ASSUME ShareStarts
      PROVE  OwnTypeOK'
  <2>1. limit' \in Mix
    BY <1>37, SpendTypes DEF ShareStarts, Events
  <2>2. AvatarTypes'
    BY <1>37, HydrateTypes DEF ShareStarts, AvatarTypes
  <2>3. BrowseTypes'
    BY <1>37, ShowTypes DEF ShareStarts, BrowseTypes
  <2>4. WindowTypes'
    BY <1>37 DEF ShareStarts, Show, WindowTypes, Pages
  <2>5. QED
    BY <1>37, <2>1, <2>2, <2>3, <2>4, Frames DEF ShareStarts
<1>38. ASSUME SessionEnds
      PROVE  OwnTypeOK'
  <2>1. BrowseTypes'
    BY <1>38, ShowTypes DEF SessionEnds, BrowseTypes
  <2>2. WindowTypes'
    BY <1>38 DEF SessionEnds, Show, WindowTypes, Pages
  <2>3. QED
    BY <1>38, <2>1, <2>2, Frames DEF SessionEnds
<1>39. ASSUME NEW l \in Lobbies, ForwardedArgs(l)
      PROVE  OwnTypeOK'
  <2>1. limit' \in Mix
    BY <1>39, SpendTypes DEF ForwardedArgs, Events
  <2>2. BrowseTypes'
    BY <1>39, ShowTypes DEF ForwardedArgs, RequestLaunchLobby, BrowseTypes
  <2>3. WindowTypes'
    BY <1>39, RequestTypes DEF ForwardedArgs, WindowTypes
  <2>4. QED
    BY <1>39, <2>1, <2>2, <2>3, Frames DEF ForwardedArgs
<1>40. ASSUME JoinRequested
      PROVE  OwnTypeOK'
  <2>1. limit' \in Mix
    BY <1>40, SpendTypes DEF JoinRequested, Events
  <2>2. BrowseTypes'
    BY <1>40, ShowTypes DEF JoinRequested, BrowseTypes
  <2>3. WindowTypes'
    BY <1>40 DEF JoinRequested, Show, WindowTypes, Pages
  <2>4. QED
    BY <1>40, <2>1, <2>2, <2>3, Frames DEF JoinRequested
<1>41. ASSUME Quit
      PROVE  OwnTypeOK'
  <2>1. limit' \in Mix
    BY <1>41, SpendTypes DEF Quit, Events
  <2>2. FriendTypes'
    BY <1>41 DEF Quit, FriendJobs, Rows, JobPhases, FriendTypes
  <2>3. BrowseTypes'
    BY <1>41 DEF Quit, HostJobs, SearchJobs, JobPhases, BrowseTypes
  <2>4. WindowTypes'
    BY <1>41 DEF Quit, WindowTypes
  <2>5. QED
    BY <1>41, <2>1, <2>2, <2>3, <2>4, Frames DEF Quit
<1>42. ASSUME NEW c \in Calls, SessionCalls(c)
      PROVE  OwnTypeOK'
  <2>1. limit' \in Mix
    BY <1>42, SpendTypes DEF SessionCalls, Events
  <2>2. QED
    BY <1>42, <2>1, Frames DEF SessionCalls
<1>43. CASE UNCHANGED serviceVars
  BY <1>43, Frames DEF serviceVars
<1>44. QED
  BY <1>1, <1>2, <1>3, <1>4, <1>5, <1>6, <1>7, <1>8, <1>9, <1>10, <1>11,
     <1>12, <1>13, <1>14, <1>15, <1>16, <1>17, <1>18, <1>19, <1>20, <1>21,
     <1>22, <1>23, <1>24, <1>25, <1>26, <1>27, <1>28, <1>29, <1>30, <1>31,
     <1>32, <1>33, <1>34, <1>35, <1>36, <1>37, <1>38, <1>39, <1>40, <1>41,
     <1>42, <1>43
     DEF ServiceNext, InitStep, FriendStep, FriendWorker, AvatarStep, HostStep, SearchStep, World

\* The variables of the service and of the registry keep their types.
THEOREM ServiceTypes == ServiceSpec => []ServiceTypeOK
<1>1. ServiceSpec => []OwnTypeOK
  BY OwnTypesInit, OwnTypesNext, PTL DEF ServiceSpec
<1>2. QED
  BY <1>1, ServiceUsesRegistry, TypeCorrect, PTL DEF ServiceTypeOK

-----------------------------------------------------------------------------
(* The caches.  What a worker read and is about to keep is as fresh as what *)
(* is cached: the callback that makes it stale finds the worker holding it. *)

NameHeld == friendJob.at = "keepName" => friendJob.name = persona.look

AvatarHeld ==
    /\ friendJob.at = "keepAvatar" => friendJob.avatar = persona.look
    /\ avatarJob.at = "keep" => avatarJob.avatar = persona.look

HeldFresh == (callbacks = 0 /\ ~overlapped) => NameHeld /\ AvatarHeld

FreshInv == OwnTypeOK /\ CacheFresh /\ HeldFresh

\* A step that touches neither Steam's side nor the caches, and leaves what
\* the workers hold alone or lets go of it, keeps both.
LEMMA CachesUntouched ==
    ASSUME CacheFresh, HeldFresh, UNCHANGED <<persona, callbacks, names, avatars, overlapped>>,
           friendJob'.at \in {"keepName", "keepAvatar"} => UNCHANGED friendJob,
           avatarJob'.at = "keep" => UNCHANGED avatarJob
    PROVE  CacheFresh' /\ HeldFresh'
BY DEF CacheFresh, HeldFresh, NameHeld, AvatarHeld

\* Starting a refresh takes no value.
LEMMA RefreshHoldsNothing ==
    ASSUME OwnTypeOK, RefreshFriends
    PROVE  friendJob'.at \in {"keepName", "keepAvatar"} => UNCHANGED friendJob
BY DEF RefreshFriends, OwnTypeOK, FriendTypes, FriendJobs

LEMMA HydrateHoldsNothing ==
    ASSUME OwnTypeOK, NEW row, Hydrate(row)
    PROVE  avatarJob'.at = "keep" => UNCHANGED avatarJob
BY DEF Hydrate, OwnTypeOK, AvatarTypes, AvatarJobs

LEMMA FreshInit == ServiceInit => CacheFresh /\ HeldFresh
BY DEF ServiceInit, CacheFresh, HeldFresh, NameHeld, AvatarHeld

LEMMA FreshNext ==
    OwnTypeOK /\ CacheFresh /\ HeldFresh /\ [ServiceNext]_serviceVars
        => CacheFresh' /\ HeldFresh'
<1> SUFFICES ASSUME OwnTypeOK, CacheFresh, HeldFresh, [ServiceNext]_serviceVars
             PROVE  CacheFresh' /\ HeldFresh'
  OBVIOUS
<1> USE DEF steamVars, cacheVars, friendVars, avatarVars
<1>1. ASSUME Initialize \/ LaunchShot \/ LeaveSteam
      PROVE  CacheFresh' /\ HeldFresh'
  BY <1>1, CachesUntouched DEF Initialize, LaunchShot, LeaveSteam
<1>2. ASSUME InitStep
      PROVE  CacheFresh' /\ HeldFresh'
  BY <1>2, CachesUntouched, RefreshHoldsNothing
     DEF InitStep, Connect, SignedIn, InitReady, InitOver
<1>3. ASSUME DispatchPersona
      PROVE  CacheFresh' /\ HeldFresh'
  BY <1>3 DEF DispatchPersona, CacheFresh, HeldFresh, NameHeld, AvatarHeld
<1>4. ASSUME NEW shot \in {"dirty", "again"}, FriendShot(shot)
      PROVE  CacheFresh' /\ HeldFresh'
  BY <1>4, CachesUntouched, RefreshHoldsNothing DEF FriendShot
<1>5. ASSUME ReadPresence
      PROVE  CacheFresh' /\ HeldFresh'
  <2>1. friendJob'.at = "name" /\ UNCHANGED avatarJob
    BY <1>5 DEF ReadPresence, OwnTypeOK, FriendTypes, FriendJobs
  <2>2. QED
    BY <1>5, <2>1, CachesUntouched DEF ReadPresence
<1>6. ASSUME ReadName
      PROVE  CacheFresh' /\ HeldFresh'
  BY <1>6 DEF ReadName, OwnTypeOK, FriendTypes, FriendJobs, CacheFresh, HeldFresh,
              NameHeld, AvatarHeld
<1>7. ASSUME KeepName
      PROVE  CacheFresh' /\ HeldFresh'
  BY <1>7 DEF KeepName, OwnTypeOK, FriendTypes, FriendJobs, CacheFresh, HeldFresh,
              NameHeld, AvatarHeld
<1>8. ASSUME ReadAvatar
      PROVE  CacheFresh' /\ HeldFresh'
  BY <1>8 DEF ReadAvatar, OwnTypeOK, FriendTypes, FriendJobs, CacheFresh, HeldFresh,
              NameHeld, AvatarHeld
<1>9. ASSUME KeepAvatar
      PROVE  CacheFresh' /\ HeldFresh'
  BY <1>9 DEF KeepAvatar, OwnTypeOK, FriendTypes, FriendJobs, CacheFresh, HeldFresh,
              NameHeld, AvatarHeld
<1>10. ASSUME FriendResult
       PROVE  CacheFresh' /\ HeldFresh'
  <2>1. friendJob'.at = "finished"
    BY <1>10 DEF FriendResult, OwnTypeOK, FriendTypes, FriendJobs
  <2>2. avatarJob'.at = "keep" => UNCHANGED avatarJob
    BY <1>10, HydrateHoldsNothing DEF FriendResult
  <2>3. QED
    BY <1>10, <2>1, <2>2, CachesUntouched DEF FriendResult
<1>11. ASSUME FriendFinished
       PROVE  CacheFresh' /\ HeldFresh'
  <2>1. friendJob'.at = "idle"
    BY <1>11 DEF FriendFinished, OwnTypeOK, FriendTypes, FriendJobs
  <2>2. QED
    BY <1>11, <2>1, CachesUntouched DEF FriendFinished
<1>12. ASSUME LoadAvatar
       PROVE  CacheFresh' /\ HeldFresh'
  BY <1>12 DEF LoadAvatar, CacheFresh, HeldFresh, NameHeld, AvatarHeld
<1>13. ASSUME KeepLoadedAvatar
       PROVE  CacheFresh' /\ HeldFresh'
  BY <1>13 DEF KeepLoadedAvatar, OwnTypeOK, AvatarTypes, AvatarJobs, CacheFresh, HeldFresh,
               NameHeld, AvatarHeld
<1>14. ASSUME AvatarResult \/ AvatarFinished
       PROVE  CacheFresh' /\ HeldFresh'
  <2>1. avatarJob'.at # "keep" /\ UNCHANGED friendJob
    BY <1>14 DEF AvatarResult, AvatarFinished, OwnTypeOK, AvatarTypes, AvatarJobs
  <2>2. QED
    BY <1>14, <2>1, CachesUntouched DEF AvatarResult, AvatarFinished
<1>15. ASSUME DiscoverTick \/ LobbyShot \/ HostStep
       PROVE  CacheFresh' /\ HeldFresh'
  BY <1>15, CachesUntouched DEF DiscoverTick, LobbyShot, HostStep, FindHosts, HostsResult,
                                HostsFinished
<1>16. ASSUME SearchStep
       PROVE  CacheFresh' /\ HeldFresh'
  BY <1>16, CachesUntouched DEF SearchStep, SearchAsks, SearchAnswered, SearchTimesOut, SearchOver
<1>17. ASSUME NEW c \in Calls, CallStep(c) \/ SessionCalls(c)
       PROVE  CacheFresh' /\ HeldFresh'
  BY <1>17, CachesUntouched DEF CallStep, SessionCalls
<1>18. ASSUME CloseSteam \/ ShutSteam
       PROVE  CacheFresh' /\ HeldFresh'
  <2>1. CASE CloseSteam
    BY <2>1, CachesUntouched DEF CloseSteam
  <2>2. CASE ShutSteam
    BY <2>2 DEF ShutSteam, CacheFresh, HeldFresh, NameHeld, AvatarHeld
  <2>3. QED
    BY <1>18, <2>1, <2>2
<1>19. ASSUME PersonaChanges
       PROVE  CacheFresh' /\ HeldFresh'
  <2>1. callbacks' # 0
    BY <1>19 DEF PersonaChanges, OwnTypeOK, SteamTypes
  <2>2. QED
    BY <2>1 DEF CacheFresh, HeldFresh
<1>20. ASSUME \/ SignIn \/ LobbyChanges \/ SessionEnds \/ JoinRequested \/ Quit
              \/ \E l \in Lobbies : ForwardedArgs(l)
       PROVE  CacheFresh' /\ HeldFresh'
  BY <1>20, CachesUntouched DEF SignIn, LobbyChanges, SessionEnds, ForwardedArgs,
                                JoinRequested, Quit
<1>21. ASSUME FriendTick
       PROVE  CacheFresh' /\ HeldFresh'
  BY <1>21, CachesUntouched, RefreshHoldsNothing DEF FriendTick
<1>22. ASSUME NEW p \in Pages, SwitchPage(p)
       PROVE  CacheFresh' /\ HeldFresh'
  BY <1>22, CachesUntouched, HydrateHoldsNothing DEF SwitchPage
<1>23. ASSUME ShareStarts
       PROVE  CacheFresh' /\ HeldFresh'
  BY <1>23, CachesUntouched, HydrateHoldsNothing DEF ShareStarts
<1>24. CASE UNCHANGED serviceVars
  BY <1>24, CachesUntouched DEF serviceVars
<1>25. QED
  BY <1>1, <1>2, <1>3, <1>4, <1>5, <1>6, <1>7, <1>8, <1>9, <1>10, <1>11, <1>12, <1>13,
     <1>14, <1>15, <1>16, <1>17, <1>18, <1>19, <1>20, <1>21, <1>22, <1>23, <1>24
     DEF ServiceNext, FriendStep, FriendWorker, AvatarStep, World

\* Once no callback is on the way and none overtook a read, what is cached is
\* what Steam says, whatever the two workers and the shutdown interleave with.
THEOREM CachesStayFresh == ServiceSpec => []CacheFresh
<1>1. FreshInv /\ [ServiceNext]_serviceVars => FreshInv'
  BY OwnTypesNext, FreshNext DEF FreshInv
<1>2. ServiceInit => FreshInv
  BY OwnTypesInit, FreshInit DEF FreshInv
<1>3. FreshInv => CacheFresh
  BY DEF FreshInv
<1>4. QED
  BY <1>1, <1>2, <1>3, PTL DEF ServiceSpec

-----------------------------------------------------------------------------
(* The shutdown. *)

ClosedInv ==
    /\ closing = "joining" \/ api = "closed" => PoolDone
    /\ api = "closed" => closing = "over" /\ cleared

\* A step that starts no worker and leaves Steam and cleanup alone.
LEMMA ClosedStutters ==
    ASSUME ClosedInv, UNCHANGED <<api, closing>>, UNCHANGED cleared,
           PoolDone => PoolDone'
    PROVE  ClosedInv'
BY DEF ClosedInv

\* While the Qt thread runs, Steam is not shut down.
LEMMA QtMeansOpen ==
    ASSUME ClosedInv, Qt, UNCHANGED api, closing' # "joining"
    PROVE  ClosedInv'
BY DEF ClosedInv, Qt

LEMMA ClosedNext == ClosedInv /\ [ServiceNext]_serviceVars => ClosedInv'
<1> SUFFICES ASSUME ClosedInv, [ServiceNext]_serviceVars
             PROVE  ClosedInv'
  OBVIOUS
<1> USE DEF startVars, friendVars, avatarVars, browseVars, windowVars
<1>1. ASSUME Initialize \/ InitReady \/ InitOver \/ LaunchShot
      PROVE  ClosedInv'
  BY <1>1, QtMeansOpen DEF Qt, Initialize, InitReady, InitOver, LaunchShot
<1>2. ASSUME Connect \/ SignedIn
      PROVE  ClosedInv'
  BY <1>2 DEF Connect, SignedIn, ClosedInv, PoolDone, Reported
<1>3. ASSUME DispatchPersona \/ PersonaChanges
      PROVE  ClosedInv'
  BY <1>3 DEF DispatchPersona, PersonaChanges, ClosedInv, PoolDone
<1>4. ASSUME NEW shot \in {"dirty", "again"}, FriendShot(shot)
      PROVE  ClosedInv'
  BY <1>4, QtMeansOpen DEF Qt, FriendShot
<1>5. ASSUME FriendWorker
      PROVE  ClosedInv'
  BY <1>5 DEF FriendWorker, ReadPresence, ReadName, KeepName, ReadAvatar, KeepAvatar,
              ClosedInv, PoolDone, Reported
<1>6. ASSUME FriendResult \/ FriendFinished
      PROVE  ClosedInv'
  BY <1>6, QtMeansOpen DEF Qt, FriendResult, FriendFinished
<1>7. ASSUME LoadAvatar \/ KeepLoadedAvatar
      PROVE  ClosedInv'
  BY <1>7 DEF LoadAvatar, KeepLoadedAvatar, ClosedInv, PoolDone, Reported
<1>8. ASSUME AvatarResult \/ AvatarFinished
      PROVE  ClosedInv'
  BY <1>8, QtMeansOpen DEF Qt, AvatarResult, AvatarFinished
<1>9. ASSUME DiscoverTick \/ LobbyShot \/ HostsResult \/ HostsFinished \/ SearchOver
      PROVE  ClosedInv'
  BY <1>9, QtMeansOpen DEF Qt, DiscoverTick, LobbyShot, HostsResult, HostsFinished, SearchOver
<1>10. ASSUME FindHosts \/ SearchAnswered \/ SearchTimesOut \/ \E c \in Calls : SearchAsks(c)
       PROVE  ClosedInv'
  BY <1>10 DEF FindHosts, SearchAnswered, SearchTimesOut, SearchAsks, ClosedInv, PoolDone, Reported
<1>11. ASSUME NEW c \in Calls, CallStep(c)
       PROVE  ClosedInv'
  <2>1. UNCHANGED cleared
    BY <1>11 DEF CallStep, Caller, ClaimParked, RegisterHandler, AnswerClaimed, Dispatcher,
                 DispatchCompletion, AnswerDispatched, SteamCompletes
  <2>2. UNCHANGED <<startVars, friendVars, avatarVars, browseVars, windowVars>>
    BY <1>11 DEF CallStep
  <2>3. QED
    BY <2>1, <2>2 DEF ClosedInv, PoolDone
<1>12. ASSUME CloseSteam \/ ShutSteam
       PROVE  ClosedInv'
  BY <1>12 DEF CloseSteam, ShutSteam, Shutdown, ClosedInv, PoolDone
<1>13. ASSUME LeaveSteam
       PROVE  ClosedInv'
  BY <1>13 DEF LeaveSteam, ClosedInv
<1>14. ASSUME SignIn \/ LobbyChanges
       PROVE  ClosedInv'
  BY <1>14, ClosedStutters DEF SignIn, LobbyChanges, PoolDone, callVars, vars
<1>15. ASSUME NEW p \in Pages, SwitchPage(p)
       PROVE  ClosedInv'
  BY <1>15, QtMeansOpen DEF Qt, SwitchPage
<1>16. ASSUME NEW c \in Calls, SessionCalls(c)
       PROVE  ClosedInv'
  BY <1>16, QtMeansOpen DEF Qt, SessionCalls
<1>17. ASSUME \/ FriendTick \/ ShareStarts \/ SessionEnds \/ JoinRequested \/ Quit
              \/ \E l \in Lobbies : ForwardedArgs(l)
       PROVE  ClosedInv'
  BY <1>17, QtMeansOpen DEF Qt, FriendTick, ShareStarts, SessionEnds, ForwardedArgs, JoinRequested, Quit
<1>18. CASE UNCHANGED serviceVars
  BY <1>18, ClosedStutters DEF serviceVars, callVars, vars, PoolDone
<1>19. QED
  BY <1>1, <1>2, <1>3, <1>4, <1>5, <1>6, <1>7, <1>8, <1>9, <1>10, <1>11, <1>12, <1>13,
     <1>14, <1>15, <1>16, <1>17, <1>18
     DEF ServiceNext, InitStep, FriendStep, AvatarStep, HostStep, SearchStep, World

\* Cleanup never takes Steam away from a worker that is inside it, whatever the
\* worker was doing when the window closed.
THEOREM NoWorkerAfterShutdown == ServiceSpec => []ClosedUnused
<1>1. ServiceInit => ClosedInv
  BY DEF ServiceInit, ClosedInv
<1>2. ClosedInv => ClosedUnused
  BY DEF ClosedInv, ClosedUnused
<1>3. QED
  BY <1>1, <1>2, ClosedNext, PTL DEF ServiceSpec
=============================================================================
