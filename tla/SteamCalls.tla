----------------------------- MODULE SteamCalls -----------------------------
(***************************************************************************)
(* Asynchronous Steam calls (SteamyLan/steam_api.py: await_call,           *)
(* _dispatch_loop, _resolve_api_call, shutdown).                           *)
(*                                                                         *)
(* A caller thread makes a Steam call, receives its handle, and registers  *)
(* a handler for it with await_call.  The dispatch thread receives the     *)
(* completion callbacks.  The two race: a completion may be dispatched     *)
(* before its handler is registered, and is then parked in                 *)
(* _completed_unclaimed.  Both maps are only touched under _pending_lock;  *)
(* the handler runs outside it.                                            *)
(***************************************************************************)
EXTENDS Naturals

CONSTANT Calls       \* the call handles Steam gives out in one run

VARIABLES
    steam,       \* where Steam is with each call
    caller,      \* where the thread that made each call is
    pending,     \* _pending_calls: handles with a registered handler
    unclaimed,   \* _completed_unclaimed: completions with no handler yet
    dispatched,  \* handles whose handler the dispatch thread took and runs next
    answers,     \* how often each call's handler has run
    running,     \* FALSE once shutdown has begun (_stop)
    cleared      \* TRUE once shutdown closed the API and emptied the maps

vars == <<steam, caller, pending, unclaimed, dispatched, answers, running, cleared>>

TypeOK ==
    /\ steam \in [Calls -> {"unused", "working", "completed", "delivered"}]
    /\ caller \in [Calls -> {"unused", "issued", "claimed", "returned"}]
    /\ pending \in SUBSET Calls
    /\ unclaimed \in SUBSET Calls
    /\ dispatched \in SUBSET Calls
    /\ answers \in [Calls -> Nat]
    /\ running \in BOOLEAN /\ cleared \in BOOLEAN

Init ==
    /\ steam = [c \in Calls |-> "unused"]
    /\ caller = [c \in Calls |-> "unused"]
    /\ pending = {}
    /\ unclaimed = {}
    /\ dispatched = {}
    /\ answers = [c \in Calls |-> 0]
    /\ running = TRUE /\ cleared = FALSE

-----------------------------------------------------------------------------
(* The caller: CreateLobby, JoinLobby or RequestLobbyList, then await_call. *)

IssueCall(c) ==
    /\ ~cleared
    /\ caller[c] = "unused"
    /\ caller' = [caller EXCEPT ![c] = "issued"]
    /\ steam' = [steam EXCEPT ![c] = "working"]
    /\ UNCHANGED <<pending, unclaimed, dispatched, answers, running, cleared>>

\* await_call's locked region when the completion is already parked.
ClaimParked(c) ==
    /\ caller[c] = "issued"
    /\ c \in unclaimed
    /\ unclaimed' = unclaimed \ {c}
    /\ caller' = [caller EXCEPT ![c] = "claimed"]
    /\ UNCHANGED <<steam, pending, dispatched, answers, running, cleared>>

\* Faulty variant: registers without looking for a parked completion.
RegisterHandlerBlindly(c) ==
    /\ caller[c] = "issued"
    /\ pending' = pending \cup {c}
    /\ caller' = [caller EXCEPT ![c] = "returned"]
    /\ UNCHANGED <<steam, unclaimed, dispatched, answers, running, cleared>>

\* await_call's locked region otherwise: the handler is registered.
RegisterHandler(c) ==
    /\ caller[c] = "issued"
    /\ c \notin unclaimed
    /\ pending' = pending \cup {c}
    /\ caller' = [caller EXCEPT ![c] = "returned"]
    /\ UNCHANGED <<steam, unclaimed, dispatched, answers, running, cleared>>

\* After the lock: the caller resolves the completion it claimed itself.
AnswerClaimed(c) ==
    /\ caller[c] = "claimed"
    /\ caller' = [caller EXCEPT ![c] = "returned"]
    /\ answers' = [answers EXCEPT ![c] = @ + 1]
    /\ UNCHANGED <<steam, pending, unclaimed, dispatched, running, cleared>>

-----------------------------------------------------------------------------
(* Steam queues the completion; the dispatch thread takes it. *)

SteamCompletes(c) ==
    /\ ~cleared
    /\ steam[c] = "working"
    /\ steam' = [steam EXCEPT ![c] = "completed"]
    /\ UNCHANGED <<caller, pending, unclaimed, dispatched, answers, running, cleared>>

\* Faulty variant: a completion without a handler is dropped.
DispatchCompletionOrDrop(c) ==
    /\ ~cleared
    /\ dispatched = {}
    /\ steam[c] = "completed"
    /\ steam' = [steam EXCEPT ![c] = "delivered"]
    /\ pending' = pending \ {c}
    /\ dispatched' = pending \cap {c}
    /\ UNCHANGED <<caller, unclaimed, answers, running, cleared>>

\* _resolve_api_call's locked region: take the handler, or park the result.
DispatchCompletion(c) ==
    /\ ~cleared
    /\ dispatched = {}
    /\ steam[c] = "completed"
    /\ steam' = [steam EXCEPT ![c] = "delivered"]
    /\ \/ /\ c \in pending
          /\ pending' = pending \ {c}
          /\ dispatched' = {c}
          /\ UNCHANGED unclaimed
       \/ /\ c \notin pending
          /\ unclaimed' = unclaimed \cup {c}
          /\ UNCHANGED <<pending, dispatched>>
    /\ UNCHANGED <<caller, answers, running, cleared>>

\* Faulty variant: the callback is not freed, so it is handled again.
AnswerDispatchedAgain(c) ==
    /\ c \in dispatched
    /\ answers' = [answers EXCEPT ![c] = @ + 1]
    /\ UNCHANGED <<steam, caller, pending, unclaimed, dispatched, running, cleared>>

\* After the lock: GetAPICallResult and the handler, on the dispatch thread.
AnswerDispatched(c) ==
    /\ c \in dispatched
    /\ dispatched' = dispatched \ {c}
    /\ answers' = [answers EXCEPT ![c] = @ + 1]
    /\ UNCHANGED <<steam, caller, pending, unclaimed, running, cleared>>

-----------------------------------------------------------------------------
(* shutdown: _stop is set and the thread is joined for 1 s; then the API is *)
(* shut down and both maps are cleared.  The dispatch loop looks at _stop   *)
(* after a batch of callbacks, so it may go on for a while, and a handler   *)
(* it took may still be running at the end.                                 *)

StopDispatch ==
    /\ running
    /\ running' = FALSE
    /\ UNCHANGED <<steam, caller, pending, unclaimed, dispatched, answers, cleared>>

\* Faulty variant: parked completions survive the shutdown.
ShutdownKeepingParked ==
    /\ ~running /\ ~cleared
    /\ cleared' = TRUE
    /\ pending' = {}
    /\ UNCHANGED <<steam, caller, unclaimed, dispatched, answers, running>>

Shutdown ==
    /\ ~running /\ ~cleared
    /\ cleared' = TRUE
    /\ pending' = {}
    /\ unclaimed' = {}
    /\ UNCHANGED <<steam, caller, dispatched, answers, running>>

Caller(c) == ClaimParked(c) \/ RegisterHandler(c) \/ AnswerClaimed(c)

Dispatcher(c) == DispatchCompletion(c) \/ AnswerDispatched(c)

Next ==
    \/ \E c \in Calls :
          \/ IssueCall(c)
          \/ Caller(c)
          \/ SteamCompletes(c)
          \/ Dispatcher(c)
    \/ StopDispatch
    \/ Shutdown

Spec == Init /\ [][Next]_vars

\* A thread that runs keeps running: callers inside await_call, and the dispatch
\* loop, which polls every 30 ms until shutdown and then may stop.
CallsFair(c) ==
    /\ WF_vars(Caller(c))
    /\ WF_vars(running /\ DispatchCompletion(c)) /\ WF_vars(AnswerDispatched(c))

FairSpec == Spec /\ \A c \in Calls : CallsFair(c)

-----------------------------------------------------------------------------
(* Properties *)

\* A completion Steam delivered is never lost until the client is shut down: until
\* its handler has run it is parked, being resolved by the dispatch thread, or
\* claimed by its caller.  This is the race the comment in _resolve_api_call
\* (steam_api.py 1431-1434) is about.
CompletionNotLost ==
    \A c \in Calls :
        ~cleared /\ steam[c] = "delivered" /\ answers[c] = 0 =>
            \/ c \in unclaimed /\ caller[c] = "issued"
            \/ c \in dispatched
            \/ caller[c] = "claimed"

\* No call's handler runs twice, whichever thread resolves it.
AtMostOneAnswer == \A c \in Calls : answers[c] <= 1

\* A handler runs only for a completion Steam delivered, and never stays
\* registered after that.
RegisteredMeansOutstanding ==
    \A c \in pending : answers[c] = 0 /\ (~cleared => steam[c] \in {"working", "completed"})

\* Every completed call is answered unless shutdown begins: neither
\* thread can leave the result where the other will not look for it.
CompletedIsAnswered ==
    \A c \in Calls : steam[c] = "completed" ~> (answers[c] = 1 \/ ~running)

-----------------------------------------------------------------------------
(* Refinement: what the callers of await_call can observe. *)

Abandoned(c) ==
    /\ cleared
    /\ caller[c] \in {"issued", "returned"}
    /\ c \notin dispatched
    /\ answers[c] = 0

OutcomeOf(c) ==
    IF answers[c] > 0 THEN "answered"
    ELSE IF caller[c] = "unused" THEN "unused"
    ELSE IF Abandoned(c) THEN "abandoned"
    ELSE "open"

Outcome == [c \in Calls |-> OutcomeOf(c)]

Promise == INSTANCE ExactlyOnceCalls WITH outcome <- Outcome

\* The protocol of the two threads implements the exactly-once promise.
ImplementsPromise == Promise!Spec
=============================================================================
