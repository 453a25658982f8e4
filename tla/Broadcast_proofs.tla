--------------------------- MODULE Broadcast_proofs ---------------------------
(***************************************************************************)
(* What BroadcastRedirector guarantees for any set of ports, any number of *)
(* sessions and any number of changes and failures.                        *)
(***************************************************************************)
EXTENDS BroadcastRedirector, SequenceTheorems, TLAPS

\* Controllers are used one after another: only that of the current session, and
\* only when it is connected, has a thread that the Qt thread listens to.
Separated ==
    /\ mode # "idle" => current \in Controllers
    /\ qt # "free" => mode # "idle"
    /\ qt = "sending" => mode = "connected"
    /\ qt \in {"stopping", "stopping-linked", "joining-thread"} => ~attached[current]
    /\ \A c \in Controllers :
           /\ c < current => ~attached[c]
           /\ c > current => thread[c] = "none"
           /\ c = current /\ mode # "connected" => thread[c] = "none"

\* What is queued is of this session: a session that waits for the host's grant
\* has nothing behind the grant, one that is connected has no grant left, and an
\* error is only queued or shown for a controller that failed.
NewsIsCurrent ==
    /\ mode = "joining" => \A i \in 1 .. Len(queue) - 1 : queue[i] # "granted"
    /\ mode # "connected" => notice = ""
    /\ mode = "connected" =>
           /\ \A i \in 1 .. Len(queue) :
                  queue[i] # "granted" /\ (queue[i] = "error" => failed[current])
           /\ notice = "error" => failed[current]

\* The inductive invariant.  NoLateNews is not inductive alone: that an error is
\* of this session depends on the order of the queue and on who is attached.
IInv == TypeOK /\ Separated /\ NewsIsCurrent

-----------------------------------------------------------------------------

\* Taking the first of a queue, and adding to it.
LEMMA QueueSteps ==
  ASSUME NEW S, NEW q \in Seq(S), NEW e \in S
  PROVE  /\ Append(q, e) \in Seq(S)
         /\ Len(Append(q, e)) = Len(q) + 1
         /\ \A i \in 1 .. Len(q) : Append(q, e)[i] = q[i]
         /\ Append(q, e)[Len(q) + 1] = e
         /\ q # <<>> => /\ Tail(q) \in Seq(S)
                        /\ Len(Tail(q)) = Len(q) - 1
                        /\ Head(q) = q[1] /\ Len(q) \in Nat \ {0}
                        /\ \A i \in 1 .. Len(q) - 1 : Tail(q)[i] = q[i + 1]
  OBVIOUS

\* What the constants give.
LEMMA Sets ==
  /\ {} \in PortSets
  /\ MaxSessions \in Nat /\ 1 \in 1 .. MaxSessions + 1
  /\ Controllers \subseteq Nat \ {0} /\ 1 \in Controllers
  /\ \A c \in Controllers : c + 1 \in 1 .. MaxSessions + 1
<1>1. {} \in PortSets BY DEF PortSets
<1>2. MaxSessions \in Nat \ {0} BY SessionsAssumption
<1> QED BY <1>1, <1>2 DEF Controllers

\* The initial states satisfy the invariant.
LEMMA InitIInv == Init => IInv
<1> SUFFICES ASSUME Init PROVE IInv OBVIOUS
<1>1. TypeOK
  <2>1. limit \in [sessions : 1 .. MaxSessions, changes : Nat, faults : Nat]
    BY SessionsAssumption DEF Init
  <2>2. SessionTypes
    <3>1. <<>> \in Seq(News) OBVIOUS
    <3> QED BY <2>1, <3>1, Sets DEF Init, SessionTypes
  <2>3. ControllerTypes
    BY Sets DEF Init, ControllerTypes, ThreadPhases
  <2>4. HelperTypes
    <3>1. \A S : <<>> \in Seq(S) OBVIOUS
    <3>2. \A S : /\ toHelper \in [Controllers -> Seq(S)]
                 /\ toController \in [Controllers -> Seq(S)]
      BY <3>1, Zenon DEF Init
    <3> QED BY <3>2, Sets DEF Init, HelperTypes, HelperPhases
  <2> QED BY <2>2, <2>3, <2>4 DEF TypeOK
<1>2. Separated /\ NewsIsCurrent
  <2>1. /\ current = 1 /\ mode = "idle" /\ notice = "" /\ qt = "free"
        /\ \A c \in Controllers : thread[c] = "none"
    BY DEF Init
  <2>2. \A c \in Controllers : ~(c < 1)
    BY Sets
  <2> QED BY <2>1, <2>2 DEF Separated, NewsIsCurrent
<1> QED BY <1>1, <1>2 DEF IInv

-----------------------------------------------------------------------------

\* A join begins.
LEMMA StartJoinIInv ==
  ASSUME IInv, StartJoin
  PROVE  IInv'
<1> USE DEF sessionVars, flagVars, socketVars, pipeVars, helperVars, boundVars
<1>t. SessionTypes BY DEF IInv, TypeOK
<1>1. queue' \in Seq(News)
  BY <1>t, QueueSteps DEF SessionTypes, StartJoin, News
<1>2. SessionTypes'
  BY <1>t, <1>1 DEF StartJoin, SessionTypes, News
<1>3. ControllerTypes' /\ HelperTypes'
  BY DEF StartJoin, ControllerTypes, HelperTypes, IInv, TypeOK
<1>4. Separated'
  <2>1. current \in Controllers
    <3>1. /\ current <= limit.sessions /\ current \in 1 .. MaxSessions + 1
          /\ limit.sessions \in 1 .. MaxSessions
      BY <1>t DEF StartJoin, SessionTypes
    <3>2. MaxSessions \in Nat BY SessionsAssumption
    <3> QED BY <3>1, <3>2 DEF Controllers
  <2> QED BY <2>1 DEF IInv, Separated, StartJoin
<1>5. NewsIsCurrent'
  <2>1. queue \in Seq(News) /\ mode' = "joining" /\ notice' = notice /\ mode = "idle"
    BY <1>t DEF StartJoin, SessionTypes
  <2>2. Len(queue') - 1 = Len(queue) /\ \A i \in 1 .. Len(queue) : queue'[i] = queue[i]
    BY <2>1, QueueSteps DEF StartJoin, News
  <2>3. \A i \in 1 .. Len(queue) : queue[i] # "granted"
    BY <2>1 DEF StartJoin
  <2> QED BY <2>1, <2>2, <2>3 DEF NewsIsCurrent, IInv
<1> QED BY <1>2, <1>3, <1>4, <1>5 DEF IInv, TypeOK

\* A bound is spent.
LEMMA SpendTypes ==
  ASSUME SessionTypes, NEW bound \in {"changes", "faults"}, Spend(bound)
  PROVE  /\ limit' \in [sessions : 1 .. MaxSessions, changes : Nat, faults : Nat]
         /\ limit'.sessions = limit.sessions
         /\ overtaken' \in BOOLEAN
<1>1. /\ limit \in [sessions : 1 .. MaxSessions, changes : Nat, faults : Nat]
      /\ overtaken \in BOOLEAN
  BY DEF SessionTypes
<1>2. limit[bound] \in Nat /\ limit[bound] - 1 \in Nat
  BY <1>1 DEF Spend
<1> QED BY <1>1, <1>2 DEF Spend

\* A thread that the Qt thread listens to is of the current session.
LEMMA Speaks ==
  ASSUME IInv, NEW c \in Controllers, thread[c] # "none", attached[c]
  PROVE  c = current /\ mode = "connected"
<1>1. current \in 1 .. MaxSessions + 1 /\ MaxSessions \in Nat
  BY SessionsAssumption DEF IInv, TypeOK, SessionTypes
<1>2. current \in Int /\ c \in Int
  BY <1>1 DEF Controllers
<1>3. ~(c < current) /\ ~(c > current)
  BY DEF IInv, Separated
<1>4. c = current
  BY <1>2, <1>3
<1> QED BY <1>4 DEF IInv, Separated

\* Steps that say nothing and start no thread.
LEMMA QuietStep ==
  ASSUME IInv, UNCHANGED <<current, mode, notice, queue, qt, attached>>,
         \A c \in Controllers : thread[c] = "none" => thread'[c] = "none",
         \A c \in Controllers : failed[c] => failed'[c]
  PROVE  Separated' /\ NewsIsCurrent'
<1>1. Separated'
  BY DEF IInv, Separated
<1>2. NewsIsCurrent'
  BY DEF IInv, Separated, NewsIsCurrent
<1> QED BY <1>1, <1>2

\* Telling the Qt thread something about a controller that has a thread.
LEMMA StatusStep ==
  ASSUME IInv, UNCHANGED <<current, mode, notice, qt, attached>>,
         NEW c \in Controllers, thread[c] # "none", NEW kind \in News \ {"granted"},
         Status(c, kind),
         \A d \in Controllers : thread[d] = "none" => thread'[d] = "none",
         \A d \in Controllers : failed[d] => failed'[d],
         kind = "error" => failed'[c]
  PROVE  queue' \in Seq(News) /\ Separated' /\ NewsIsCurrent'
<1>t. queue \in Seq(News)
  BY DEF IInv, TypeOK, SessionTypes
<1>1. CASE ~attached[c]
  <2>1. queue' = queue BY <1>1 DEF Status
  <2> QED BY <1>t, <2>1, QuietStep
<1>2. CASE attached[c]
  <2>1. queue' = Append(queue, kind)
    BY <1>2 DEF Status
  <2>2. c = current /\ mode = "connected"
    BY <1>2, Speaks
  <2>3. /\ queue' \in Seq(News)
        /\ Len(queue') = Len(queue) + 1 /\ Len(queue) \in Nat
        /\ \A i \in 1 .. Len(queue) : queue'[i] = queue[i]
        /\ queue'[Len(queue) + 1] = kind
    BY <1>t, <2>1, QueueSteps
  <2>4. \A i \in 1 .. Len(queue') : i \in 1 .. Len(queue) \/ i = Len(queue) + 1
    BY <2>3
  <2>5. NewsIsCurrent'
    BY <2>2, <2>3, <2>4 DEF IInv, NewsIsCurrent
  <2>6. Separated'
    BY DEF IInv, Separated
  <2> QED BY <2>3, <2>5, <2>6
<1> QED BY <1>1, <1>2

-----------------------------------------------------------------------------
(* The thread of a controller *)

\* Phases, and adding to and taking from the sockets.
LEMMA Sockets ==
  ASSUME HelperTypes, NEW c \in Controllers
  PROVE  /\ \A kind \in {"set", "stop"}, ports \in PortSets :
                Append(toHelper[c], [kind |-> kind, ports |-> ports]) \in Seq(Command)
         /\ \A kind \in {"hello", "ready", "inactive", "error"}, ports \in PortSets :
                Append(toController[c], [kind |-> kind, ports |-> ports]) \in Seq(Event)
         /\ toHelper[c] # <<>> =>
                Head(toHelper[c]) \in Command /\ Tail(toHelper[c]) \in Seq(Command)
         /\ toController[c] # <<>> =>
                Head(toController[c]) \in Event /\ Tail(toController[c]) \in Seq(Event)
         /\ \A n \in 1 .. Len(toController[c]) :
                SubSeq(toController[c], n + 1, Len(toController[c])) \in Seq(Event)
<1>1. toHelper[c] \in Seq(Command) /\ toController[c] \in Seq(Event)
  BY DEF HelperTypes
<1>2. \A kind \in {"set", "stop"}, ports \in PortSets :
          [kind |-> kind, ports |-> ports] \in Command
  BY DEF Command
<1>3. \A kind \in {"hello", "ready", "inactive", "error"}, ports \in PortSets :
          [kind |-> kind, ports |-> ports] \in Event
  BY DEF Event
<1>4. \A n \in 1 .. Len(toController[c]) :
          SubSeq(toController[c], n + 1, Len(toController[c])) \in Seq(Event)
  BY <1>1, SubSeqProperties
<1> QED BY <1>1, <1>2, <1>3, <1>4

\* Steps of a thread that say nothing to the Qt thread.
LEMMA QuietThread ==
  ASSUME IInv, NEW c \in Controllers,
         \/ Elevation(c) \/ Accept(c) \/ Greet(c) \/ GreetFails(c)
         \/ ReadConfig(c) \/ SendConfig(c) \/ ReadEnds(c) \/ ThreadEnds(c)
  PROVE  IInv'
<1> USE DEF sessionVars, flagVars, socketVars, pipeVars, helperVars, boundVars
<1>t. SessionTypes /\ ControllerTypes /\ HelperTypes BY DEF IInv, TypeOK
<1>1. /\ UNCHANGED <<sessionVars, queue, qt, flagVars>>
      /\ \A d \in Controllers : thread[d] = "none" => thread'[d] = "none"
      /\ thread' \in [Controllers -> ThreadPhases]
  BY <1>t DEF Elevation, Accept, Greet, GreetFails, ReadConfig, SendConfig, ReadEnds,
     ThreadEnds, ControllerTypes, ThreadPhases
<1>2. Separated' /\ NewsIsCurrent'
  BY <1>1, QuietStep
<1>3. limit' \in [sessions : 1 .. MaxSessions, changes : Nat, faults : Nat]
      /\ overtaken' \in BOOLEAN
  BY <1>t, SpendTypes DEF Elevation, Accept, Greet, GreetFails, ReadConfig, SendConfig,
     ReadEnds, ThreadEnds, SessionTypes, Fault
<1>4. SessionTypes'
  BY <1>t, <1>1, <1>3 DEF SessionTypes
<1>5. ControllerTypes'
  <2>1. config' \in [Controllers -> PortSets]
    BY <1>t DEF Elevation, Accept, Greet, GreetFails, ReadConfig, SendConfig,
       ReadEnds, ThreadEnds, ControllerTypes
  <2>3. ready' \in [Controllers -> PortSets]
    BY <1>t, Sets DEF Elevation, Accept, Greet, GreetFails, ReadConfig, SendConfig,
       ReadEnds, ThreadEnds, ControllerTypes
  <2>2. connected' \in [Controllers -> BOOLEAN] /\ UNCHANGED wanted
    BY <1>t DEF Elevation, Accept, Greet, GreetFails, ReadConfig, SendConfig,
       ReadEnds, ThreadEnds, ControllerTypes
  <2> QED BY <1>t, <1>1, <2>1, <2>2, <2>3 DEF ControllerTypes
<1>6. HelperTypes'
  <2>1. CASE SendConfig(c)
    <3>1. config[c] \in PortSets BY <1>t DEF ControllerTypes
    <3>2. Append(toHelper[c], [kind |-> "set", ports |-> config[c]]) \in Seq(Command)
      BY <1>t, <3>1, Sockets
    <3>3. toHelper' \in [Controllers -> Seq(Command)]
      BY <1>t, <2>1, <3>2 DEF SendConfig, Send, HelperTypes
    <3> QED BY <1>t, <2>1, <3>3 DEF SendConfig, HelperTypes
  <2>2. CASE Greet(c)
    <3>1. PICK n \in 1 .. Len(toController[c]) : toController' =
             [toController EXCEPT ![c] =
                 SubSeq(toController[c], n + 1, Len(toController[c]))]
      BY <2>2 DEF Greet
    <3>2. SubSeq(toController[c], n + 1, Len(toController[c])) \in Seq(Event)
      BY <1>t, Sockets
    <3>3. toController' \in [Controllers -> Seq(Event)]
      BY <1>t, <3>1, <3>2 DEF HelperTypes
    <3> QED BY <1>t, <2>2, <3>3 DEF Greet, HelperTypes
  <2>3. CASE Elevation(c)
    BY <1>t, <2>3 DEF Elevation, HelperTypes, HelperPhases
  <2>4. CASE ThreadEnds(c)
    BY <1>t, <2>4 DEF ThreadEnds, Unlisten, HelperTypes
  <2>5. CASE Accept(c) \/ GreetFails(c) \/ ReadConfig(c) \/ ReadEnds(c)
    BY <1>t, <2>5 DEF Accept, GreetFails, ReadConfig, ReadEnds, HelperTypes
  <2> QED BY <2>1, <2>2, <2>3, <2>4, <2>5
<1> QED BY <1>2, <1>4, <1>5, <1>6 DEF IInv, TypeOK

\* The two steps of a thread that say something: an event of the helper, and a
\* failure.
LEMMA TellingThread ==
  ASSUME IInv, NEW c \in Controllers, ReadEvent(c) \/ ThreadFails(c)
  PROVE  IInv'
<1> USE DEF sessionVars, flagVars, socketVars, pipeVars, helperVars, boundVars
<1>t. SessionTypes /\ ControllerTypes /\ HelperTypes BY DEF IInv, TypeOK
<1>1. CASE ReadEvent(c)
  <2> DEFINE event == Head(toController[c])
  <2>1. event \in Event /\ Tail(toController[c]) \in Seq(Event)
    BY <1>t, <1>1, Sockets DEF ReadEvent
  <2>2. HelperTypes'
    BY <1>t, <1>1, <2>1 DEF ReadEvent, HelperTypes
  <2>3. ASSUME event.kind \in {"ready", "inactive"} PROVE IInv'
    <3>1. /\ ready' = [ready EXCEPT ![c] = event.ports]
          /\ Status(c, event.kind) /\ UNCHANGED thread
      BY <1>1, <2>3 DEF ReadEvent
    <3>2. ControllerTypes'
      BY <1>t, <1>1, <2>1, <3>1 DEF ReadEvent, ControllerTypes, Event
    <3>3. /\ UNCHANGED <<current, mode, notice, qt, attached, failed>>
          /\ thread[c] # "none" /\ event.kind \in News \ {"granted"}
          /\ event.kind # "error"
      BY <1>1, <2>3 DEF ReadEvent, News
    <3>4. queue' \in Seq(News) /\ Separated' /\ NewsIsCurrent'
      BY <3>1, <3>3, StatusStep
    <3>5. SessionTypes'
      BY <1>t, <1>1, <3>4 DEF ReadEvent, SessionTypes
    <3> QED BY <2>2, <3>2, <3>4, <3>5 DEF IInv, TypeOK
  <2>4. ASSUME event.kind = "error" PROVE IInv'
    <3>1. thread' = [thread EXCEPT ![c] = "failing"] /\ UNCHANGED <<ready, queue>>
      BY <1>1, <2>4 DEF ReadEvent
    <3>2. UNCHANGED <<current, mode, notice, queue, qt, attached, failed>>
          /\ thread[c] # "none"
      BY <1>1, <3>1 DEF ReadEvent
    <3>3. Separated' /\ NewsIsCurrent'
      BY <1>t, <3>1, <3>2, QuietStep DEF ControllerTypes
    <3>4. ControllerTypes'
      BY <1>t, <1>1, <3>1 DEF ReadEvent, ControllerTypes, ThreadPhases
    <3>5. SessionTypes'
      BY <1>t, <1>1, <3>1 DEF ReadEvent, SessionTypes
    <3> QED BY <2>2, <3>3, <3>4, <3>5 DEF IInv, TypeOK
  <2>5. event.kind \in {"ready", "inactive", "error"}
    BY <1>1, <2>1 DEF ReadEvent, Event
  <2> QED BY <2>3, <2>4, <2>5
<1>2. CASE ThreadFails(c)
  <2>1. HelperTypes'
    BY <1>t, <1>2 DEF ThreadFails, HelperTypes
  <2>2. /\ thread' = [thread EXCEPT ![c] = "ending"] /\ thread[c] = "failing"
        /\ UNCHANGED <<current, mode, notice, qt, attached>>
    BY <1>2 DEF ThreadFails
  <2>3. \A d \in Controllers : thread[d] = "none" => thread'[d] = "none"
    BY <1>t, <2>2 DEF ControllerTypes
  <2>4. ControllerTypes'
    BY <1>t, <1>2, Sets, ZenonT(30) DEF ThreadFails, Fail, ControllerTypes, ThreadPhases
  <2>5. queue' \in Seq(News) /\ Separated' /\ NewsIsCurrent'
    <3>1. CASE stopping[c]
      <4>1. UNCHANGED <<failed, queue>> BY <1>2, <3>1 DEF ThreadFails
      <4> QED BY <1>t, <2>2, <2>3, <4>1, QuietStep DEF SessionTypes
    <3>2. CASE ~stopping[c]
      <4>1. failed' = [failed EXCEPT ![c] = TRUE] /\ Status(c, "error")
        BY <1>2, <3>2 DEF ThreadFails, Fail
      <4>2. failed'[c] /\ \A d \in Controllers : failed[d] => failed'[d]
        BY <1>t, <4>1 DEF ControllerTypes
      <4>3. "error" \in News \ {"granted"} BY DEF News
      <4> QED BY <2>2, <2>3, <4>1, <4>2, <4>3, StatusStep
    <3> QED BY <3>1, <3>2
  <2>6. SessionTypes'
    BY <1>t, <1>2, <2>5 DEF ThreadFails, SessionTypes
  <2> QED BY <2>1, <2>4, <2>5, <2>6 DEF IInv, TypeOK
<1> QED BY <1>1, <1>2

\* Steps of a helper, which the session only hears of through its controller.
LEMMA HelperIInv ==
  ASSUME IInv, NEW c \in Controllers, HelperStep(c) \/ FilterFails(c) \/ HelperDies(c)
  PROVE  IInv'
<1> USE DEF sessionVars, flagVars, socketVars, pipeVars, helperVars, boundVars
<1>t. SessionTypes /\ ControllerTypes /\ HelperTypes BY DEF IInv, TypeOK
<1>1. /\ UNCHANGED <<sessionVars, queue, qt, flagVars, wanted, connected, ready, thread,
                     config>>
  BY DEF HelperStep, HelperConnects, HelperGreets, HelperChecks, HelperSets, HelperStops,
     FilterFails, HelperDies
<1>2. Separated' /\ NewsIsCurrent' /\ ControllerTypes'
  BY <1>t, <1>1, QuietStep DEF ControllerTypes
<1>3. limit' \in [sessions : 1 .. MaxSessions, changes : Nat, faults : Nat]
      /\ overtaken' \in BOOLEAN
  BY <1>t, SpendTypes DEF HelperStep, HelperConnects, HelperGreets, HelperChecks,
     HelperSets, HelperStops, FilterFails, HelperDies, SessionTypes, Fault
<1>4. SessionTypes'
  BY <1>t, <1>1, <1>3 DEF SessionTypes
<1>5. HelperTypes'
  <2>1. CASE HelperConnects(c)
    BY <1>t, <2>1 DEF HelperConnects, HelperTypes, HelperPhases
  <2>2. CASE HelperGreets(c)
    <3>1. Append(toController[c], [kind |-> "hello", ports |-> {}]) \in Seq(Event)
      BY <1>t, Sets, Sockets
    <3> QED BY <1>t, <2>2, <3>1, ZenonT(30) DEF HelperGreets, Report, HelperTypes, HelperPhases
  <2>3. CASE HelperChecks(c)
    <3>1. Append(toController[c], [kind |-> "error", ports |-> {}]) \in Seq(Event)
      BY <1>t, Sets, Sockets
    <3> QED BY <1>t, <2>3, <3>1 DEF HelperChecks, Report, HelperTypes, HelperPhases
  <2>4. CASE HelperSets(c)
    <3> DEFINE ports == Head(toHelper[c]).ports
    <3>1. ports \in PortSets /\ Tail(toHelper[c]) \in Seq(Command)
      BY <1>t, <2>4, Sockets DEF HelperSets, Command
    <3>2. \A kind \in {"ready", "inactive", "error"} :
              Append(toController[c], [kind |-> kind, ports |-> ports]) \in Seq(Event)
      BY <1>t, <3>1, Sockets
    <3>3. Append(toController[c], [kind |-> "error", ports |-> {}]) \in Seq(Event)
      BY <1>t, Sets, Sockets
    <3>4. toController' \in [Controllers -> Seq(Event)]
      BY <1>t, <2>4, <3>2, <3>3 DEF HelperSets, Report, HelperTypes
    <3>5. toHelper' \in [Controllers -> Seq(Command)]
      BY <1>t, <2>4, <3>1 DEF HelperSets, HelperTypes
    <3>6. filter' \in [Controllers -> PortSets]
      BY <1>t, <2>4, <3>1, Sets DEF HelperSets, HelperTypes
    <3>7. helper' \in [Controllers -> HelperPhases]
      BY <1>t, <2>4 DEF HelperSets, HelperTypes, HelperPhases
    <3> QED BY <1>t, <2>4, <3>4, <3>5, <3>6, <3>7 DEF HelperSets, HelperTypes
  <2>5. CASE HelperStops(c)
    BY <1>t, <2>5, Sets DEF HelperStops, HelperTypes, HelperPhases
  <2>6. CASE FilterFails(c)
    <3>1. Append(toController[c], [kind |-> "error", ports |-> {}]) \in Seq(Event)
      BY <1>t, Sets, Sockets
    <3> QED BY <1>t, <2>6, <3>1, Sets DEF FilterFails, Report, HelperTypes
  <2>7. CASE HelperDies(c)
    BY <1>t, <2>7, Sets DEF HelperDies, HelperTypes, HelperPhases
  <2> QED BY <2>1, <2>2, <2>3, <2>4, <2>5, <2>6, <2>7 DEF HelperStep
<1> QED BY <1>2, <1>4, <1>5 DEF IInv, TypeOK

-----------------------------------------------------------------------------
(* The Qt thread *)

\* Passing on the ports: the controller may be started, or may fail at once.
LEMMA SyncTypes ==
  ASSUME SessionTypes, ControllerTypes, HelperTypes, current \in Controllers,
         NEW request \in BOOLEAN, NEW ports \in PortSets, Sync(request, ports)
  PROVE  /\ mapped' \in PortSets /\ discovery' \in PortSets /\ requested' \in BOOLEAN
         /\ wanted' \in [Controllers -> PortSets]
         /\ qt' \in {"sending", "free"}
         /\ thread' \in [Controllers -> ThreadPhases]
         /\ failed' \in [Controllers -> BOOLEAN] /\ UNCHANGED ready
         /\ listening' \in [Controllers -> BOOLEAN] /\ UNCHANGED <<linked, shut>>
         /\ \A c \in Controllers : c # current => thread'[c] = thread[c]
         /\ \A c \in Controllers : failed[c] => failed'[c]
         /\ failed' # failed => failed'[current]
<1> DEFINE compatible == IF request THEN ports ELSE {}
<1>1. compatible \in PortSets BY Sets
<1>2. /\ mapped' = ports /\ requested' = request
      /\ discovery' = IF compatible = {} THEN {} ELSE discovery
      /\ wanted' = [wanted EXCEPT ![current] = compatible]
      /\ qt' = IF connected[current] THEN "sending" ELSE "free"
  BY DEF Sync
<1>3. \/ /\ thread' = [thread EXCEPT ![current] = "launching"]
         /\ listening' = [listening EXCEPT ![current] = TRUE]
         /\ UNCHANGED <<failed, ready, linked, shut>>
      \/ /\ failed' = [failed EXCEPT ![current] = TRUE]
         /\ UNCHANGED <<thread, ready, listening, linked, shut>>
      \/ UNCHANGED <<thread, failed, ready, listening, linked, shut>>
  BY DEF Sync, socketVars
<1> HIDE DEF compatible
<1>4. wanted' \in [Controllers -> PortSets] /\ discovery' \in PortSets
  BY <1>1, <1>2, Sets DEF ControllerTypes, SessionTypes
<1> QED BY <1>2, <1>3, <1>4 DEF ControllerTypes, HelperTypes, ThreadPhases

\* A session whose ports are passed on is connected, has no grant queued and
\* only its own errors.
LEMMA SyncNews ==
  ASSUME IInv, current \in Controllers, qt = "free", mode # "idle", mode' = "connected",
         NEW request \in BOOLEAN, NEW ports \in PortSets, Sync(request, ports),
         NEW rest \in Seq(News), SyncStatus(rest),
         \A i \in 1 .. Len(rest) :
             rest[i] # "granted" /\ (rest[i] = "error" => failed[current]),
         notice = "error" => failed[current],
         UNCHANGED <<current, notice, attached>>
  PROVE  queue' \in Seq(News) /\ Separated' /\ NewsIsCurrent'
<1>t. SessionTypes /\ ControllerTypes /\ HelperTypes BY DEF IInv, TypeOK
<1>s. /\ qt' \in {"sending", "free"}
      /\ \A c \in Controllers : c # current => thread'[c] = thread[c]
      /\ \A c \in Controllers : failed[c] => failed'[c]
      /\ failed' # failed => failed'[current]
  BY <1>t, SyncTypes
<1>1. Separated'
  <2>1. \A c \in Controllers : c > current => c # current
    BY Sets DEF Controllers
  <2> QED BY <1>s, <2>1 DEF IInv, Separated
<1>2. CASE queue' = rest
  BY <1>1, <1>s, <1>2 DEF NewsIsCurrent
<1>3. CASE queue' = Append(rest, "error") /\ failed' # failed
  <2>1. /\ queue' \in Seq(News)
        /\ Len(queue') = Len(rest) + 1 /\ Len(rest) \in Nat
        /\ \A i \in 1 .. Len(rest) : queue'[i] = rest[i]
        /\ queue'[Len(rest) + 1] = "error"
    BY <1>3, QueueSteps DEF News
  <2>2. \A i \in 1 .. Len(queue') : i \in 1 .. Len(rest) \/ i = Len(rest) + 1
    BY <2>1
  <2>3. NewsIsCurrent'
    BY <1>s, <1>3, <2>1, <2>2 DEF NewsIsCurrent
  <2> QED BY <1>1, <2>1, <2>3
<1> QED BY <1>2, <1>3 DEF SyncStatus

\* The grant arrives, the mappings or the wish change.
LEMMA SyncIInv ==
  ASSUME IInv,
         \/ \E ports \in PortSets :
                \/ \E preferred \in BOOLEAN : Granted(ports, preferred)
                \/ MappingsChange(ports)
         \/ WishChanges
  PROVE  IInv'
<1> USE DEF sessionVars, flagVars, socketVars, pipeVars, helperVars, boundVars
<1>t. SessionTypes /\ ControllerTypes /\ HelperTypes BY DEF IInv, TypeOK
<1>1. ASSUME current \in Controllers, qt = "free", mode # "idle", mode' = "connected",
             NEW request \in BOOLEAN, NEW ports \in PortSets, Sync(request, ports),
             NEW rest \in Seq(News), SyncStatus(rest),
             \A i \in 1 .. Len(rest) :
                 rest[i] # "granted" /\ (rest[i] = "error" => failed[current]),
             notice = "error" => failed[current],
             UNCHANGED <<current, notice, attached, stopping, connected, config, pipeVars,
                         helperVars>>,
             /\ limit' \in [sessions : 1 .. MaxSessions, changes : Nat, faults : Nat]
             /\ overtaken' \in BOOLEAN
      PROVE  IInv'
  <2>1. queue' \in Seq(News) /\ Separated' /\ NewsIsCurrent'
    BY <1>1, SyncNews
  <2>2. /\ mapped' \in PortSets /\ discovery' \in PortSets /\ requested' \in BOOLEAN
        /\ wanted' \in [Controllers -> PortSets]
        /\ qt' \in {"sending", "free"}
        /\ thread' \in [Controllers -> ThreadPhases]
        /\ failed' \in [Controllers -> BOOLEAN] /\ UNCHANGED ready
        /\ listening' \in [Controllers -> BOOLEAN] /\ UNCHANGED <<linked, shut>>
    BY <1>t, <1>1, SyncTypes
  <2>3. SessionTypes' BY <1>t, <1>1, <2>1, <2>2 DEF SessionTypes
  <2>4. ControllerTypes' BY <1>t, <1>1, <2>2 DEF ControllerTypes
  <2>5. HelperTypes' BY <1>t, <1>1, <2>2 DEF HelperTypes
  <2> QED BY <2>1, <2>3, <2>4, <2>5 DEF IInv, TypeOK
<1>2. ASSUME NEW ports \in PortSets, NEW preferred \in BOOLEAN, Granted(ports, preferred)
      PROVE  IInv'
  <2>1. queue \in Seq(News) /\ queue # <<>> /\ Head(queue) = "granted"
    BY <1>t, <1>2 DEF Granted, SessionTypes
  <2>2. /\ Tail(queue) \in Seq(News) /\ Len(Tail(queue)) = Len(queue) - 1
        /\ Len(queue) \in Nat \ {0} /\ queue[1] = "granted"
        /\ \A i \in 1 .. Len(queue) - 1 : Tail(queue)[i] = queue[i + 1]
    BY <2>1, QueueSteps DEF News
  <2>3. CASE mode = "joining"
    <3>1. Len(queue) = 1
      <4>1. Len(queue) # 1 => 1 \in 1 .. Len(queue) - 1
        BY <2>2
      <4>2. 1 \notin 1 .. Len(queue) - 1
        BY <2>2, <2>3 DEF IInv, NewsIsCurrent
      <4> QED BY <4>1, <4>2
    <3>2. \A i \in 1 .. Len(Tail(queue)) : FALSE
      <4>1. Len(Tail(queue)) = 0
        BY <2>2, <3>1
      <4>2. \A i \in 1 .. 0 : FALSE
        OBVIOUS
      <4> QED BY <4>1, <4>2, Zenon
    <3>3. current \in Controllers /\ notice # "error"
      BY <2>3 DEF IInv, Separated, NewsIsCurrent
    <3>4. /\ mode' = "connected" /\ Sync(preferred, ports) /\ SyncStatus(Tail(queue))
          /\ UNCHANGED <<current, notice, attached, stopping, connected, config, pipeVars,
                         helperVars, boundVars>>
          /\ qt = "free"
      BY <1>2, <2>3 DEF Granted
    <3>5. limit' \in [sessions : 1 .. MaxSessions, changes : Nat, faults : Nat]
          /\ overtaken' \in BOOLEAN
      BY <1>t, <3>4 DEF SessionTypes
    <3> QED BY <1>1, <2>2, <2>3, <3>2, <3>3, <3>4, <3>5
  <2>4. CASE mode # "joining"
    <3>1. /\ queue' = Tail(queue)
          /\ UNCHANGED <<sessionVars, qt, flagVars, wanted, connected, ready, thread,
                         config, socketVars, pipeVars, helperVars, boundVars>>
      BY <1>2, <2>4 DEF Granted
    <3>2. mode # "connected"
      <4>1. 1 \in 1 .. Len(queue)
        BY <2>2
      <4> QED BY <2>2, <4>1 DEF IInv, NewsIsCurrent
    <3>3. Separated' /\ NewsIsCurrent'
      BY <2>4, <3>1, <3>2 DEF IInv, Separated, NewsIsCurrent
    <3>4. SessionTypes' BY <1>t, <2>2, <3>1 DEF SessionTypes
    <3>5. ControllerTypes' BY <1>t, <3>1 DEF ControllerTypes
    <3>6. HelperTypes' BY <1>t, <3>1 DEF HelperTypes
    <3> QED BY <3>3, <3>4, <3>5, <3>6 DEF IInv, TypeOK
  <2> QED BY <2>3, <2>4
<1>3. ASSUME NEW ports \in PortSets, NEW request \in BOOLEAN, qt = "free",
             mode = "connected", Change, Sync(request, ports), SyncStatus(queue),
             UNCHANGED <<current, mode, notice, attached, stopping, connected, config,
                         pipeVars, helperVars>>
      PROVE  IInv'
  <2>1. current \in Controllers /\ queue \in Seq(News)
    BY <1>t, <1>3 DEF IInv, Separated, SessionTypes
  <2>2. /\ notice = "error" => failed[current]
        /\ \A i \in 1 .. Len(queue) :
                queue[i] # "granted" /\ (queue[i] = "error" => failed[current])
    BY <1>3 DEF IInv, NewsIsCurrent
  <2>3. limit' \in [sessions : 1 .. MaxSessions, changes : Nat, faults : Nat]
        /\ overtaken' \in BOOLEAN
    BY <1>t, <1>3, SpendTypes DEF Change
  <2> QED BY <1>1, <1>3, <2>1, <2>2, <2>3
<1>4. ASSUME NEW ports \in PortSets, MappingsChange(ports) PROVE IInv'
  BY <1>t, <1>3, <1>4 DEF MappingsChange, SessionTypes
<1>5. ASSUME WishChanges PROVE IInv'
  BY <1>t, <1>3, <1>5 DEF WishChanges, SessionTypes
<1> QED BY <1>2, <1>4, <1>5

\* The other steps of the Qt thread.
LEMMA UpdateSendsIInv ==
  ASSUME IInv, UpdateSends
  PROVE  IInv'
<1> USE DEF sessionVars, flagVars, socketVars, pipeVars, helperVars, boundVars
<1>t. SessionTypes /\ ControllerTypes /\ HelperTypes BY DEF IInv, TypeOK
<1>1. /\ qt = "sending" /\ qt' = "free" /\ mode = "connected" /\ current \in Controllers
      /\ UNCHANGED <<sessionVars, attached, stopping, wanted, connected, thread, config,
                     socketVars, toController, helperVars, boundVars>>
  BY DEF UpdateSends, IInv, Separated
<1>s. Separated'
  BY <1>1 DEF IInv, Separated
<1>2. CASE Fail(current) /\ UNCHANGED toHelper
  <2>1. failed' = [failed EXCEPT ![current] = TRUE] /\ ready' = [ready EXCEPT ![current] = {}]
        /\ Status(current, "error")
    BY <1>2 DEF Fail
  <2>2. failed'[current]
    BY <1>t, <1>1, <2>1 DEF ControllerTypes
  <2>3. queue \in Seq(News)
    BY <1>t DEF SessionTypes
  <2>4. CASE queue' = queue
    <3>1. NewsIsCurrent'
      BY <1>1, <2>2, <2>4 DEF IInv, NewsIsCurrent
    <3> QED BY <1>t, <1>1, <1>2, <1>s, <2>1, <2>3, <2>4, <3>1, Sets
         DEF IInv, TypeOK, SessionTypes, ControllerTypes, HelperTypes
  <2>5. CASE queue' = Append(queue, "error")
    <3>1. /\ queue' \in Seq(News)
          /\ Len(queue') = Len(queue) + 1 /\ Len(queue) \in Nat
          /\ \A i \in 1 .. Len(queue) : queue'[i] = queue[i]
          /\ queue'[Len(queue) + 1] = "error"
      BY <2>3, <2>5, QueueSteps DEF News
    <3>2. \A i \in 1 .. Len(queue') : i \in 1 .. Len(queue) \/ i = Len(queue) + 1
      BY <3>1
    <3>3. NewsIsCurrent'
      BY <1>1, <2>2, <3>1, <3>2 DEF IInv, NewsIsCurrent
    <3> QED BY <1>t, <1>1, <1>2, <1>s, <2>1, <3>1, <3>3, Sets
         DEF IInv, TypeOK, SessionTypes, ControllerTypes, HelperTypes
  <2> QED BY <2>1, <2>4, <2>5 DEF Status
<1>3. CASE Send(current, "set", wanted[current]) /\ UNCHANGED <<failed, ready, queue>>
  <2>1. NewsIsCurrent'
    BY <1>1, <1>3 DEF IInv, NewsIsCurrent
  <2>2. Append(toHelper[current], [kind |-> "set", ports |-> wanted[current]])
          \in Seq(Command)
    BY <1>t, <1>1, Sockets DEF ControllerTypes
  <2>3. HelperTypes'
    BY <1>t, <1>1, <1>3, <2>2 DEF Send, HelperTypes
  <2> QED BY <1>t, <1>1, <1>3, <1>s, <2>1, <2>3
       DEF IInv, TypeOK, SessionTypes, ControllerTypes
<1> QED BY <1>1, <1>2, <1>3 DEF UpdateSends

\* A status is shown if the session is connected.
LEMMA StatusArrivesIInv ==
  ASSUME IInv, StatusArrives
  PROVE  IInv'
<1> USE DEF sessionVars, flagVars, socketVars, pipeVars, helperVars, boundVars
<1>t. SessionTypes /\ ControllerTypes /\ HelperTypes BY DEF IInv, TypeOK
<1>1. queue \in Seq(News) /\ queue # <<>>
  BY <1>t DEF StatusArrives, SessionTypes
<1>2. /\ Tail(queue) \in Seq(News) /\ Len(Tail(queue)) = Len(queue) - 1
      /\ Len(queue) \in Nat \ {0} /\ Head(queue) = queue[1]
      /\ \A i \in 1 .. Len(queue) - 1 : Tail(queue)[i] = queue[i + 1]
  BY <1>1, QueueSteps DEF News
<1>3. \A i \in 1 .. Len(queue) - 1 : i + 1 \in 1 .. Len(queue)
  BY <1>2
<1>4. 1 \in 1 .. Len(queue)
  BY <1>2
<1>5. /\ queue' = Tail(queue)
      /\ UNCHANGED <<current, mode, mapped, requested, qt, flagVars, wanted, connected,
                     ready, thread, config, socketVars, pipeVars, helperVars, boundVars>>
  BY DEF StatusArrives
<1>6. Separated'
  BY <1>5 DEF IInv, Separated
<1>7. NewsIsCurrent'
  <2>1. CASE mode = "connected"
    <3>1. \A i \in 1 .. Len(queue') :
             queue'[i] # "granted" /\ (queue'[i] = "error" => failed'[current])
      BY <1>2, <1>3, <1>5, <2>1 DEF IInv, NewsIsCurrent
    <3>2. notice' = "error" => notice = "error" \/ queue[1] = "error"
      BY <1>2, <2>1 DEF StatusArrives
    <3>3. notice' = "error" => failed'[current]
      BY <1>4, <1>5, <2>1, <3>2 DEF IInv, NewsIsCurrent
    <3> QED BY <1>5, <2>1, <3>1, <3>3 DEF NewsIsCurrent
  <2>2. CASE mode # "connected"
    <3>1. notice' = notice BY <2>2 DEF StatusArrives
    <3>2. mode = "joining" => \A i \in 1 .. Len(queue') - 1 : queue'[i] # "granted"
      <4>1. \A i \in 1 .. Len(queue) - 2 :
              i + 1 \in 1 .. Len(queue) - 1 /\ i \in 1 .. Len(queue) - 1
        BY <1>2
      <4>2. Len(queue') - 1 = Len(queue) - 2
        BY <1>2, <1>5
      <4> QED BY <1>2, <1>5, <4>1, <4>2 DEF IInv, NewsIsCurrent
    <3> QED BY <1>5, <2>2, <3>1, <3>2 DEF IInv, NewsIsCurrent
  <2> QED BY <2>1, <2>2
<1>8. discovery' \in PortSets /\ notice' \in {"", "ready", "error"}
  <2>1. mode = "connected" => current \in Controllers
    BY DEF IInv, Separated
  <2>2. mode = "connected" => ready[current] \in PortSets
    BY <1>t, <2>1 DEF ControllerTypes
  <2>3. discovery' \in {discovery, {}, ready[current]}
        /\ (discovery' = ready[current] => mode = "connected" \/ discovery' = discovery)
    BY DEF StatusArrives
  <2>4. notice' \in {notice, "ready", "error"}
    BY DEF StatusArrives
  <2>5. discovery \in PortSets /\ notice \in {"", "ready", "error"}
    BY <1>t DEF SessionTypes
  <2> QED BY <2>2, <2>3, <2>4, <2>5, Sets
<1> QED BY <1>t, <1>2, <1>5, <1>6, <1>7, <1>8
     DEF IInv, TypeOK, SessionTypes, ControllerTypes, HelperTypes

\* stop: the controller is detached and abandoned.
LEMMA StopIInv ==
  ASSUME IInv, StopBegins \/ StopCloses \/ StopEnds
  PROVE  IInv'
<1> USE DEF sessionVars, flagVars, socketVars, pipeVars, helperVars, boundVars
<1>t. SessionTypes /\ ControllerTypes /\ HelperTypes BY DEF IInv, TypeOK
<1>c. current \in Controllers /\ mode # "idle"
  BY DEF IInv, Separated, StopBegins, StopCloses, StopEnds
<1>1. CASE StopBegins
  <2>1. SessionTypes'
    BY <1>t, <1>1 DEF StopBegins, SessionTypes
  <2>2. ControllerTypes'
    BY <1>t, <1>1, Sets DEF StopBegins, ControllerTypes
  <2>3. HelperTypes'
    BY <1>t, <1>1 DEF StopBegins, HelperTypes
  <2>4. ~attached'[current] /\ \A c \in Controllers : c # current => attached'[c] = attached[c]
    BY <1>t, <1>c, <1>1 DEF StopBegins, ControllerTypes
  <2>5. Separated'
    BY <1>c, <1>1, <2>4 DEF StopBegins, IInv, Separated
  <2>6. NewsIsCurrent'
    BY <1>1 DEF StopBegins, IInv, NewsIsCurrent
  <2> QED BY <2>1, <2>2, <2>3, <2>5, <2>6 DEF IInv, TypeOK
<1>2. CASE StopCloses
  <2>1. SessionTypes' /\ ControllerTypes'
    BY <1>t, <1>2 DEF StopCloses, SessionTypes, ControllerTypes, Unlisten
  <2>2. Append(toHelper[current], [kind |-> "stop", ports |-> {}]) \in Seq(Command)
    BY <1>t, <1>c, Sets, Sockets
  <2>3. HelperTypes'
    BY <1>t, <1>2, <2>2 DEF StopCloses, HelperTypes, Unlisten, Send
  <2>4. Separated' /\ NewsIsCurrent'
    BY <1>c, <1>2 DEF StopCloses, IInv, Separated, NewsIsCurrent, Unlisten
  <2> QED BY <2>1, <2>3, <2>4 DEF IInv, TypeOK
<1>3. CASE StopEnds
  <2>1. current' = current + 1 /\ current' \in 1 .. MaxSessions + 1
    BY <1>c, <1>3, Sets DEF StopEnds
  <2>2. SessionTypes'
    BY <1>t, <1>3, <2>1, Sets DEF StopEnds, SessionTypes
  <2>3. ControllerTypes'
    BY <1>t, <1>3, Sets DEF StopEnds, ControllerTypes
  <2>4. HelperTypes'
    BY <1>t, <1>3 DEF StopEnds, HelperTypes
  <2>5. \A c \in Controllers : /\ c < current' => c < current \/ c = current
                               /\ c > current' => c > current
                               /\ c = current' => c > current
    BY <1>c, <2>1, Sets DEF Controllers
  <2>6. ~attached[current]
    BY <1>3 DEF StopEnds, IInv, Separated
  <2>7. Separated'
    BY <1>3, <2>5, <2>6 DEF StopEnds, IInv, Separated
  <2>8. NewsIsCurrent'
    BY <1>3 DEF StopEnds, NewsIsCurrent
  <2> QED BY <2>2, <2>3, <2>4, <2>7, <2>8 DEF IInv, TypeOK
<1> QED BY <1>1, <1>2, <1>3

-----------------------------------------------------------------------------

\* Every step preserves the invariant.
LEMMA NextIInv == IInv /\ [Next]_vars => IInv'
<1> SUFFICES ASSUME IInv, [Next]_vars PROVE IInv' OBVIOUS
<1>1. ASSUME UNCHANGED vars PROVE IInv'
  BY <1>1 DEF vars, sessionVars, flagVars, socketVars, pipeVars, helperVars, boundVars,
     IInv, TypeOK, SessionTypes, ControllerTypes, HelperTypes, Separated, NewsIsCurrent
<1>2. ASSUME NEW c \in Controllers,
             Elevation(c) \/ ThreadStep(c) \/ HelperStep(c) \/ FilterFails(c) \/ HelperDies(c)
      PROVE  IInv'
  BY <1>2, QuietThread, TellingThread, HelperIInv DEF ThreadStep
<1> QED BY <1>1, <1>2, StartJoinIInv, SyncIInv, UpdateSendsIInv, StatusArrivesIInv, StopIInv
     DEF Next, QtStep

\* The state of the controllers, sockets and helpers stays well-typed.
THEOREM BroadcastTypes == Spec => []TypeOK
<1>1. IInv => TypeOK BY DEF IInv
<1> QED BY <1>1, InitIInv, NextIInv, PTL DEF Spec

\* No abandoned controller speaks in a later session: an error that is shown is
\* one of the session's own controller.
THEOREM NewsIsOurs == Spec => []NoLateNews
<1>1. IInv => NoLateNews BY DEF IInv, NewsIsCurrent, NoLateNews
<1> QED BY <1>1, InitIInv, NextIInv, PTL DEF Spec

-----------------------------------------------------------------------------
(* The filter and the ports that are shown *)

\* A session that is neither starting nor stopping.
InSession == mode = "connected" /\ qt \in {"free", "sending"}

\* The thread has not read the helper's hello; the helper is being served.
Early == {"none", "launching", "accepting", "greeting"}
Served == {"reading-config", "sending-config", "reading"}

\* The helper still runs and nobody closed its connection.
Answers(c) == helper[c] # "ended" /\ ~shut[c]

\* The newest command and the newest event on the sockets, and a failure among
\* the events.
Ordered(c) ==
    toHelper[c][Len(toHelper[c])] = [kind |-> "set", ports |-> wanted[c]]
Erring(c) ==
    \E i \in 1 .. Len(toController[c]) : toController[c][i].kind = "error"
Matches(c) ==
    LET event == toController[c][Len(toController[c])]
    IN  \/ event.kind = "error"
        \/ event.kind \in {"ready", "inactive"} /\ event.ports = filter[c]

\* A controller whose session has not been connected.
Unused(c) ==
    /\ thread[c] = "none" /\ helper[c] = "none"
    /\ toHelper[c] = <<>> /\ toController[c] = <<>>
    /\ attached[c] /\ ~connected[c] /\ ~failed[c] /\ ~stopping[c] /\ ~shut[c]
    /\ ready[c] = {} /\ filter[c] = {}

UnusedYet ==
    /\ mode # "connected" => discovery = {}
    /\ \A c \in Controllers :
           c > current \/ (c = current /\ qt = "free" /\ mode # "connected") => Unused(c)

\* A helper without a filter says so.
Honest(c) ==
    \A i \in 1 .. Len(toController[c]) :
        toController[c][i].kind = "inactive" => toController[c][i].ports = {}

Reports == \A c \in Controllers : Honest(c)

\* Up to its hello a helper is told nothing and says nothing else.
Handshake(c) ==
    thread[c] \in Early =>
        /\ ~connected[c] /\ toHelper[c] = <<>>
        /\ filter[c] = {} /\ ready[c] = {} /\ discovery = {} /\ qt = "free"
        /\ thread[c] \in {"none", "launching"} => helper[c] = "none"
        /\ helper[c] \in {"none", "starting", "greeting"} => toController[c] = <<>>
        /\ helper[c] # "ended" => Len(toController[c]) <= 1

\* A controller fails once, for good, and never while its helper is served.
Failures(c) ==
    /\ attached[c] /\ ~stopping[c]
    /\ thread[c] \in {"ending", "done"} => failed[c]
    /\ shut[c] => thread[c] = "done"
    /\ thread[c] \in (Early \cup Served) \ {"none"} /\ Answers(c) => ~failed[c]

Linked(c) ==
    thread[c] \in Served =>
        connected[c] /\ helper[c] \notin {"none", "starting", "greeting"}

\* The helper was last told the ports that are wanted, and has opened its filter
\* for them or reported that it could not.
Told(c) ==
    thread[c] = "reading" /\ Answers(c) /\ qt = "free" /\ ~overtaken =>
        /\ toHelper[c] # <<>> => Ordered(c)
        /\ toHelper[c] = <<>> => filter[c] = wanted[c] \/ Erring(c)

\* The controller knows the filter, or the helper's newest event tells it.
Heard(c) ==
    thread[c] \in Served /\ Answers(c) =>
        /\ toController[c] # <<>> => Matches(c)
        /\ toController[c] = <<>> => ready[c] = filter[c]

\* The session shows what the controller knows, unless news of it are due.
Shown(c) ==
    thread[c] \in Served /\ Answers(c) =>
        /\ queue # <<>> /\ queue[Len(queue)] = "inactive" => ready[c] = {}
        /\ queue = <<>> => \/ discovery = ready[c] \/ qt = "sending"
                           \/ toHelper[c] # <<>> \/ toController[c] # <<>>

Wire(c) ==
    Handshake(c) /\ Failures(c) /\ Linked(c) /\ Told(c) /\ Heard(c) /\ Shown(c)

\* The inductive invariant for the filter: ExactPorts compares the two ends of a
\* chain (wanted, command, filter, event, _ready_ports, notice, discovery) whose
\* links are Told, Heard and Shown.
Wired == \A c \in Controllers : c = current /\ InSession => Wire(c)

WireInv == IInv /\ UnusedYet /\ Reports /\ Wired

-----------------------------------------------------------------------------

\* The initial states satisfy it.
LEMMA InitWire == Init => WireInv
<1> SUFFICES ASSUME Init PROVE WireInv OBVIOUS
<1>1. mode = "idle" /\ discovery = {}
  BY Zenon DEF Init
<1>2. \A c \in Controllers : toController[c] = <<>> /\ toHelper[c] = <<>>
  BY Zenon DEF Init
<1>3. \A c \in Controllers :
          /\ thread[c] = "none" /\ helper[c] = "none"
          /\ attached[c] /\ ~connected[c] /\ ~failed[c] /\ ~stopping[c] /\ ~shut[c]
          /\ ready[c] = {} /\ filter[c] = {}
  BY Zenon DEF Init
<1>7. \A c \in Controllers : Unused(c)
  BY <1>2, <1>3 DEF Unused
<1>4. \A c \in Controllers : Len(toController[c]) = 0
  BY <1>2
<1>5. \A i \in 1 .. 0 : FALSE
  OBVIOUS
<1>6. Reports
  BY <1>4, <1>5, Zenon DEF Reports, Honest
<1> QED BY <1>1, <1>6, <1>7, InitIInv DEF WireInv, UnusedYet, Wired, InSession

\* A controller that was not used yet is wired when its session begins.
LEMMA UnusedWire ==
  ASSUME NEW c \in Controllers, Unused(c), discovery = {}, qt = "free"
  PROVE  Wire(c)
<1>1. Len(toController[c]) <= 1
  BY DEF Unused
<1> QED BY <1>1 DEF Unused, Wire, Handshake, Failures, Linked, Told, Heard, Shown, Early, Served

\* What a step leaves alone of a controller.
Same(c) ==
    UNCHANGED <<thread[c], helper[c], toHelper[c], toController[c], attached[c],
                connected[c], failed[c], stopping[c], shut[c], ready[c], filter[c],
                wanted[c]>>

\* Steps of a thread or a helper.
OneOf(c) ==
    Elevation(c) \/ ThreadStep(c) \/ HelperStep(c) \/ FilterFails(c) \/ HelperDies(c)

\* They need a thread or a helper, change nothing of other controllers, and tell
\* the Qt thread nothing unless it still listens.
LEMMA Local ==
  ASSUME IInv, NEW c \in Controllers, OneOf(c)
  PROVE  /\ UNCHANGED <<current, mode, qt, discovery, wanted, attached, stopping>>
         /\ thread[c] # "none" \/ helper[c] # "none"
         /\ ~attached[c] => queue' = queue
         /\ overtaken => overtaken'
         /\ \A d \in Controllers \ {c} : Same(d)
<1> USE DEF sessionVars, flagVars, socketVars, pipeVars, helperVars, boundVars
<1>t. ControllerTypes /\ HelperTypes
  BY DEF IInv, TypeOK
<1>f. ASSUME Fault PROVE overtaken' = overtaken
  BY <1>f DEF Fault, Spend
<1> DEFINE Conclusion ==
       /\ UNCHANGED <<current, mode, qt, discovery, wanted, attached, stopping>>
       /\ thread[c] # "none" \/ helper[c] # "none"
       /\ ~attached[c] => queue' = queue
       /\ overtaken => overtaken'
       /\ \A d \in Controllers \ {c} : Same(d)
<1>1. ASSUME Elevation(c) PROVE Conclusion
  BY <1>t, <1>1 DEF Elevation, Same, ControllerTypes, HelperTypes
<1>2. ASSUME Accept(c) PROVE Conclusion
  BY <1>t, <1>2, <1>f DEF Accept, Same, ControllerTypes
<1>3. ASSUME Greet(c) PROVE Conclusion
  BY <1>t, <1>3 DEF Greet, Same, ControllerTypes, HelperTypes
<1>4. ASSUME GreetFails(c) PROVE Conclusion
  BY <1>t, <1>4, <1>f DEF GreetFails, Same, ControllerTypes
<1>5. ASSUME ReadConfig(c) PROVE Conclusion
  BY <1>t, <1>5 DEF ReadConfig, Same, ControllerTypes
<1>6. ASSUME SendConfig(c) PROVE Conclusion
  BY <1>t, <1>6 DEF SendConfig, Send, Same, ControllerTypes, HelperTypes
<1>7. ASSUME ReadEvent(c) PROVE Conclusion
  BY <1>t, <1>7 DEF ReadEvent, Status, Same, ControllerTypes, HelperTypes
<1>8. ASSUME ReadEnds(c) PROVE Conclusion
  BY <1>t, <1>8 DEF ReadEnds, Same, ControllerTypes
<1>9. ASSUME ThreadFails(c) PROVE Conclusion
  BY <1>t, <1>9 DEF ThreadFails, Fail, Status, Same, ControllerTypes
<1>10. ASSUME ThreadEnds(c) PROVE Conclusion
  BY <1>t, <1>10 DEF ThreadEnds, Unlisten, Same, ControllerTypes, HelperTypes
<1>11. ASSUME HelperConnects(c) PROVE Conclusion
  BY <1>t, <1>11 DEF HelperConnects, Same, HelperTypes
<1>12. ASSUME HelperGreets(c) PROVE Conclusion
  BY <1>t, <1>12 DEF HelperGreets, Report, Same, HelperTypes
<1>13. ASSUME HelperChecks(c) PROVE Conclusion
  BY <1>t, <1>13, <1>f DEF HelperChecks, Report, Same, HelperTypes
<1>14. ASSUME HelperSets(c) PROVE Conclusion
  BY <1>t, <1>14, <1>f DEF HelperSets, Report, Same, HelperTypes
<1>15. ASSUME HelperStops(c) PROVE Conclusion
  BY <1>t, <1>15 DEF HelperStops, Same, HelperTypes
<1>16. ASSUME FilterFails(c) PROVE Conclusion
  BY <1>t, <1>16, <1>f DEF FilterFails, Report, Same, HelperTypes
<1>17. ASSUME HelperDies(c) PROVE Conclusion
  BY <1>t, <1>17, <1>f DEF HelperDies, Same, HelperTypes
<1> HIDE DEF Conclusion
<1> QED
  <2>1. Conclusion
    BY <1>1, <1>2, <1>3, <1>4, <1>5, <1>6, <1>7, <1>8, <1>9, <1>10, <1>11, <1>12,
       <1>13, <1>14, <1>15, <1>16, <1>17, Zenon DEF OneOf, ThreadStep, HelperStep
  <2> QED BY <2>1 DEF Conclusion

-----------------------------------------------------------------------------

\* What the newest of a sequence is after a step, and that a failure among its
\* elements is only lost when it is taken.
LEMMA Newest ==
  ASSUME NEW S, NEW q \in Seq(S), NEW e \in S
  PROVE  /\ Append(q, e) # <<>>
         /\ Append(q, e)[Len(Append(q, e))] = e
         /\ \A i \in 1 .. Len(q) : i \in 1 .. Len(Append(q, e)) /\ Append(q, e)[i] = q[i]
         /\ \A i \in 1 .. Len(Append(q, e)) :
                Append(q, e)[i] = e \/ (i \in 1 .. Len(q) /\ Append(q, e)[i] = q[i])
         /\ q # <<>> => /\ Len(q) \in 1 .. Len(q)
                        /\ Head(q) \in S /\ Head(q) = q[1]
                        /\ Tail(q) # <<>> => Tail(q)[Len(Tail(q))] = q[Len(q)]
                        /\ Tail(q) = <<>> => Head(q) = q[Len(q)]
                        /\ \A i \in 1 .. Len(Tail(q)) :
                               i + 1 \in 1 .. Len(q) /\ Tail(q)[i] = q[i + 1]
                        /\ \A i \in 1 .. Len(q) :
                               i = 1 \/ (i - 1 \in 1 .. Len(Tail(q)) /\ Tail(q)[i - 1] = q[i])
<1>1. Len(Append(q, e)) = Len(q) + 1 /\ Len(q) \in Nat
  OBVIOUS
<1>2. \A i \in 1 .. Len(Append(q, e)) : i \in 1 .. Len(q) \/ i = Len(q) + 1
  BY <1>1
<1>3. \A i \in 1 .. Len(q) : i \in 1 .. Len(Append(q, e)) /\ Append(q, e)[i] = q[i]
  BY <1>1
<1>4. Append(q, e)[Len(q) + 1] = e
  OBVIOUS
<1>5. Append(q, e) # <<>>
  BY <1>1
<1>6. ASSUME q # <<>>
      PROVE  /\ Len(q) \in 1 .. Len(q)
             /\ Head(q) \in S /\ Head(q) = q[1]
             /\ Tail(q) # <<>> => Tail(q)[Len(Tail(q))] = q[Len(q)]
             /\ Tail(q) = <<>> => Head(q) = q[Len(q)]
             /\ \A i \in 1 .. Len(Tail(q)) :
                    i + 1 \in 1 .. Len(q) /\ Tail(q)[i] = q[i + 1]
             /\ \A i \in 1 .. Len(q) :
                    i = 1 \/ (i - 1 \in 1 .. Len(Tail(q)) /\ Tail(q)[i - 1] = q[i])
  <2>1. Len(q) \in Nat \ {0}
    BY <1>6
  <2>2. Tail(q) \in Seq(S) /\ Len(Tail(q)) = Len(q) - 1
        /\ Head(q) = q[1] /\ Head(q) \in S
        /\ \A i \in 1 .. Len(Tail(q)) : Tail(q)[i] = q[i + 1]
    BY <1>6
  <2>3. \A i \in 1 .. Len(Tail(q)) : i + 1 \in 1 .. Len(q)
    BY <2>1, <2>2
  <2>4. \A i \in 1 .. Len(q) : i = 1 \/ (i - 1 \in 1 .. Len(Tail(q)) /\ (i - 1) + 1 = i)
    BY <2>1, <2>2
  <2>5. Tail(q) # <<>> => Len(Tail(q)) \in 1 .. Len(Tail(q)) /\ Len(Tail(q)) + 1 = Len(q)
    BY <2>1, <2>2
  <2>6. Tail(q) = <<>> => Len(q) = 1
    <3>3. Len(<<>>) = 0
      OBVIOUS
    <3>1. Tail(q) = <<>> => Len(Tail(q)) = 0
      BY <3>3, Zenon
    <3> QED BY <2>1, <2>2, <3>1
  <2>7. \A i \in 1 .. Len(q) :
            i = 1 \/ (i - 1 \in 1 .. Len(Tail(q)) /\ Tail(q)[i - 1] = q[i])
    <3> SUFFICES ASSUME NEW i \in 1 .. Len(q), i # 1
                 PROVE  i - 1 \in 1 .. Len(Tail(q)) /\ Tail(q)[i - 1] = q[i]
      OBVIOUS
    <3>1. i - 1 \in 1 .. Len(Tail(q)) /\ (i - 1) + 1 = i
      BY <2>4
    <3> DEFINE j == i - 1
    <3>2. Tail(q)[j] = q[j + 1]
      BY <2>2, <3>1
    <3> QED BY <3>1, <3>2
  <2>8. Tail(q) # <<>> => Tail(q)[Len(Tail(q))] = q[Len(q)]
    BY <2>2, <2>5
  <2>9. Len(q) \in 1 .. Len(q)
    BY <2>1
  <2> QED BY <2>2, <2>3, <2>6, <2>7, <2>8, <2>9
<1> QED BY <1>1, <1>2, <1>3, <1>4, <1>5, <1>6

\* Nobody reports a filter under "inactive".
LEMMA ReportsStep ==
  ASSUME IInv, Reports, NEW c \in Controllers, OneOf(c)
  PROVE  Reports'
<1> USE DEF sessionVars, flagVars, socketVars, pipeVars, helperVars, boundVars
<1>t. HelperTypes
  BY DEF IInv, TypeOK
<1>1. Honest(c) /\ \A d \in Controllers \ {c} : Honest(d)
  BY DEF Reports
<1>2. \A d \in Controllers \ {c} : toController'[d] = toController[d]
  BY Local DEF Same
<1>3. \A d \in Controllers \ {c} : Honest(d)'
  BY <1>1, <1>2 DEF Honest
<1>q. toController[c] \in Seq(Event) /\ toHelper[c] \in Seq(Command)
  BY <1>t DEF HelperTypes
<1>4. ASSUME NEW kind \in {"hello", "ready", "inactive", "error"}, NEW ports \in PortSets,
             Report(c, kind, ports), kind = "inactive" => ports = {}
      PROVE  Honest(c)'
  <2> DEFINE e == [kind |-> kind, ports |-> ports]
  <2>1. e \in Event /\ e.kind = kind /\ e.ports = ports
    BY DEF Event
  <2>2. toController'[c] = Append(toController[c], e)
    BY <1>t, <1>4 DEF Report, HelperTypes
  <2> HIDE DEF e
  <2>3. \A i \in 1 .. Len(toController'[c]) :
            toController'[c][i] = e
            \/ (i \in 1 .. Len(toController[c]) /\ toController'[c][i] = toController[c][i])
    BY <1>q, <2>1, <2>2, Newest
  <2> QED BY <1>1, <1>4, <2>1, <2>3 DEF Honest
<1>5. ASSUME Greet(c) PROVE Honest(c)'
  <2>1. PICK n \in 1 .. Len(toController[c]) : toController' =
           [toController EXCEPT ![c] =
               SubSeq(toController[c], n + 1, Len(toController[c]))]
    BY <1>5 DEF Greet
  <2>2. toController'[c] = SubSeq(toController[c], n + 1, Len(toController[c]))
    BY <1>t, <2>1 DEF HelperTypes
  <2>3. \A i \in 1 .. Len(toController'[c]) :
            n + i \in 1 .. Len(toController[c]) /\ toController'[c][i] = toController[c][n + i]
    BY <1>q, <2>2
  <2> QED BY <1>1, <2>3 DEF Honest
<1>6. ASSUME ReadEvent(c) PROVE Honest(c)'
  <2>1. toController[c] # <<>> /\ toController'[c] = Tail(toController[c])
    BY <1>t, <1>6 DEF ReadEvent, HelperTypes
  <2>2. \A i \in 1 .. Len(toController'[c]) :
            i + 1 \in 1 .. Len(toController[c]) /\ toController'[c][i] = toController[c][i + 1]
    BY <1>q, <2>1
  <2> QED BY <1>1, <2>2 DEF Honest
<1>7. ASSUME HelperSets(c) PROVE Honest(c)'
  <2>1. toHelper[c] # <<>> BY <1>7 DEF HelperSets
  <2>2. Head(toHelper[c]) \in Command
    BY <1>q, <2>1
  <2> DEFINE ports == Head(toHelper[c]).ports
  <2>3. ports \in PortSets
    BY <2>2 DEF Command
  <2>4. \/ Report(c, IF ports = {} THEN "inactive" ELSE "ready", ports)
        \/ Report(c, "error", {}) \/ UNCHANGED toController
    BY <1>7 DEF HelperSets
  <2> HIDE DEF ports
  <2>5. CASE Report(c, IF ports = {} THEN "inactive" ELSE "ready", ports)
    <3>1. CASE ports = {}
      <4>1. Report(c, "inactive", ports) BY <2>5, <3>1
      <4> QED BY <1>4, <2>3, <3>1, <4>1
    <3>2. CASE ports # {}
      <4>1. Report(c, "ready", ports) BY <2>5, <3>2
      <4> QED BY <1>4, <2>3, <3>2, <4>1
    <3> QED BY <3>1, <3>2
  <2>6. CASE Report(c, "error", {})
    BY <1>4, <2>6, Sets
  <2>7. CASE UNCHANGED toController
    BY <1>1, <2>7 DEF Honest
  <2> QED BY <2>4, <2>5, <2>6, <2>7
<1>8. ASSUME HelperGreets(c) \/ HelperChecks(c) \/ FilterFails(c) PROVE Honest(c)'
  <2>1. Report(c, "hello", {}) \/ Report(c, "error", {}) \/ UNCHANGED toController
    BY <1>8, Zenon DEF HelperGreets, HelperChecks, FilterFails
  <2>2. CASE UNCHANGED toController
    BY <1>1, <2>2 DEF Honest
  <2> QED BY <1>4, <2>1, <2>2, Sets
<1>9. ASSUME \/ Elevation(c) \/ Accept(c) \/ GreetFails(c) \/ ReadConfig(c) \/ SendConfig(c)
             \/ ReadEnds(c) \/ ThreadFails(c) \/ ThreadEnds(c)
             \/ HelperConnects(c) \/ HelperStops(c) \/ HelperDies(c)
      PROVE  Honest(c)'
  <2>1. UNCHANGED toController
    BY <1>9 DEF Elevation, Accept, GreetFails, ReadConfig, SendConfig, ReadEnds,
       ThreadFails, ThreadEnds, HelperConnects, HelperStops, HelperDies
  <2> QED BY <1>1, <2>1 DEF Honest
<1>10. Honest(c)'
  BY <1>5, <1>6, <1>7, <1>8, <1>9, Zenon DEF OneOf, ThreadStep, HelperStep
<1> QED BY <1>3, <1>10 DEF Reports

\* What holds of the session's own controller.
LEMMA Own ==
  ASSUME WireInv, NEW c \in Controllers, c = current, InSession
  PROVE  /\ SessionTypes /\ ControllerTypes /\ HelperTypes
         /\ Wire(c) /\ Honest(c)
         /\ queue \in Seq(News)
         /\ toHelper[c] \in Seq(Command) /\ toController[c] \in Seq(Event)
         /\ thread[c] \in ThreadPhases /\ helper[c] \in HelperPhases
         /\ \A i \in 1 .. Len(queue) : queue[i] = "error" => failed[c]
<1>1. SessionTypes /\ ControllerTypes /\ HelperTypes /\ Wire(c) /\ Honest(c)
  BY DEF WireInv, Wired, IInv, TypeOK, Reports
<1>2. \A i \in 1 .. Len(queue) : queue[i] = "error" => failed[c]
  BY DEF WireInv, IInv, NewsIsCurrent, InSession
<1>3. queue \in Seq(News)
  BY <1>1, Zenon DEF SessionTypes
<1>4. toHelper[c] \in Seq(Command) /\ toController[c] \in Seq(Event)
      /\ helper[c] \in HelperPhases
  BY <1>1 DEF HelperTypes
<1>5. thread[c] \in ThreadPhases
  BY <1>1 DEF ControllerTypes
<1> QED BY <1>1, <1>2, <1>3, <1>4, <1>5

\* The links that read a socket do not notice a step that leaves it alone.
LEMMA Kept ==
  ASSUME NEW c, wanted'[c] = wanted[c], filter'[c] = filter[c]
  PROVE  /\ toHelper'[c] = toHelper[c] => (Ordered(c)' <=> Ordered(c))
         /\ toController'[c] = toController[c] =>
                (Erring(c)' <=> Erring(c)) /\ (Matches(c)' <=> Matches(c))
  BY DEF Ordered, Erring, Matches

\* The thread before the helper is served.
LEMMA EarlyThreadWire ==
  ASSUME WireInv, NEW c \in Controllers, c = current, InSession,
         Elevation(c) \/ Accept(c) \/ GreetFails(c)
  PROVE  Wire(c)'
<1> USE DEF sessionVars, flagVars, socketVars, pipeVars, helperVars, boundVars
<1>o. /\ ControllerTypes /\ HelperTypes /\ Wire(c)
      /\ toController[c] \in Seq(Event)
  BY Own
<1>1. /\ thread[c] \in {"launching", "accepting", "greeting"}
      /\ thread'[c] \in {"accepting", "greeting", "failing"}
      /\ helper'[c] = helper[c] \/ helper'[c] = "starting"
      /\ helper'[c] = helper[c] \/ thread[c] = "launching"
      /\ thread'[c] = "failing" \/ (thread'[c] = "accepting" /\ thread[c] = "launching")
         \/ (thread'[c] = "greeting" /\ thread[c] = "accepting")
      /\ UNCHANGED <<connected, toHelper, filter, ready, discovery, toController, attached,
                     stopping, failed, shut, queue, qt, wanted>>
  BY <1>o DEF Elevation, Accept, GreetFails, ControllerTypes, HelperTypes
<1>2. Handshake(c)'
  BY <1>o, <1>1 DEF Wire, Handshake, Early
<1>3. Failures(c)'
  BY <1>o, <1>1 DEF Wire, Handshake, Failures, Early, Served, Answers
<1>4. Linked(c)' /\ Told(c)' /\ Heard(c)' /\ Shown(c)'
  BY <1>1 DEF Linked, Told, Heard, Shown, Served
<1> QED BY <1>2, <1>3, <1>4 DEF Wire

\* The hello: nothing followed it, so nothing is dropped with it.
LEMMA GreetWire ==
  ASSUME WireInv, NEW c \in Controllers, c = current, InSession, Greet(c)
  PROVE  Wire(c)'
<1> USE DEF sessionVars, flagVars, socketVars, pipeVars, helperVars, boundVars
<1>o. /\ ControllerTypes /\ HelperTypes /\ Wire(c)
      /\ toController[c] \in Seq(Event) /\ queue \in Seq(News)
      /\ \A i \in 1 .. Len(queue) : queue[i] = "error" => failed[c]
  BY Own
<1>1. /\ thread[c] = "greeting" /\ toController[c] # <<>>
      /\ thread'[c] = "reading-config" /\ connected'[c]
      /\ UNCHANGED <<toHelper, filter, ready, discovery, helper, attached,
                     stopping, failed, shut, queue, qt, wanted>>
  BY <1>o DEF Greet, ControllerTypes, Wire, Failures
<1>2. PICK n \in 1 .. Len(toController[c]) :
          toController' = [toController EXCEPT ![c] =
                              SubSeq(toController[c], n + 1, Len(toController[c]))]
  BY DEF Greet
<1>3. toController'[c] = SubSeq(toController[c], n + 1, Len(toController[c]))
  BY <1>o, <1>2 DEF HelperTypes
<1>4. Len(toController[c]) <= 1 => toController'[c] = <<>>
  BY <1>o, <1>3
<1>5. Handshake(c)'
  BY <1>1 DEF Handshake, Early
<1>6. Failures(c)'
  BY <1>o, <1>1 DEF Wire, Failures, Early, Served, Answers
<1>7. Linked(c)'
  BY <1>o, <1>1 DEF Wire, Handshake, Linked, Early
<1>8. Told(c)'
  BY <1>1 DEF Told
<1>9. Heard(c)' /\ Shown(c)'
  BY <1>o, <1>1, <1>4 DEF Wire, Handshake, Heard, Shown, Early, Answers
<1> QED BY <1>5, <1>6, <1>7, <1>8, <1>9 DEF Wire

\* The first configuration is read, and sent.
LEMMA ConfigWire ==
  ASSUME WireInv, NEW c \in Controllers, c = current, InSession,
         ReadConfig(c) \/ SendConfig(c)
  PROVE  Wire(c)'
<1> USE DEF sessionVars, flagVars, socketVars, pipeVars, helperVars, boundVars
<1>o. /\ ControllerTypes /\ HelperTypes /\ Wire(c)
      /\ toHelper[c] \in Seq(Command)
  BY Own
<1>1. /\ thread[c] \in {"reading-config", "sending-config"}
      /\ UNCHANGED <<connected, filter, ready, discovery, helper, toController, attached,
                     stopping, failed, shut, queue, qt, wanted>>
      /\ thread'[c] \in {"sending-config", "reading", "failing"}
      /\ thread'[c] = "sending-config" => toHelper'[c] = toHelper[c]
  BY <1>o DEF ReadConfig, SendConfig, ControllerTypes
<1>2. thread'[c] = "reading" =>
          /\ toHelper'[c] = Append(toHelper[c], [kind |-> "set", ports |-> config[c]])
          /\ overtaken' \/ config[c] = wanted[c]
  BY <1>o DEF ReadConfig, SendConfig, Send, ControllerTypes, HelperTypes
<1>3. [kind |-> "set", ports |-> config[c]] \in Command
  BY <1>o DEF Command, ControllerTypes
<1>4. thread'[c] = "reading" =>
          /\ toHelper'[c] # <<>>
          /\ toHelper'[c][Len(toHelper'[c])] = [kind |-> "set", ports |-> config[c]]
  BY <1>o, <1>2, <1>3, Newest
<1>5. Handshake(c)'
  BY <1>1 DEF Handshake, Early
<1>6. Failures(c)'
  BY <1>o, <1>1 DEF Wire, Failures, Served, Answers
<1>7. Linked(c)'
  BY <1>o, <1>1 DEF Wire, Linked, Served
<1>8. Told(c)'
  BY <1>1, <1>2, <1>4 DEF Told, Ordered
<1>9. Heard(c)'
  BY <1>o, <1>1, Kept DEF Wire, Heard, Served, Answers
<1>10. Shown(c)'
  BY <1>o, <1>1, <1>4 DEF Wire, Shown, Served, Answers
<1> QED BY <1>5, <1>6, <1>7, <1>8, <1>9, <1>10 DEF Wire

\* The thread ends.
LEMMA LateThreadWire ==
  ASSUME WireInv, NEW c \in Controllers, c = current, InSession,
         ReadEnds(c) \/ ThreadFails(c) \/ ThreadEnds(c)
  PROVE  Wire(c)'
<1> USE DEF sessionVars, flagVars, socketVars, pipeVars, helperVars, boundVars
<1>o. ControllerTypes /\ HelperTypes /\ Wire(c)
  BY Own
<1>1. thread'[c] \in {"failing", "ending", "done"}
      /\ UNCHANGED <<attached, stopping>>
  BY <1>o DEF ReadEnds, ThreadFails, ThreadEnds, ControllerTypes
<1>2. ~stopping[c] /\ attached[c]
  BY <1>o DEF Wire, Failures
<1>3. thread'[c] = "failing" \/ failed'[c]
  BY <1>o, <1>2 DEF ReadEnds, ThreadFails, ThreadEnds, Fail, ControllerTypes, Wire, Failures
<1>4. shut'[c] => thread'[c] = "done"
  BY <1>o DEF ReadEnds, ThreadFails, ThreadEnds, ControllerTypes, HelperTypes, Wire, Failures
<1>5. Failures(c)'
  BY <1>1, <1>2, <1>3, <1>4 DEF Failures, Early, Served
<1>6. Handshake(c)' /\ Linked(c)' /\ Told(c)' /\ Heard(c)' /\ Shown(c)'
  BY <1>1 DEF Handshake, Linked, Told, Heard, Shown, Early, Served
<1> QED BY <1>5, <1>6 DEF Wire

\* An event of the helper is read, and passed on unless it is a failure.
LEMMA ReadEventWire ==
  ASSUME WireInv, NEW c \in Controllers, c = current, InSession, ReadEvent(c)
  PROVE  Wire(c)'
<1> USE DEF sessionVars, flagVars, socketVars, pipeVars, helperVars, boundVars
<1>o. /\ ControllerTypes /\ HelperTypes /\ Wire(c) /\ Honest(c)
      /\ toController[c] \in Seq(Event) /\ queue \in Seq(News)
  BY Own
<1> DEFINE event == Head(toController[c])
<1>1. /\ thread[c] = "reading" /\ ~shut[c] /\ toController[c] # <<>>
      /\ toController'[c] = Tail(toController[c])
      /\ UNCHANGED <<discovery, qt, attached, failed, stopping, wanted, connected, shut,
                     toHelper, helper, filter, overtaken>>
  BY <1>o DEF ReadEvent, HelperTypes
<1>2. \/ /\ event.kind \in {"ready", "inactive"} /\ thread'[c] = "reading"
         /\ ready'[c] = event.ports
         /\ queue' = Append(queue, event.kind)
      \/ /\ event.kind = "error" /\ thread'[c] = "failing"
         /\ UNCHANGED <<ready, queue>>
  BY <1>o DEF ReadEvent, Status, ControllerTypes, Wire, Failures
<1>n. /\ event \in Event /\ event = toController[c][1]
      /\ 1 \in 1 .. Len(toController[c])
      /\ Tail(toController[c]) # <<>> =>
             Tail(toController[c])[Len(Tail(toController[c]))]
                = toController[c][Len(toController[c])]
      /\ Tail(toController[c]) = <<>> => event = toController[c][Len(toController[c])]
      /\ \A i \in 1 .. Len(toController[c]) :
             i = 1 \/ (i - 1 \in 1 .. Len(Tail(toController[c]))
                       /\ Tail(toController[c])[i - 1] = toController[c][i])
  <2>1. Len(toController[c]) \in Nat \ {0}
    BY <1>o, <1>1
  <2>2. 1 \in 1 .. Len(toController[c])
    BY <2>1
  <2> QED BY <1>o, <1>1, <2>2, Newest
<1> HIDE DEF event
<1>3. Handshake(c)'
  BY <1>1, <1>2 DEF Handshake, Early
<1>4. Failures(c)'
  BY <1>o, <1>1, <1>2 DEF Wire, Failures, Early, Served, Answers
<1>5. Linked(c)'
  BY <1>o, <1>1 DEF Wire, Linked, Served
<1>6. CASE event.kind = "error"
  BY <1>2, <1>3, <1>4, <1>5, <1>6 DEF Wire, Told, Heard, Shown, Served
<1>7. CASE event.kind \in {"ready", "inactive"}
  <2>1. thread'[c] = "reading" /\ ready'[c] = event.ports /\ queue' = Append(queue, event.kind)
        /\ event.kind # "error"
    BY <1>2, <1>7
  <2>2. Erring(c) => Erring(c)'
    <3> SUFFICES ASSUME Erring(c) PROVE Erring(c)'
      OBVIOUS
    <3>1. PICK i \in 1 .. Len(toController[c]) : toController[c][i].kind = "error"
      BY DEF Erring
    <3>2. i # 1
      BY <1>n, <2>1, <3>1
    <3>3. i - 1 \in 1 .. Len(toController'[c]) /\ toController'[c][i - 1].kind = "error"
      BY <1>1, <1>n, <3>1, <3>2
    <3> QED BY <3>3 DEF Erring
  <2>3. Ordered(c)' <=> Ordered(c)
    BY <1>1 DEF Ordered
  <2>4. Told(c)'
    BY <1>o, <1>1, <2>1, <2>2, <2>3 DEF Wire, Told, Answers
  <2>5. Heard(c)'
    <3>1. ASSUME toController'[c] # <<>>, Answers(c) PROVE Matches(c)'
      <4>1. toController'[c][Len(toController'[c])] = toController[c][Len(toController[c])]
        BY <1>1, <1>n, <3>1
      <4>2. Matches(c)
        BY <1>o, <1>1, <3>1 DEF Wire, Heard, Served
      <4> QED BY <1>1, <4>1, <4>2 DEF Matches
    <3>2. ASSUME toController'[c] = <<>>, Answers(c) PROVE ready'[c] = filter'[c]
      <4>1. event = toController[c][Len(toController[c])]
        BY <1>1, <1>n, <3>2
      <4>2. Matches(c)
        BY <1>o, <1>1, <3>2 DEF Wire, Heard, Served
      <4> QED BY <1>1, <2>1, <4>1, <4>2 DEF Matches
    <3> QED BY <1>1, <3>1, <3>2 DEF Heard, Answers
  <2>6. Shown(c)'
    <3>1. event.kind \in News
      BY <1>7 DEF News
    <3>2. queue' # <<>> /\ queue'[Len(queue')] = event.kind
      BY <1>o, <2>1, <3>1, Newest
    <3>3. event.kind = "inactive" => event.ports = {}
      BY <1>o, <1>n DEF Honest
    <3> QED BY <2>1, <3>2, <3>3 DEF Shown
  <2> QED BY <1>3, <1>4, <1>5, <2>4, <2>5, <2>6 DEF Wire
<1> QED BY <1>2, <1>6, <1>7

\* The helper ends: nothing is expected of it any more.
LEMMA HelperEnds ==
  ASSUME WireInv, NEW c \in Controllers, c = current, InSession,
         helper'[c] = "ended", filter'[c] \in {filter[c], {}},
         UNCHANGED <<thread, ready, discovery, connected, attached, stopping, failed,
                     shut, qt>>,
         toHelper'[c] = toHelper[c] \/ toHelper[c] # <<>>,
         helper[c] \notin {"none", "ended"}
  PROVE  Wire(c)'
<1>o. Wire(c)
  BY Own
<1>1. Handshake(c)'
  BY <1>o DEF Wire, Handshake, Early
<1>2. Failures(c)'
  BY <1>o DEF Wire, Failures, Answers
<1>3. Linked(c)'
  BY <1>o DEF Wire, Linked
<1>4. Told(c)' /\ Heard(c)' /\ Shown(c)'
  BY DEF Told, Heard, Shown, Answers
<1> QED BY <1>1, <1>2, <1>3, <1>4 DEF Wire

\* The helper connects and greets.
LEMMA HelperGreetsWire ==
  ASSUME WireInv, NEW c \in Controllers, c = current, InSession,
         HelperConnects(c) \/ HelperGreets(c)
  PROVE  Wire(c)'
<1> USE DEF sessionVars, flagVars, socketVars, pipeVars, helperVars, boundVars
<1>o. /\ ControllerTypes /\ HelperTypes /\ Wire(c) /\ thread[c] \in ThreadPhases
      /\ toController[c] \in Seq(Event)
  BY Own
<1>1. /\ helper[c] \in {"starting", "greeting"}
      /\ UNCHANGED <<thread, toHelper, ready, discovery, connected, attached, stopping,
                     failed, shut, wanted, filter, queue, qt, overtaken>>
  BY DEF HelperConnects, HelperGreets
<1>2. CASE helper'[c] = "ended"
  BY <1>1, <1>2, HelperEnds
<1>3. CASE helper'[c] # "ended"
  <2>1. \/ helper'[c] = "greeting" /\ toController'[c] = toController[c]
        \/ /\ helper'[c] = "checking"
           /\ toController'[c] = Append(toController[c], [kind |-> "hello", ports |-> {}])
    BY <1>o, <1>3 DEF HelperConnects, HelperGreets, Report, HelperTypes
  <2>2. thread[c] \notin Served
    BY <1>o, <1>1 DEF Wire, Linked
  <2>3. thread[c] \in Early =>
            /\ toController[c] = <<>> /\ Len(toController'[c]) <= 1
            /\ thread[c] \notin {"none", "launching"}
    <3>1. thread[c] \in Early =>
              toController[c] = <<>> /\ thread[c] \notin {"none", "launching"}
      BY <1>o, <1>1 DEF Wire, Handshake
    <3>2. Len(<<>>) <= 1 /\ \A e : Len(Append(<<>>, e)) <= 1
      OBVIOUS
    <3> QED BY <2>1, <3>1, <3>2, Zenon
  <2>4. Handshake(c)'
    BY <1>o, <1>1, <2>1, <2>3 DEF Wire, Handshake
  <2>5. Failures(c)'
    BY <1>o, <1>1 DEF Wire, Failures, Answers
  <2>6. Linked(c)' /\ Told(c)' /\ Heard(c)' /\ Shown(c)'
    BY <1>1, <2>2 DEF Linked, Told, Heard, Shown, Served
  <2> QED BY <2>4, <2>5, <2>6 DEF Wire
<1> QED BY <1>2, <1>3

\* The helper checks its rights, stops or dies.
LEMMA HelperEndsWire ==
  ASSUME WireInv, NEW c \in Controllers, c = current, InSession,
         HelperChecks(c) \/ HelperStops(c) \/ HelperDies(c)
  PROVE  Wire(c)'
<1> USE DEF sessionVars, flagVars, socketVars, pipeVars, helperVars, boundVars
<1>o. ControllerTypes /\ HelperTypes /\ Wire(c) /\ thread[c] \in ThreadPhases
  BY Own
<1>f. ASSUME Fault PROVE overtaken' = overtaken
  BY <1>f DEF Fault, Spend
<1>1. /\ helper[c] \notin {"none", "ended"}
      /\ UNCHANGED <<thread, toHelper, ready, discovery, connected, attached, stopping,
                     failed, shut, wanted, queue, qt>>
      /\ filter'[c] \in {filter[c], {}}
      /\ \/ helper'[c] = "ended"
         \/ /\ helper[c] = "checking" /\ helper'[c] = "serving"
            /\ UNCHANGED <<toController, filter>>
            /\ overtaken' = overtaken
  BY <1>o DEF HelperChecks, HelperStops, HelperDies, HelperTypes
<1>2. CASE helper'[c] = "ended"
  BY <1>1, <1>2, HelperEnds
<1>3. CASE helper'[c] # "ended"
  <2>1. /\ helper[c] = "checking" /\ helper'[c] = "serving"
        /\ UNCHANGED <<toController, filter>>
        /\ overtaken' = overtaken
    BY <1>1, <1>3
  <2>2. /\ Ordered(c)' <=> Ordered(c)
        /\ Erring(c)' <=> Erring(c)
        /\ Matches(c)' <=> Matches(c)
    BY <1>1, <2>1 DEF Ordered, Erring, Matches
  <2>3. Answers(c) <=> Answers(c)'
    BY <1>1, <2>1 DEF Answers
  <2>4. Handshake(c)'
    BY <1>o, <1>1, <2>1 DEF Wire, Handshake
  <2>5. Failures(c)'
    BY <1>o, <1>1, <2>3 DEF Wire, Failures
  <2>6. Linked(c)'
    BY <1>o, <1>1, <2>1 DEF Wire, Linked
  <2>7. Told(c)' /\ Heard(c)' /\ Shown(c)'
    BY <1>o, <1>1, <2>1, <2>2, <2>3 DEF Wire, Told, Heard, Shown
  <2> QED BY <2>4, <2>5, <2>6, <2>7 DEF Wire
<1> QED BY <1>2, <1>3

\* The helper reports what its filter redirects, or that it has none.
LEMMA Reported ==
  ASSUME WireInv, NEW c \in Controllers, c = current, InSession,
         NEW kind \in {"ready", "inactive", "error"}, NEW ports \in PortSets,
         Report(c, kind, ports),
         helper[c] = "serving", thread[c] \notin Early,
         kind = "error" \/ filter'[c] = ports,
         UNCHANGED <<thread, ready, discovery, connected, attached, stopping, failed,
                     shut, wanted, helper, queue, qt, overtaken>>,
         (qt = "free" /\ thread[c] = "reading" /\ Answers(c) /\ ~overtaken) =>
             /\ toHelper'[c] # <<>> => Ordered(c)'
             /\ toHelper'[c] = <<>> => kind = "error" \/ filter'[c] = wanted[c] \/ Erring(c)
  PROVE  Wire(c)'
<1>o. /\ HelperTypes /\ Wire(c) /\ toController[c] \in Seq(Event)
  BY Own
<1> DEFINE e == [kind |-> kind, ports |-> ports]
<1>1. e \in Event /\ e.kind = kind /\ e.ports = ports
  BY DEF Event
<1>2. toController'[c] = Append(toController[c], e)
  BY <1>o DEF Report, HelperTypes
<1> HIDE DEF e
<1>3. /\ toController'[c] # <<>>
      /\ toController'[c][Len(toController'[c])] = e
      /\ \A i \in 1 .. Len(toController[c]) :
             i \in 1 .. Len(toController'[c]) /\ toController'[c][i] = toController[c][i]
  BY <1>o, <1>1, <1>2, Newest
<1>4. Len(toController'[c]) \in 1 .. Len(toController'[c])
  <2>1. toController'[c] \in Seq(Event)
    BY <1>o, <1>1, <1>2
  <2> QED BY <1>3, <2>1
<1>5. kind = "error" => Erring(c)'
  BY <1>1, <1>3, <1>4 DEF Erring
<1>6. Erring(c) => Erring(c)'
  BY <1>3 DEF Erring
<1>7. Matches(c)'
  BY <1>1, <1>3 DEF Matches
<1>8. Handshake(c)'
  BY DEF Handshake
<1>9. Failures(c)'
  BY <1>o DEF Wire, Failures, Answers
<1>10. Linked(c)'
  BY <1>o DEF Wire, Linked
<1>11. Told(c)'
  BY <1>5, <1>6 DEF Told, Answers
<1>12. Heard(c)'
  BY <1>3, <1>7 DEF Heard
<1>13. Shown(c)'
  BY <1>o, <1>3 DEF Wire, Shown, Answers
<1> QED BY <1>7, <1>8, <1>9, <1>10, <1>11, <1>12, <1>13 DEF Wire

\* A command replaces the filter.
LEMMA HelperSetsWire ==
  ASSUME WireInv, NEW c \in Controllers, c = current, InSession, HelperSets(c)
  PROVE  Wire(c)'
<1> USE DEF sessionVars, flagVars, socketVars, pipeVars, helperVars, boundVars
<1>o. /\ ControllerTypes /\ HelperTypes /\ Wire(c) /\ thread[c] \in ThreadPhases
      /\ toHelper[c] \in Seq(Command)
  BY Own
<1>f. ASSUME Fault PROVE overtaken' = overtaken
  BY <1>f DEF Fault, Spend
<1> DEFINE command == Head(toHelper[c])
           ports == command.ports
<1>1. /\ helper[c] = "serving" /\ toHelper[c] # <<>>
      /\ toHelper'[c] = Tail(toHelper[c])
      /\ UNCHANGED <<thread, ready, discovery, connected, attached, stopping, failed,
                     shut, wanted, queue, qt>>
  BY <1>o DEF HelperSets, HelperTypes
<1>2. \/ helper'[c] = "ended" /\ filter'[c] = {}
      \/ /\ UNCHANGED <<helper, overtaken>>
         /\ \/ /\ filter'[c] = ports
               /\ Report(c, IF ports = {} THEN "inactive" ELSE "ready", ports)
            \/ filter'[c] = {} /\ Report(c, "error", {})
  BY <1>o, <1>f DEF HelperSets, HelperTypes
<1>3. /\ command \in Command
      /\ Tail(toHelper[c]) # <<>> =>
             Tail(toHelper[c])[Len(Tail(toHelper[c]))] = toHelper[c][Len(toHelper[c])]
      /\ Tail(toHelper[c]) = <<>> => command = toHelper[c][Len(toHelper[c])]
  BY <1>o, <1>1, Newest
<1>4. ports \in PortSets
  BY <1>3 DEF Command
<1> HIDE DEF command
<1>5. thread[c] \notin Early
  BY <1>o, <1>1 DEF Wire, Handshake
<1>6. qt = "free" /\ thread[c] = "reading" /\ Answers(c) /\ ~overtaken =>
          /\ toHelper'[c] # <<>> => Ordered(c)'
          /\ toHelper'[c] = <<>> => ports = wanted[c]
  <2> SUFFICES ASSUME qt = "free", thread[c] = "reading", Answers(c), ~overtaken
               PROVE  /\ toHelper'[c] # <<>> => Ordered(c)'
                      /\ toHelper'[c] = <<>> => ports = wanted[c]
    OBVIOUS
  <2>1. Ordered(c)
    BY <1>o, <1>1 DEF Wire, Told
  <2>2. toHelper[c][Len(toHelper[c])] = [kind |-> "set", ports |-> wanted[c]]
    BY <2>1 DEF Ordered
  <2>3. toHelper'[c] = <<>> => command = [kind |-> "set", ports |-> wanted[c]]
    BY <1>1, <1>3, <2>2
  <2>4. toHelper'[c] = <<>> => command.ports = wanted[c]
    BY <2>3
  <2> QED BY <1>1, <1>3, <2>2, <2>4 DEF Ordered
<1> HIDE DEF ports
<1>7. CASE helper'[c] = "ended" /\ filter'[c] = {}
  BY <1>1, <1>7, HelperEnds
<1>8. CASE /\ UNCHANGED <<helper, overtaken>>
           /\ filter'[c] = ports
           /\ Report(c, IF ports = {} THEN "inactive" ELSE "ready", ports)
  <2>1. CASE ports = {}
    <3>1. Report(c, "inactive", ports) BY <1>8, <2>1
    <3> QED BY <1>1, <1>4, <1>5, <1>6, <1>8, <3>1, Reported
  <2>2. CASE ports # {}
    <3>1. Report(c, "ready", ports) BY <1>8, <2>2
    <3> QED BY <1>1, <1>4, <1>5, <1>6, <1>8, <3>1, Reported
  <2> QED BY <2>1, <2>2
<1>9. CASE /\ UNCHANGED <<helper, overtaken>>
           /\ filter'[c] = {} /\ Report(c, "error", {})
  <2>1. {} \in PortSets BY Sets
  <2> QED BY <1>1, <1>5, <1>6, <1>9, <2>1, Reported
<1> QED BY <1>2, <1>7, <1>8, <1>9

\* The filter fails.
LEMMA FilterFailsWire ==
  ASSUME WireInv, NEW c \in Controllers, c = current, InSession, FilterFails(c)
  PROVE  Wire(c)'
<1> USE DEF sessionVars, flagVars, socketVars, pipeVars, helperVars, boundVars
<1>o. HelperTypes /\ Wire(c)
  BY Own
<1>1. /\ helper[c] = "serving" /\ filter[c] # {}
      /\ Report(c, "error", {})
      /\ UNCHANGED <<thread, ready, discovery, connected, attached, stopping, failed,
                     shut, wanted, queue, qt, toHelper, helper, overtaken>>
  BY DEF FilterFails, Fault, Spend
<1>2. thread[c] \notin Early
  BY <1>o, <1>1 DEF Wire, Handshake
<1>3. Ordered(c)' <=> Ordered(c)
  BY <1>1 DEF Ordered
<1>4. qt = "free" /\ thread[c] = "reading" /\ Answers(c) /\ ~overtaken =>
          (toHelper'[c] # <<>> => Ordered(c)')
  BY <1>o, <1>1, <1>3 DEF Wire, Told
<1>5. {} \in PortSets BY Sets
<1> QED BY <1>1, <1>2, <1>4, <1>5, Reported

\* A step of a thread or a helper, whoever's it is.
LEMMA OneOfWire ==
  ASSUME WireInv, NEW c \in Controllers, OneOf(c)
  PROVE  UnusedYet' /\ Reports' /\ Wired'
<1>l. /\ UNCHANGED <<current, mode, qt, discovery, wanted, attached, stopping>>
      /\ thread[c] # "none" \/ helper[c] # "none"
      /\ ~attached[c] => queue' = queue
      /\ overtaken => overtaken'
      /\ \A d \in Controllers \ {c} : Same(d)
  BY Local DEF WireInv
<1>1. ~Unused(c)
  BY <1>l DEF Unused
<1>2. UnusedYet'
  <2>1. \A d \in Controllers : d # c /\ Unused(d) => Unused(d)'
    BY <1>l DEF Unused, Same
  <2>2. \A d \in Controllers :
            (d > current \/ (d = current /\ qt = "free" /\ mode # "connected")) => Unused(d)
    BY DEF WireInv, UnusedYet
  <2>3. (mode # "connected" => discovery = {})'
    BY <1>l DEF WireInv, UnusedYet
  <2>4. \A d \in Controllers :
            (d > current' \/ (d = current' /\ qt' = "free" /\ mode' # "connected"))
               => Unused(d)'
    BY <1>l, <1>1, <2>1, <2>2
  <2> QED BY <2>3, <2>4 DEF UnusedYet
<1>3. Reports'
  BY ReportsStep DEF WireInv
<1>4. ASSUME InSession', c = current PROVE Wire(c)'
  <2>1. InSession BY <1>l, <1>4 DEF InSession
  <2> QED
    BY <1>4, <2>1, EarlyThreadWire, GreetWire, ConfigWire, LateThreadWire, ReadEventWire,
       HelperGreetsWire, HelperEndsWire, HelperSetsWire, FilterFailsWire
       DEF OneOf, ThreadStep, HelperStep
<1>5. ASSUME InSession', NEW d \in Controllers, d = current, c # d PROVE Wire(d)'
  <2>1. InSession
    BY <1>l, <1>5 DEF InSession
  <2>2. Wire(d)
    BY <1>5, <2>1 DEF WireInv, Wired
  <2>3. /\ Same(d) /\ UNCHANGED <<qt, discovery>>
        /\ overtaken => overtaken'
    BY <1>5, <1>l
  <2>4. queue' = queue
    <3>1. c < current \/ c > current
      BY <1>5, Sets DEF Controllers
    <3>2. ~(c > current)
      BY <1>1 DEF WireInv, UnusedYet
    <3>3. ~attached[c]
      BY <3>1, <3>2 DEF WireInv, IInv, Separated
    <3> QED BY <1>l, <3>3
  <2>5. Answers(d)' <=> Answers(d)
    BY <2>3 DEF Answers, Same
  <2>6. /\ Ordered(d)' <=> Ordered(d)
        /\ Erring(d)' <=> Erring(d)
        /\ Matches(d)' <=> Matches(d)
    BY <2>3 DEF Ordered, Erring, Matches, Same
  <2>7. Handshake(d)'
    BY <2>2, <2>3 DEF Wire, Handshake, Same
  <2>8. Failures(d)' /\ Linked(d)'
    BY <2>2, <2>3, <2>5 DEF Wire, Failures, Linked, Same
  <2>9. Told(d)'
    BY <2>2, <2>3, <2>5, <2>6 DEF Wire, Told, Same
  <2>10. Heard(d)' /\ Shown(d)'
    BY <2>2, <2>3, <2>4, <2>5, <2>6 DEF Wire, Heard, Shown, Same
  <2> QED BY <2>7, <2>8, <2>9, <2>10 DEF Wire
<1>6. Wired'
  BY <1>l, <1>4, <1>5 DEF Wired
<1> QED BY <1>2, <1>3, <1>6

-----------------------------------------------------------------------------

\* The ports are passed on: a helper that is served is told them next.
LEMMA SyncWire ==
  ASSUME WireInv, NEW c \in Controllers, c = current, qt = "free", Wire(c),
         NEW request \in BOOLEAN, NEW ports \in PortSets, Sync(request, ports),
         NEW rest, SyncStatus(rest), rest = queue \/ thread[c] = "none",
         UNCHANGED <<current, attached, stopping, connected, config, pipeVars, helperVars>>
  PROVE  Wire(c)'
<1> USE DEF sessionVars, flagVars, socketVars, pipeVars, helperVars, boundVars
<1>o. ControllerTypes /\ HelperTypes
  BY DEF WireInv, IInv, TypeOK
<1>1. /\ discovery' \in {{}, discovery}
      /\ qt' = IF connected[c] THEN "sending" ELSE "free"
      /\ UNCHANGED <<ready, shut, toHelper, toController, helper, filter>>
  BY DEF Sync
<1>2. \/ /\ ~connected[c] /\ thread[c] \in {"none", "done"} /\ ~failed[c]
         /\ \/ thread'[c] = "launching" /\ failed' = failed
            \/ thread' = thread /\ failed'[c]
      \/ UNCHANGED <<thread, failed>>
  BY <1>o DEF Sync, Running, ControllerTypes, HelperTypes
<1>3. Answers(c)' <=> Answers(c)
  BY <1>1 DEF Answers
<1>4. thread[c] = "done" => failed[c]
  BY DEF Wire, Failures
<1>5. Handshake(c)'
  BY <1>1, <1>2, <1>4 DEF Wire, Handshake, Early
<1>6. Failures(c)'
  BY <1>1, <1>2, <1>3, <1>4 DEF Wire, Failures, Early, Served
<1>7. Linked(c)'
  BY <1>1, <1>2, <1>4 DEF Wire, Linked, Served
<1>8. thread'[c] \in Served => /\ UNCHANGED <<thread, failed>>
                               /\ connected[c] /\ qt' = "sending"
  BY <1>1, <1>2, <1>4 DEF Wire, Linked, Served
<1>9. Told(c)'
  BY <1>8 DEF Told, Served
<1>10. Heard(c)'
  <2>1. Matches(c)' <=> Matches(c)
    BY <1>1 DEF Matches
  <2> QED BY <1>1, <1>3, <1>8, <2>1 DEF Wire, Heard
<1>11. Shown(c)'
  <2>1. thread'[c] \in Served => queue' = queue
    BY <1>8 DEF SyncStatus, Served
  <2> QED BY <1>1, <1>3, <1>8, <2>1 DEF Wire, Shown
<1> QED BY <1>5, <1>6, <1>7, <1>9, <1>10, <1>11 DEF Wire

\* A step of the Qt thread inside a session.
LEMMA Stays ==
  ASSUME WireInv, UNCHANGED <<current, toController>>, mode' = "connected",
         \A d \in Controllers : d # current => Same(d),
         \A d \in Controllers : d = current /\ InSession' => Wire(d)'
  PROVE  UnusedYet' /\ Reports' /\ Wired'
<1>1. Reports'
  BY DEF WireInv, Reports, Honest
<1>2. \A d \in Controllers : d # current /\ Unused(d) => Unused(d)'
  BY DEF Unused, Same
<1>3. \A d \in Controllers : d > current => Unused(d) /\ d # current
  <2>1. current \in 1 .. MaxSessions + 1
    BY Zenon DEF WireInv, IInv, TypeOK, SessionTypes
  <2>2. current \in Nat
    BY <2>1, Sets
  <2>3. \A d \in Controllers : d > current => d # current
    BY <2>2, Sets
  <2> QED BY <2>3 DEF WireInv, UnusedYet
<1>4. UnusedYet'
  BY <1>2, <1>3 DEF UnusedYet
<1>5. Wired'
  BY DEF Wired
<1> QED BY <1>1, <1>4, <1>5

\* The grant arrives, the mappings or the wish change.
LEMMA SyncsWire ==
  ASSUME WireInv, NEW request \in BOOLEAN, NEW ports \in PortSets, Sync(request, ports),
         NEW rest, SyncStatus(rest), qt = "free", mode' = "connected",
         \/ mode = "connected" /\ rest = queue
         \/ mode # "connected",
         UNCHANGED <<current, attached, stopping, connected, config, pipeVars, helperVars>>
  PROVE  UnusedYet' /\ Reports' /\ Wired'
<1> USE DEF sessionVars, flagVars, socketVars, pipeVars, helperVars, boundVars
<1>o. ControllerTypes /\ HelperTypes
  BY DEF WireInv, IInv, TypeOK
<1>1. \A d \in Controllers : d # current => Same(d)
  BY <1>o DEF Sync, Same, ControllerTypes, HelperTypes
<1>2. ASSUME NEW d \in Controllers, d = current PROVE Wire(d)'
  <2>1. CASE mode = "connected"
    <3>1. Wire(d)
      BY <1>2, <2>1 DEF WireInv, Wired, InSession
    <3> QED BY <1>2, <2>1, <3>1, SyncWire
  <2>2. CASE mode # "connected"
    <3>1. Unused(d) /\ discovery = {}
      BY <1>2, <2>2 DEF WireInv, UnusedYet
    <3>2. Wire(d)
      BY <3>1, UnusedWire
    <3>3. thread[d] = "none"
      BY <3>1 DEF Unused
    <3> QED BY <1>2, <2>2, <3>2, <3>3, SyncWire
  <2> QED BY <2>1, <2>2
<1> QED BY <1>1, <1>2, Stays

\* Between two sessions, and while one stops, only the controllers to come matter.
LEMMA Outside ==
  ASSUME WireInv, UNCHANGED <<current, toController, discovery>>, ~InSession',
         mode' # "connected" => mode # "connected",
         \A d \in Controllers : d = current =>
             \/ /\ Same(d)
                /\ qt' = "free" /\ mode' # "connected" => qt = "free" /\ mode # "connected"
             \/ qt' # "free",
         \A d \in Controllers : d # current => Same(d)
  PROVE  UnusedYet' /\ Reports' /\ Wired'
<1>1. Reports'
  BY DEF WireInv, Reports, Honest
<1>2. \A d \in Controllers : Same(d) /\ Unused(d) => Unused(d)'
  BY DEF Unused, Same
<1>3. \A d \in Controllers : d > current => d # current
  <2>1. current \in 1 .. MaxSessions + 1
    BY Zenon DEF WireInv, IInv, TypeOK, SessionTypes
  <2>2. current \in Nat
    BY <2>1, Sets
  <2> QED BY <2>2, Sets
<1>4. UnusedYet'
  BY <1>2, <1>3 DEF WireInv, UnusedYet
<1>5. Wired'
  BY DEF Wired
<1> QED BY <1>1, <1>4, <1>5

LEMMA QtSyncWire ==
  ASSUME WireInv,
         \/ \E ports \in PortSets :
                \/ \E preferred \in BOOLEAN : Granted(ports, preferred)
                \/ MappingsChange(ports)
         \/ WishChanges
  PROVE  UnusedYet' /\ Reports' /\ Wired'
<1> USE DEF sessionVars, flagVars, socketVars, pipeVars, helperVars, boundVars
<1>o. SessionTypes
  BY DEF WireInv, IInv, TypeOK
<1>1. ASSUME NEW ports \in PortSets, NEW preferred \in BOOLEAN, Granted(ports, preferred)
      PROVE  UnusedYet' /\ Reports' /\ Wired'
  <2>1. CASE mode = "joining"
    <3>1. /\ Sync(preferred, ports) /\ SyncStatus(Tail(queue))
          /\ qt = "free" /\ mode' = "connected"
          /\ UNCHANGED <<current, attached, stopping, connected, config, pipeVars,
                         helperVars>>
      BY <1>1, <2>1 DEF Granted
    <3> QED BY <2>1, <3>1, SyncsWire
  <2>2. CASE mode # "joining"
    <3>1. /\ UNCHANGED <<sessionVars, qt, flagVars, wanted, connected, ready, thread,
                         config, socketVars, pipeVars, helperVars, boundVars>>
          /\ qt = "free" /\ queue # <<>> /\ Head(queue) = "granted"
      BY <1>1, <2>2 DEF Granted
    <3>2. mode # "connected"
      <4>1. Head(queue) = queue[1] /\ 1 \in 1 .. Len(queue)
        <5>1. queue \in Seq(News) BY <1>o, Zenon DEF SessionTypes
        <5> QED BY <3>1, <5>1
      <4>2. queue[1] = "granted" BY <3>1, <4>1
      <4> QED BY <4>1, <4>2, Zenon DEF WireInv, IInv, NewsIsCurrent
    <3>3. \A d \in Controllers : Same(d)
      BY <3>1 DEF Same
    <3> QED BY <3>1, <3>2, <3>3, Outside DEF InSession
  <2> QED BY <2>1, <2>2
<1>2. ASSUME NEW ports \in PortSets, MappingsChange(ports)
      PROVE  UnusedYet' /\ Reports' /\ Wired'
  <2>2. requested \in BOOLEAN
    BY <1>o, Zenon DEF SessionTypes
  <2>1. /\ Sync(requested, ports) /\ SyncStatus(queue)
        /\ qt = "free" /\ mode = "connected" /\ mode' = "connected"
        /\ UNCHANGED <<current, attached, stopping, connected, config, pipeVars, helperVars>>
    BY <1>2 DEF MappingsChange
  <2> QED BY <2>1, <2>2, SyncsWire
<1>3. ASSUME WishChanges
      PROVE  UnusedYet' /\ Reports' /\ Wired'
  <2>2. (~requested) \in BOOLEAN /\ mapped \in PortSets
    BY <1>o, Zenon DEF SessionTypes
  <2>1. /\ Sync(~requested, mapped) /\ SyncStatus(queue)
        /\ qt = "free" /\ mode = "connected" /\ mode' = "connected"
        /\ UNCHANGED <<current, attached, stopping, connected, config, pipeVars, helperVars>>
    BY <1>3 DEF WishChanges
  <2> QED BY <2>1, <2>2, SyncsWire
<1> QED BY <1>1, <1>2, <1>3

\* The other steps of the Qt thread.
LEMMA UpdateSendsWire ==
  ASSUME WireInv, UpdateSends
  PROVE  UnusedYet' /\ Reports' /\ Wired'
<1> USE DEF sessionVars, flagVars, socketVars, pipeVars, helperVars, boundVars
<1>o. ControllerTypes /\ HelperTypes
  BY DEF WireInv, IInv, TypeOK
<1>1. /\ qt = "sending" /\ qt' = "free" /\ mode = "connected" /\ mode' = "connected"
      /\ UNCHANGED <<current, discovery, toController, attached, stopping, wanted,
                     connected, thread, shut, helper, filter, overtaken>>
  BY DEF UpdateSends, WireInv, IInv, Separated
<1>2. \A d \in Controllers : d # current => Same(d)
  BY <1>o DEF UpdateSends, Fail, Send, Same, ControllerTypes, HelperTypes
<1>3. ASSUME NEW c \in Controllers, c = current PROVE Wire(c)'
  <2>w. Wire(c)
    BY <1>1, <1>3 DEF WireInv, Wired, InSession
  <2>a. Answers(c)' <=> Answers(c)
    BY <1>1 DEF Answers
  <2>1. CASE ~Answers(c)
    <3>1. Fail(c) /\ UNCHANGED toHelper
      BY <1>3, <2>1 DEF UpdateSends, Answers
    <3>2. failed'[c] /\ ready'[c] = {}
      BY <1>o, <3>1 DEF Fail, ControllerTypes
    <3>3. Handshake(c)' /\ Failures(c)' /\ Linked(c)'
      BY <1>1, <2>w, <2>a, <2>1, <3>1, <3>2 DEF Wire, Handshake, Failures, Linked
    <3>4. Told(c)' /\ Heard(c)' /\ Shown(c)'
      BY <2>a, <2>1 DEF Told, Heard, Shown
    <3> QED BY <3>3, <3>4 DEF Wire
  <2>2. CASE Answers(c)
    <3>1. Send(c, "set", wanted[c]) /\ UNCHANGED <<failed, ready, queue>>
      BY <1>3, <2>2 DEF UpdateSends, Answers
    <3> DEFINE e == [kind |-> "set", ports |-> wanted[c]]
    <3>2. e \in Command /\ toHelper[c] \in Seq(Command)
      BY <1>o DEF Command, ControllerTypes, HelperTypes
    <3>3. toHelper'[c] = Append(toHelper[c], e)
      BY <1>o, <3>1 DEF Send, HelperTypes
    <3>4. toHelper'[c] # <<>> /\ toHelper'[c][Len(toHelper'[c])] = e
      BY <3>2, <3>3, Newest
    <3>5. Ordered(c)'
      BY <1>1, <3>4 DEF Ordered
    <3>6. Matches(c)' <=> Matches(c)
      BY <1>1 DEF Matches
    <3> HIDE DEF e
    <3>7. thread[c] \notin Early
      BY <1>1, <2>w DEF Wire, Handshake
    <3>8. Handshake(c)' /\ Failures(c)' /\ Linked(c)'
      BY <1>1, <2>w, <2>a, <3>1, <3>7 DEF Wire, Handshake, Failures, Linked
    <3>9. Told(c)'
      BY <3>4, <3>5 DEF Told
    <3>10. Heard(c)' /\ Shown(c)'
      BY <1>1, <2>w, <2>a, <3>1, <3>4, <3>6 DEF Wire, Heard, Shown
    <3> QED BY <3>8, <3>9, <3>10 DEF Wire
  <2> QED BY <2>1, <2>2
<1> QED BY <1>1, <1>2, <1>3, Stays

LEMMA StatusArrivesWire ==
  ASSUME WireInv, StatusArrives
  PROVE  UnusedYet' /\ Reports' /\ Wired'
<1> USE DEF sessionVars, flagVars, socketVars, pipeVars, helperVars, boundVars
<1>1. /\ queue' = Tail(queue) /\ queue # <<>>
      /\ UNCHANGED <<current, mode, qt, flagVars, wanted, connected, ready, thread, config,
                     socketVars, pipeVars, helperVars, boundVars>>
  BY DEF StatusArrives
<1>2. \A d \in Controllers : Same(d)
  BY <1>1 DEF Same
<1>3. CASE mode # "connected"
  <2>1. discovery' = discovery
    BY <1>3 DEF StatusArrives
  <2> QED BY <1>1, <1>2, <1>3, <2>1, Outside DEF InSession
<1>4. CASE mode = "connected"
  <2>1. discovery' = IF Head(queue) = "ready" THEN ready[current] ELSE {}
    BY <1>4 DEF StatusArrives
  <2>2. ASSUME NEW c \in Controllers, c = current, InSession' PROVE Wire(c)'
    <3>i. InSession BY <1>1, <2>2 DEF InSession
    <3>o. /\ SessionTypes /\ Wire(c) /\ queue \in Seq(News)
          /\ \A i \in 1 .. Len(queue) : queue[i] = "error" => failed[c]
      BY <2>2, <3>i, Own
    <3>1. /\ Head(queue) = queue[1] /\ Head(queue) \in News
          /\ Len(queue) \in 1 .. Len(queue) /\ 1 \in 1 .. Len(queue)
          /\ Tail(queue) # <<>> => Tail(queue)[Len(Tail(queue))] = queue[Len(queue)]
          /\ Tail(queue) = <<>> => Head(queue) = queue[Len(queue)]
      <4>1. "error" \in News BY DEF News
      <4>2. 1 \in 1 .. Len(queue) BY <1>1, <3>o
      <4> QED BY <1>1, <3>o, <4>1, <4>2, Newest
    <3>2. Answers(c)' <=> Answers(c)
      BY <1>1 DEF Answers
    <3>3. /\ Ordered(c)' <=> Ordered(c)
          /\ Erring(c)' <=> Erring(c)
          /\ Matches(c)' <=> Matches(c)
      BY <1>1 DEF Ordered, Erring, Matches
    <3>4. Handshake(c)'
      BY <1>1, <2>1, <2>2, <3>o DEF Wire, Handshake
    <3>5. Failures(c)' /\ Linked(c)'
      BY <1>1, <3>o, <3>2 DEF Wire, Failures, Linked
    <3>6. Told(c)' /\ Heard(c)'
      BY <1>1, <3>o, <3>2, <3>3 DEF Wire, Told, Heard
    <3>7. Shown(c)'
      <4> SUFFICES ASSUME thread[c] \in Served, Answers(c)
                   PROVE  /\ queue' # <<>> /\ queue'[Len(queue')] = "inactive" =>
                                ready[c] = {}
                          /\ queue' = <<>> => discovery' = ready[c]
        BY <1>1, <3>2 DEF Shown
      <4>1. queue[Len(queue)] = "inactive" => ready[c] = {}
        BY <1>1, <3>o DEF Wire, Shown
      <4>2. Head(queue) # "error"
        <5>1. ~failed[c]
          BY <3>o DEF Wire, Failures, Early, Served
        <5> QED BY <3>o, <3>1, <5>1
      <4>3. Head(queue) # "granted"
        BY DEF StatusArrives
      <4>4. Head(queue) \in {"ready", "inactive"}
        BY <3>1, <4>2, <4>3 DEF News
      <4> QED BY <1>1, <2>1, <2>2, <3>1, <4>1, <4>4
    <3> QED BY <3>4, <3>5, <3>6, <3>7 DEF Wire
  <2> QED BY <1>1, <1>2, <1>4, <2>2, Stays
<1> QED BY <1>3, <1>4

\* A session starts or stops.
LEMMA StopWire ==
  ASSUME WireInv, StartJoin \/ StopBegins \/ StopCloses
  PROVE  UnusedYet' /\ Reports' /\ Wired'
<1> USE DEF sessionVars, flagVars, socketVars, pipeVars, helperVars, boundVars
<1>o. ControllerTypes /\ HelperTypes
  BY DEF WireInv, IInv, TypeOK
<1>1. CASE StartJoin
  <2>1. /\ UNCHANGED <<current, toController, discovery, qt>>
        /\ mode = "idle" /\ mode' = "joining"
        /\ \A d \in Controllers : Same(d)
    BY <1>1 DEF StartJoin, Same
  <2> QED BY <2>1, Outside DEF InSession
<1>2. CASE StopBegins \/ StopCloses
  <2>1. /\ UNCHANGED <<current, toController, discovery, mode>>
        /\ qt' \in {"stopping", "stopping-linked", "joining-thread"}
    BY <1>2 DEF StopBegins, StopCloses
  <2>2. \A d \in Controllers : d # current => Same(d)
    <3>1. CASE StopBegins
      BY <1>o, <3>1 DEF StopBegins, Same, ControllerTypes
    <3>2. CASE StopCloses
      BY <1>o, <3>2 DEF StopCloses, Send, Unlisten, Same, ControllerTypes, HelperTypes
    <3> QED BY <1>2, <3>1, <3>2
  <2> QED BY <2>1, <2>2, Outside DEF InSession
<1> QED BY <1>1, <1>2

LEMMA StopEndsWire ==
  ASSUME WireInv, StopEnds
  PROVE  UnusedYet' /\ Reports' /\ Wired'
<1> USE DEF sessionVars, flagVars, socketVars, pipeVars, helperVars, boundVars
<1>o. ControllerTypes
  BY DEF WireInv, IInv, TypeOK
<1>s. /\ qt = "joining-thread"
      /\ current' = current + 1 /\ mode' = "idle" /\ discovery' = {}
      /\ failed' = [failed EXCEPT ![current] = FALSE]
      /\ stopping' = [stopping EXCEPT ![current] = FALSE]
      /\ UNCHANGED <<attached, connected, ready, thread, config, socketVars, pipeVars,
                     helperVars>>
  BY Zenon DEF StopEnds
<1>c. current \in Controllers
  BY <1>s DEF WireInv, IInv, Separated
<1>1. /\ current' = current + 1 /\ mode' = "idle" /\ discovery' = {}
      /\ UNCHANGED <<attached, connected, ready, thread, config, socketVars, pipeVars,
                     helperVars>>
      /\ \A d \in Controllers : d # current =>
             failed'[d] = failed[d] /\ stopping'[d] = stopping[d]
  BY <1>o, <1>s DEF ControllerTypes
<1>2. \A d \in Controllers : d >= current' => d > current /\ d # current
  BY <1>c, <1>1, Sets DEF Controllers
<1>3. \A d \in Controllers : d > current' \/ d = current' => d >= current'
  BY <1>c, <1>1, Sets DEF Controllers
<1>4. UnusedYet'
  <2>1. \A d \in Controllers : d >= current' => Unused(d)
    BY <1>2 DEF WireInv, UnusedYet
  <2>2. \A d \in Controllers : d # current /\ Unused(d) => Unused(d)'
    BY <1>1 DEF Unused
  <2> QED BY <1>1, <1>2, <1>3, <2>1, <2>2 DEF UnusedYet
<1>5. Reports'
  BY <1>1 DEF WireInv, Reports, Honest
<1>6. Wired'
  BY <1>1 DEF Wired, InSession
<1> QED BY <1>4, <1>5, <1>6

\* Every step preserves the invariant.
LEMMA NextWire == WireInv /\ [Next]_vars => WireInv'
<1> SUFFICES ASSUME WireInv, [Next]_vars PROVE WireInv' OBVIOUS
<1>1. IInv'
  BY NextIInv DEF WireInv
<1>2. CASE UNCHANGED vars
  <2>1. UnusedYet' /\ Reports'
    BY <1>2 DEF WireInv, UnusedYet, Unused, Reports, Honest, vars, sessionVars, flagVars,
       socketVars, pipeVars, helperVars
  <2>2. ASSUME NEW c \in Controllers, Wire(c) PROVE Wire(c)'
    <3> USE DEF vars, sessionVars, flagVars, socketVars, pipeVars, helperVars, boundVars
    <3>1. Handshake(c)' /\ Failures(c)' /\ Linked(c)'
      BY <1>2, <2>2 DEF Wire, Handshake, Failures, Linked, Answers
    <3>2. Told(c)'
      BY <1>2, <2>2 DEF Wire, Told, Answers, Ordered, Erring
    <3>3. Heard(c)' /\ Shown(c)'
      BY <1>2, <2>2 DEF Wire, Heard, Shown, Answers, Matches
    <3> QED BY <3>1, <3>2, <3>3 DEF Wire
  <2>3. Wired'
    <3>1. UNCHANGED <<current, mode, qt>>
      BY <1>2 DEF vars, sessionVars
    <3> QED BY <2>2, <3>1 DEF WireInv, Wired, InSession
  <2> QED BY <1>1, <2>1, <2>3 DEF WireInv
<1>3. CASE Next
  <2>1. UnusedYet' /\ Reports' /\ Wired'
    BY <1>3, StopWire, StopEndsWire, QtSyncWire, UpdateSendsWire, StatusArrivesWire,
       OneOfWire DEF Next, QtStep, OneOf
  <2> QED BY <1>1, <2>1 DEF WireInv
<1> QED BY <1>2, <1>3

\* When a session's helper and its news have settled, the filter redirects just
\* the ports the session wants, and these are shown, unless the thread's first
\* configuration overtook a newer one.
THEOREM FilterIsExact == Spec => []ExactPorts
<1>1. WireInv => ExactPorts
  <2> SUFFICES ASSUME WireInv, NEW c \in Controllers, Settled(c), ~overtaken
               PROVE  filter[c] = wanted[c] /\ discovery = filter[c]
    BY DEF ExactPorts
  <2>1. /\ c = current /\ InSession /\ thread[c] = "reading" /\ Answers(c)
        /\ qt = "free" /\ queue = <<>> /\ toHelper[c] = <<>> /\ toController[c] = <<>>
    BY DEF Settled, InSession, Answers
  <2>2. Told(c) /\ Heard(c) /\ Shown(c)
    BY <2>1 DEF WireInv, Wired, Wire
  <2>3. ~Erring(c)
    <3>1. Len(toController[c]) = 0
      BY <2>1
    <3> QED BY <3>1 DEF Erring
  <2> QED BY <2>1, <2>2, <2>3 DEF Told, Heard, Shown, Served
<1> QED BY <1>1, InitWire, NextWire, PTL DEF Spec
=============================================================================
