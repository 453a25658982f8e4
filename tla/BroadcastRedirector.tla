------------------------ MODULE BroadcastRedirector ------------------------
(***************************************************************************)
(* LAN discovery compatibility (SteamyLAN/broadcast_redirect.py,           *)
(* broadcast_helper.py, and the part of services.py that drives it).       *)
(*                                                                         *)
(* A connected session asks its controller to redirect the broadcasts of   *)
(* its UDP ports.  The controller's thread starts an elevated helper,      *)
(* which connects back over a loopback socket, is told the ports, and      *)
(* reports when its packet filter runs.  Every session has a controller of *)
(* its own: stop abandons the old one, whose thread may still wait for the *)
(* elevation dialog and whose helper may still answer.                     *)
(*                                                                         *)
(* Threads: the Qt thread (update and stop are several steps of it: locks  *)
(* are only held for parts of them), one thread per controller, and the    *)
(* helper processes with their filter threads.                             *)
(***************************************************************************)
EXTENDS Naturals, Sequences

CONSTANTS
    Ports,         \* the UDP ports a session may map
    MaxSessions,   \* bound: sessions, and so controllers and helpers
    Mixes          \* bounds: how many sessions, changes of the mappings or
                   \* the wish, and failures of the helper to explore together

ASSUME SessionsAssumption ==
    /\ MaxSessions \in Nat \ {0}
    /\ Mixes \subseteq [sessions : 1..MaxSessions, changes : Nat, faults : Nat]

Controllers == 1..MaxSessions
PortSets == SUBSET Ports

VARIABLES
    \* SessionManager
    current,      \* the controller of the session
    mode,         \* the session's mode
    mapped,       \* compatible_mapping_ports(snapshot.mappings)
    requested,    \* snapshot.discovery_requested
    discovery,    \* snapshot.discovery_ports
    notice,       \* _broadcast_notice_kind
    queue,        \* events posted to the Qt thread
    qt,           \* where the Qt thread is inside update or stop
    \* BroadcastRedirectorController, one each
    attached,     \* on_status is set
    wanted,       \* _ports
    connected,    \* _connection is set
    ready,        \* _ready_ports
    failed,       \* _failed
    stopping,     \* _stopping
    thread,       \* where _launch_and_serve is
    config,       \* the ports its _send_config read
    \* the loopback sockets
    listening,    \* the listener is open
    linked,       \* the helper's connection was established
    shut,         \* the controller's end of it was closed
    toHelper, toController,
    \* the helper processes
    helper,       \* where main is
    filter,       \* the ports its packet filter redirects
    overtaken,    \* a configuration was sent after a newer one
    limit         \* what is left of the bounds

sessionVars == <<current, mode, mapped, requested, discovery, notice>>
flagVars == <<attached, failed, stopping>>
socketVars == <<listening, linked, shut>>
pipeVars == <<toHelper, toController>>
helperVars == <<helper, filter>>
boundVars == <<overtaken, limit>>
vars == <<sessionVars, queue, qt, flagVars, wanted, connected, ready, thread, config,
          socketVars, pipeVars, helperVars, boundVars>>

ThreadPhases == {"none", "launching", "accepting", "greeting", "reading-config",
                 "sending-config", "reading", "failing", "ending", "done"}
HelperPhases == {"none", "starting", "greeting", "checking", "serving", "ended"}

News == {"granted", "ready", "inactive", "error"}

SessionTypes ==
    /\ current \in 1..(MaxSessions + 1)
    /\ mode \in {"idle", "joining", "connected"}
    /\ mapped \in PortSets /\ discovery \in PortSets /\ requested \in BOOLEAN
    /\ notice \in {"", "ready", "error"}
    /\ queue \in Seq(News)
    /\ qt \in {"free", "sending", "stopping", "stopping-linked", "joining-thread"}
    /\ overtaken \in BOOLEAN
    /\ limit \in [sessions : 1..MaxSessions, changes : Nat, faults : Nat]

ControllerTypes ==
    /\ attached \in [Controllers -> BOOLEAN] /\ connected \in [Controllers -> BOOLEAN]
    /\ failed \in [Controllers -> BOOLEAN] /\ stopping \in [Controllers -> BOOLEAN]
    /\ wanted \in [Controllers -> PortSets] /\ ready \in [Controllers -> PortSets]
    /\ config \in [Controllers -> PortSets]
    /\ thread \in [Controllers -> ThreadPhases]

Command == [kind : {"set", "stop"}, ports : PortSets]
Event == [kind : {"hello", "ready", "inactive", "error"}, ports : PortSets]

HelperTypes ==
    /\ listening \in [Controllers -> BOOLEAN] /\ linked \in [Controllers -> BOOLEAN]
    /\ shut \in [Controllers -> BOOLEAN]
    /\ toHelper \in [Controllers -> Seq(Command)]
    /\ toController \in [Controllers -> Seq(Event)]
    /\ helper \in [Controllers -> HelperPhases] /\ filter \in [Controllers -> PortSets]

TypeOK == SessionTypes /\ ControllerTypes /\ HelperTypes

Init ==
    /\ current = 1 /\ mode = "idle" /\ mapped = {} /\ requested = FALSE
    /\ discovery = {} /\ notice = "" /\ queue = <<>> /\ qt = "free"
    /\ attached = [c \in Controllers |-> TRUE]
    /\ wanted = [c \in Controllers |-> {}] /\ ready = [c \in Controllers |-> {}]
    /\ config = [c \in Controllers |-> {}] /\ filter = [c \in Controllers |-> {}]
    /\ connected = [c \in Controllers |-> FALSE]
    /\ failed = [c \in Controllers |-> FALSE]
    /\ stopping = [c \in Controllers |-> FALSE]
    /\ thread = [c \in Controllers |-> "none"]
    /\ helper = [c \in Controllers |-> "none"]
    /\ listening = [c \in Controllers |-> FALSE]
    /\ linked = [c \in Controllers |-> FALSE] /\ shut = [c \in Controllers |-> FALSE]
    /\ toHelper = [c \in Controllers |-> <<>>]
    /\ toController = [c \in Controllers |-> <<>>]
    /\ overtaken = FALSE /\ limit \in Mixes

Running(c) == thread[c] \notin {"none", "done"}

\* _status: the Qt thread gets the event unless detach came first.  (A callback
\* read just before is called while stop waits for the thread.)
Status(c, kind) ==
    queue' = IF attached[c] THEN Append(queue, kind) ELSE queue

\* _fail.
Fail(c) ==
    /\ failed' = [failed EXCEPT ![c] = TRUE]
    /\ ready' = [ready EXCEPT ![c] = {}]
    /\ Status(c, "error")

Send(c, kind, ports) ==
    toHelper' = [toHelper EXCEPT ![c] = Append(@, [kind |-> kind, ports |-> ports])]

Report(c, kind, ports) ==
    toController' = [toController EXCEPT ![c] =
                        Append(@, [kind |-> kind, ports |-> ports])]

\* A connection nobody accepted is reset with its listener.
Unlisten(c) ==
    /\ listening' = [listening EXCEPT ![c] = FALSE]
    /\ UNCHANGED linked

Spend(bound) ==
    /\ limit[bound] > 0
    /\ limit' = [limit EXCEPT ![bound] = @ - 1]
    /\ UNCHANGED overtaken

Change == Spend("changes")
Fault == Spend("faults")

-----------------------------------------------------------------------------
(* The session on the Qt thread. *)

\* _finish_join_config: the client's link is opened, and the host grants access.
\* The configuration came through the same queue, so no grant of an earlier
\* session is left in it.
StartJoin ==
    /\ qt = "free" /\ mode = "idle" /\ current <= limit.sessions
    /\ \A i \in DOMAIN queue : queue[i] # "granted"
    /\ mode' = "joining"
    /\ queue' = Append(queue, "granted")
    /\ UNCHANGED <<current, mapped, requested, discovery, notice, qt, flagVars, wanted,
                   connected, ready, thread, config, socketVars, pipeVars, helperVars,
                   boundVars>>

\* _sync_broadcast_redirector and the controller's update: the ports are set
\* under the lock; a connected helper is told in a step of its own, otherwise
\* a helper is started once.  _start fails when the driver files are damaged.
Sync(request, ports) ==
    LET c == current
        compatible == IF request THEN ports ELSE {}
        starts == compatible # {} /\ ~connected[c] /\ ~Running(c) /\ ~failed[c]
    IN  /\ requested' = request
        /\ mapped' = ports
        /\ discovery' = IF compatible = {} THEN {} ELSE discovery
        /\ wanted' = [wanted EXCEPT ![c] = compatible]
        /\ qt' = IF connected[c] THEN "sending" ELSE "free"
        /\ \/ /\ starts
              /\ thread' = [thread EXCEPT ![c] = "launching"]
              /\ listening' = [listening EXCEPT ![c] = TRUE]
              /\ UNCHANGED <<failed, ready, linked, shut>>
           \/ /\ starts
              /\ failed' = [failed EXCEPT ![c] = TRUE]
              /\ UNCHANGED <<thread, ready, socketVars>>
           \/ /\ ~starts
              /\ UNCHANGED <<thread, failed, ready, socketVars>>

\* A failed start is reported like any failure.
SyncStatus(rest) ==
    queue' = IF failed' # failed /\ attached[current] THEN Append(rest, "error") ELSE rest

\* The host's grant: the session is connected with its mappings.
Granted(ports, preferred) ==
    /\ qt = "free" /\ queue # <<>> /\ Head(queue) = "granted"
    /\ IF mode = "joining"
       THEN /\ mode' = "connected"
            /\ Sync(preferred, ports)
            /\ SyncStatus(Tail(queue))
       ELSE /\ queue' = Tail(queue)
            /\ UNCHANGED <<mode, mapped, requested, discovery, qt, wanted, thread,
                           failed, ready, socketVars>>
    /\ UNCHANGED <<current, notice, attached, stopping, connected, config, pipeVars,
                   helperVars, boundVars>>

\* A port is opened, closed or moved, the host changes its services, or the
\* access is granted anew, which changes nothing.
MappingsChange(ports) ==
    /\ qt = "free" /\ mode = "connected"
    /\ Change
    /\ Sync(requested, ports)
    /\ SyncStatus(queue)
    /\ UNCHANGED <<current, mode, notice, attached, stopping, connected, config,
                   pipeVars, helperVars>>

\* enable_lan_discovery, which needs a port, or a change of the preference.
WishChanges ==
    /\ qt = "free" /\ mode = "connected"
    /\ mapped # {} \/ requested
    /\ Change
    /\ Sync(~requested, mapped)
    /\ SyncStatus(queue)
    /\ UNCHANGED <<current, mode, notice, attached, stopping, connected, config,
                   pipeVars, helperVars>>

\* update's _send_config; the connection may have been closed meanwhile.
UpdateSends ==
    LET c == current
    IN  /\ qt = "sending"
        /\ qt' = "free"
        /\ IF shut[c] \/ helper[c] = "ended"
           THEN Fail(c) /\ UNCHANGED toHelper
           ELSE Send(c, "set", wanted[c]) /\ UNCHANGED <<failed, ready, queue>>
        /\ UNCHANGED <<sessionVars, attached, stopping, wanted, connected, thread,
                       config, socketVars, toController, helperVars, boundVars>>

\* _on_broadcast_status.
StatusArrives ==
    /\ qt = "free" /\ queue # <<>> /\ Head(queue) # "granted"
    /\ queue' = Tail(queue)
    /\ IF mode # "connected" THEN UNCHANGED <<discovery, notice>>
       ELSE IF Head(queue) = "ready"
       THEN discovery' = ready[current] /\ notice' = "ready"
       ELSE /\ discovery' = {}
            /\ notice' = IF Head(queue) = "error" THEN "error" ELSE notice
    /\ UNCHANGED <<current, mode, mapped, requested, qt, flagVars, wanted, connected,
                   ready, thread, config, socketVars, pipeVars, helperVars, boundVars>>

-----------------------------------------------------------------------------
(* SessionManager.stop: detach, the controller's stop, a fresh controller. *)

\* Faulty variant: the abandoned controller still reports.
StopBeginsAttached ==
    /\ qt = "free" /\ mode # "idle"
    /\ qt' = IF connected[current] THEN "stopping-linked" ELSE "stopping"
    /\ stopping' = [stopping EXCEPT ![current] = TRUE]
    /\ connected' = [connected EXCEPT ![current] = FALSE]
    /\ ready' = [ready EXCEPT ![current] = {}]
    /\ UNCHANGED <<sessionVars, queue, attached, failed, wanted, thread, config,
                   socketVars, pipeVars, helperVars, boundVars>>

\* detach and stop's first locked part.
StopBegins ==
    /\ qt = "free" /\ mode # "idle"
    /\ qt' = IF connected[current] THEN "stopping-linked" ELSE "stopping"
    /\ attached' = [attached EXCEPT ![current] = FALSE]
    /\ stopping' = [stopping EXCEPT ![current] = TRUE]
    /\ connected' = [connected EXCEPT ![current] = FALSE]
    /\ ready' = [ready EXCEPT ![current] = {}]
    /\ UNCHANGED <<sessionVars, queue, failed, wanted, thread, config, socketVars,
                   pipeVars, helperVars, boundVars>>

\* The helper is told to stop and both sockets are closed.
StopCloses ==
    LET c == current
    IN  /\ qt \in {"stopping", "stopping-linked"}
        /\ qt' = "joining-thread"
        /\ IF qt = "stopping-linked" /\ ~shut[c] /\ helper[c] # "ended"
           THEN Send(c, "stop", {}) ELSE UNCHANGED toHelper
        /\ shut' = [shut EXCEPT ![c] =
                       \/ @ \/ qt = "stopping-linked"
                       \/ linked[c] /\ thread[c] = "accepting"]
        /\ Unlisten(c)
        /\ UNCHANGED <<sessionVars, queue, flagVars, wanted, connected, ready, thread,
                       config, toController, helperVars, boundVars>>

\* The thread ended, or 1.5 s passed: stop resets the controller, and the
\* session gets a fresh one.
StopEnds ==
    LET c == current
    IN  /\ qt = "joining-thread"
        /\ qt' = "free"
        /\ wanted' = [wanted EXCEPT ![c] = {}]
        /\ failed' = [failed EXCEPT ![c] = FALSE]
        /\ stopping' = [stopping EXCEPT ![c] = FALSE]
        /\ current' = c + 1
        /\ mode' = "idle" /\ mapped' = {} /\ requested' = FALSE
        /\ discovery' = {} /\ notice' = ""
        /\ UNCHANGED <<queue, attached, connected, ready, thread, config, socketVars,
                       pipeVars, helperVars, boundVars>>

-----------------------------------------------------------------------------
(* The controller's thread: _launch_and_serve. *)

\* The elevation dialog is answered, whenever the user does.
Elevation(c) ==
    /\ thread[c] = "launching"
    /\ \/ /\ thread' = [thread EXCEPT ![c] = "accepting"]
          /\ helper' = [helper EXCEPT ![c] = "starting"]
       \/ /\ thread' = [thread EXCEPT ![c] = "failing"]
          /\ UNCHANGED helper
    /\ UNCHANGED <<sessionVars, queue, qt, flagVars, wanted, connected, ready, config,
                   socketVars, pipeVars, filter, boundVars>>

\* accept: a connection, a listener closed by stop, or no helper for 30 s,
\* because it is gone or slow to start.
Accept(c) ==
    /\ thread[c] = "accepting"
    /\ \/ /\ listening[c] /\ linked[c]
          /\ thread' = [thread EXCEPT ![c] = "greeting"]
          /\ UNCHANGED boundVars
       \/ /\ ~listening[c] \/ helper[c] = "ended"
          /\ thread' = [thread EXCEPT ![c] = "failing"]
          /\ UNCHANGED boundVars
       \/ /\ ~linked[c] /\ Fault
          /\ thread' = [thread EXCEPT ![c] = "failing"]
    /\ UNCHANGED <<sessionVars, queue, qt, flagVars, wanted, connected, ready, config,
                   socketVars, pipeVars, helperVars>>

\* The hello line, with whatever followed it in the same read, which is
\* dropped; a stop meanwhile ends the thread, otherwise the connection is
\* published.
Greet(c) ==
    /\ thread[c] = "greeting"
    /\ toController[c] # <<>>
    /\ \E n \in 1..Len(toController[c]) :
          toController' = [toController EXCEPT ![c] = SubSeq(@, n + 1, Len(@))]
    /\ IF stopping[c]
       THEN thread' = [thread EXCEPT ![c] = "ending"] /\ UNCHANGED connected
       ELSE /\ thread' = [thread EXCEPT ![c] = "reading-config"]
            /\ connected' = [connected EXCEPT ![c] = TRUE]
    /\ UNCHANGED <<sessionVars, queue, qt, flagVars, wanted, ready, config, socketVars,
                   toHelper, helperVars, boundVars>>

\* The helper is gone before its hello, or silent for 10 s.
GreetFails(c) ==
    /\ thread[c] = "greeting" /\ toController[c] = <<>>
    /\ \/ helper[c] = "ended" /\ UNCHANGED boundVars
       \/ helper[c] # "ended" /\ Fault
    /\ thread' = [thread EXCEPT ![c] = "failing"]
    /\ UNCHANGED <<sessionVars, queue, qt, flagVars, wanted, connected, ready, config,
                   socketVars, pipeVars, helperVars>>

\* _send_config's locked read.
ReadConfig(c) ==
    /\ thread[c] = "reading-config"
    /\ config' = [config EXCEPT ![c] = wanted[c]]
    /\ thread' = [thread EXCEPT ![c] = "sending-config"]
    /\ UNCHANGED <<sessionVars, queue, qt, flagVars, wanted, connected, ready,
                   socketVars, pipeVars, helperVars, boundVars>>

\* Its send, outside the lock.
SendConfig(c) ==
    /\ thread[c] = "sending-config"
    /\ IF shut[c] \/ helper[c] = "ended"
       THEN /\ thread' = [thread EXCEPT ![c] = "failing"]
            /\ UNCHANGED <<toHelper, overtaken>>
       ELSE /\ Send(c, "set", config[c])
            /\ thread' = [thread EXCEPT ![c] = "reading"]
            /\ overtaken' = (overtaken \/ config[c] # wanted[c])
    /\ UNCHANGED <<sessionVars, queue, qt, flagVars, wanted, connected, ready, config,
                   socketVars, toController, helperVars, limit>>

\* _read_events.
ReadEvent(c) ==
    LET event == Head(toController[c])
    IN  /\ thread[c] = "reading" /\ ~shut[c]
        /\ toController[c] # <<>>
        /\ toController' = [toController EXCEPT ![c] = Tail(@)]
        /\ \/ /\ event.kind \in {"ready", "inactive"}
              /\ ready' = [ready EXCEPT ![c] = event.ports]
              /\ Status(c, event.kind)
              /\ UNCHANGED thread
           \/ /\ event.kind = "error"
              /\ thread' = [thread EXCEPT ![c] = "failing"]
              /\ UNCHANGED <<ready, queue>>
        /\ UNCHANGED <<sessionVars, qt, flagVars, wanted, connected, config, socketVars,
                       toHelper, helperVars, boundVars>>

\* The helper closed the connection, or stop did.
ReadEnds(c) ==
    /\ thread[c] = "reading"
    /\ shut[c] \/ (helper[c] = "ended" /\ toController[c] = <<>>)
    /\ thread' = [thread EXCEPT ![c] = "failing"]
    /\ UNCHANGED <<sessionVars, queue, qt, flagVars, wanted, connected, ready, config,
                   socketVars, pipeVars, helperVars, boundVars>>

\* The exception handler: no failure is reported while stop runs.
ThreadFails(c) ==
    /\ thread[c] = "failing"
    /\ thread' = [thread EXCEPT ![c] = "ending"]
    /\ IF stopping[c] THEN UNCHANGED <<failed, ready, queue>> ELSE Fail(c)
    /\ UNCHANGED <<sessionVars, qt, attached, stopping, wanted, connected, config,
                   socketVars, pipeVars, helperVars, boundVars>>

\* Faulty variant: the connection stays open.
ThreadEndsLinked(c) ==
    /\ thread[c] = "ending"
    /\ thread' = [thread EXCEPT ![c] = "done"]
    /\ Unlisten(c)
    /\ connected' = [connected EXCEPT ![c] = FALSE]
    /\ ready' = [ready EXCEPT ![c] = {}]
    /\ UNCHANGED <<sessionVars, queue, qt, flagVars, wanted, config, shut, pipeVars,
                   helperVars, boundVars>>

\* The finally block.
ThreadEnds(c) ==
    /\ thread[c] = "ending"
    /\ thread' = [thread EXCEPT ![c] = "done"]
    /\ Unlisten(c)
    /\ shut' = [shut EXCEPT ![c] = @ \/ linked[c]]
    /\ connected' = [connected EXCEPT ![c] = FALSE]
    /\ ready' = [ready EXCEPT ![c] = {}]
    /\ UNCHANGED <<sessionVars, queue, qt, flagVars, wanted, config, pipeVars,
                   helperVars, boundVars>>

-----------------------------------------------------------------------------
(* The helper: main and RedirectWorker. *)

HelperConnects(c) ==
    /\ helper[c] = "starting"
    /\ \/ /\ listening[c]
          /\ linked' = [linked EXCEPT ![c] = TRUE]
          /\ helper' = [helper EXCEPT ![c] = "greeting"]
       \/ /\ ~listening[c]
          /\ helper' = [helper EXCEPT ![c] = "ended"]
          /\ UNCHANGED linked
    /\ UNCHANGED <<sessionVars, queue, qt, flagVars, wanted, connected, ready, thread,
                   config, listening, shut, pipeVars, filter, boundVars>>

\* hello.
HelperGreets(c) ==
    /\ helper[c] = "greeting"
    /\ \/ /\ ~shut[c]
          /\ Report(c, "hello", {})
          /\ helper' = [helper EXCEPT ![c] = "checking"]
       \/ /\ shut[c]
          /\ helper' = [helper EXCEPT ![c] = "ended"]
          /\ UNCHANGED toController
    /\ UNCHANGED <<sessionVars, queue, qt, flagVars, wanted, connected, ready, thread,
                   config, socketVars, toHelper, filter, boundVars>>

\* Administrator rights are checked, the driver is locked and loaded; a
\* failure is reported if the connection is still there.
HelperChecks(c) ==
    /\ helper[c] = "checking"
    /\ \/ /\ helper' = [helper EXCEPT ![c] = "serving"]
          /\ UNCHANGED <<toController, boundVars>>
       \/ /\ Fault
          /\ helper' = [helper EXCEPT ![c] = "ended"]
          /\ IF shut[c] THEN UNCHANGED toController ELSE Report(c, "error", {})
    /\ UNCHANGED <<sessionVars, queue, qt, flagVars, wanted, connected, ready, thread,
                   config, socketVars, toHelper, filter>>

\* Faulty variant: an empty configuration leaves the old filter running.
HelperSetsNonempty(c) ==
    LET ports == Head(toHelper[c]).ports
    IN  /\ helper[c] = "serving" /\ toHelper[c] # <<>>
        /\ Head(toHelper[c]).kind = "set"
        /\ toHelper' = [toHelper EXCEPT ![c] = Tail(@)]
        /\ filter' = [filter EXCEPT ![c] = IF ports = {} THEN @ ELSE ports]
        /\ Report(c, IF ports = {} THEN "inactive" ELSE "ready", ports)
        /\ UNCHANGED <<sessionVars, queue, qt, flagVars, wanted, connected, ready,
                       thread, config, socketVars, helper, boundVars>>

\* A set command replaces the filter, which may not open; nothing can be
\* reported over a closed connection.
HelperSets(c) ==
    LET ports == Head(toHelper[c]).ports
    IN  /\ helper[c] = "serving" /\ toHelper[c] # <<>>
        /\ Head(toHelper[c]).kind = "set"
        /\ toHelper' = [toHelper EXCEPT ![c] = Tail(@)]
        /\ IF shut[c]
           THEN /\ helper' = [helper EXCEPT ![c] = "ended"]
                /\ filter' = [filter EXCEPT ![c] = {}]
                /\ UNCHANGED <<toController, boundVars>>
           ELSE /\ UNCHANGED helper
                /\ \/ /\ filter' = [filter EXCEPT ![c] = ports]
                      /\ Report(c, IF ports = {} THEN "inactive" ELSE "ready", ports)
                      /\ UNCHANGED boundVars
                   \/ /\ ports # {} /\ Fault
                      /\ filter' = [filter EXCEPT ![c] = {}]
                      /\ Report(c, "error", {})
        /\ UNCHANGED <<sessionVars, queue, qt, flagVars, wanted, connected, ready,
                       thread, config, socketVars>>

\* A stop command, or the end of the connection.
HelperStops(c) ==
    /\ helper[c] = "serving"
    /\ \/ toHelper[c] # <<>> /\ Head(toHelper[c]).kind = "stop"
       \/ toHelper[c] = <<>> /\ shut[c]
    /\ helper' = [helper EXCEPT ![c] = "ended"]
    /\ filter' = [filter EXCEPT ![c] = {}]
    /\ UNCHANGED <<sessionVars, queue, qt, flagVars, wanted, connected, ready, thread,
                   config, socketVars, pipeVars, boundVars>>

\* The filter thread cannot receive or reinject a packet.
FilterFails(c) ==
    /\ helper[c] = "serving" /\ filter[c] # {} /\ ~shut[c]
    /\ Fault
    /\ filter' = [filter EXCEPT ![c] = {}]
    /\ Report(c, "error", {})
    /\ UNCHANGED <<sessionVars, queue, qt, flagVars, wanted, connected, ready, thread,
                   config, socketVars, toHelper, helper>>

\* The process is killed; Windows closes its filter and its socket.
HelperDies(c) ==
    /\ helper[c] \in {"starting", "greeting", "checking", "serving"}
    /\ Fault
    /\ helper' = [helper EXCEPT ![c] = "ended"]
    /\ filter' = [filter EXCEPT ![c] = {}]
    /\ UNCHANGED <<sessionVars, queue, qt, flagVars, wanted, connected, ready, thread,
                   config, socketVars, pipeVars>>

-----------------------------------------------------------------------------

QtStep == UpdateSends \/ StatusArrives \/ StopCloses \/ StopEnds

ThreadStep(c) ==
    \/ Accept(c)
    \/ Greet(c)
    \/ GreetFails(c)
    \/ ReadConfig(c)
    \/ SendConfig(c)
    \/ ReadEvent(c)
    \/ ReadEnds(c)
    \/ ThreadFails(c)
    \/ ThreadEnds(c)

HelperStep(c) ==
    \/ HelperConnects(c)
    \/ HelperGreets(c)
    \/ HelperChecks(c)
    \/ HelperSets(c)
    \/ HelperStops(c)

Next ==
    \/ StartJoin
    \/ \E ports \in PortSets :
          \/ \E preferred \in BOOLEAN : Granted(ports, preferred)
          \/ MappingsChange(ports)
    \/ WishChanges
    \/ StopBegins
    \/ QtStep
    \/ \E c \in Controllers :
          \/ Elevation(c)
          \/ ThreadStep(c)
          \/ HelperStep(c)
          \/ FilterFails(c) \/ HelperDies(c)

Spec == Init /\ [][Next]_vars

\* Threads and processes run; the user answers the elevation dialog, changes
\* the mappings and ends the session when it pleases, or never.
FairSpec ==
    /\ Spec
    /\ WF_vars(QtStep)
    /\ \A c \in Controllers : WF_vars(ThreadStep(c)) /\ WF_vars(HelperStep(c))

-----------------------------------------------------------------------------
(* Properties *)

\* An abandoned controller never speaks in the next session: the error notice
\* is shown only for a controller of this session that did fail (the comment
\* in stop, services.py 2529-2531).
NoLateNews ==
    notice = "error" /\ mode = "connected" /\ qt = "free" =>
        failed[current]

\* When a session's helper and its news have settled, its filter redirects
\* the ports the session wants, and these are the ports shown as active,
\* unless the thread's first configuration was sent after a newer one.
Settled(c) ==
    /\ qt = "free" /\ mode = "connected" /\ queue = <<>> /\ current = c
    /\ thread[c] = "reading" /\ helper[c] = "serving" /\ ~shut[c]
    /\ toHelper[c] = <<>> /\ toController[c] = <<>>

ExactPorts ==
    \A c \in Controllers :
        Settled(c) /\ ~overtaken => filter[c] = wanted[c] /\ discovery = filter[c]

\* A helper ends with its session, whatever its elevation dialog, its
\* handshake or its commands were doing, unless its controller took the
\* connection after stop had given up on the thread.
HelperStopsWithSession ==
    \A c \in Controllers :
        (c < current /\ helper[c] # "none") ~> (helper[c] = "ended" \/ connected[c])
=============================================================================
