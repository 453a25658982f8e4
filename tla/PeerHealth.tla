------------------------------ MODULE PeerHealth ------------------------------
(***************************************************************************)
(* Is a peer online?  (SteamyLan/tunnel.py ControlLink, and what           *)
(* SessionManager in services.py shows of it.)                             *)
(*                                                                         *)
(* The heartbeat thread of the control link sends a heartbeat every 2 s    *)
(* and reports a peer that was not heard of for 8 s; the receive thread    *)
(* reports a peer it hears of; the Qt thread links and unlinks peers.  A   *)
(* report changes the table of the link under its lock and goes to the     *)
(* session after the lock is released, so a thread can come in between: a  *)
(* report of the Qt thread is shown at once, one of another thread waits   *)
(* in the queue of the Qt thread (the AutoConnection of services.py:689).  *)
(* Peers are independent, so there is one.                                 *)
(***************************************************************************)
EXTENDS Naturals, Sequences

CONSTANTS
    Timeout,    \* heartbeats without a word until a peer is unresponsive
    Pings,      \* round-trip times
    Changes     \* the bounds to explore: how often each event may happen, how many
                \* reports may wait, and whether the link is a client's

ASSUME HealthAssumption == Timeout \in Nat /\ Pings \subseteq Nat

Threads == {"heartbeat", "receive", "qt"}

NoWord == "unknown"     \* nothing recorded
Unheard == Timeout + 2  \* never heard of

VARIABLES
    left,       \* how often each event may still happen, and the rest of the bounds
    started,    \* the link runs: _stop is not set
    answering,  \* the peer is there and the P2P session works
    linked,     \* it is in _peers
    ack,        \* an acknowledgement under way, and whether it is in
                \* _pending_heartbeats
    seen,       \* heartbeats since _last_seen, Unheard if there is none
    health,     \* _health: the ping and the state
    beating,    \* what the heartbeat thread read of the peer, and what is next
    hearing,    \* the ping the receive thread is about to report
    saying,     \* the report each thread is about to pass on
    late,       \* threads of a link that was stopped, which stop did not wait for
    reports,    \* the queue of the Qt thread
    shown,      \* _peer_health of SessionManager: the state
    overtaken   \* history: an older report was passed on after a newer one, or waits
                \*          in the queue while a newer one is shown already

healthVars == <<left, started, answering, linked, ack, seen, health, beating,
                hearing, saying, late, reports, shown, overtaken>>

States == {"connecting", "connected", "unresponsive"}
NoPing == 0
Report == [ping : Pings \cup {NoPing}, state : States]
Nothing == [ping |-> NoPing, state |-> "none"]
Beat == [next : {"rest", "judge", "send", "failed"}, linked : BOOLEAN,
         seen : 0 .. Unheard, ping : Pings \cup {NoPing}]
Resting == [next |-> "rest", linked |-> FALSE, seen |-> Unheard, ping |-> NoPing]

HealthTypeOK ==
    /\ {started, answering, linked, overtaken} \subseteq BOOLEAN
    /\ ack \in {"none", "awaited", "outdated"}
    /\ seen \in 0 .. Unheard
    /\ {health, hearing} \subseteq Report \cup {Nothing}
    /\ beating \in Beat
    /\ saying \in [Threads -> Report \cup {Nothing}]
    /\ late \subseteq {"heartbeat", "receive"}
    /\ reports \in Seq(Report)
    /\ shown \in States \cup {NoWord}

HealthInit ==
    /\ left \in Changes
    /\ started = FALSE
    /\ answering = TRUE
    /\ linked = FALSE
    /\ ack = "none"
    /\ seen = Unheard
    /\ health = Nothing
    /\ beating = Resting
    /\ hearing = Nothing
    /\ saying = [t \in Threads |-> Nothing]
    /\ late = {}
    /\ reports = <<>>
    /\ shown = NoWord
    /\ overtaken = FALSE

Happens(event) ==
    /\ left[event] > 0
    /\ left' = [left EXCEPT ![event] = @ - 1]

-----------------------------------------------------------------------------
(* Reports *)

Quiet(t) == saying[t] = Nothing

\* _report_health under the lock: the table is changed, and a change is told.
Tells(t, ping, state) ==
    LET report == [ping |-> ping, state |-> state]
    IN /\ Quiet(t)
       /\ health' = report
       /\ saying' = [saying EXCEPT ![t] = IF report = health THEN Nothing ELSE report]

\* on_health: the report is shown at once or queued, whatever the table says by now.
Say(t) ==
    /\ ~Quiet(t)
    /\ \/ /\ t = "qt"
          /\ shown' = saying[t].state
          /\ overtaken' = (saying[t] # health \/ reports # <<>>)
          /\ UNCHANGED reports
       \/ /\ t # "qt" /\ Len(reports) < left.queue
          /\ reports' = Append(reports, saying[t])
          /\ overtaken' = (saying[t] # health)
          /\ UNCHANGED shown
    /\ saying' = [saying EXCEPT ![t] = Nothing]
    /\ UNCHANGED <<left, started, answering, linked, ack, seen, health, beating,
                   hearing, late>>

\* A thread of an earlier link does what is left of its loop: its table is another.
SayLate(t) ==
    /\ t \in late /\ Len(reports) < left.queue
    /\ late' = late \ {t}
    /\ \E report \in Report :
           /\ report.state \in IF t = "receive" THEN {"connected"}
                                                ELSE {"connecting", "unresponsive"}
           /\ reports' = Append(reports, report)
           /\ overtaken' = (report # health)
    /\ UNCHANGED <<left, started, answering, linked, ack, seen, health, beating,
                   hearing, saying, shown>>

\* _on_peer_health
HandleReport ==
    /\ Quiet("qt")
    /\ reports # <<>>
    /\ shown' = Head(reports).state
    /\ reports' = Tail(reports)
    /\ UNCHANGED <<left, started, answering, linked, ack, seen, health, beating,
                   hearing, saying, overtaken, late>>

-----------------------------------------------------------------------------
(* The heartbeat thread *)

Older == IF seen < Timeout + 1 THEN seen + 1 ELSE seen

Outdated == IF ack = "awaited" THEN "outdated" ELSE ack

\* 2 s passed.  What is known of the peer is read under the lock; heartbeats
\* older than 8 s are forgotten.
BeatReads ==
    /\ started
    /\ beating.next = "rest" /\ Quiet("heartbeat")
    /\ seen' = Older
    /\ beating' = [next |-> "judge", linked |-> linked, seen |-> Older,
                   ping |-> health.ping]
    /\ ack' \in {ack, Outdated}
    /\ UNCHANGED <<left, started, answering, linked, health, hearing, saying, reports,
                   shown, overtaken, late>>

Judged == beating.linked /\ beating.seen = Timeout + 1

\* A peer that was not heard of is unresponsive.
BeatJudges ==
    /\ beating.next = "judge"
    /\ IF Judged THEN Tells("heartbeat", beating.ping, "unresponsive")
       ELSE UNCHANGED <<health, saying>>
    /\ beating' = [beating EXCEPT !.next = IF beating.linked THEN "send" ELSE "rest"]
    /\ UNCHANGED <<left, started, answering, linked, ack, seen, hearing, reports,
                   shown, overtaken, late>>

\* Faulty variant: sending marks the peer as seen.
BeatSendsSeen ==
    /\ beating.next = "send" /\ Quiet("heartbeat")
    /\ ack' = IF answering /\ ack = "none" THEN "awaited" ELSE ack
    /\ seen' = 0
    /\ beating' = Resting
    /\ UNCHANGED <<left, started, answering, linked, health, hearing, saying, reports,
                   shown, overtaken, late>>

\* The heartbeat is sent, then recorded.  Steam takes it even for a peer that
\* does not answer, or refuses it; nothing is sent once the link is stopped.
BeatSends ==
    /\ beating.next = "send" /\ Quiet("heartbeat")
    /\ \/ /\ started
          /\ ack' = IF answering /\ ack = "none" THEN "awaited" ELSE ack
          /\ beating' = Resting
       \/ /\ ~answering \/ ~started
          /\ beating' = IF beating.seen = Unheard THEN [beating EXCEPT !.next = "failed"]
                                                  ELSE Resting
          /\ UNCHANGED ack
    /\ UNCHANGED <<left, started, answering, linked, seen, health, hearing, saying, reports,
                   shown, overtaken, late>>

\* It could not be sent, and the peer was never heard of.
BeatFails ==
    /\ beating.next = "failed"
    /\ Tells("heartbeat", NoPing, "connecting")
    /\ beating' = Resting
    /\ UNCHANGED <<left, started, answering, linked, ack, seen, hearing, reports,
                   shown, overtaken, late>>

-----------------------------------------------------------------------------
(* The receive thread *)

\* _mark_seen: the time, and the ping to keep, under the lock.
Hears(ping) ==
    /\ hearing = Nothing /\ Quiet("receive")
    /\ seen' = 0
    /\ hearing' = [ping |-> ping, state |-> "connected"]

\* A heartbeat of the peer, or another message it sends.
HearPeer ==
    /\ started /\ answering
    /\ Hears(health.ping)
    /\ UNCHANGED <<left, started, answering, linked, ack, health, beating, saying,
                   reports, shown, overtaken, late>>

\* An acknowledgement counts if its heartbeat is still awaited.
HearAck ==
    /\ started
    /\ \/ /\ ack = "awaited"
          /\ \E ping \in Pings : Hears(ping)
       \/ /\ ack = "outdated"
          /\ hearing = Nothing /\ Quiet("receive")
          /\ UNCHANGED <<seen, hearing>>
    /\ ack' = "none"
    /\ UNCHANGED <<left, started, answering, linked, health, beating, saying, reports,
                   shown, overtaken, late>>

HearTells ==
    /\ hearing # Nothing
    /\ Tells("receive", hearing.ping, "connected")
    /\ hearing' = Nothing
    /\ UNCHANGED <<left, started, answering, linked, ack, seen, beating, reports,
                   shown, overtaken, late>>

-----------------------------------------------------------------------------
(* The Qt thread, and the network *)

AtWork(t) ==
    \/ ~Quiet(t)
    \/ t = "heartbeat" /\ beating # Resting
    \/ t = "receive" /\ hearing # Nothing

\* start, of a new link with tables of its own.  The stop of the one before waited
\* 0.25 s for each of its threads.  A client's link has its host from the beginning.
Start ==
    /\ ~started
    /\ Quiet("qt")
    /\ Happens("starts")
    /\ started' = TRUE
    /\ late' = late \cup {t \in {"heartbeat", "receive"} : AtWork(t)}
    /\ beating' = Resting
    /\ hearing' = Nothing
    /\ LET report == [ping |-> NoPing, state |-> "connecting"]
           quiet == [t \in Threads |-> Nothing]
       IN  \/ /\ ~left.client
              /\ linked' = FALSE /\ health' = Nothing /\ saying' = quiet
           \/ /\ left.client
              /\ linked' = TRUE /\ health' = report
              /\ saying' = [quiet EXCEPT !["qt"] = report]
    /\ seen' = Unheard
    /\ ack' = "none"
    /\ UNCHANGED <<answering, reports, shown, overtaken>>

\* stop, with what SessionManager.stop forgets.  A thread may be at work, and
\* may still report.
Stop ==
    /\ started
    /\ Quiet("qt")
    /\ Happens("stops")
    /\ started' = FALSE
    /\ linked' = FALSE
    /\ seen' = Unheard
    /\ health' = Nothing
    /\ ack' = Outdated
    /\ shown' = NoWord
    /\ UNCHANGED <<answering, beating, hearing, saying, reports, overtaken, late>>

\* add_peer, when the host lets a peer in, or at its request.
Link(t) ==
    /\ started /\ ~linked /\ ~left.client
    /\ t \in {"qt", "receive"}
    /\ t = "receive" => answering /\ hearing = Nothing
    /\ Happens("links")
    /\ linked' = TRUE
    /\ Tells(t, NoPing, "connecting")
    /\ UNCHANGED <<started, answering, ack, seen, beating, hearing, reports, shown,
                   overtaken, late>>

\* remove_peer, with _stop_peer_engines, which forgets what is shown.
Unlink ==
    /\ linked /\ ~left.client
    /\ Quiet("qt")
    /\ Happens("unlinks")
    /\ linked' = FALSE
    /\ seen' = Unheard
    /\ health' = Nothing
    /\ ack' = Outdated
    /\ shown' = NoWord
    /\ UNCHANGED <<started, answering, beating, hearing, saying, reports, overtaken, late>>

\* reconnect of a client, after a P2P failure.
Reconnect ==
    /\ linked /\ left.client
    /\ Quiet("qt")
    /\ Happens("reconnects")
    /\ Tells("qt", NoPing, "connecting")
    /\ UNCHANGED <<started, answering, linked, ack, seen, beating, hearing, reports,
                   shown, overtaken, late>>

\* reconfigure_server of a host: the engines are stopped, and with them goes what is
\* shown, until the next report.
Rebuild ==
    /\ linked /\ ~left.client
    /\ Quiet("qt")
    /\ Happens("rebuilds")
    /\ shown' = NoWord
    /\ UNCHANGED <<started, answering, linked, ack, seen, health, beating, hearing,
                   saying, reports, overtaken, late>>

\* The peer, or the way to it, comes and goes.
Network ==
    /\ Happens("outages")
    /\ answering' = ~answering
    /\ ack' \in {ack, "none"}
    /\ UNCHANGED <<started, linked, seen, health, beating, hearing, saying, reports,
                   shown, overtaken, late>>

HealthNext ==
    \/ \E t \in Threads : Say(t) \/ SayLate(t) \/ Link(t)
    \/ HandleReport
    \/ BeatReads \/ BeatJudges \/ BeatSends \/ BeatFails
    \/ HearPeer \/ HearAck \/ HearTells
    \/ Start \/ Stop \/ Unlink \/ Reconnect \/ Rebuild \/ Network

HealthSpec == HealthInit /\ [][HealthNext]_healthVars

\* The threads run, the heartbeats of a peer that is there arrive, and the Qt
\* thread takes what is queued.
HealthFairness ==
    /\ \A t \in Threads : WF_healthVars(Say(t))
    /\ WF_healthVars(HandleReport)
    /\ WF_healthVars(BeatReads) /\ WF_healthVars(BeatJudges)
    /\ WF_healthVars(BeatSends) /\ WF_healthVars(BeatFails)
    /\ WF_healthVars(HearPeer) /\ WF_healthVars(HearAck) /\ WF_healthVars(HearTells)

-----------------------------------------------------------------------------
(* Properties *)

Settled == reports = <<>> /\ \A t \in Threads : Quiet(t)

\* Once all reports are taken, the session shows what the link knows.  The
\* exceptions are a report that was shown after a newer one, which the Qt thread
\* passed on ahead of it or which was changed under the lock before it, and a rebuilt
\* session, which shows nothing until the next change.  (tunnel.py _report_health;
\* services.py _on_peer_health.)
ShownIsKnown ==
    Settled /\ linked /\ ~overtaken /\ shown # NoWord => shown = health.state

\* So it is, and a linked peer that stays silent does not stay online, and one
\* that is there does not stay offline, unless it was unlinked between the two
\* halves of _mark_seen.  (tunnel.py _heartbeat_loop, _mark_seen.)
HealthIsShown ==
    /\ []ShownIsKnown
    /\ []<>(linked /\ seen # Unheard /\ ~answering /\ ~overtaken => shown # "connected")
    /\ []<>(linked /\ answering /\ ~overtaken => shown \in {"connected", NoWord})
=============================================================================
