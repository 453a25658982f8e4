----------------------------- MODULE HostSession -----------------------------
(***************************************************************************)
(* The host side of a lobby: who may use the shared server                 *)
(* (SteamyLan/services.py SessionManager, with the host role of ControlLink *)
(* in tunnel.py and LobbyMembershipGuard in peer_guard.py).                *)
(*                                                                         *)
(* Every slot and timer of SessionManager runs on the Qt thread, so each   *)
(* handler is one action.  The receive thread of the control link is a     *)
(* second actor: it links the sender of an AUTH_REQUEST at once and queues *)
(* the request for the Qt thread.  Peers are unconstrained: any of them    *)
(* may send any request or acknowledgement at any time.  Delayed work      *)
(* (QTimer.singleShot) outlives the decision that scheduled it, and even   *)
(* the session, so it is kept in a set of its own.                         *)
(*                                                                         *)
(* Opening and closing the Steam P2P session of a peer has no effect on    *)
(* the host's own state and is left out.                                   *)
(***************************************************************************)
EXTENDS Naturals, FiniteSets

CONSTANTS
    Peers,          \* remote Steam users
    Friends,        \* those for whom is_immediate_friend holds
    Visibilities,   \* the lobby visibilities the host chooses from
    MaxQueued       \* bound: requests of one peer waiting for the Qt thread

ASSUME HostAssumption ==
    /\ Friends \subseteq Peers
    /\ Visibilities \subseteq {"public", "friends", "invite"}
    /\ MaxQueued \in Nat

VARIABLES
    mode,        \* _snapshot.mode, of the modes a host goes through
    visibility,  \* _config.visibility
    locked,      \* whether _config.password_salt is set
    autoAllow,   \* prefs.auto_allow_friends
    allowed,     \* AccessStore: peers the user chose to remember (on disk)
    roster,      \* what lobby_members returns: Steam's local member cache
    linked,      \* _host_control._peers: peers that are sent heartbeats
    engines,     \* keys of _peer_engines: peers with running tunnels
    chat,        \* _chat._authorized
    pending,     \* _pending_approvals
    kicked,      \* _kicked_members
    acked,       \* _disconnect_acked
    guard,       \* keys of _membership_guard._first_seen
    requests,    \* the AUTH_REQUEST of each peer queued for the Qt thread
    timers,      \* single-shot timers that have not fired
    told,        \* the last access message sent to each peer this session
    proved       \* history: peers whose proofs passed under the current settings

settings == <<visibility, locked, autoAllow>>
vars == <<mode, settings, allowed, roster, linked, engines, chat, pending,
          kicked, acked, guard, requests, timers, told, proved>>

\* What the checks of _on_auth_request tell apart in an auth payload: its
\* share-code proof, if it has one, and whether its password proof is right.
Request == [code : {"none", "good", "bad"}, passwordOk : BOOLEAN]

TimerKinds == {"noticeAgain", "kickAgain", "unlink"}

Messages == {"nothing", "granted", "denied", "revoked", "disconnected"}

TypeOK ==
    /\ mode \in {"idle", "starting", "sharing"}
    /\ visibility \in Visibilities
    /\ locked \in BOOLEAN
    /\ autoAllow \in BOOLEAN
    /\ allowed \in SUBSET Peers
    /\ roster \in SUBSET Peers
    /\ linked \in SUBSET Peers
    /\ engines \in SUBSET Peers
    /\ chat \in SUBSET Peers
    /\ pending \in SUBSET Peers
    /\ kicked \in SUBSET Peers
    /\ acked \in SUBSET Peers
    /\ guard \in SUBSET Peers
    /\ requests \in [Peers -> SUBSET Request]
    /\ timers \in SUBSET (Peers \X TimerKinds)
    /\ told \in [Peers -> Messages]
    /\ proved \in SUBSET Peers

Init ==
    /\ mode = "idle"
    /\ visibility \in Visibilities
    /\ locked = FALSE
    /\ autoAllow \in BOOLEAN
    /\ allowed = {}
    /\ roster = {}
    /\ linked = {}
    /\ engines = {}
    /\ chat = {}
    /\ pending = {}
    /\ kicked = {}
    /\ acked = {}
    /\ guard = {}
    /\ requests = [p \in Peers |-> {}]
    /\ timers = {}
    /\ told = [p \in Peers |-> "nothing"]
    /\ proved = {}

-----------------------------------------------------------------------------
(* Starting and stopping *)

Share ==
    /\ mode = "idle"
    /\ mode' = "starting"
    /\ UNCHANGED <<settings, allowed, roster, linked, engines, chat, pending,
                   kicked, acked, guard, requests, timers, told, proved>>

\* _finish_share: Steam created the lobby and took its metadata.
LobbyCreated(v, l) ==
    /\ mode = "starting"
    /\ mode' = "sharing"
    /\ visibility' = v
    /\ locked' = l
    /\ kicked' = {}
    /\ guard' = {}
    /\ told' = [p \in Peers |-> "nothing"]
    /\ UNCHANGED <<autoAllow, allowed, roster, linked, engines, chat, pending,
                   acked, requests, timers, proved>>

\* _finish_share: no lobby, or its metadata was refused.
LobbyRefused ==
    /\ mode = "starting"
    /\ mode' = "idle"
    /\ UNCHANGED <<settings, allowed, roster, linked, engines, chat, pending,
                   kicked, acked, guard, requests, timers, told, proved>>

\* Both proofs are bound to the session identifier: they fail in any other.
Outdated(r) == [code |-> IF r.code = "none" THEN "none" ELSE "bad",
                passwordOk |-> FALSE]

\* stop: the peers with tunnels are told, then everything is dropped.  Queued
\* requests and timers are not cancelled.
Stop ==
    /\ mode # "idle"
    /\ mode' = "idle"
    /\ told' = [p \in Peers |-> IF p \in engines THEN "disconnected" ELSE told[p]]
    /\ roster' = {}
    /\ linked' = {}
    /\ engines' = {}
    /\ chat' = {}
    /\ pending' = {}
    /\ kicked' = {}
    /\ acked' = {}
    /\ guard' = {}
    /\ requests' = [p \in Peers |-> {Outdated(r) : r \in requests[p]}]
    /\ proved' = {}
    /\ UNCHANGED <<settings, allowed, timers>>

SetAutoAllow ==
    /\ autoAllow' = ~autoAllow
    /\ UNCHANGED <<mode, visibility, locked, allowed, roster, linked, engines,
                   chat, pending, kicked, acked, guard, requests, timers, told,
                   proved>>

-----------------------------------------------------------------------------
(* Steam's member cache.  It trails the lobby and may briefly lack members. *)

RosterChange(p) ==
    /\ mode = "sharing"
    /\ roster' \in {roster \cup {p}, roster \ {p}}
    /\ UNCHANGED <<mode, settings, allowed, linked, engines, chat, pending,
                   kicked, acked, guard, requests, timers, told, proved>>

\* _lobby_membership_state: the verdict, and what it does to the grace windows.
\* The 10 s window may be over at any check after the one that opened it.
Membership(p, verdict) ==
    \/ /\ verdict = "member"
       /\ p \in roster
       /\ guard' = guard \ {p}
    \/ /\ verdict = "syncing"
       /\ p \notin roster
       /\ guard' = guard \cup {p}
    \/ /\ verdict = "absent"
       /\ p \notin roster
       /\ p \in guard
       /\ guard' = guard \ {p}

-----------------------------------------------------------------------------
(* Requests *)

\* The control link's receive thread: add_peer, then a queued signal.
ReceiveAuthRequest(p, r) ==
    /\ mode = "sharing"
    /\ Cardinality(requests[p]) < MaxQueued
    /\ requests' = [requests EXCEPT ![p] = @ \cup {r}]
    /\ linked' = linked \cup {p}
    /\ UNCHANGED <<mode, settings, allowed, roster, engines, chat, pending,
                   kicked, acked, guard, timers, told, proved>>

TakeRequest(p, r) ==
    /\ r \in requests[p]
    /\ requests' = [requests EXCEPT ![p] = @ \ {r}]

Tell(p, message) == told' = [told EXCEPT ![p] = message]

\* A request that survived its session.
IgnoreRequest(p, r) ==
    /\ TakeRequest(p, r)
    /\ mode # "sharing"
    /\ UNCHANGED <<mode, settings, allowed, roster, linked, engines, chat,
                   pending, kicked, acked, guard, timers, told, proved>>

RefuseKicked(p, r) ==
    /\ TakeRequest(p, r)
    /\ mode = "sharing"
    /\ p \in kicked
    /\ guard' = guard \ {p}
    /\ Tell(p, "denied")
    /\ UNCHANGED <<mode, settings, allowed, roster, linked, engines, chat,
                   pending, kicked, acked, timers, proved>>

\* Membership not settled: the client asks again in 1.5 s.
DeferRequest(p, r) ==
    /\ TakeRequest(p, r)
    /\ mode = "sharing"
    /\ p \notin kicked
    /\ Membership(p, "syncing")
    /\ UNCHANGED <<mode, settings, allowed, roster, linked, engines, chat,
                   pending, kicked, acked, timers, told, proved>>

RefuseAbsent(p, r) ==
    /\ TakeRequest(p, r)
    /\ mode = "sharing"
    /\ p \notin kicked
    /\ Membership(p, "absent")
    /\ Tell(p, "denied")
    /\ UNCHANGED <<mode, settings, allowed, roster, linked, engines, chat,
                   pending, kicked, acked, timers, proved>>

VisibleTo(p) == visibility = "friends" => p \in Friends

ProofsPass(r) == r.code # "bad" /\ (locked => r.passwordOk)

RefuseMember(p, r) ==
    /\ TakeRequest(p, r)
    /\ mode = "sharing"
    /\ p \notin kicked
    /\ Membership(p, "member")
    /\ ~(VisibleTo(p) /\ ProofsPass(r))
    /\ Tell(p, "denied")
    /\ UNCHANGED <<mode, settings, allowed, roster, linked, engines, chat,
                   pending, kicked, acked, timers, proved>>

Admissible(p, r) ==
    /\ TakeRequest(p, r)
    /\ mode = "sharing"
    /\ p \notin kicked
    /\ Membership(p, "member")
    /\ VisibleTo(p)
    /\ ProofsPass(r)
    /\ proved' = proved \cup {p}

\* _grant_peer from the point where the peer has, or is given, its tunnels.
OpenAccess(p) ==
    /\ engines' = engines \cup {p}
    /\ chat' = chat \cup {p}
    /\ linked' = linked \cup {p}
    /\ Tell(p, "granted")

RenewGrant(p, r) ==
    /\ Admissible(p, r)
    /\ p \in engines
    /\ OpenAccess(p)
    /\ UNCHANGED <<mode, settings, allowed, roster, pending, kicked, acked, timers>>

Approved(p) == visibility \in {"public", "invite"} \/ autoAllow \/ p \in allowed

\* Faulty variant: the row of a peer let in by a changed setting stays.
GrantRequestKeepingPrompt(p, r) ==
    /\ Admissible(p, r)
    /\ p \notin engines
    /\ Approved(p)
    /\ OpenAccess(p)
    /\ UNCHANGED <<mode, settings, allowed, roster, pending, kicked, acked, timers>>

GrantRequest(p, r) ==
    /\ Admissible(p, r)
    /\ p \notin engines
    /\ Approved(p)
    /\ \/ /\ OpenAccess(p)
          /\ pending' = pending \ {p}
       \/ \* the tunnels could not be started
          /\ Tell(p, "denied")
          /\ UNCHANGED <<engines, chat, linked, pending>>
    /\ UNCHANGED <<mode, settings, allowed, roster, kicked, acked, timers>>

AskHost(p, r) ==
    /\ Admissible(p, r)
    /\ p \notin engines
    /\ ~Approved(p)
    /\ pending' = pending \cup {p}
    /\ UNCHANGED <<mode, settings, allowed, roster, linked, engines, chat,
                   kicked, acked, timers, told>>

\* _on_auth_request
HandleRequest(p, r) ==
    \/ IgnoreRequest(p, r)
    \/ RefuseKicked(p, r)
    \/ DeferRequest(p, r)
    \/ RefuseAbsent(p, r)
    \/ RefuseMember(p, r)
    \/ RenewGrant(p, r)
    \/ GrantRequest(p, r)
    \/ AskHost(p, r)

-----------------------------------------------------------------------------
(* The user's decisions.  A pending row offers Allow and Don't Allow; the   *)
(* other actions are reached through menus and modal questions, so the peer *)
(* they are for may have left, returned or asked again in the meantime.     *)

\* allow_peer on a row that is still pending.
Allow(p) ==
    /\ mode = "sharing"
    /\ p \in pending
    /\ \/ \* still synchronizing: the row stays
          /\ Membership(p, "syncing")
          /\ UNCHANGED <<allowed, linked, engines, chat, pending, told>>
       \/ /\ \/ Membership(p, "absent")
             \/ Membership(p, "member") /\ ~VisibleTo(p)
          /\ pending' = pending \ {p}
          /\ Tell(p, "denied")
          /\ UNCHANGED <<allowed, linked, engines, chat>>
       \/ /\ Membership(p, "member")
          /\ VisibleTo(p)
          /\ OpenAccess(p)
          /\ pending' = IF p \in engines THEN pending ELSE pending \ {p}
          /\ allowed' = allowed \cup {p}
       \/ \* the tunnels could not be started
          /\ Membership(p, "member")
          /\ VisibleTo(p)
          /\ p \notin engines
          /\ Tell(p, "denied")
          /\ UNCHANGED <<allowed, linked, engines, chat, pending>>
    /\ UNCHANGED <<mode, settings, roster, kicked, acked, requests, timers, proved>>

Deny(p) ==
    /\ mode = "sharing"
    /\ p \in pending
    /\ pending' = pending \ {p}
    /\ Tell(p, "denied")
    /\ linked' = linked \ {p}
    /\ UNCHANGED <<mode, settings, allowed, roster, engines, chat, kicked,
                   acked, guard, requests, timers, proved>>

Disconnect(p) ==
    /\ mode = "sharing"
    /\ acked' = acked \ {p}
    /\ Tell(p, "disconnected")
    /\ timers' = timers \cup {<<p, "noticeAgain">>}
    /\ chat' = chat \ {p}
    /\ engines' = engines \ {p}
    /\ UNCHANGED <<mode, settings, allowed, roster, linked, pending, kicked,
                   guard, requests, proved>>

\* remove_access; the session may be over when the question is answered.
RemoveAccess(p) ==
    /\ allowed' = allowed \ {p}
    /\ pending' = pending \ {p}
    /\ chat' = chat \ {p}
    /\ engines' = engines \ {p}
    /\ linked' = linked \ {p}
    /\ IF mode = "sharing" THEN Tell(p, "revoked") ELSE UNCHANGED told
    /\ UNCHANGED <<mode, settings, roster, kicked, acked, guard, requests,
                   timers, proved>>

\* Faulty variant: the row of a kicked peer stays.
KickKeepingPrompt(p) ==
    /\ mode = "sharing"
    /\ acked' = acked \ {p}
    /\ kicked' = kicked \cup {p}
    /\ guard' = guard \ {p}
    /\ Tell(p, "disconnected")
    /\ timers' = timers \cup {<<p, "kickAgain">>}
    /\ chat' = chat \ {p}
    /\ engines' = engines \ {p}
    /\ UNCHANGED <<mode, settings, allowed, roster, linked, pending, requests,
                   proved>>

Kick(p) ==
    /\ mode = "sharing"
    /\ acked' = acked \ {p}
    /\ kicked' = kicked \cup {p}
    /\ guard' = guard \ {p}
    /\ pending' = pending \ {p}
    /\ Tell(p, "disconnected")
    /\ timers' = timers \cup {<<p, "kickAgain">>}
    /\ chat' = chat \ {p}
    /\ engines' = engines \ {p}
    /\ UNCHANGED <<mode, settings, allowed, roster, linked, requests, proved>>

\* reconfigure_server.  A new password voids password proofs, and giving up a
\* fixed share code voids the proofs made from it.  If the shared ports change,
\* the tunnels of every peer are restarted and some may fail to start.
Voided(r, newPassword, codeDropped) ==
    [code |-> IF codeDropped /\ r.code = "good" THEN "bad" ELSE r.code,
     passwordOk |-> r.passwordOk /\ ~newPassword]

\* Faulty variant: rows survive the settings their requests were checked under.
ReconfigureKeepingPrompts(v, password, codeDropped, failed) ==
    /\ mode = "sharing"
    /\ failed \subseteq engines
    /\ visibility' = v
    /\ locked' = IF password = "keep" THEN locked ELSE password = "new"
    /\ engines' = engines \ failed
    /\ chat' = chat \cup engines
    /\ requests' = [p \in Peers |->
                      {Voided(r, password = "new", codeDropped) : r \in requests[p]}]
    /\ proved' = {}
    /\ UNCHANGED <<mode, autoAllow, allowed, roster, linked, pending, kicked,
                   acked, guard, timers, told>>

Reconfigure(v, password, codeDropped, failed) ==
    /\ mode = "sharing"
    /\ failed \subseteq engines
    /\ visibility' = v
    /\ locked' = IF password = "keep" THEN locked ELSE password = "new"
    /\ engines' = engines \ failed
    /\ chat' = chat \cup engines
    /\ pending' = {}
    /\ requests' = [p \in Peers |->
                      {Voided(r, password = "new", codeDropped) : r \in requests[p]}]
    /\ proved' = {}
    /\ UNCHANGED <<mode, autoAllow, allowed, roster, linked, kicked, acked,
                   guard, timers, told>>

-----------------------------------------------------------------------------
(* Acknowledgements, timers and the member check *)

\* Faulty variant: acknowledgements count after the session, too.
ReceiveDisconnectAckAnytime(p) ==
    /\ p \notin engines \/ p \in kicked
    /\ acked' = acked \cup {p}
    /\ UNCHANGED <<mode, settings, allowed, roster, linked, engines, chat,
                   pending, kicked, guard, requests, timers, told, proved>>

\* _on_disconnect_ack
ReceiveDisconnectAck(p) ==
    /\ mode = "sharing"
    /\ p \notin engines \/ p \in kicked
    /\ acked' = acked \cup {p}
    /\ UNCHANGED <<mode, settings, allowed, roster, linked, engines, chat,
                   pending, kicked, guard, requests, timers, told, proved>>

\* _repeat_disconnect_notice, 350 ms after the first notice.
RepeatNotice(p, timer) ==
    /\ <<p, timer>> \in timers
    /\ timer \in {"noticeAgain", "kickAgain"}
    /\ timers' = (timers \ {<<p, timer>>}) \cup {<<p, "unlink">>}
    /\ IF /\ mode = "sharing"
          /\ p \notin acked
          /\ timer = "kickAgain" => p \in kicked
       THEN Tell(p, "disconnected")
       ELSE UNCHANGED told
    /\ UNCHANGED <<mode, settings, allowed, roster, linked, engines, chat,
                   pending, kicked, acked, guard, requests, proved>>

\* 1 s after the first notice: remove_peer on whatever link is then in use.
Unlink(p) ==
    /\ <<p, "unlink">> \in timers
    /\ timers' = timers \ {<<p, "unlink">>}
    /\ linked' = linked \ {p}
    /\ UNCHANGED <<mode, settings, allowed, roster, engines, chat, pending,
                   kicked, acked, guard, requests, told, proved>>

\* Faulty variant: rows of members that left stay.
CheckMembersKeepingPrompts ==
    /\ mode = "sharing"
    /\ LET gone == engines \ roster IN
          /\ engines' = engines \ gone
          /\ chat' = chat \ gone
          /\ linked' = linked \ gone
    /\ UNCHANGED <<mode, settings, allowed, roster, pending, kicked, acked,
                   guard, requests, timers, told, proved>>

\* _check_members, every second.
CheckMembers ==
    /\ mode = "sharing"
    /\ LET gone == engines \ roster IN
          /\ engines' = engines \ gone
          /\ chat' = chat \ gone
          /\ linked' = linked \ gone
    /\ pending' = pending \cap roster
    /\ UNCHANGED <<mode, settings, allowed, roster, kicked, acked, guard,
                   requests, timers, told, proved>>

-----------------------------------------------------------------------------

Lifecycle ==
    \/ Share
    \/ \E v \in Visibilities, l \in BOOLEAN : LobbyCreated(v, l)
    \/ LobbyRefused
    \/ Stop
    \/ SetAutoAllow

Handler(p) == \E r \in requests[p] : HandleRequest(p, r)

User(p) == Allow(p) \/ Deny(p) \/ Disconnect(p) \/ RemoveAccess(p) \/ Kick(p)

Peer(p) ==
    \/ \E r \in Request : ReceiveAuthRequest(p, r)
    \/ ReceiveDisconnectAck(p)
    \/ RosterChange(p)

Timer(p) ==
    \/ \E timer \in {"noticeAgain", "kickAgain"} : RepeatNotice(p, timer)
    \/ Unlink(p)

Next ==
    \/ Lifecycle
    \/ \E p \in Peers : Handler(p) \/ User(p) \/ Peer(p) \/ Timer(p)
    \/ \E v \in Visibilities, password \in {"keep", "off", "new"},
          codeDropped \in BOOLEAN, failed \in SUBSET engines :
              Reconfigure(v, password, codeDropped, failed)
    \/ CheckMembers

Spec == Init /\ [][Next]_vars

\* _member_timer keeps firing while a lobby is shared.
FairSpec == Spec /\ WF_vars(CheckMembers)

-----------------------------------------------------------------------------
(* Properties *)

\* A kick holds for the rest of the session, whatever the peer sends, the
\* user clicks or a delayed timer does: the peer has no tunnel, no chat and no
\* row to allow it from, and the last thing it was told is that it is out.
\* (_grant_peer does not look at _kicked_members: this rests on every way in.)
KickedStayOut ==
    mode = "sharing" => /\ kicked \cap (engines \cup chat \cup pending) = {}
                        /\ \A p \in kicked : told[p] \in {"disconnected", "denied", "revoked"}

\* Whoever has tunnels is also authorized for the lobby chat, through every
\* grant, renewal and reconfiguration.
TunnelsComeWithChat == engines \subseteq chat

\* The host is never asked about a peer that already has access.
NoPromptForMembers == pending \cap engines = {}

\* Both: whatever opens, renews, rebuilds or ends the access of a peer leaves its
\* tunnels, its chat and its row in step (_grant_peer, reconfigure_server).
MembersAreServed == TunnelsComeWithChat /\ NoPromptForMembers

\* Access, rows, links, kicks and acknowledgements end with the session: what
\* was queued or delayed when it stopped brings none of them back.
NothingOutlivesSession ==
    mode # "sharing" => linked = {} /\ engines = {} /\ chat = {} /\ pending = {}
                        /\ acked = {} /\ guard = {}

\* Tunnels are only ever opened for a lobby member that was not kicked, that
\* the visibility admits, that is approved by policy or by the user, and whose
\* proofs passed under the settings in force at that moment.
AccessEarned ==
    [][\A p \in engines' \ engines :
           /\ p \in roster \ kicked
           /\ p \in proved'
           /\ VisibleTo(p)
           /\ Approved(p) \/ p \in pending]_vars

\* A member that has left for good loses its tunnels, or its row, for good.
AbsentLoseAccess ==
    \A p \in Peers : <>[](p \notin roster) => <>[](p \notin engines \cup pending)
=============================================================================
