-------------------------- MODULE HostSession_proofs --------------------------
(***************************************************************************)
(* What HostSession guarantees for any number of peers, friends and        *)
(* queued requests.                                                        *)
(***************************************************************************)
EXTENDS HostSession, TLAPS

\* A row to allow a peer from only exists while the proofs the peer sent hold
\* under the settings in force.
PromptsAreProved == pending \subseteq proved

\* The inductive invariant.  No part is inductive alone: a kicked peer stays out
\* because Allow needs a row (KickedStayOut on pending), a grant through Allow
\* is not preceded by a check of the proofs (PromptsAreProved), and a request or
\* acknowledgement that outlived its session finds the mode changed.
IInv ==
    /\ TypeOK
    /\ KickedStayOut
    /\ TunnelsComeWithChat
    /\ NoPromptForMembers
    /\ NothingOutlivesSession
    /\ PromptsAreProved

-----------------------------------------------------------------------------

\* The initial states satisfy the invariant.
LEMMA InitIInv == Init => IInv
  BY HostAssumption DEF Init, IInv, TypeOK, KickedStayOut, TunnelsComeWithChat,
     NoPromptForMembers, NothingOutlivesSession, PromptsAreProved, Messages

\* Handling a queued request of a peer preserves the invariant.
LEMMA HandlerIInv ==
  ASSUME IInv, NEW p \in Peers, NEW r \in requests[p], HandleRequest(p, r)
  PROVE  IInv'
<1> USE HostAssumption DEF TakeRequest, Tell, settings, Membership
<1>t. TypeOK BY DEF IInv
<1>r. /\ requests' = [requests EXCEPT ![p] = @ \ {r}]
      /\ requests' \in [Peers -> SUBSET Request]
  <2>1. requests' = [requests EXCEPT ![p] = @ \ {r}]
    BY DEF HandleRequest, IgnoreRequest, RefuseKicked, DeferRequest, RefuseAbsent,
       RefuseMember, RenewGrant, GrantRequest, AskHost, Admissible
  <2> QED BY <1>t, <2>1 DEF TypeOK
<1>1. CASE IgnoreRequest(p, r)
  BY <1>1, <1>r DEF IInv, IgnoreRequest, TypeOK, KickedStayOut, TunnelsComeWithChat,
     NoPromptForMembers, NothingOutlivesSession, PromptsAreProved
<1>2. CASE RefuseKicked(p, r)
  BY <1>2, <1>r DEF IInv, RefuseKicked, TypeOK, KickedStayOut, TunnelsComeWithChat,
     NoPromptForMembers, NothingOutlivesSession, PromptsAreProved, Messages
<1>3. CASE DeferRequest(p, r)
  BY <1>3, <1>r DEF IInv, DeferRequest, TypeOK, KickedStayOut, TunnelsComeWithChat,
     NoPromptForMembers, NothingOutlivesSession, PromptsAreProved
<1>4. CASE RefuseAbsent(p, r)
  BY <1>4, <1>r DEF IInv, RefuseAbsent, TypeOK, KickedStayOut, TunnelsComeWithChat,
     NoPromptForMembers, NothingOutlivesSession, PromptsAreProved, Messages
<1>5. CASE RefuseMember(p, r)
  BY <1>5, <1>r DEF IInv, RefuseMember, TypeOK, KickedStayOut, TunnelsComeWithChat,
     NoPromptForMembers, NothingOutlivesSession, PromptsAreProved, Messages
<1>6. CASE RenewGrant(p, r)
  BY <1>6, <1>r DEF IInv, RenewGrant, Admissible, OpenAccess, TypeOK, KickedStayOut,
     TunnelsComeWithChat, NoPromptForMembers, NothingOutlivesSession, PromptsAreProved,
     Messages
<1>7. CASE GrantRequest(p, r)
  BY <1>7, <1>r DEF IInv, GrantRequest, Admissible, OpenAccess, TypeOK, KickedStayOut,
     TunnelsComeWithChat, NoPromptForMembers, NothingOutlivesSession, PromptsAreProved,
     Messages
<1>8. CASE AskHost(p, r)
  BY <1>8, <1>r DEF IInv, AskHost, Admissible, TypeOK, KickedStayOut,
     TunnelsComeWithChat, NoPromptForMembers, NothingOutlivesSession, PromptsAreProved
<1> QED BY <1>1, <1>2, <1>3, <1>4, <1>5, <1>6, <1>7, <1>8 DEF HandleRequest

\* Requests of another session or other settings are requests.
LEMMA VoidedRequests ==
  ASSUME TypeOK, NEW newPassword \in BOOLEAN, NEW codeDropped \in BOOLEAN
  PROVE  /\ [p \in Peers |-> {Outdated(r) : r \in requests[p]}] \in [Peers -> SUBSET Request]
         /\ [p \in Peers |-> {Voided(r, newPassword, codeDropped) : r \in requests[p]}]
              \in [Peers -> SUBSET Request]
<1>1. ASSUME NEW r \in Request PROVE Outdated(r) \in Request
  BY DEF Outdated, Request
<1>2. ASSUME NEW r \in Request PROVE Voided(r, newPassword, codeDropped) \in Request
  BY DEF Voided, Request
<1>3. \A p \in Peers : requests[p] \subseteq Request
  BY DEF TypeOK
<1> QED BY <1>1, <1>2, <1>3

\* Starting, stopping and settings preserve the invariant.
LEMMA LifecycleIInv == IInv /\ Lifecycle => IInv'
<1> SUFFICES ASSUME IInv, Lifecycle PROVE IInv'
  OBVIOUS
<1> USE HostAssumption DEF settings, IInv, TypeOK, KickedStayOut, TunnelsComeWithChat,
     NoPromptForMembers, NothingOutlivesSession, PromptsAreProved, Messages
<1>1. CASE Share
  BY <1>1 DEF Share
<1>2. CASE \E v \in Visibilities, l \in BOOLEAN : LobbyCreated(v, l)
  BY <1>2 DEF LobbyCreated
<1>3. CASE LobbyRefused
  BY <1>3 DEF LobbyRefused
<1>4. CASE Stop
  <2>1. requests' \in [Peers -> SUBSET Request]
    BY <1>4, VoidedRequests DEF Stop
  <2>2. told' \in [Peers -> Messages]
    BY <1>4 DEF Stop
  <2> QED BY <1>4, <2>1, <2>2 DEF Stop
<1>5. CASE SetAutoAllow
  BY <1>5 DEF SetAutoAllow
<1> QED BY <1>1, <1>2, <1>3, <1>4, <1>5 DEF Lifecycle

\* The user's decisions about a peer preserve the invariant.
LEMMA UserIInv ==
  ASSUME IInv, NEW p \in Peers, User(p)
  PROVE  IInv'
<1> USE HostAssumption DEF settings, IInv, TypeOK, KickedStayOut, TunnelsComeWithChat,
     NoPromptForMembers, NothingOutlivesSession, PromptsAreProved, Messages, Tell
<1>1. CASE Allow(p)
  <2>1. mode = "sharing" /\ p \in pending /\ p \notin kicked /\ p \notin engines
    BY <1>1 DEF Allow
  <2>2. guard' \in SUBSET Peers
    BY <1>1 DEF Allow, Membership
  <2>3. \/ UNCHANGED <<linked, engines, chat, pending, told>>
        \/ UNCHANGED <<linked, engines, chat>> /\ pending' = pending \ {p} /\ Tell(p, "denied")
        \/ OpenAccess(p) /\ pending' = pending \ {p}
        \/ UNCHANGED <<linked, engines, chat, pending>> /\ Tell(p, "denied")
    BY <1>1, <2>1 DEF Allow
  <2>4. allowed' \in SUBSET Peers
    BY <1>1 DEF Allow
  <2>5. UNCHANGED <<mode, settings, roster, kicked, acked, requests, timers, proved>>
    BY <1>1 DEF Allow
  <2> QED BY <2>1, <2>2, <2>3, <2>4, <2>5 DEF OpenAccess
<1>2. CASE Deny(p)
  BY <1>2 DEF Deny
<1>3. CASE Disconnect(p)
  BY <1>3 DEF Disconnect, TimerKinds
<1>4. CASE RemoveAccess(p)
  BY <1>4 DEF RemoveAccess
<1>5. CASE Kick(p)
  BY <1>5 DEF Kick, TimerKinds
<1> QED BY <1>1, <1>2, <1>3, <1>4, <1>5 DEF User

\* New settings preserve the invariant.
LEMMA ReconfigureIInv ==
  ASSUME IInv, NEW v \in Visibilities, NEW password \in {"keep", "off", "new"},
         NEW codeDropped \in BOOLEAN, NEW failed \in SUBSET engines,
         Reconfigure(v, password, codeDropped, failed)
  PROVE  IInv'
<1>1. requests' \in [Peers -> SUBSET Request]
  BY VoidedRequests DEF IInv, Reconfigure
<1>2. locked' \in BOOLEAN
  BY DEF IInv, TypeOK, Reconfigure
<1> QED BY <1>1, <1>2, HostAssumption DEF Reconfigure, settings, IInv, TypeOK,
     KickedStayOut, TunnelsComeWithChat, NoPromptForMembers, NothingOutlivesSession,
     PromptsAreProved

\* What a peer sends, Steam's member cache, delayed work and the member check
\* preserve the invariant.
LEMMA EnvironmentIInv ==
  ASSUME IInv, (\E p \in Peers : Peer(p) \/ Timer(p)) \/ CheckMembers
  PROVE  IInv'
<1> USE HostAssumption DEF settings, IInv, TypeOK, KickedStayOut, TunnelsComeWithChat,
     NoPromptForMembers, NothingOutlivesSession, PromptsAreProved, Messages
<1>1. ASSUME NEW p \in Peers, NEW r \in Request, ReceiveAuthRequest(p, r) PROVE IInv'
  BY <1>1 DEF ReceiveAuthRequest
<1>2. ASSUME NEW p \in Peers, ReceiveDisconnectAck(p) PROVE IInv'
  BY <1>2 DEF ReceiveDisconnectAck
<1>3. ASSUME NEW p \in Peers, RosterChange(p) PROVE IInv'
  BY <1>3 DEF RosterChange
<1>4. ASSUME NEW p \in Peers, NEW timer \in {"noticeAgain", "kickAgain"}, RepeatNotice(p, timer)
      PROVE  IInv'
  BY <1>4 DEF RepeatNotice, Tell, TimerKinds
<1>5. ASSUME NEW p \in Peers, Unlink(p) PROVE IInv'
  BY <1>5 DEF Unlink
<1>6. CASE CheckMembers
  BY <1>6 DEF CheckMembers
<1> QED BY <1>1, <1>2, <1>3, <1>4, <1>5, <1>6 DEF Peer, Timer

\* Every step preserves the invariant.
LEMMA NextIInv == IInv /\ [Next]_vars => IInv'
<1> SUFFICES ASSUME IInv, [Next]_vars PROVE IInv'
  OBVIOUS
<1>1. ASSUME NEW p \in Peers, Handler(p) PROVE IInv'
  BY <1>1, HandlerIInv DEF Handler
<1>2. ASSUME UNCHANGED vars PROVE IInv'
  BY <1>2 DEF vars, settings, IInv, TypeOK, KickedStayOut, TunnelsComeWithChat,
     NoPromptForMembers, NothingOutlivesSession, PromptsAreProved
<1> QED BY <1>1, <1>2, LifecycleIInv, UserIInv, ReconfigureIInv, EnvironmentIInv DEF Next

-----------------------------------------------------------------------------

\* In every reachable state the variables have their types.
THEOREM HostTypes == Spec => []TypeOK
<1>1. IInv => TypeOK BY DEF IInv
<1> QED BY <1>1, InitIInv, NextIInv, PTL DEF Spec

\* A kicked peer stays out for the rest of the session.
THEOREM KickHolds == Spec => []KickedStayOut
<1>1. IInv => KickedStayOut BY DEF IInv
<1> QED BY <1>1, InitIInv, NextIInv, PTL DEF Spec

\* A peer with tunnels has the chat, and no row for it is left.
THEOREM MembersServed == Spec => []MembersAreServed
<1>1. IInv => MembersAreServed BY DEF IInv, MembersAreServed
<1> QED BY <1>1, InitIInv, NextIInv, PTL DEF Spec

\* No tunnel, chat, row or kick outlives the session.
THEOREM HostBookkeeping == Spec => []NothingOutlivesSession
<1>1. IInv => NothingOutlivesSession BY DEF IInv
<1> QED BY <1>1, InitIInv, NextIInv, PTL DEF Spec

\* Tunnels are only opened for members whose access was earned: in the step that
\* opens them the peer is a member, was not kicked, is admitted by the
\* visibility, is approved, and has proofs that hold under current settings.
LEMMA OpeningIsEarned ==
  ASSUME IInv, [Next]_vars, NEW p \in engines', p \notin engines
  PROVE  /\ p \in roster \ kicked
         /\ p \in proved'
         /\ VisibleTo(p)
         /\ Approved(p) \/ p \in pending
<1>1. engines \subseteq Peers /\ p \in Peers
  BY NextIInv DEF IInv, TypeOK
<1>2. ASSUME NEW q \in Peers, NEW r \in requests[q], HandleRequest(q, r)
      PROVE  /\ p = q
             /\ p \in roster \ kicked
             /\ p \in proved'
             /\ VisibleTo(p)
             /\ Approved(p)
  <2>1. GrantRequest(q, r) /\ OpenAccess(q)
    BY <1>2 DEF HandleRequest, IgnoreRequest, RefuseKicked, DeferRequest,
       RefuseAbsent, RefuseMember, RenewGrant, GrantRequest, AskHost, OpenAccess
  <2>2. p = q
    BY <2>1 DEF OpenAccess
  <2> QED BY <2>1, <2>2 DEF GrantRequest, Admissible, Membership
<1>3. ASSUME NEW q \in Peers, User(q)
      PROVE  /\ p \in roster \ kicked
             /\ p \in proved'
             /\ VisibleTo(p)
             /\ p \in pending
  <2>1. Allow(q)
    BY <1>3 DEF User, Deny, Disconnect, RemoveAccess, Kick
  <2>2. p = q /\ Membership(q, "member") /\ VisibleTo(q) /\ p \in pending
    BY <2>1 DEF Allow, OpenAccess
  <2>3. mode = "sharing" /\ proved' = proved
    BY <2>1 DEF Allow
  <2> QED BY <1>1, <2>2, <2>3 DEF Membership, IInv, KickedStayOut, PromptsAreProved
<1>4. ~Lifecycle /\ ~CheckMembers
  BY DEF Lifecycle, Share, LobbyCreated, LobbyRefused, Stop, SetAutoAllow, CheckMembers
<1>5. ASSUME NEW q \in Peers PROVE ~Peer(q) /\ ~Timer(q)
  BY DEF Peer, ReceiveAuthRequest, ReceiveDisconnectAck, RosterChange, Timer,
     RepeatNotice, Unlink
<1>6. ASSUME NEW v \in Visibilities, NEW password \in {"keep", "off", "new"},
             NEW codeDropped \in BOOLEAN, NEW failed \in SUBSET engines
      PROVE  ~Reconfigure(v, password, codeDropped, failed)
  BY DEF Reconfigure
<1>7. ~UNCHANGED vars
  BY DEF vars
<1> QED BY <1>2, <1>3, <1>4, <1>5, <1>6, <1>7 DEF Next, Handler

\* No step opens tunnels for a peer that has not earned access.
THEOREM AccessIsEarned == Spec => AccessEarned
<1>1. IInv /\ [Next]_vars =>
        [\A p \in engines' \ engines :
            /\ p \in roster \ kicked
            /\ p \in proved'
            /\ VisibleTo(p)
            /\ Approved(p) \/ p \in pending]_vars
  BY OpeningIsEarned
<1> QED BY <1>1, InitIInv, NextIInv, PTL DEF Spec, AccessEarned
=============================================================================
