# SteamyLAN in TLA+

SteamyLAN shares a game server that listens on a computer with Steam friends:
a host publishes a Steam lobby, members ask for access over a Steam P2P channel,
and the client's local ports are tunnelled to the host's server. This directory
holds a TLA+ verification project for it: modules translated from the source,
TLC configurations that check them on small instances, and TLAPS proofs that
hold for every value of the constants. Paths are relative to the repository.

## 1. Inventory

| Component | Code | State it keeps | Operations |
| --- | --- | --- | --- |
| Steam call registry | `SteamyLan/steam_api.py` `SteamClient.await_call`, `_dispatch_loop`, `_resolve_api_call`, `shutdown` | `_pending_calls`, `_completed_unclaimed` | await a call, dispatch a completion, shut down |
| Host session | `SteamyLan/services.py` `SessionManager` (host), `peer_guard.py`, `settings.py` | mode, config, pending approvals, kicked members, peer engines, chat authorization, membership grace windows, single-shot timers | share, admit, allow, deny, disconnect, remove, kick, reconfigure, check members, stop |
| Join flow | `SessionManager` (client), `invite_broker.py` (client) | `_joining_host`, attempt id, call/loading/code flags, pending password config, control link | join, join by code, handle every Steam and broker answer, password, watchdog, stop |
| TCP tunnel | `SteamyLan/tunnel.py` `TunnelEngine` | `_tcp`, `_writes`, `_connecting`, `_cancelled`, `_next_stream`, a bounded queue per socket | accept, open, connect, read, write, receive, close, restart |
| UDP tunnel | same | client table, reassembly table | forward, fragment, reassemble, expire |
| Control link | `tunnel.py` `ControlLink` | peers, last acknowledgement, health | heartbeat, acknowledge, declare stale, recover |
| Share-code rendezvous (host) | `invite_broker.py`, `lobby_code.py` | request cache, sessions | answer a code, invite |
| Lobby chat | `SteamyLan/chat.py` `EncryptedLobbyChat` | authorized peers, keys, nonce windows | hello, acknowledge, relay, remove |
| Broadcast redirection | `broadcast_redirect.py`, `broadcast_helper.py` | controller state, ports, pipe, process | start, configure, read events, stop |
| Updater | `updater.py`, `tools/update_helper.py` | attempt marker, staged archive, installation and backup directories | download, stage, swap, confirm, roll back |
| Steam data refresh | `services.py` `SteamService`, caches of `steam_api.py`, `app.py` | one job and one wanted flag per refresh, caches, single-shot timers | start Steam, refresh friends, avatars and lobbies, search, serve a launch request, close |
| Shared ports | `SessionManager` (both roles) | services and their channels, engines, mappings, the configuration a member holds | change services, resend, open, close, move a port |
| Detection, configuration, preferences, user interface, build tools | `detector.py`, `models.py`, `settings.py`, `ui/`, `tools/` | files and widgets | see `PROJECT.json` |

**How they interact.** Everything `SessionManager` does runs on the Qt thread.
Steam's dispatcher thread, the receive threads of the control link and of the
broker, the engines' threads and the workers post signals to it, which Qt queues
and delivers in order; a posted signal is not withdrawn by anything the Qt thread
does afterwards. `SessionManager` starts and stops the control links, chat and
engines and calls `SteamClient`; engines on two computers meet on a reliable,
ordered Steam channel of their own.

**What is hard.** Two threads racing on one table (call registry, TCP tables);
an answer, worker or timer that outlives the attempt, the peer or the session it
belongs to (host session, join flow); settings that change between a check and
the decision it led to (host session); a bounded queue at its limit and closes
that cross data (TCP); an engine replaced on one side only (TCP); fragments that are
lost, repeated and reordered through tables at their limits (UDP); a crash between two
file operations of three processes (updater); keys and memberships that change
while two threads relay (chat); a helper process that answers after it was given up
(broadcast redirection); reports of three threads that overtake each other (control
link); changes of the host that cross what a member opens and closes (shared ports);
requests that are dropped or coalesced while a job runs (data refresh). `PROJECT.json`
lists each hazard at its line.

**What makes each component correct.** Registry: every completion reaches its
handler once. Host session: access is earned by every rule in force and lost with
the membership; a kick holds; nothing outlives a session. Join flow: one call per
attempt, no attempt hangs, nothing of an ended attempt is kept. TCP: bytes in
order on the connection they belong to, closes reach the other side. UDP: what is
delivered is a datagram as it was sent. Control link: what is shown of a peer is what
the link knows. Shared ports: a listed port listens and leads where it says. Updater: a
complete version is on disk at every crash point, one helper works at a time, and an
interrupted update is not retried by itself. Chat: a member that stays ends up sharing a
key with the host, from then on misses no message and is shown none twice. Broadcast
redirection: a helper redirects the ports its session wants and ends with it. Data
refresh: what is shown catches up with Steam.

## 2. Modules

| Module | Models | Extended by |
| --- | --- | --- |
| `ExactlyOnceCalls` | what `await_call` promises a caller: a completed call is answered once, or given up by shutdown | |
| `SteamCalls` | the two threads that implement it, and the two maps they share | `SteamService` |
| `SteamService` | the application's use of Steam: start, caches, refreshes, searches, launch requests; built on `SteamCalls` | `MCSteamService`, `Steam_proofs` |
| `HostSession` | admission, decisions, delayed work and lifecycle of a shared lobby | `MCHostSession`, `HostSession_proofs` |
| `SharedPorts` | the services of a lobby on the host and the ports a member opens for them | `MCSharedPorts`, `Session_proofs` |
| `JoinFlow` | attempts of a user to join lobbies, one after another | `MCJoinFlow`, `JoinFlow_proofs` |
| `TcpTunnel` | client and host engine, their threads, tables, queues and the channel | `MCTcpTunnel`, `TcpTunnel_proofs` |
| `UdpTunnel` | client and host tables, fragments and reassembly over a lossy channel | `MCTraffic`, `Session_proofs` |
| `PeerHealth` | heartbeats of the control link and the health the session shows | `MCTraffic`, `Session_proofs` |
| `LobbyChat` | the host's and the clients' threads of the encrypted chat | `MCLobbyChat`, `LobbyChat_proofs` |
| `BroadcastRedirector` | controllers and elevated helpers of one session after another | `MCBroadcast`, `Broadcast_proofs` |
| `Updater` | the app, its update helpers and the files they share | `MCUpdater`, `Updater_proofs` |

### SteamCalls
A caller's thread issues a call and registers its handler in two steps; Steam may
complete it, and the dispatcher may take the completion, anywhere in between. A
completion without a handler is parked in `_completed_unclaimed`; `await_call` claims a
parked one under the lock and answers it after releasing it. `shutdown` is two steps: it
sets the stop flag (`StopDispatch`), at which the dispatcher looks between batches only,
and later clears both maps (`Shutdown`). `ImplementsPromise` is the refinement of
`ExactlyOnceCalls` under a mapping of what the maps and the two threads hold to
*outstanding*, *answered* and *abandoned*.

### SteamService
The module EXTENDS `SteamCalls`: a lobby search is one of its calls, next to those of
the session. Each refresh runs in a pool worker that reports its result and then its end
to the Qt thread (`workers.py`), so `FriendStep`, `AvatarStep`, `HostStep` and
`SearchStep` go from *reading* over *result* to *finished*, and a request in between
finds the job's flag set: it is remembered (`friendAgain`, `avatarWanted`) or dropped,
as in the code. A worker reads Steam and stores into the cache in two steps, and the
dispatch thread may clear the cache between them. Timers are flags that a `Shot`
consumes. `RequestLaunchLobby` and `LaunchShot` are the parts of `app.py` that keep the
lobby of the command line or of a second start until Steam is ready; `CloseSteam`,
`ShutSteam` and `LeaveSteam` end Steam, or leave it when a worker does not end.

### HostSession
One action per slot or timer: `HandleRequest` is `_on_auth_request` with one disjunct
per early return, `OpenAccess` is `_grant_peer`, `Membership` is
`_lobby_membership_state` with its grace window (whose 10 s may be over at any
check after the one that opened it), `Reconfigure` is `reconfigure_server` with any
subset of engines failing to restart. Peers are unconstrained. `timers` keeps every
single-shot timer, `requests` what the receive thread queued for the Qt thread; both
survive `Stop`, as they do in the code. An auth payload is abstracted to whether
it has a share-code proof and whether each proof is right; the session identifier
in every proof makes all proofs wrong in a later session (`Outdated`).

### SharedPorts
Both sides' handlers run on their own Qt thread, so each is one action, with the ordered
control link between them. `Reconfigure` is `reconfigure_server`: which services keep
their channel, what is published, which engines are rebuilt, and who is sent the new
list, which Steam may refuse to send. `HandleConfig`, `HandleGranted`, `Accept`,
`Revoke` and `Remap` are the member's side; the variants named `Stuck` are the early
returns when a port cannot be opened. `engines` is what the code keeps and `running`
what was started and not stopped, so that a leak can be seen; `leaked` are the engines
that a grant dropped from the table. A random channel is numbered in the order of
drawing, and may be drawn again. The loops over a list are stated place by place:
`Endpoint` is one turn of the loop that makes the new list, given the channels of the
places before it, and `Opened` says which ports the turns of `_start_client_service` may
end up with.

### TcpTunnel
A connection has a socket on each side, each with a reader thread, a writer thread and a
bounded queue. Actions are the pieces of the threads between two points where another
thread can come in; in particular `_connect_target_tcp` is `ConnectEnds` and
`ConnectSettles`, because it takes and gives up the lock in between, and a `PT_CLOSE`
that a thread has still to send is `owed`. When it is sent, Steam may refuse it, of
which the code takes no notice (`Tell`, `untold`); data that is refused ends its stream.
The code sees stream numbers only; the model numbers connections in addition, to say to
whom a byte belonged. `Restart` replaces an engine as `stop` and a new `TunnelEngine`
do.

### UdpTunnel
Steam sends these packets unreliably: `air` is the set of packets ever sent, each of
which may arrive at any time, repeatedly or never. The client's two tables, the host's
sockets and each side's reassembly table, oldest first, evict and expire as in
`_client_udp`, `_expire_udp`, `_target_udp` and `_udp_fragment`. Every piece of a
datagram is traced by whom it concerns, which the code does not see.

### PeerHealth
The heartbeat thread reads a peer, judges it, and sends; the receive thread marks it
seen and takes acknowledgements; either changes the table under the lock, and queues its
report after it (`Say`). What the Qt thread itself reports is shown at once, ahead of
what is queued, as Qt delivers a signal directly in the thread that receives it. A new
link has new tables; the threads of the one before it, which `stop` waits for only 0.25
s, may report once more (`SayLate`). Time is counted in heartbeats since the last word,
up to the timeout. `MCTraffic` puts this module and `UdpTunnel` into one run, each
explored while the other has nothing to do: they share nothing but the peer.

### JoinFlow
`session` is the part of `SessionManager` a join uses, `inbox` the queued signals,
and calls, workers, links and timers carry the attempt that started them. A slot
handles an event in the state of whatever attempt runs by then, which is what the
code does, as it compares at most the lobby. Steam answers a call with a callback and a
result, in either order and any distance apart: the second one waits in `owed` until
`Deliver`, so a result can come before the configuration or after the grant. A friend's
invitation to any lobby may arrive while a share code is pending (`FriendInvites`), and
the paths on which Steam refuses the call or no key comes of the password end the
attempt (`RequestJoin`, `ApplyConfig`). `patient` records whether each attempt was only
started when everything of the one before had ended, `expelled` whether a late result
made the session leave the lobby it shows.

### Updater
`install`, `backup`, `attempt` and `failure` are the directories and the two JSON files,
each abstracted to the version it holds. `app` is the running app with the fields of
`MainWindow` an update uses; `helper[h]` is the h-th helper with a program counter that
advances by one file operation, so that `AppEnds` and `HelperDies` come between any two.
Every operation of the swap, its undoing and the record may fail. So may, `MaxFaults`
times, a read of a marker or record, which then counts as absent (`Reads`, as
`_read_state` does), and the deletions after a success, which the failure path then
handles (`ClearAttempt`, `ClearFailure`); the deletion at the end of that path is
unguarded and ends the helper when it fails (`Unmark`). Not modelled as failing are the
writing of the archive, the log and the tray. The user starts and quits the app at any
time, which is how a second helper can come about. The window's idle snapshots
(`_install_pending_update`) are `EndSession` and `IdleSnapshot`.

### LobbyChat
A step is what a thread does between two acquisitions of the lock. The host's
receive thread takes a packet (`TakePacket`), then stores a key and answers, or opens a
message, checks its nonce and relays it; a relay, by either thread of the host, takes
the list of peers once and then, peer by peer, the key (`PickKey`) and only afterwards
sends (`SendSealed`). A key is the number of the client's start it was made for, since
the host keeps one key pair; a nonce names the message and the relay. A link is in
order, as Steam's reliable channels are; `RepeatToHost` and `RepeatToClient` let a
message arrive again, which is what the code's window of nonces is for. `clean`
marks the clients that started on an empty link and were not removed since.

### BroadcastRedirector
`update` and `stop` of the Qt thread are several steps, because each takes the
controller's lock for parts only; `ThreadStep` is the thread that raises the elevation
dialog, accepts, greets, sends the first configuration and reads events; `HelperStep` is
the elevated process with its filter. Every session has a controller of its own, and
what an abandoned one, its socket or its helper still does goes on while the next one
works. The dialog may be declined, answered late or never; the driver may fail; the
helper may die at any point.

## 3. Runs

| Run | Instance | What it shows |
| --- | --- | --- |
| `MCSteamService` | 6 mixes: 3 calls; a search; friends that change; missing avatars; a friend's lobbies; launch requests for 2 lobbies | no completion lost or answered twice, with the refinement; no cache stays old; friends and lobbies catch up; the newest launch request is joined or declined |
| `MCHostSession` | 1 peer, public and friends-only lobbies, 1 queued request | the kick, member and end-of-session invariants; access is earned; a member gone for good loses access |
| `MCSharedPorts` | 2 ports, 3 local ports, 9 mixes of changes, failures, gaps and user actions | the window lists what listens; no port leads elsewhere; members keep up |
| `MCTcpStream` | 1 connection, 3 chunks up and 1 down, queue of 2, each engine replaced at most once; a host without a free stream; a close that is refused | order, completeness of drained sockets, closes in both directions, every connection answered |
| `MCTcpStreams` | 2 connections, 1 chunk up, queue of 1, room for 2 streams or for 1, a close that is refused | streams are not mixed when two connections interleave or one is refused |
| `MCTcpReopened` | 2 connections, client engine replaced once | *violation*: stream numbers start again at 1 while the host still uses them |
| `MCTraffic` | 2 programs, tables of 1, up to 3 fragments; 1 peer, timeout of 1 heartbeat, up to 2 outages, the link started twice | datagrams whole and to whom they concern, tables that agree; a shown health that follows the peer |
| `MCBroadcast` | 1 session with 2 changes, and 2 sessions, each with a fault | no late news, the right ports, helpers that end |
| `MCJoinFlow` | 2 lobbies, one with a password, 2 attempts, 2 queued events | one call per attempt, nothing kept, a consistent connected session, no attempt hangs |
| `MCJoinStaleConfig` | 2 lobbies, 2 attempts, 3 queued events | *violation*: the worker of an abandoned attempt configures the next one |
| `MCUpdater` | 3 versions, 2 helpers, 1 file that cannot be read or deleted | a version survives every crash and failure, helpers do not overlap while their marker holds, archive and label agree, nothing is retried by itself, markers go away |
| `MCLobbyChat` | 1 client with 2 starts or 2 messages and a removal, and 2 clients with 1 message; window of 1 | keys agree, nothing is shown twice or lost, the chat comes up |

**Bounds.** Where one set of bounds would either miss a case or be too large, a module
takes a constant set of *mixes* (`Mixes`, `Loads`, `Changes`): each says how often each
outside event may happen, and TLC explores one behaviour graph per mix, side by side. A
mix is chosen for an encounter (a removal while a client is ready, a refused connection
next to an accepted one); the MC modules say which.

The call registry treats every call identification alone; three calls cover a parked, a
claimed and a fresh one at once. The rules of the host are per peer: no guard of a
handler reads the state of another peer, except `Reconfigure`, `Stop` and
`CheckMembers`, which treat every peer alike, so one peer in every order is the
interesting instance, and the proofs cover any number. A queue of two chunks with three
to send makes the queue full, the end marker refused, the overflow and a write that
fails after the close all happen; two connections, programs and ports are the least that
can be confused, and two attempts and sessions the least of which one can be stale.
Three fragments are the least of which one can be missing in the middle, and tables of
one entry overflow with the second program. Of two
queued events one can be a leftover ahead of an event of the present attempt; a call's
second answer waits outside the queue. The updater needs an old, a new and a still newer version,
and a second helper to meet the first; one fault is enough to break the lock or the
record, after which nothing is claimed that a second could break. Two lobbies are the
least of which one launch request can replace another. In the chat two starts of one
client confuse the keys, and two clients are the least of which one can have no key;
packets are repeated at a distance below the window, which is 256 nonces in the code and
1 here so that it overflows.

**Fairness.** `HostSession`: `WF(CheckMembers)`, a repeating one-second `QTimer`.
`TcpTunnel`: weak fairness of the threads, of delivery of what Steam took and of a
connection attempt, which has a timeout; the programs at the ends need not write or
close. `SteamService`: timers fire, workers end, the dispatch thread runs until it is
told to stop and then may end, callers and handlers of calls run, and the shutdown goes
on; Steam, the friend and the user are free. `PeerHealth`: the threads of the link run
and the Qt thread takes reports; the peer is free. `BroadcastRedirector`: the Qt thread,
each controller's thread and each helper go on; the user need not answer the elevation
dialog. `JoinFlow`: the Qt thread takes what is queued, timers fire, and the broker and
the workers end within their limits; nothing is assumed of Steam, hosts or users.
`Updater`: weak fairness of the helpers' steps, each of which has a time limit; the app
and the user are free. `LobbyChat`: the threads run; `TakePacket` is strongly fair for
each client because the channel has one queue for all senders. `SharedPorts` and
`UdpTunnel` have safety properties only. `CHECK_DEADLOCK FALSE` is set where the system
may rest: all connections closed, all attempts made, all events spent.

## 4. Findings and observations

Two runs show a violation (section 3). Modelling met further behaviour that TLC
confirmed and that is kept out of the runs' properties by a condition stated there:

* `stop` tells the other side nothing: after `reconfigure_server` rebuilds the host
  engines, open connections of the client stay open (`services.py` 1750-1753). The
  liveness properties of `TcpTunnel` are for engines that stay (`Undisturbed`).
* A `PT_CLOSE` that Steam refuses is not sent again, and the result of `_send` is not
  looked at (`tunnel.py` 436, 509): the other side keeps its end of the stream, and a
  refused connection waits. The same properties are for closes that were sent (`Told`).
* A result of `JoinLobby` that is handled when no join is under way leaves the lobby it
  names, also if it is the result of the very call that led to the connected session,
  overtaken by the configuration and the grant (`services.py` 1152-1158). The session
  then shows a lobby it is not in; `ConnectedIsConsistent` excepts it (`expelled`).
* Leftovers of an attempt reach the next one (`MCJoinStaleConfig` is one way), which
  `patient` excludes in `NothingLeftBehind` and `ConnectedIsConsistent`.
* The notice repeated 350 ms after a disconnect also goes to a peer that was granted
  access again in the meantime (`services.py` 1527-1534). `KickedStayOut` therefore
  speaks of kicked peers only.
* Between its two locks `_connect_target_tcp` counts a stream in neither table, so
  the limit of streams can be exceeded by the streams being settled (`tunnel.py`
  450-455); `EveryConnectionAnswered` holds nevertheless.
* A packet queued for a target that is being connected is dropped if the client
  closes first, and so is queued data if the queue is exactly full at the remote
  close (`tunnel.py` 454, 500). `DrainedIsComplete` states what does hold.
* The helper of an update that succeeded deletes the marker of the attempt before
  the record of failures (`tools/update_helper.py` 284-285). In between the new app may
  start a second helper, whose failure is then deleted with the old ones: the
  version may be tried again.
* If that second deletion fails, the helper goes on as after a failed update: it records
  the version that runs as failed and deletes the marker, which may by then be that of
  the second helper (`tools/update_helper.py` 285-293). If the first one fails, the
  version that runs is recorded as failed too.
* A marker or record that cannot be read when it is looked for, such as one that the
  helper is just replacing, counts as absent (`updater.py` 66-71): the app then starts a
  second helper, or downloads again by itself a version that failed. In this case and the
  one before, `HelperAlone` and `NotRetried` claim nothing any more (`unlocked`), and
  `NotRetried` excepts versions whose marker or record could not be written or read, or
  went with that of another update (they leave `attempted`).
* The deletion of the marker after a recorded failure is not guarded
  (`tools/update_helper.py` 125): if it fails the helper ends by the exception, the marker
  stays and the app is not started again. `AttemptResolves` excepts it. The marker also
  stays if `tempfile.mkstemp` fails after it was written (`updater.py` 251-252).
* A lobby asked for by a second start replaces the one that waits for Steam, which is then
  never joined nor declined (`app.py` 127-130). `LaunchServed` is about the newest.
* A client that is removed from the host's chat and authorized again while its own
  chat keeps running has a key that the host has dropped; its hello loop has ended
  (`chat.py` 150-157) and nothing starts another handshake. This follows a member
  that Steam's list lacks for a while and that is granted again. `ReadyIsShared`
  is for clients that were not removed since they started (`clean`).
* An acknowledgement does not say which HELLO it answers. One left from an earlier
  start makes a restarted client ready before the host has its new key; what is relayed
  in between cannot be opened. The same condition excepts it.
* A message relayed by the Qt thread between the host's storing of a key and its
  acknowledgement reaches the client first and is dropped (`chat.py` 272-273).
  `NoneLostOnceReady` speaks of messages whose relay began when the client was ready.
* A removal between the decryption of a message and the check of its nonce throws
  the window away, so a repeated message may be shown twice (`chat.py` 226);
  `HeardOnce` excepts hosts that removed a client.
* A name or an avatar that a worker read before Steam's callback cleared the cache is
  stored after it and stays until the next change (`steam_api.py` `_friend_name_cache`,
  `_avatar_cache`). `CacheFresh` and `FriendsConverge` except it (`overlapped`).
* A helper that connects after `stop` has waited its 1.5 s is taken by the thread, which
  serves it although the session is over; it runs without ports until the program ends,
  where `README.md`:34 says that it ends with the session. `HelperStopsWithSession`
  excepts it (`connected`).
* The first configuration is read under the lock and sent outside it, so it can overtake
  a newer one sent by `update` (`broadcast_redirect.py` 336-343); `ExactPorts` excepts it
  (`overtaken`). What follows a greeting in the same read is dropped.
* `reconfigure_server` draws a channel for a new port without looking at those of old
  services listed after it. If it draws one of them, members refuse the update
  ("Duplicate service channels"); the condition is `Valid` and `redrawn`.
* A configuration that arrives while a join is not yet granted opens engines when ports
  are opened automatically, and the grant replaces the table that holds them
  (`services.py` 1915, 2139): they run on, unlisted, until the program ends.
  `WindowTellsTruth` says that these are the only ones (`leaked`).
* A member that Steam's list lacks for a moment is skipped by a change of the services,
  and its renewed grant does not bring the new ones (`services.py` 1732, 1880); a change
  that Steam refuses in part stays published (`services.py` 1719); and a message with the
  new services that Steam refuses is not repeated (`services.py` 1770). All are `behind`.
* `remap_client_service` starts the second engine on the channel before it stops the first
  (`services.py` 2105); no property of one handler at a time sees it.
* Two threads that change the health of a peer report after the lock, in either order
  (`tunnel.py` 177-187), and what the Qt thread reports is shown before what is queued;
  the older report is then shown until the next change. So is a report of a thread of an
  earlier link (`overtaken` in each case). After the link is rebuilt, a peer is shown as
  connecting until its ping changes.
* `begin_update_attempt` refuses every version while a marker is there (`updater.py` 91),
  so the marker of a helper that died keeps a later version away as well, where
  `tests/test_updater_state.py`:17 says that it blocks only the same version.

## 5. Proofs

The proof modules hold for every value of the constants: any sets of calls, peers,
programs, clients, lobbies and ports, any limits of tables and windows, and any bounds.
They assume only the named assumptions of the modules, which say what kind of values
the constants are. A module of proofs has one lemma per actor and one step per
action; the last lemma puts them together for `Next`.

* **Calls.** `Ownership` is the inductive invariant: it says for each call where it
  is in Steam, at its caller and in the two maps, in every combination that can
  occur. `CompletionNotLost` and `AtMostOneAnswer` are not inductive alone: that
  nothing is answered twice depends on a parked completion being removed when it is
  claimed, and that nothing is lost on a registered handler belonging to an
  outstanding call. From `Ownership` follow both, and that each step maps to a step
  or a stutter of `ExactlyOnceCalls`.
* **Service.** Each step of `SteamService` is a step of the registry or a stutter of it
  (`ServiceStepIsCallStep`), so all that is proved of the registry holds of the service
  that uses it, the refinement included. `CacheFresh` is not inductive alone, as it
  says nothing of a worker that has read a name and not stored it. `HeldFresh` adds
  that what a worker holds is as fresh as what is cached. `ClosedInv` follows the stages
  of the shutdown: once the interface is closed, the pool is done, the shutdown is over
  and the dispatcher has ended.
* **Host.** `IInv` adds `PromptsAreProved` (a row only exists while the proofs
  behind it are good) to the checked invariants. `KickHolds` rests on it through
  `Allow`, which does not look at the kick list but needs a row. `AccessIsEarned` is
  an action property: `OpeningIsEarned` shows for each action that either it opens
  no tunnels or all four conditions hold.
* **TCP.** `Sound` has the types and limits, and that only accepted connections have
  sockets and threads. `Apart` is for a client that has its first engine: every
  connection has its own number (`Numbered`), and nothing is under way for a number
  that was not given (`Fresh`). For each side of a connection, `Cell` says which table
  entries go with which phase of the socket, `Queued` that the queue goes on where the
  written chunks end and that its end mark is last, and `Wire` that, as long as the side
  awaits the connection, all that the other side sent and that is not stored is under
  way in order; `Opening` that the announcement comes before the data. `InOrder` is not
  inductive alone, as it says nothing of what is queued or under way. A host that
  replaces its engine awaits nothing any more, so what is still under way is dropped
  as it arrives; a second client engine gives the numbers out again, which is what
  `MCTcpReopened` shows. `Complete` is about ends: no data follows a close packet, a
  side that closes a connection has sent all it will, and the end mark of a queue that is
  drained has its place right after the last chunk that the other side sent.
* **UDP.** Three invariants, each resting on the one before. `Sound`: tables, packets
  and entries are of their kinds, and the tables within their limits. `Agree`: the
  client's tables are inverse to each other, and a stream has one socket. `Traced`:
  every stream has one owner, which all packets, sockets and entries under its number
  concern, and pieces under one identifier are of one datagram (`Apart`). Delivery is
  right because the pieces of a full entry are then the pieces of one datagram in
  their places. `DeliveredAsSent` is not inductive alone, as it says nothing of what
  is still under way.
* **Health.** `ShownIsKnown` speaks of moments when every report is taken. `NewestIsKnown`
  is what leads to them: the newest report, taken or not, is what the table says, or some
  thread has still to pass one on, or an older report was passed on after it.
* **Ports.** `PortsInv` relates the two computers through every list of services that is
  published, held or under way (`Current`): in each of them a port occurs once and its
  identifier names it (`ListsProper`), and over all of them and all running engines no
  channel was numbered beyond the drawn ones (`ChannelsDrawn`) or leads to two ports
  (`ChannelsApart`). `NoCrossTalk` is the case of a running engine and one of the host's.
  `LastWord` says that what the member has, or else the newest list under way to it, is
  the host's, and `OpenListed` that its engines are for services it has; `MembersKeepUp`
  follows. `WindowTellsTruth` rests on `OpenedFacts`: ports opened one by one are free,
  different, and one for each service of a proper list, and on what no handler does to
  the engines that a grant has dropped.
* **Chat.** `FreshFor` ties everything that can set a client's key (HELLOs on the link
  and in the receive thread's hands, stored keys, acknowledgements) to the client's
  present start; `ReadyIsShared` is its conclusion. `Kept` adds that only ready clients
  are owed messages, that a remembered nonce was shown, and where each owed message is;
  a relay that passes a ready client cannot find it without a key, by `FreshFor`, and
  cannot be overwritten, because a thread begins a relay only when it has none. `Once`
  is the invariant of `ChatHeardOnce`: every message has one sender, the host relays it
  once to each client, what arrives of it at a client are copies of one packet, and a
  client that has shown it knows the nonce of every copy it can open. The last needs a
  bound: a window of `Window` different nonces has room for the next as long as at most
  `Window` messages were said (`RoomForOne`, a pigeonhole argument). The theorem
  therefore has the hypothesis `said <= Window`, beyond which the code forgets nonces
  and a repeat of a forgotten one would be shown, and no removals, which throw the
  windows away (section 4). `StartsKnown` says that each key anywhere belongs to a start
  its client made.
* **Join.** `Modes` says which fields of the session go together, and `CallOnce` that an
  attempt which is still to call `JoinLobby` has not called it; `OneCallPerAttempt`
  rests on these two for every user. For a user who waits (`patient`), `Attempt` adds
  that the stages of an attempt exclude one another: before the call, calling,
  answered, working, loaded, prompting, configured; that the links are the session's
  control link; and that each lobby the user is in is shown, or the event that will
  leave or show it is queued or owed (`Waiting`). An answer that comes after the
  configuration finds the attempt past the stage it would advance, so it changes
  nothing until the grant and leaves the lobby after it. `NothingLeftBehind` and
  `ConnectedIsConsistent` are not inductive alone: both say nothing of the answers and
  workers under way.
* **Broadcast.** `Separated` says that what threads and helpers hold belongs to their own
  controller, and `NewsIsCurrent` that what is queued for the window was put there
  by the controller of the session that runs, as `stop` detaches the old one before the
  next begins. `ExactPorts` compares the two ends of a chain: the
  ports wanted, the command, the filter, the event, what the controller knows, the
  notice, what is shown. `WireInv` has its links: the newest command names the
  ports wanted or the filter has them (`Told`), the newest event tells the filter or the
  controller knows it (`Heard`), and the window shows what the controller knows unless
  news of it are due (`Shown`).
* **Updater.** `SomeVersionSurvives` needs no lock: `IInv` says that a helper which has
  moved the installation away keeps its own backup until an app runs from the new one
  (`BackupKept`), and that the running app is the installed version, so that nothing is
  moved while it runs (`AppCurrent`, `ChildRuns`). `Matched` ties the archive of the app
  to the version its marker will name. What the marker gives as a lock is `LInv`, which
  holds until a marker in use is misread or deleted (`unlocked`): it is there from
  `begin_update_attempt` until its helper deletes it (`MarkerHeld`), so one helper works
  at a time (`OneActive`). For `NotRetried`, an attempt at the newest release is on
  record as failed, is installed, or has the marker (`LatestSettled`), the steps of a
  helper say what is installed (`Stage`), and what a running app holds was still to be
  attempted (`HeldFresh`). Only model-checked: every liveness property, as liveness
  under fairness is out of the prover's reach (among them the closes of `TcpTunnel`, the
  liveness parts of `HealthIsShown`, and everything that converges or is answered in the
  end), and `HeardOnce` beyond the hypothesis above.

## 6. Not modelled

Detection, the user interface, file formats and build tools keep no protocol state
(`PROJECT.json` has the reason for each). Steam, the local programs, the shared server
and CPython's closing of unreferenced sockets are environment, modelled from how the
code uses them. Within the modelled components the following is left out:
`ControlLink.reconnect` meeting an authorization thread that is just ending (`tunnel.py`
101-110), the end of the host's chat and sends that fail, rich presence, the host's
cache of answered share codes, which touches nothing but itself, and socket errors that
a platform reports for a datagram. `HostSession`, `JoinFlow` and `SharedPorts` each
model the other side of the control link as an environment; they are not composed into
one module, since their product is beyond TLC at the bounds that matter and each already
lets the other side do everything its own module lets it do.

## 7. Plan

What would add most from here: a pair of pipes as the abstract specification of
`TcpTunnel`, which its proved invariant is the first half of; `LobbyChat` as an
implementation of a broadcast; the host's chat ending while clients are ready.
