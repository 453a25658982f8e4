----------------------------- MODULE SharedPorts -----------------------------
(***************************************************************************)
(* The ports of a lobby on both sides (SteamyLan/services.py               *)
(* SessionManager): the services the host shares and changes while members *)
(* stay connected, and the local ports one member opens for them, closes   *)
(* and moves.                                                              *)
(*                                                                         *)
(* Each side runs its handlers on its own Qt thread, so a handler is one   *)
(* action.  Between the two are the control link, which delivers in order, *)
(* and the lobby data, which a member reads once, when it joins.           *)
(*                                                                         *)
(* A service is told by its port; all share one protocol and one bind      *)
(* address.  A data channel is derived from the number in the service and  *)
(* the member's Steam ID (derive_peer_channel), here the number itself.    *)
(* Random channels are numbered in the order they are first drawn.         *)
(***************************************************************************)
EXTENDS Naturals, Sequences, FiniteSets, SequencesExt

CONSTANTS
    Ports,      \* the ports of the host's servers
    LocalPorts, \* the ports of the member's computer
    Mixes       \* the bounds to explore: how often each event may happen

ASSUME PortsAssumption ==
    Ports \subseteq LocalPorts /\ LocalPorts \subseteq Nat /\ IsFiniteSet(Ports)

\* A server is shared with ports of its own.
ASSUME MixesAssumption ==
    \A m \in Mixes :
        /\ m.auto \in BOOLEAN
        /\ m.shared \in Seq(Ports)
        /\ \A i, j \in DOMAIN m.shared : m.shared[i] = m.shared[j] => i = j

VARIABLES
    limit,      \* how often each event may still happen
    hosted,     \* the host's _config.services, in order
    published,  \* the same as the lobby data holds it
    served,     \* the member is in _peer_engines
    hostOpen,   \* the services of the host's engines for the member
    edition,    \* how many changes the host made
    channels,   \* how many different channels were drawn
    redrawn,    \* history: a channel was drawn that had been drawn before
    request,    \* an AUTH_REQUEST is under way
    net,        \* messages under way to the member
    behind,     \* history: the newest services were not sent to the member
    mode,       \* the member's _snapshot.mode
    config,     \* its _config.services
    asking,     \* its _authorize thread runs
    auto,       \* prefs.auto_accept_ports
    engines,    \* _client_engines
    mappings,   \* _snapshot.mappings
    running,    \* the engines that were started and not stopped
    leaked,     \* history: the engines a grant found in _client_engines and dropped
    taken       \* local ports other programs use

hostVars == <<hosted, published, served, hostOpen, edition, channels, redrawn>>
linkVars == <<request, net, behind>>
openVars == <<engines, mappings, running, leaked>>
memberVars == <<mode, config, asking, auto, openVars>>
vars == <<limit, hostVars, linkVars, memberVars, taken>>

Ids == Ports \X Nat     \* the uuid a service gets when it is first shared
Service == [id : Ids, port : Ports, channel : Nat]
Engine == [id : Ids, port : Ports, channel : Nat, local : LocalPorts]
Message == [kind : {"granted", "denied", "config"}, services : Seq(Service)]

TypeOK ==
    /\ {hosted, published, config} \subseteq Seq(Service)
    /\ {served, redrawn, request, behind, asking, auto} \subseteq BOOLEAN
    /\ hostOpen \subseteq Service
    /\ edition \in Nat /\ channels \in Nat
    /\ net \in Seq(Message)
    /\ mode \in {"idle", "joining", "connected"}
    /\ {engines, running, leaked} \subseteq SUBSET Engine
    /\ mappings \subseteq [id : Ids, port : Ports, local : LocalPorts]
    /\ taken \subseteq LocalPorts

Spend(event) ==
    /\ limit[event] > 0
    /\ limit' = [limit EXCEPT ![event] = @ - 1]

\* share: every port gets an identifier and a channel of its own.
Shared(list) == [i \in DOMAIN list |-> [id |-> <<list[i], 0>>, port |-> list[i], channel |-> i]]

Init ==
    /\ limit \in Mixes
    /\ hosted = Shared(limit.shared)
    /\ published = hosted
    /\ served = FALSE
    /\ hostOpen = {}
    /\ edition = 0
    /\ channels = Len(hosted)
    /\ redrawn = FALSE
    /\ request = FALSE
    /\ net = <<>>
    /\ behind = FALSE
    /\ mode = "idle"
    /\ config = <<>>
    /\ asking = FALSE
    /\ auto = limit.auto
    /\ engines = {}
    /\ mappings = {}
    /\ running = {}
    /\ leaked = {}
    /\ taken = {}

-----------------------------------------------------------------------------
(* The host *)

Numbers(list) == {list[i].channel : i \in DOMAIN list}

\* SessionConfig.from_json: no two services on one channel.
Valid(list) == Cardinality(Numbers(list)) = Len(list)

Known(port) == {s \in ToSet(hosted) : s.port = port}

New(port, channel) == [id |-> <<port, edition + 1>>, port |-> port, channel |-> channel]

\* secrets.randbelow until the channel is not one of the list so far.  Most
\* draws give a channel that was never used: the next number.
Draws(used, most) ==
    {c \in (1 .. most) \ used : IF c <= channels THEN limit.redraws
                                ELSE channels + 1 .. c - 1 \subseteq used}

\* One endpoint of the new list: what is known about its port is kept.
Endpoint(port, used, most) ==
    IF Known(port) # {} THEN Known(port) ELSE {New(port, c) : c \in Draws(used, most)}

\* Faulty variant: the list keeps its channels and identifiers by place.
ListedByPlace(ports) ==
    {[i \in DOMAIN ports |-> IF i <= Len(hosted) THEN [hosted[i] EXCEPT !.port = ports[i]]
                             ELSE New(ports[i], channels + i)]}

\* The service lists reconfigure_server may make of the chosen ports.
Listed(ports) ==
    LET most == channels + Len(ports)
        drawn == {New(p, c) : p \in Ports, c \in 1 .. most}
    IN {list \in [DOMAIN ports -> ToSet(hosted) \cup drawn] :
           \A i \in DOMAIN ports :
               list[i] \in Endpoint(ports[i], {list[j].channel : j \in 1 .. i - 1}, most)}

Selections == SetToSeqs(Ports) \cup {<<p>> : p \in Ports}

\* Channels and identifiers that were drawn stay drawn, used or not.
Drawn(list) ==
    /\ edition' = edition + 1
    /\ channels' = Max(Numbers(list) \cup {channels})
    /\ redrawn' = (redrawn \/ \E i \in DOMAIN list :
                       list[i].id[2] = edition + 1 /\ list[i].channel <= channels)

Update(list) == [kind |-> "config", services |-> list]
Bare(kind) == [kind |-> kind, services |-> <<>>]

\* A member that left closes the session a message opens
\* (_on_networking_request).
Sent(message) == IF mode = "idle" THEN net ELSE Append(net, message)

\* _start_peer_engines.
StartEngines(list) ==
    \/ /\ hostOpen' = ToSet(list)
       /\ served' = TRUE
       /\ UNCHANGED limit
    \/ /\ Spend("failures")
       /\ hostOpen' = {}
       /\ served' = FALSE

\* Faulty variant: the member is not told when its engines do not start.
ReconfigureSilently(list, moved, sent) ==
    /\ Drawn(list)
    /\ hosted' = list
    /\ published' = list
    /\ IF served /\ (list # hosted \/ moved)
       THEN StartEngines(list) ELSE UNCHANGED <<limit, served, hostOpen>>
    /\ net' = IF served' /\ sent THEN Sent(Update(list)) ELSE net
    /\ behind' = ~(served /\ sent)
    /\ UNCHANGED <<request, memberVars, taken>>

\* reconfigure_server, once Steam took the lobby data.  A server may have moved
\* to another address with the ports unchanged.  What send_config says is ignored.
Reconfigure(list, moved, sent) ==
    /\ Drawn(list)
    /\ hosted' = list
    /\ published' = list
    /\ IF served /\ (list # hosted \/ moved)
       THEN StartEngines(list) ELSE UNCHANGED <<limit, served, hostOpen>>
    /\ net' = IF served /\ sent THEN Sent(Update(list)) ELSE net
    /\ behind' = ~(served /\ sent)
    /\ UNCHANGED <<request, memberVars, taken>>

HostReconfigures ==
    /\ edition < limit.updates
    /\ \E ports \in Selections, moved \in BOOLEAN, sent \in {TRUE, limit.heard} :
           \E list \in Listed(ports) : Reconfigure(list, moved, sent)

\* reconfigure_server: Steam took the services and then refused something else.
\* The host keeps its own; the lobby data is not put back.
HostIsRefused ==
    /\ Spend("refusals")
    /\ \E ports \in Selections :
           \E list \in Listed(ports) :
               /\ published' = list
               /\ Drawn(list)
    /\ UNCHANGED <<hosted, served, hostOpen, linkVars, memberVars, taken>>

\* _on_auth_request of an admitted member (HostSession models who is).
HostGrants ==
    /\ request
    /\ Len(net) < limit.unread
    /\ request' = FALSE
    /\ IF served THEN UNCHANGED <<limit, served, hostOpen>> ELSE StartEngines(hosted)
    /\ net' = Sent(Bare(IF served' THEN "granted" ELSE "denied"))
    /\ UNCHANGED <<hosted, published, edition, channels, redrawn, behind,
                   memberVars, taken>>

\* Messages under way when a P2P session is closed may be lost.
Dropped ==
    /\ net' = <<>>
    /\ behind' = (behind \/ \E i \in DOMAIN net : net[i].kind = "config")

\* _check_members: the member left, or Steam's list lacks it for a moment.
HostMissesMember ==
    /\ served
    /\ IF mode = "idle" THEN UNCHANGED limit ELSE Spend("gaps")
    /\ served' = FALSE
    /\ hostOpen' = {}
    /\ Dropped \/ UNCHANGED <<net, behind>>
    /\ UNCHANGED <<hosted, published, edition, channels, redrawn, request,
                   memberVars, taken>>

-----------------------------------------------------------------------------
(* The member's control link *)

\* The lobby data is read and the link opened (JoinFlow models how).
Join ==
    /\ mode = "idle"
    /\ Spend("joins")
    /\ Valid(published)
    /\ mode' = "joining"
    /\ config' = published
    /\ behind' = (published # hosted)
    /\ asking' = TRUE
    /\ UNCHANGED <<hostVars, request, net, auto, openVars, taken>>

\* _authorize: every 1.5 s until the grant.
Ask ==
    /\ asking
    /\ ~request
    /\ request' = TRUE
    /\ UNCHANGED <<limit, hostVars, net, behind, memberVars, taken>>

\* _on_networking_fail: on the member's side, which asks again, or on the
\* host's, which does not tell.
SessionBreaks ==
    /\ mode # "idle"
    /\ Spend("breaks")
    /\ Dropped
    /\ request' = FALSE
    /\ asking' \in {asking, TRUE}
    /\ UNCHANGED <<hostVars, mode, config, auto, openVars, taken>>

Receive(kind) ==
    /\ mode # "idle"
    /\ net # <<>>
    /\ Head(net).kind = kind
    /\ net' = Tail(net)

-----------------------------------------------------------------------------
(* Local ports *)

Locals(es) == {e.local : e \in es}
Mapping(e) == [id |-> e.id, port |-> e.port, local |-> e.local]
Opening(s, local) == [id |-> s.id, port |-> s.port, channel |-> s.channel, local |-> local]

\* bind_available and find_free_port: the port of the service if it is free.
Candidates(s, busy) == IF s.port \in busy THEN LocalPorts \ busy ELSE {s.port}

\* _start_client_service: ways to open the services at these places of a list,
\* one by one.
Opened(list, places, busy) ==
    {{Opening(list[i], at[i]) : i \in places} :
        at \in {at \in [places -> LocalPorts] :
                  \A i \in places :
                      at[i] \in Candidates(list[i], busy \cup {at[j] : j \in places \cap (1 .. i - 1)})}}

\* The places before the one that could not be opened.
Before(n, places) == {i \in places : i < n}

Busy(es) == taken \cup Locals(es)

\* A port can be taken between the check and the bind, or none may be left.
Stuck(s, busy) ==
    IF Candidates(s, busy) = {} THEN UNCHANGED limit ELSE Spend("races")

\* stop: the engines of the table are stopped, and the session with the host
\* is closed.
StopMember ==
    /\ mode' = "idle"
    /\ config' = <<>>
    /\ asking' = FALSE
    /\ running' = running \ engines
    /\ engines' = {}
    /\ mappings' = {}
    /\ net' = <<>>
    /\ UNCHANGED <<request, behind, auto, leaked, taken>>

Leave ==
    /\ mode # "idle"
    /\ StopMember
    /\ UNCHANGED <<limit, hostVars>>

\* _on_auth_denied
HandleDenied ==
    /\ Receive("denied")
    /\ StopMember
    /\ UNCHANGED <<limit, hostVars>>

\* _on_auth_granted when it answers a reconnect.
HandleRenewed ==
    /\ mode = "connected"
    /\ Receive("granted")
    /\ asking' = FALSE
    /\ UNCHANGED <<limit, hostVars, request, behind, mode, config, auto, openVars, taken>>

Offered == IF auto THEN DOMAIN config ELSE {}

\* _on_auth_granted of a new member: the table is replaced, whatever it held.
HandleGranted ==
    /\ mode = "joining"
    /\ Receive("granted")
    /\ mode' = "connected"
    /\ asking' = FALSE
    /\ \E started \in Opened(config, Offered, Busy(running)) :
           /\ engines' = started
           /\ mappings' = {Mapping(e) : e \in started}
           /\ running' = running \cup started
    /\ leaked' = leaked \cup engines
    /\ UNCHANGED <<limit, hostVars, request, behind, config, auto, taken>>

\* _on_auth_granted: a port could not be opened.  What was started is stopped.
HandleGrantedStuck ==
    /\ mode = "joining"
    /\ Len(net) > 0 /\ Head(net).kind = "granted"
    /\ \E n \in Offered :
           \E started \in Opened(config, Before(n, Offered), Busy(running)) :
               Stuck(config[n], Busy(running \cup started))
    /\ StopMember
    /\ UNCHANGED hostVars

\* accept_client_service, which reports a failure and changes nothing then.
Accept(id) ==
    /\ mode = "connected"
    /\ \A e \in engines : e.id # id
    /\ \E s \in ToSet(config) :
           /\ s.id = id
           /\ \E p \in Candidates(s, Busy(running)) :
                  /\ engines' = engines \cup {Opening(s, p)}
                  /\ mappings' = mappings \cup {Mapping(Opening(s, p))}
                  /\ running' = running \cup {Opening(s, p)}
    /\ UNCHANGED <<limit, hostVars, linkVars, mode, config, asking, auto, leaked, taken>>

\* revoke_client_service
Revoke(id) ==
    /\ \E e \in engines : e.id = id
    /\ engines' = {e \in engines : e.id # id}
    /\ running' = running \ {e \in engines : e.id = id}
    /\ mappings' = {m \in mappings : m.id # id}
    /\ UNCHANGED <<limit, hostVars, linkVars, mode, config, asking, auto, leaked, taken>>

\* remap_client_service: the new engine is started before the old is stopped.
Remap(id, local) ==
    /\ mode = "connected"
    /\ \E s \in ToSet(config), old \in engines, m \in mappings :
           /\ s.id = id /\ old.id = id /\ m.id = id
           /\ local \notin Busy(running)
           /\ engines' = (engines \ {old}) \cup {Opening(s, local)}
           /\ running' = (running \ {old}) \cup {Opening(s, local)}
           /\ mappings' = (mappings \ {m}) \cup {Mapping(Opening(s, local))}
    /\ UNCHANGED <<limit, hostVars, linkVars, mode, config, asking, auto, leaked, taken>>

\* The window's dialogs and lists act on services of the moment they opened.
User ==
    /\ limit.acts > 0
    /\ \E id \in {s.id : s \in ToSet(config)} \cup {e.id : e \in engines} :
           \/ Accept(id)
           \/ Revoke(id)
           \/ \E local \in LocalPorts : Remap(id, local)

SetAuto ==
    /\ Spend("toggles")
    /\ auto' = ~auto
    /\ UNCHANGED <<hostVars, linkVars, mode, config, asking, openVars, taken>>

-----------------------------------------------------------------------------
(* A change of the host's services reaches the member: _on_config_updated *)

IdsOf(things) == {x.id : x \in things}

\* Engines whose service is as it was.
Kept(updated) ==
    {e \in engines : /\ \E s \in ToSet(updated) \cap ToSet(config) : s.id = e.id
                     /\ \E m \in mappings : m.id = e.id}

\* The services to open: all with auto_accept_ports, else those that were open.
Todo(updated) ==
    {i \in DOMAIN updated : /\ auto \/ updated[i].id \in IdsOf(engines)
                           /\ updated[i].id \notin IdsOf(Kept(updated))}

\* What still runs when the others are stopped.
Rest(updated) == running \ (engines \ Kept(updated))

HandleInvalid ==
    /\ Receive("config")
    /\ ~Valid(Head(net).services)
    /\ UNCHANGED <<limit, hostVars, request, behind, memberVars, taken>>

\* The table, the mappings and what runs, once the update is over.
OpenAre(updated, es) ==
    /\ config' = updated
    /\ engines' = es
    /\ mappings' = {Mapping(e) : e \in es}
    /\ running' = Rest(updated) \cup es
    /\ UNCHANGED <<hostVars, request, behind, mode, asking, auto, leaked, taken>>

HandleConfig ==
    /\ Receive("config")
    /\ LET updated == Head(net).services
       IN /\ Valid(updated)
          /\ \E started \in Opened(updated, Todo(updated), Busy(Rest(updated))) :
                 OpenAre(updated, Kept(updated) \cup started)
    /\ UNCHANGED limit

\* Faulty variant: what was opened before the failure is not stopped.
HandleConfigStuckOpen ==
    /\ Receive("config")
    /\ LET updated == Head(net).services
       IN /\ Valid(updated)
          /\ \E n \in Todo(updated) :
                 \E started \in Opened(updated, Before(n, Todo(updated)), Busy(Rest(updated))) :
                     /\ Stuck(updated[n], Busy(Rest(updated) \cup started))
                     /\ config' = updated
                     /\ engines' = Kept(updated)
                     /\ mappings' = {Mapping(e) : e \in Kept(updated)}
                     /\ running' = Rest(updated) \cup started
                     /\ UNCHANGED <<hostVars, request, behind, mode, asking, auto,
                                    leaked, taken>>

\* A port could not be opened: services that were not open before are closed.
HandleConfigStuck ==
    /\ Receive("config")
    /\ LET updated == Head(net).services
       IN /\ Valid(updated)
          /\ \E n \in Todo(updated) :
                 \E started \in Opened(updated, Before(n, Todo(updated)), Busy(Rest(updated))) :
                     /\ Stuck(updated[n], Busy(Rest(updated) \cup started))
                     /\ OpenAre(updated, Kept(updated) \cup
                            {e \in started : e.id \in IdsOf(engines)})

-----------------------------------------------------------------------------
(* Other programs of the member's computer *)

ProgramBinds ==
    /\ Spend("binds")
    /\ \E p \in LocalPorts \ Busy(running) : taken' = taken \cup {p}
    /\ UNCHANGED <<hostVars, linkVars, memberVars>>

ProgramCloses ==
    /\ \E p \in taken : taken' = taken \ {p}
    /\ UNCHANGED <<limit, hostVars, linkVars, memberVars>>

Next ==
    \/ HostReconfigures \/ HostIsRefused \/ HostGrants \/ HostMissesMember
    \/ Join \/ Ask \/ SessionBreaks \/ Leave
    \/ HandleDenied \/ HandleRenewed \/ HandleGranted \/ HandleGrantedStuck
    \/ HandleInvalid \/ HandleConfig \/ HandleConfigStuck
    \/ User \/ SetAuto
    \/ ProgramBinds \/ ProgramCloses

Spec == Init /\ [][Next]_vars

-----------------------------------------------------------------------------
(* Properties *)

\* The window lists the ports of the engines in the table, each on the port its
\* engine listens on and at most one for a service.  What listens and is not listed
\* are the engines that a grant found in the table and dropped, and no others: no
\* failure of a port, update, move or stop leaves one behind.  Nothing stops those
\* that were dropped.  (services.py 1915 and _on_config_updated,
\* remap_client_service, revoke_client_service, stop.)
WindowTellsTruth ==
    /\ mappings = {Mapping(e) : e \in engines}
    /\ \A d, e \in engines : d.id = e.id => d = e
    /\ running = engines \cup leaked
    /\ engines \cap leaked = {}
    /\ \A d, e \in running : d.local = e.local => d = e
    /\ Locals(running) \cap taken = {}

\* A local port leads to the port it is listed for or nowhere, also while a
\* change of the host is under way, unless a random channel was drawn again.
\* (reconfigure_server gives a channel to a port and not to a place.)
NoCrossTalk ==
    \A e \in running, s \in hostOpen :
        ~redrawn /\ e.channel = s.channel => e.port = s.port

\* A connected member that was sent the newest services, and has received
\* them, works with those of the host, and every port it has open leads to
\* the host's server.  (reconfigure_server, _on_config_updated.)
MembersKeepUp ==
    mode = "connected" /\ net = <<>> /\ ~behind /\ Valid(hosted) =>
        /\ config = hosted
        /\ served => \A e \in engines :
               \E s \in hostOpen : s.id = e.id /\ s.port = e.port /\ s.channel = e.channel
=============================================================================
