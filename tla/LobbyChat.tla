------------------------------- MODULE LobbyChat -------------------------------
(***************************************************************************)
(* The encrypted lobby chat (SteamyLan/chat.py EncryptedLobbyChat): the    *)
(* host relays what it and the clients say over one link per client.       *)
(*                                                                         *)
(* A client makes a key pair each time its chat starts and says HELLO      *)
(* every second until the host answers; both then derive the same key. The *)
(* host keeps one key pair for the session, so a key is determined by the  *)
(* start of the client it was made for.  Threads: the receive thread and   *)
(* the Qt thread of the host, and the receive thread, hello loop and Qt    *)
(* thread of each client.  The lock covers the tables, not what is sent.   *)
(* SessionManager authorizes a peer before it grants it access, which is   *)
(* what makes the client start its chat (services.py _grant_peer,          *)
(* _start_client_chat).                                                    *)
(***************************************************************************)
EXTENDS Naturals, Sequences, FiniteSets, SequencesExt

CONSTANTS
    Clients,
    MaxStarts,    \* bound: times the chat of a client starts
    MaxMessages,  \* bound: messages said in the lobby
    MaxRemovals,  \* bound: times a client is removed and authorized again
    Window,       \* nonces remembered of a link: 256
    Mixes         \* the bounds to explore, each at most the ones above

ASSUME ChatAssumption ==
    /\ {MaxStarts, MaxMessages, MaxRemovals} \subseteq Nat
    /\ Window \in Nat \ {0}
    /\ "host" \notin Clients
    /\ Mixes \subseteq [starts : [Clients -> 0 .. MaxStarts], messages : 0 .. MaxMessages,
                        removals : [Clients -> 0 .. MaxRemovals], net : Nat]

NoKey == 0
Keys == 1 .. MaxStarts       \* the key of a client's n-th start
Messages == 1 .. MaxMessages
Threads == {"receive", "qt"} \* the threads of the host that relay

VARIABLES
    mix,        \* how often each event may happen, and packets under way
    authorized, \* _authorized of the host
    keys,       \* _keys of the host
    seen,       \* _seen_nonces of the host
    job,        \* what the host's receive thread is doing, and for whom
    relaying,   \* what each thread of the host is relaying, and to whom still
    running,    \* the clients whose chat runs
    starts,     \* how often the chat of each client started
    ready,      \* the clients with a key
    known,      \* _seen_nonces of each client
    toHost,     \* packets under way
    toClient,
    said,       \* how many messages were said so far
    heard,      \* history: how often each message was shown, by whom
    removals,   \* how often each client was removed
    clean,      \* history: clients started on an empty link, not removed since
    due         \* history: messages whose relay began when a client was ready

hostVars == <<mix, authorized, keys, seen, job, relaying>>
clientVars == <<running, starts, ready, known>>
history == <<heard, clean, due>>
vars == <<hostVars, clientVars, toHost, toClient, said, removals, history>>

\* Each encryption draws a nonce: the message and how often the host had shown it
\* when its relay began name the nonce on a link.
Nonces == Messages \X Nat
NoNonce == <<0, 0>>

Hello(n) == [kind |-> "hello", key |-> n, nonce |-> NoNonce]
Ack == [kind |-> "ack", key |-> NoKey, nonce |-> NoNonce]
Sealed(n, nonce) == [kind |-> "message", key |-> n, nonce |-> nonce]

Hellos == [kind : {"hello"}, key : Keys, nonce : {NoNonce}]
SealedMessages == [kind : {"message"}, key : Keys, nonce : Nonces]
Packet == Hellos \cup {Ack} \cup SealedMessages

NoRelay == [nonce |-> NoNonce, rest |-> {}, to |-> {}, key |-> NoKey]
Relay == {NoRelay}
    \cup [nonce : Nonces, rest : SUBSET Clients, to : {{}}, key : {NoKey}]
    \cup [nonce : Nonces, rest : SUBSET Clients, to : {{c} : c \in Clients}, key : Keys]
NoJob == [step |-> "idle", from |-> {}, packet |-> Ack]
Job == {NoJob}
    \cup [step : {"allowed"}, from : {{c} : c \in Clients}, packet : Packet]
    \cup [step : {"keyed"}, from : {{c} : c \in Clients}, packet : Hellos]
    \cup [step : {"opened", "shown"}, from : {{c} : c \in Clients},
          packet : SealedMessages]

HostTypes ==
    /\ mix \in Mixes
    /\ authorized \in SUBSET Clients
    /\ keys \in [Clients -> Keys \cup {NoKey}]
    /\ seen \in [Clients -> Seq(Nonces)]
    /\ job \in Job
    /\ relaying \in [Threads -> Relay]

ClientTypes ==
    /\ running \in SUBSET Clients
    /\ starts \in [Clients -> 0 .. MaxStarts]
    /\ \A c \in running : starts[c] \in Keys
    /\ ready \in SUBSET running
    /\ known \in [Clients -> Seq(Nonces)]

LinkTypes ==
    /\ toHost \in [Clients -> Seq(Packet)]
    /\ toClient \in [Clients -> Seq(Packet)]

HistoryTypes ==
    /\ said \in 0 .. MaxMessages
    /\ heard \in [Clients \cup {"host"} -> [Messages -> Nat]]
    /\ removals \in [Clients -> 0 .. MaxRemovals]
    /\ clean \in SUBSET (running \cap authorized)
    /\ due \in [Clients -> SUBSET Messages]

\* The tables, threads and links hold what their code puts there, and the host's
\* receive thread handles one packet at a time.
TypeOK ==
    /\ HostTypes /\ ClientTypes /\ LinkTypes /\ HistoryTypes
    /\ \A c \in Clients : Len(seen[c]) <= Window /\ Len(known[c]) <= Window
    /\ job # NoJob => relaying["receive"] = NoRelay

Init ==
    /\ mix \in Mixes
    /\ authorized = {}
    /\ keys = [c \in Clients |-> NoKey]
    /\ seen = [c \in Clients |-> <<>>]
    /\ job = NoJob
    /\ relaying = [t \in Threads |-> NoRelay]
    /\ running = {}
    /\ starts = [c \in Clients |-> 0]
    /\ ready = {}
    /\ known = [c \in Clients |-> <<>>]
    /\ toHost = [c \in Clients |-> <<>>]
    /\ toClient = [c \in Clients |-> <<>>]
    /\ said = 0
    /\ heard = [w \in Clients \cup {"host"} |-> [m \in Messages |-> 0]]
    /\ removals = [c \in Clients |-> 0]
    /\ clean = {}
    /\ due = [c \in Clients |-> {}]

-----------------------------------------------------------------------------
(* What both sides do with a message *)

\* Faulty variant: a full window takes no further nonce.
RememberedFull(window, nonce) ==
    IF Len(window) < Window THEN Append(window, nonce) ELSE window

\* _decrypt: the nonce is remembered, and the oldest forgotten.
Remembered(window, nonce) ==
    IF Len(window) < Window THEN Append(window, nonce) ELSE Append(Tail(window), nonce)

Shown(who, m) == heard' = [heard EXCEPT ![who][m] = @ + 1]

\* _decrypt with a key: what was encrypted with another one is dropped.
Opens(packet, key) == packet.kind = "message" /\ packet.key = key

-----------------------------------------------------------------------------
(* The host: membership and packets *)

AddPeer(c) ==
    /\ mix.starts[c] > 0
    /\ authorized' = authorized \cup {c}
    /\ UNCHANGED <<mix, keys, seen, job, relaying, clientVars, toHost, toClient, said,
                   removals, history>>

RemovePeer(c) ==
    /\ c \in authorized
    /\ removals[c] < mix.removals[c]
    /\ removals' = [removals EXCEPT ![c] = @ + 1]
    /\ authorized' = authorized \ {c}
    /\ keys' = [keys EXCEPT ![c] = NoKey]
    /\ seen' = [seen EXCEPT ![c] = <<>>]
    /\ clean' = clean \ {c}
    /\ UNCHANGED <<mix, job, relaying, clientVars, toHost, toClient, said, heard, due>>

\* _handle looks under the lock whether the sender is authorized.
TakePacket(c) ==
    /\ job = NoJob
    /\ relaying["receive"] = NoRelay
    /\ toHost[c] # <<>>
    /\ toHost' = [toHost EXCEPT ![c] = Tail(@)]
    /\ job' = IF c \in authorized
              THEN [step |-> "allowed", from |-> {c}, packet |-> Head(toHost[c])]
              ELSE NoJob
    /\ UNCHANGED <<mix, authorized, keys, seen, relaying, clientVars, toClient, said,
                   removals, history>>

At(c, step) == job.from = {c} /\ job.step = step

\* Faulty variant: a key is only stored for a peer that has none.
StoreKeyOnce(c) ==
    /\ At(c, "allowed")
    /\ job.packet.kind = "hello"
    /\ keys' = [keys EXCEPT ![c] = IF @ = NoKey THEN job.packet.key ELSE @]
    /\ job' = [job EXCEPT !.step = "keyed"]
    /\ UNCHANGED <<mix, authorized, seen, relaying, clientVars, toHost, toClient, said,
                   removals, history>>

\* _handle, HELLO: the key is stored under the lock,
StoreKey(c) ==
    /\ At(c, "allowed")
    /\ job.packet.kind = "hello"
    /\ keys' = [keys EXCEPT ![c] = job.packet.key]
    /\ job' = [job EXCEPT !.step = "keyed"]
    /\ UNCHANGED <<mix, authorized, seen, relaying, clientVars, toHost, toClient, said,
                   removals, history>>

\* Faulty variant: only the HELLO of the first start is answered.
AnswerHelloOnce(c) ==
    /\ At(c, "keyed")
    /\ job' = NoJob
    /\ toClient' = IF job.packet.key = 1
                   THEN [toClient EXCEPT ![c] = Append(@, Ack)] ELSE toClient
    /\ UNCHANGED <<mix, authorized, keys, seen, relaying, clientVars, toHost, said,
                   removals, history>>

\* and the answer is sent after it.
AnswerHello(c) ==
    /\ At(c, "keyed")
    /\ job' = NoJob
    /\ toClient' = [toClient EXCEPT ![c] = Append(@, Ack)]
    /\ UNCHANGED <<mix, authorized, keys, seen, relaying, clientVars, toHost, said,
                   removals, history>>

\* _decrypt takes the key under the lock and opens the message without it;
OpenMessage(c) ==
    /\ At(c, "allowed")
    /\ job.packet.kind = "message"
    /\ job' = IF keys[c] # NoKey /\ Opens(job.packet, keys[c])
              THEN [job EXCEPT !.step = "opened"] ELSE NoJob
    /\ UNCHANGED <<mix, authorized, keys, seen, relaying, clientVars, toHost, toClient, said,
                   removals, history>>

\* the nonce is looked up and stored under the lock again, and the message shown.
CheckNonce(c) ==
    /\ At(c, "opened")
    /\ LET nonce == job.packet.nonce
       IN  IF nonce \in ToSet(seen[c])
           THEN job' = NoJob /\ UNCHANGED <<mix, seen, heard>>
           ELSE /\ job' = [job EXCEPT !.step = "shown"]
                /\ seen' = [seen EXCEPT ![c] = Remembered(@, nonce)]
                /\ Shown("host", nonce[1])
    /\ UNCHANGED <<mix, authorized, keys, relaying, clientVars, toHost, toClient, said,
                   removals, clean, due>>

-----------------------------------------------------------------------------
(* The host: relaying *)

\* _relay_from_host: the peers are those authorized when it begins, and the
\* sender of the message is one of them.
BeginRelay(t, m) ==
    /\ relaying' = [relaying EXCEPT ![t] =
                      [nonce |-> <<m, heard["host"][m]>>, rest |-> authorized,
                       to |-> {}, key |-> NoKey]]
    /\ due' = [c \in Clients |-> IF c \in ready \cap clean THEN due[c] \cup {m} ELSE due[c]]

RelayReceived(c) ==
    /\ At(c, "shown")
    /\ job' = NoJob
    /\ BeginRelay("receive", job.packet.nonce[1])
    /\ UNCHANGED <<mix, authorized, keys, seen, clientVars, toHost, toClient, said, removals,
                   heard, clean>>

\* send_message of the host, on the Qt thread.
HostSays ==
    /\ said < mix.messages
    /\ relaying["qt"] = NoRelay
    /\ said' = said + 1
    /\ BeginRelay("qt", said + 1)
    /\ UNCHANGED <<mix, authorized, keys, seen, job, clientVars, toHost, toClient, removals,
                   heard, clean>>

\* What a thread still has to do for the message it relays.
Proceeds(t, rest, to, key) ==
    relaying' = [relaying EXCEPT ![t] =
                   [nonce |-> relaying[t].nonce, rest |-> rest, to |-> to, key |-> key]]

\* Faulty variant: the relay ends at the first peer without a key.
PickKeyOrEnd(t, c) ==
    /\ relaying[t].to = {}
    /\ c \in relaying[t].rest
    /\ Proceeds(t, IF keys[c] = NoKey THEN {} ELSE relaying[t].rest \ {c},
                IF keys[c] = NoKey THEN {} ELSE {c}, keys[c])
    /\ UNCHANGED <<mix, authorized, keys, seen, job, clientVars, toHost, toClient, said,
                   removals, history>>

\* _send_encrypted takes the key of the next peer under the lock, and passes over
\* a peer without one;
PickKey(t, c) ==
    /\ relaying[t].to = {}
    /\ c \in relaying[t].rest
    /\ Proceeds(t, relaying[t].rest \ {c}, IF keys[c] = NoKey THEN {} ELSE {c}, keys[c])
    /\ UNCHANGED <<mix, authorized, keys, seen, job, clientVars, toHost, toClient, said,
                   removals, history>>

\* the message is encrypted with it and sent.
SendSealed(t, c) ==
    /\ relaying[t].to = {c}
    /\ toClient' = [toClient EXCEPT ![c] =
                      Append(@, Sealed(relaying[t].key, relaying[t].nonce))]
    /\ Proceeds(t, relaying[t].rest, {}, NoKey)
    /\ UNCHANGED <<mix, authorized, keys, seen, job, clientVars, toHost, said, removals,
                   history>>

\* The relay is over; the host sees its own message only now.
EndRelay(t) ==
    /\ relaying[t] # NoRelay
    /\ relaying[t].rest = {} /\ relaying[t].to = {}
    /\ relaying' = [relaying EXCEPT ![t] = NoRelay]
    /\ IF t = "qt" THEN Shown("host", relaying[t].nonce[1]) ELSE UNCHANGED heard
    /\ UNCHANGED <<mix, authorized, keys, seen, job, clientVars, toHost, toClient, said,
                   removals, clean, due>>

-----------------------------------------------------------------------------
(* A client *)

\* Nothing of an earlier start is left on the link or in a thread of the host.
LinkIsEmpty(c) ==
    /\ toHost[c] = <<>> /\ toClient[c] = <<>>
    /\ job.from # {c}
    /\ \A t \in Threads : relaying[t].to # {c}

\* _start_client_chat and start: a granted client says HELLO with a new key.
ClientStart(c) ==
    /\ c \notin running
    /\ c \in authorized \/ removals[c] > 0     \* it was granted access at some time
    /\ starts[c] < mix.starts[c]
    /\ starts' = [starts EXCEPT ![c] = @ + 1]
    /\ running' = running \cup {c}
    /\ toHost' = [toHost EXCEPT ![c] = Append(@, Hello(starts[c] + 1))]
    /\ clean' = IF LinkIsEmpty(c) /\ c \in authorized THEN clean \cup {c} ELSE clean
    /\ UNCHANGED <<hostVars, ready, known, toClient, said, heard, removals, due>>

\* _hello_loop
HelloAgain(c) ==
    /\ c \in running \ ready
    /\ Len(toHost[c]) + Len(toClient[c]) < mix.net
    /\ toHost' = [toHost EXCEPT ![c] = Append(@, Hello(starts[c]))]
    /\ UNCHANGED <<hostVars, clientVars, toClient, said, removals, history>>

\* stop: keys and nonces are forgotten; what is under way stays there.
ClientStop(c) ==
    /\ c \in running
    /\ running' = running \ {c}
    /\ ready' = ready \ {c}
    /\ known' = [known EXCEPT ![c] = <<>>]
    /\ clean' = clean \ {c}
    /\ due' = [due EXCEPT ![c] = {}]
    /\ UNCHANGED <<hostVars, starts, toHost, toClient, said, heard, removals>>

\* An ACK holds the key of the host only: it answers every start.
ReceiveAck(c) ==
    /\ c \in running
    /\ toClient[c] # <<>> /\ Head(toClient[c]).kind = "ack"
    /\ toClient' = [toClient EXCEPT ![c] = Tail(@)]
    /\ ready' = ready \cup {c}
    /\ UNCHANGED <<hostVars, running, starts, known, toHost, said, removals, history>>

ReceiveMessage(c) ==
    /\ c \in running
    /\ toClient[c] # <<>> /\ Head(toClient[c]).kind = "message"
    /\ toClient' = [toClient EXCEPT ![c] = Tail(@)]
    /\ LET packet == Head(toClient[c])
       IN  IF c \in ready /\ Opens(packet, starts[c]) /\ packet.nonce \notin ToSet(known[c])
           THEN /\ known' = [known EXCEPT ![c] = Remembered(@, packet.nonce)]
                /\ Shown(c, packet.nonce[1])
           ELSE UNCHANGED <<known, heard>>
    /\ UNCHANGED <<hostVars, running, starts, ready, toHost, said, removals, clean, due>>

\* send_message of a client: without a key it says HELLO instead, and the text is lost.
ClientSays(c) ==
    /\ c \in running
    /\ said < mix.messages
    /\ Len(toHost[c]) + Len(toClient[c]) < mix.net
    /\ IF c \in ready
       THEN /\ said' = said + 1
            /\ toHost' = [toHost EXCEPT ![c] = Append(@, Sealed(starts[c], <<said + 1, 0>>))]
       ELSE /\ toHost' = [toHost EXCEPT ![c] = Append(@, Hello(starts[c]))]
            /\ UNCHANGED said
    /\ UNCHANGED <<hostVars, clientVars, toClient, removals, history>>

-----------------------------------------------------------------------------
(* The carrier: a message still under way arrives again *)

RepeatToHost(c) ==
    /\ 0 < Len(toHost[c]) /\ Len(toHost[c]) < mix.net
    /\ Head(toHost[c]).kind = "message"
    /\ toHost' = [toHost EXCEPT ![c] = Append(@, Head(@))]
    /\ UNCHANGED <<hostVars, clientVars, toClient, said, removals, history>>

RepeatToClient(c) ==
    /\ 0 < Len(toClient[c]) /\ Len(toClient[c]) < mix.net
    /\ Head(toClient[c]).kind = "message"
    /\ toClient' = [toClient EXCEPT ![c] = Append(@, Head(@))]
    /\ UNCHANGED <<hostVars, clientVars, toHost, said, removals, history>>

-----------------------------------------------------------------------------
HostReceives(c) ==
    \/ TakePacket(c)
    \/ StoreKey(c)
    \/ AnswerHello(c)
    \/ OpenMessage(c)
    \/ CheckNonce(c)
    \/ RelayReceived(c)

HostRelays(t) ==
    \/ \E c \in Clients : PickKey(t, c)
    \/ \E c \in Clients : SendSealed(t, c)
    \/ EndRelay(t)

ClientReceives(c) ==
    \/ ReceiveAck(c)
    \/ ReceiveMessage(c)

Next ==
    \/ HostSays
    \/ \E t \in Threads : HostRelays(t)
    \/ \E c \in Clients :
           \/ AddPeer(c)
           \/ RemovePeer(c)
           \/ HostReceives(c)
           \/ ClientStart(c)
           \/ HelloAgain(c)
           \/ ClientStop(c)
           \/ ClientReceives(c)
           \/ ClientSays(c)
           \/ RepeatToHost(c)
           \/ RepeatToClient(c)

Spec == Init /\ [][Next]_vars

\* The threads of the chats run: none of them waits for the user or another one.
Fairness ==
    /\ \A t \in Threads : WF_vars(HostRelays(t))
    /\ \A c \in Clients :
           /\ SF_vars(TakePacket(c))
           /\ WF_vars(HostReceives(c))
           /\ WF_vars(ClientReceives(c))
           /\ WF_vars(HelloAgain(c))

FairSpec == Spec /\ Fairness

-----------------------------------------------------------------------------
(* Properties *)

\* A message repeated on its way is shown again to nobody (_decrypt's window of
\* nonces): the host shows it twice only if a removal has thrown the window away
\* between two of its steps, and a client no more often than the host relayed it.
HeardOnce ==
    \A m \in Messages :
        /\ heard["host"][m] > 1 => \E c \in Clients : removals[c] > 0
        /\ \A c \in Clients : heard[c][m] <= 1 \/ heard[c][m] <= heard["host"][m]

\* A client that believes itself ready shares its key with the host: it started on
\* an empty link, and no answer to an earlier start is taken for its own.
ReadyIsShared ==
    \A c \in ready \cap clean : keys[c] = starts[c]

RelayPending(t, c, m) ==
    /\ relaying[t].nonce[1] = m
    /\ c \in relaying[t].rest \cup relaying[t].to

\* What is said while a client is ready is on its way to it until it is shown
\* there, whichever of the two threads relays it and whatever happens to the keys
\* and the membership of the others (_relay_from_host, _send_encrypted).
NoneLostOnceReady ==
    \A c \in clean : \A m \in due[c] :
        \/ heard[c][m] > 0
        \/ \E t \in Threads : RelayPending(t, c, m)
        \/ \E p \in ToSet(toClient[c]) : p.key = starts[c] /\ p.nonce[1] = m

\* The chat of a client that stays comes up: its HELLO is answered in the end.
ChatComesUp ==
    \A c \in Clients : c \in clean ~> c \in ready \/ c \notin clean

=============================================================================
