--------------------------- MODULE JoinFlow_proofs ---------------------------
EXTENDS JoinFlow, TLAPS, SequenceTheorems

\* What Steam answers to a call, and what a worker ends with.
Answers == {"enter", "result"}
Configs == {"config", "noConfig"}

\* Events as they are posted: all but a lost result and a refused code name a
\* lobby, and a configuration names its attempt.
Good ==
    {e \in Event :
        /\ e.kind \notin {"lost", "codeDenied"} => e.lobby \in Lobbies
        /\ e.kind \in Configs => e.try \in 1 .. MaxTries}

Types ==
    /\ TypeOK
    /\ inbox \in Seq(Good)
    /\ owed \in SUBSET {e \in Good : e.kind \in Answers \cup {"lost"}}
    /\ session.joining # None => tries > 0

\* The call of an attempt is made at most once, and before it none was.
Due(s) == s.joining # None /\ ~s.callStarted

CallOnce ==
    /\ asked <= 1
    /\ Due(session) => asked = 0

\* How the fields of the session go together, in any attempt.
FieldsAgree(s) ==
    /\ s.mode = "joining" <=> s.joining # None
    /\ s.mode = "joining" => s.lobby = s.joining
    /\ s.mode = "idle" => s.lobby = None
    /\ s.joining = Unknown => ~s.callStarted

Modes == FieldsAgree(session)

\* What is still to be handled, queued or not.
Waiting == owed \cup {inbox[i] : i \in DOMAIN inbox}

NoAnswers == \A e \in Waiting : e.kind \notin Answers

NoConfigs == \A i \in DOMAIN inbox : inbox[i].kind \notin Configs

Quiet == calls = {} /\ workers = {} /\ NoConfigs

\* A worker's lobby is the one being entered, unless the attempt has ended.
Current(l) ==
    session.mode = "joining" => session.loading /\ session.joining = l /\ l \in inside

\* The parts of an attempt, in the order they take place.

NotYetCalled ==
    /\ session.loading => session.mode = "joining" /\ session.callStarted
    /\ session.mode = "joining" /\ ~session.callStarted =>
           Quiet /\ NoAnswers /\ inside = {}

Calling == \A c \in calls :
    /\ calls = {c} /\ workers = {} /\ inside = {} /\ ~session.loading
    /\ NoAnswers /\ NoConfigs
    /\ session.mode = "joining" => session.joining = c.lobby

\* An answer can still wait when the attempt it led to is long connected.
Answered == \A e \in Waiting :
    e.kind \in Answers =>
        /\ ~e.ok => inside = {}
        /\ e.ok /\ session.mode # "idle" => session.lobby = e.lobby
        /\ e.ok /\ session.mode = "joining" => e.lobby \in inside

Working == \A w \in workers :
    /\ workers = {w}
    /\ Current(w.lobby)
    /\ NoConfigs

Loaded == \A i \in DOMAIN inbox :
    inbox[i].kind \in Configs =>
        /\ Current(inbox[i].lobby)
        /\ \A j \in DOMAIN inbox : inbox[j].kind \in Configs => i = j

Prompting ==
    session.prompt # NoJob =>
        /\ Quiet
        /\ session.mode = "joining" /\ session.config = None
        /\ Current(session.prompt.lobby)

Configured ==
    /\ session.config # None =>
           /\ Quiet
           /\ session.mode # "idle"
           /\ session.mode = "joining" => session.loading
           /\ session.config = session.lobby
           /\ session.lobby \in inside \/ expelled
           /\ session.prompt = NoJob
    /\ session.config = None <=> session.control = NoJob
    /\ session.mode = "connected" => session.config # None

Linked == links = IF session.control = NoJob THEN {} ELSE {session.control}

\* A lobby the user is in is shown, or Steam's callback for it is still to be
\* handled.
Accounted == \A l \in inside :
    \/ \E e \in Waiting : e.kind = "enter" /\ e.ok /\ e.lobby = l
    \/ session.lobby = l /\ (session.loading \/ session.mode = "connected")

Attempt ==
    /\ NotYetCalled /\ Calling /\ Answered /\ Working /\ Loaded
    /\ Prompting /\ Configured /\ Linked /\ Accounted

IInv == Types /\ CallOnce /\ Modes /\ (patient => Attempt)

-----------------------------------------------------------------------------
(* Types *)

LEMMA Constants ==
    /\ None \notin Lobbies /\ Unknown \notin Lobbies /\ None # Unknown
    /\ NoJob \notin Job
    /\ MaxTries \in Nat /\ MaxInbox \in Nat
<1>1. NoJob \notin Job
  <2>1. NoJob.try = 0 BY DEF NoJob
  <2>2. \A j \in Job : j.try \in 1 .. MaxTries BY DEF Job
  <2> QED BY <2>1, <2>2, JoinAssumption DEF JoinAssumption
<1> QED BY <1>1, JoinAssumption DEF JoinAssumption

LEMMA NoteGood ==
    ASSUME NEW kind \in {"enter", "result", "config", "noConfig", "codeGranted",
                         "steamInvite", "granted", "denied"},
           NEW l \in Lobbies, NEW ok \in BOOLEAN, NEW try \in 0 .. MaxTries,
           kind \in Configs => try \in 1 .. MaxTries
    PROVE  Note(kind, l, ok, try) \in Good
BY DEF Note, Good, Event, Configs

LEMMA NoteNone ==
    ASSUME NEW kind \in {"lost", "codeDenied"}, NEW ok \in BOOLEAN, NEW try \in 0 .. MaxTries
    PROVE  Note(kind, None, ok, try) \in Good
BY DEF Note, Good, Event, Configs

\* What a session may be, and what becomes of it when an attempt ends.
LEMMA Sessions ==
    Idle \in Session /\ \A s \in Session : Abandoned(s) \in Session
BY DEF Session, Idle, Abandoned, NoJob

LEMMA StopTypes ==
    ASSUME Types, StopSession
    PROVE  /\ session' \in Session /\ session'.joining = None
           /\ watchdogs' \in SUBSET Lobbies /\ broker' \in BOOLEAN
           /\ links' \in SUBSET Job /\ inside' \in SUBSET Lobbies
BY Sessions DEF Types, TypeOK, StopSession, Idle

LEMMA CallTypes ==
    ASSUME Types, NEW s \in Session, s.joining \in Lobbies, NEW try \in 1 .. MaxTries,
           CallJoinLobby(s, try)
    PROVE  /\ session' \in Session
           /\ calls' \in SUBSET Job /\ watchdogs' \in SUBSET Lobbies
           /\ broker' \in BOOLEAN /\ asked' \in Nat
<1>1. session' = [s EXCEPT !.callStarted = TRUE] BY DEF CallJoinLobby
<1>2. session' \in Session BY <1>1 DEF Session
<1>3. [lobby |-> s.joining, try |-> try] \in Job BY DEF Job
<1>4. calls \subseteq Job /\ asked \in Nat BY DEF Types, TypeOK
<1>5. calls' \in SUBSET Job BY <1>3, <1>4 DEF CallJoinLobby
<1>6. watchdogs' \in SUBSET Lobbies /\ broker' \in BOOLEAN BY DEF CallJoinLobby
<1>7. asked' \in Nat BY <1>4 DEF CallJoinLobby
<1> QED BY <1>2, <1>5, <1>6, <1>7

LEMMA RequestTypes ==
    ASSUME Types, NEW s \in Session, NEW try \in 0 .. MaxTries,
           s.joining # None => try > 0, RequestJoin(s, try)
    PROVE  /\ session' \in Session /\ (session'.joining # None => try > 0)
           /\ calls' \in SUBSET Job /\ watchdogs' \in SUBSET Lobbies
           /\ broker' \in BOOLEAN /\ asked' \in Nat
<1>1. CASE session' = s /\ UNCHANGED <<calls, watchdogs, broker, asked>>
  BY <1>1 DEF Types, TypeOK
<1>2. CASE s.joining \in Lobbies /\ CallJoinLobby(s, try)
  <2>1. try \in 1 .. MaxTries BY <1>2, Constants
  <2> QED BY <1>2, <2>1, CallTypes
<1>3. CASE session' = Abandoned(s) /\ broker' = FALSE /\ UNCHANGED <<calls, watchdogs, asked>>
  BY <1>3, Sessions, ZenonT(30) DEF Types, TypeOK, Abandoned, Session
<1> QED BY <1>1, <1>2, <1>3 DEF RequestJoin

\* The settings of a session that applies a configuration.
LEMMA ApplyTypes ==
    ASSUME Types, NEW s \in Session, s.joining # None => tries > 0, NEW job \in Job,
           ApplyConfig(s, job)
    PROVE  /\ session' \in Session /\ (session'.joining # None => tries > 0)
           /\ watchdogs' \in SUBSET Lobbies /\ broker' \in BOOLEAN
           /\ links' \in SUBSET Job /\ inside' \in SUBSET Lobbies
<1>1. job.lobby \in Lobbies BY DEF Job
<1>2. CASE session' = s /\ UNCHANGED <<watchdogs, broker, links, inside>>
  BY <1>2 DEF Types, TypeOK
<1>3. CASE session' = [s EXCEPT !.prompt = job] /\ UNCHANGED <<watchdogs, broker, links, inside>>
  <2>1. session' \in Session /\ session'.joining = s.joining BY <1>3 DEF Session
  <2> QED BY <1>3, <2>1 DEF Types, TypeOK
<1>4. CASE /\ session' = [s EXCEPT !.prompt = NoJob, !.config = job.lobby, !.control = job,
                                    !.lobby = s.joining]
           /\ links' = links \cup {job}
           /\ UNCHANGED <<watchdogs, broker, inside>>
  <2>1. session' \in Session /\ session'.joining = s.joining BY <1>1, <1>4 DEF Session
  <2> QED BY <1>4, <2>1 DEF Types, TypeOK
<1>5. CASE StopSession BY <1>5, StopTypes
<1> QED BY <1>2, <1>3, <1>4, <1>5 DEF ApplyConfig

\* What is left of Types once a slot has taken an event, or one or two are posted.
LEMMA SlotTypes ==
    ASSUME Types, NEW kind, NEW e, Takes(kind, e)
    PROVE  /\ e \in Good /\ e.kind = kind
           /\ inbox' \in Seq(Good) /\ inbox' \in Seq(Event)
<1>1. inbox' \in Seq(Good) /\ inbox' \in Seq(Event) /\ e \in Good
  BY HeadTailProperties DEF Takes, Types, TypeOK
<1> QED BY <1>1 DEF Takes

LEMMA PostTypes ==
    ASSUME Types, NEW events \in Seq(Good), Posted(events)
    PROVE  inbox' \in Seq(Good) /\ inbox' \in Seq(Event)
<1>1. inbox' \in Seq(Good) BY ConcatProperties DEF Posted, Types
<1>2. Good \subseteq Event BY DEF Good
<1>3. Len(inbox') \in Nat /\ inbox' \in [1 .. Len(inbox') -> Good] BY <1>1
<1>4. inbox' \in [1 .. Len(inbox') -> Event] BY <1>2, <1>3
<1> QED BY <1>1, <1>3, <1>4

LEMMA PostOne ==
    ASSUME Types, NEW a \in Good, Posted(<<a>>)
    PROVE  inbox' \in Seq(Good) /\ inbox' \in Seq(Event)
<1>1. <<a>> \in Seq(Good) OBVIOUS
<1> QED BY <1>1, PostTypes

LEMMA PostTwo ==
    ASSUME Types, NEW a \in Good, NEW b \in Good, Posted(<<a, b>>)
    PROVE  inbox' \in Seq(Good) /\ inbox' \in Seq(Event)
<1>1. <<a, b>> \in Seq(Good) OBVIOUS
<1> QED BY <1>1, PostTypes

LEMMA UserTypes == ASSUME Types, User PROVE Types'
<1>0. session \in Session /\ tries \in 0 .. MaxTries /\ MaxTries \in Nat /\ calls \subseteq Job
      /\ links \subseteq Job
  BY Constants DEF Types, TypeOK
<1>1. ASSUME NEW l \in Lobbies, NEW password \in BOOLEAN, Join(l, password) PROVE Types'
  <2> DEFINE s == [session EXCEPT !.mode = "joining", !.lobby = l, !.joining = l,
                        !.loading = FALSE, !.callStarted = FALSE, !.codePending = FALSE,
                        !.password = password, !.prompt = NoJob]
  <2>1. s \in Session BY <1>0 DEF Session
  <2>2. RequestJoin(s, tries + 1) BY <1>1 DEF Join
  <2>3. /\ tries' = tries + 1 /\ tries' \in 1 .. MaxTries
        /\ patient' = (patient /\ Settled) /\ expelled' = FALSE
        /\ UNCHANGED <<codeTimer, owed, workers, links, inside, inbox>>
    BY <1>0, <1>1 DEF Join, MayTry
  <2> HIDE DEF s
  <2>4. tries + 1 \in 0 .. MaxTries /\ tries + 1 > 0 BY <2>3
  <2>5. /\ session' \in Session
        /\ calls' \in SUBSET Job /\ watchdogs' \in SUBSET Lobbies
        /\ broker' \in BOOLEAN /\ asked' \in Nat
    BY <2>1, <2>2, <2>4, RequestTypes
  <2>6. patient' \in BOOLEAN /\ expelled' \in BOOLEAN BY <2>3 DEF Types, TypeOK
  <2>7. tries' > 0 /\ tries' \in 0 .. MaxTries BY <2>3
  <2> QED BY <2>3, <2>5, <2>6, <2>7 DEF Types, TypeOK
<1>2. ASSUME NEW l \in Lobbies \cup {Unknown}, NEW password \in BOOLEAN, JoinByCode(l, password)
      PROVE Types'
  <2>1. session' \in Session BY <1>0, <1>2 DEF JoinByCode, Session
  <2>2. tries' \in 1 .. MaxTries BY <1>0, <1>2 DEF JoinByCode, MayTry
  <2>3. patient' \in BOOLEAN /\ expelled' \in BOOLEAN
    BY <1>2 DEF JoinByCode, MayTry, Types, TypeOK
  <2> QED BY <1>2, <2>1, <2>2, <2>3 DEF JoinByCode, Types, TypeOK
<1>3. CASE Disconnect
  BY <1>3, StopTypes DEF Disconnect, Types, TypeOK, history
<1>4. CASE ProvidePassword
  <2>1. CASE StopSession
    BY <1>4, <2>1, StopTypes DEF ProvidePassword, Types, TypeOK, history
  <2>2. CASE ApplyConfig([session EXCEPT !.password = TRUE], session.prompt)
    <3> DEFINE s == [session EXCEPT !.password = TRUE]
    <3>1. s \in Session /\ s.joining = session.joining BY <1>0 DEF Session
    <3>2. session.prompt \in Job BY <1>0, <1>4 DEF ProvidePassword, Session
    <3>3. s.joining # None => tries > 0 BY <3>1 DEF Types
    <3>4. ApplyConfig(s, session.prompt) BY <2>2
    <3> HIDE DEF s
    <3>5. /\ session' \in Session /\ (session'.joining # None => tries > 0)
          /\ watchdogs' \in SUBSET Lobbies /\ broker' \in BOOLEAN
          /\ links' \in SUBSET Job /\ inside' \in SUBSET Lobbies
      BY <3>1, <3>2, <3>3, <3>4, ApplyTypes
    <3> QED BY <1>4, <3>5 DEF ProvidePassword, Types, TypeOK, history
  <2> QED BY <1>4, <2>1, <2>2 DEF ProvidePassword
<1> QED BY <1>1, <1>2, <1>3, <1>4 DEF User

LEMMA PosterTypes ==
    ASSUME Types,
           \/ \E c \in calls, ok \in BOOLEAN : SteamAnswers(c, ok)
           \/ \E e \in owed : Deliver(e)
           \/ \E l \in Lobbies : FriendInvites(l)
           \/ Broker
           \/ \E w \in workers : Worker(w)
           \/ \E link \in links, kind \in {"granted", "denied"} : HostAnswers(link, kind)
    PROVE  Types'
<1>0. /\ calls \subseteq Job /\ workers \subseteq Job /\ links \subseteq Job
      /\ inside \subseteq Lobbies /\ tries \in 0 .. MaxTries /\ MaxTries \in Nat
  BY Constants DEF Types, TypeOK
<1>j. \A c \in Job : c.lobby \in Lobbies /\ c.try \in 0 .. MaxTries /\ c.try \in 1 .. MaxTries
  BY <1>0 DEF Job
<1>1. ASSUME NEW c \in calls, NEW ok \in BOOLEAN, SteamAnswers(c, ok) PROVE Types'
  <2> DEFINE enter == Note("enter", c.lobby, ok, c.try)
             result == Note("result", c.lobby, ok, c.try)
             lost == Note("lost", None, FALSE, c.try)
  <2>1. c.lobby \in Lobbies /\ c.try \in 0 .. MaxTries /\ c.try \in 1 .. MaxTries
    BY <1>0, <1>j
  <2>2. enter \in Good /\ result \in Good /\ lost \in Good BY <2>1, NoteGood, NoteNone
  <2>3. enter.kind = "enter" /\ result.kind = "result" /\ lost.kind = "lost" BY DEF Note
  <2>4. PICK outcome \in {result, lost} :
            \/ Posted(<<enter>>) /\ owed' = owed \cup {outcome}
            \/ Posted(<<outcome>>) /\ owed' = owed \cup {enter}
    BY <1>1 DEF SteamAnswers
  <2> HIDE DEF enter, result, lost
  <2>5. inbox' \in Seq(Good) /\ inbox' \in Seq(Event) BY <2>2, <2>4, PostOne
  <2>6. owed' \in SUBSET {e \in Good : e.kind \in Answers \cup {"lost"}}
    BY <2>2, <2>3, <2>4 DEF Types, Answers
  <2>7. owed' \in SUBSET Event BY <2>6 DEF Good
  <2>8. calls' \in SUBSET Job /\ inside' \in SUBSET Lobbies
    BY <1>0, <1>1, <2>1 DEF SteamAnswers
  <2> QED BY <1>1, <2>5, <2>6, <2>7, <2>8 DEF SteamAnswers, Types, TypeOK, history
<1>2. ASSUME NEW e \in owed, Deliver(e) PROVE Types'
  <2>1. e \in Good BY DEF Types
  <2>2. inbox' \in Seq(Good) /\ inbox' \in Seq(Event) BY <1>2, <2>1, PostOne DEF Deliver
  <2> QED BY <1>2, <2>2 DEF Deliver, Types, TypeOK, history
<1>3. ASSUME NEW l \in Lobbies, FriendInvites(l) PROVE Types'
  <2> DEFINE invited == Note("steamInvite", l, TRUE, tries)
  <2>1. invited \in Good BY <1>0, NoteGood DEF Configs
  <2>2. Posted(<<invited>>) BY <1>3 DEF FriendInvites
  <2> HIDE DEF invited
  <2>3. inbox' \in Seq(Good) /\ inbox' \in Seq(Event) BY <2>1, <2>2, PostOne
  <2> QED BY <1>3, <2>3 DEF FriendInvites, Types, TypeOK, history
<1>4. ASSUME NEW l \in Lobbies, BrokerAnswers(l) PROVE Types'
  <2> DEFINE granted == Note("codeGranted", l, TRUE, tries)
             invited == Note("steamInvite", l, TRUE, tries)
             denied == Note("codeDenied", None, FALSE, tries)
  <2>2. granted \in Good /\ invited \in Good /\ denied \in Good
    BY <1>0, NoteGood, NoteNone DEF Configs
  <2>3. \/ Posted(<<granted>>) \/ Posted(<<denied>>)
        \/ Posted(<<invited, granted>>) \/ Posted(<<granted, invited>>)
        \/ Posted(<<granted, denied>>) \/ Posted(<<invited, denied>>)
    BY <1>4 DEF BrokerAnswers
  <2> HIDE DEF granted, invited, denied
  <2>4. inbox' \in Seq(Good) /\ inbox' \in Seq(Event) BY <2>2, <2>3, PostOne, PostTwo
  <2> QED BY <1>4, <2>4 DEF BrokerAnswers, Types, TypeOK, history
<1>5. ASSUME NEW w \in workers, NEW ok \in BOOLEAN, WorkerEnds(w, ok) PROVE Types'
  <2> DEFINE end == Note(IF ok THEN "config" ELSE "noConfig", w.lobby, ok, w.try)
  <2>1. end \in Good BY <1>0, <1>j, NoteGood
  <2>2. Posted(<<end>>) BY <1>5 DEF WorkerEnds
  <2> HIDE DEF end
  <2>3. inbox' \in Seq(Good) /\ inbox' \in Seq(Event) BY <2>1, <2>2, PostOne, PostTwo
  <2> QED BY <1>0, <1>5, <2>3 DEF WorkerEnds, Types, TypeOK, history
<1>6. ASSUME NEW link \in links, NEW kind \in {"granted", "denied"}, HostAnswers(link, kind)
      PROVE Types'
  <2> DEFINE word == Note(kind, link.lobby, TRUE, link.try)
  <2>1. word \in Good BY <1>0, <1>j, NoteGood DEF Configs
  <2>2. Posted(<<word>>) BY <1>6 DEF HostAnswers
  <2> HIDE DEF word
  <2>3. inbox' \in Seq(Good) /\ inbox' \in Seq(Event) BY <2>1, <2>2, PostOne, PostTwo
  <2> QED BY <1>0, <1>6, <2>3 DEF HostAnswers, Types, TypeOK, history
<1> QED BY <1>1, <1>2, <1>3, <1>4, <1>5, <1>6 DEF Broker, Worker

LEMMA SlotKeepsTypes == ASSUME Types, Slot PROVE Types'
<1>0. /\ session \in Session /\ calls \subseteq Job /\ workers \subseteq Job
      /\ links \subseteq Job /\ inside \subseteq Lobbies
      /\ tries \in 0 .. MaxTries /\ MaxTries \in Nat
      /\ session.joining # None => tries > 0
  BY Constants DEF Types, TypeOK
<1>1. ASSUME NEW e \in Good, e.kind \in Answers, BeginJoin(e)
      PROVE  session' \in Session /\ (session'.joining # None => tries > 0)
             /\ workers' \in SUBSET Job
  <2>1. e.lobby \in Lobbies BY <1>1 DEF Good, Answers
  <2>2. CASE UNCHANGED <<session, workers>> BY <1>0, <2>2
  <2>3. CASE session' = Abandoned(session) /\ UNCHANGED workers
    BY <1>0, <2>3, Sessions, ZenonT(30) DEF Abandoned, Session
  <2>4. CASE /\ session.joining = e.lobby
             /\ session' = [session EXCEPT !.loading = TRUE]
             /\ workers' = workers \cup {[lobby |-> e.lobby, try |-> tries]}
    <3>1. tries \in 1 .. MaxTries BY <1>0, <2>1, <2>4, Constants
    <3>2. [lobby |-> e.lobby, try |-> tries] \in Job BY <2>1, <3>1 DEF Job
    <3>3. session' \in Session /\ session'.joining = session.joining
      BY <1>0, <2>4 DEF Session
    <3> QED BY <1>0, <2>4, <3>2, <3>3
  <2> QED BY <1>1, <2>2, <2>3, <2>4 DEF BeginJoin
<1>2. ASSUME NEW e, HandleEnter(e) PROVE Types'
  <2>1. e \in Good /\ e.kind \in Answers /\ inbox' \in Seq(Good) /\ inbox' \in Seq(Event)
    BY <1>2, SlotTypes DEF HandleEnter, Answers
  <2>2. CASE UNCHANGED <<session, workers>> /\ inside' = inside \ {e.lobby}
    BY <1>2, <2>1, <2>2 DEF HandleEnter, Types, TypeOK, history
  <2>3. CASE BeginJoin(e) /\ UNCHANGED inside
    BY <1>1, <1>2, <2>1, <2>3 DEF HandleEnter, Types, TypeOK, history
  <2> QED BY <1>2, <2>2, <2>3 DEF HandleEnter
<1>3. ASSUME NEW e, HandleResult(e) PROVE Types'
  <2>1. e \in Good /\ e.kind \in Answers /\ inbox' \in Seq(Good) /\ inbox' \in Seq(Event)
    BY <1>3, SlotTypes DEF HandleResult, Answers
  <2>2. expelled' \in BOOLEAN BY <1>3 DEF HandleResult, Types, TypeOK
  <2>3. CASE UNCHANGED <<session, workers>> /\ inside' = inside \ {e.lobby}
    BY <1>3, <2>1, <2>2, <2>3 DEF HandleResult, Types, TypeOK
  <2>4. CASE BeginJoin(e) /\ UNCHANGED inside
    BY <1>1, <1>3, <2>1, <2>2, <2>4 DEF HandleResult, Types, TypeOK
  <2> QED BY <1>3, <2>3, <2>4 DEF HandleResult
<1>4. ASSUME NEW e, HandleLost(e) PROVE Types'
  BY <1>4, SlotTypes DEF HandleLost, Types, TypeOK, history
<1>5. ASSUME NEW e, HandleConfig(e) PROVE Types'
  <2>1. e \in Good /\ e.kind = "config" /\ inbox' \in Seq(Good) /\ inbox' \in Seq(Event)
    BY <1>5, SlotTypes DEF HandleConfig
  <2> DEFINE job == [lobby |-> e.lobby, try |-> e.try]
  <2>2. job \in Job /\ job.lobby \in Lobbies BY <2>1 DEF Good, Configs, Job
  <2>3. ApplyConfig(session, job) BY <1>5 DEF HandleConfig
  <2> HIDE DEF job
  <2>4. /\ session' \in Session /\ (session'.joining # None => tries > 0)
        /\ watchdogs' \in SUBSET Lobbies /\ broker' \in BOOLEAN
        /\ links' \in SUBSET Job /\ inside' \in SUBSET Lobbies
    BY <1>0, <2>2, <2>3, ApplyTypes
  <2> QED BY <1>5, <2>1, <2>4 DEF HandleConfig, Types, TypeOK, history
<1>6. ASSUME NEW e, HandleNoConfig(e) PROVE Types'
  <2>1. session' \in Session /\ session'.joining = None
    <3> DEFINE s == Abandoned(session)
    <3>1. s \in Session /\ s.joining = None BY <1>0, Sessions DEF Abandoned, Session
    <3>2. session' = [s EXCEPT !.loading = FALSE, !.config = None] BY <1>6 DEF HandleNoConfig
    <3> HIDE DEF s
    <3> QED BY <3>1, <3>2 DEF Session
  <2> QED BY <1>0, <1>6, <2>1, SlotTypes DEF HandleNoConfig, Types, TypeOK, history
<1>7. ASSUME NEW e, HandleCodeGranted(e) PROVE Types'
  <2>1. e \in Good /\ e.kind = "codeGranted" /\ inbox' \in Seq(Good) /\ inbox' \in Seq(Event)
    BY <1>7, SlotTypes DEF HandleCodeGranted
  <2>2. CASE UNCHANGED <<session, watchdogs, codeTimer, broker, links, inside, calls, asked>>
    BY <1>7, <2>1, <2>2 DEF HandleCodeGranted, Types, TypeOK, history
  <2>3. CASE RejectCode
    BY <1>7, <2>1, <2>3, StopTypes DEF HandleCodeGranted, RejectCode, Types, TypeOK, history
  <2>4. CASE /\ session.joining \in {Unknown, e.lobby}
             /\ session' = [session EXCEPT !.joining = e.lobby,
                               !.lobby = IF session.joining = Unknown THEN e.lobby ELSE @]
             /\ codeTimer' = TRUE
             /\ UNCHANGED <<watchdogs, broker, links, inside, calls, asked>>
    <3>1. e.lobby \in Lobbies BY <2>1 DEF Good
    <3>2. tries > 0 BY <1>0, <2>4, <3>1, Constants
    <3>3. session' \in Session BY <1>0, <2>4, <3>1 DEF Session
    <3> QED BY <1>7, <2>1, <2>4, <3>2, <3>3 DEF HandleCodeGranted, Types, TypeOK, history
  <2> QED BY <1>7, <2>2, <2>3, <2>4 DEF HandleCodeGranted
<1>8. ASSUME NEW e, HandleCodeDenied(e) PROVE Types'
  <2>1. inbox' \in Seq(Good) /\ inbox' \in Seq(Event) BY <1>8, SlotTypes DEF HandleCodeDenied
  <2>2. CASE UNCHANGED <<session, watchdogs, broker, links, inside, codeTimer, calls, asked>>
    BY <1>8, <2>1, <2>2 DEF HandleCodeDenied, Types, TypeOK, history
  <2>3. CASE RejectCode
    BY <1>8, <2>1, <2>3, StopTypes DEF HandleCodeDenied, RejectCode, Types, TypeOK, history
  <2> QED BY <1>8, <2>2, <2>3 DEF HandleCodeDenied
<1>9. ASSUME NEW e, HandleSteamInvite(e) PROVE Types'
  <2>1. e \in Good /\ e.kind = "steamInvite" /\ inbox' \in Seq(Good) /\ inbox' \in Seq(Event)
    BY <1>9, SlotTypes DEF HandleSteamInvite
  <2> DEFINE s == [session EXCEPT !.joining = e.lobby,
                       !.lobby = IF session.joining = Unknown THEN e.lobby ELSE @]
  <2>2. CASE session.joining \in {Unknown, e.lobby} /\ RequestJoin(s, tries)
    <3>1. e.lobby \in Lobbies BY <2>1 DEF Good
    <3>2. tries > 0 BY <1>0, <2>2, <3>1, Constants
    <3>5. s \in Session BY <1>0, <3>1 DEF Session
    <3>3. RequestJoin(s, tries) BY <2>2
    <3> HIDE DEF s
    <3>4. /\ session' \in Session /\ (session'.joining # None => tries > 0)
          /\ calls' \in SUBSET Job /\ watchdogs' \in SUBSET Lobbies
          /\ broker' \in BOOLEAN /\ asked' \in Nat
      BY <1>0, <3>2, <3>3, <3>5, RequestTypes
    <3> QED BY <1>9, <2>1, <3>4 DEF HandleSteamInvite, Types, TypeOK, history
  <2>3. CASE UNCHANGED <<session, calls, watchdogs, broker, asked>>
    BY <1>9, <2>1, <2>3 DEF HandleSteamInvite, Types, TypeOK, history
  <2> QED BY <1>9, <2>2, <2>3 DEF HandleSteamInvite
<1>10. ASSUME NEW e, HandleGranted(e) PROVE Types'
  <2>1. inbox' \in Seq(Good) /\ inbox' \in Seq(Event) BY <1>10, SlotTypes DEF HandleGranted
  <2>2. CASE StopSession
    BY <1>10, <2>1, <2>2, StopTypes DEF HandleGranted, Types, TypeOK, history
  <2>3. CASE UNCHANGED <<watchdogs, broker, links, inside>> /\ UNCHANGED session
    BY <1>10, <2>1, <2>3 DEF HandleGranted, Types, TypeOK, history
  <2>4. CASE /\ UNCHANGED <<watchdogs, broker, links, inside>>
             /\ session' = [session EXCEPT !.mode = "connected", !.joining = None,
                            !.loading = FALSE, !.callStarted = FALSE,
                            !.codePending = FALSE, !.password = FALSE]
    <3>1. session' \in Session /\ session'.joining = None BY <1>0, <2>4 DEF Session
    <3> QED BY <1>10, <2>1, <2>4, <3>1 DEF HandleGranted, Types, TypeOK, history
  <2> QED BY <1>10, <2>2, <2>3, <2>4 DEF HandleGranted
<1>11. ASSUME NEW e, HandleDenied(e) PROVE Types'
  BY <1>11, SlotTypes, StopTypes DEF HandleDenied, Types, TypeOK, history
<1> QED BY <1>2, <1>3, <1>4, <1>5, <1>6, <1>7, <1>8, <1>9, <1>10, <1>11 DEF Slot

LEMMA TimerTypes ==
    ASSUME Types, (\E l \in Lobbies : Watchdog(l)) \/ CodeTimerFires \/ HostGone
    PROVE  Types'
<1>1. ASSUME NEW l \in Lobbies, Watchdog(l) PROVE Types'
  <2>1. session \in Session BY DEF Types, TypeOK
  <2>2. session' \in Session /\ (session'.joining # None => session.joining # None)
    <3>1. CASE session' = session BY <2>1, <3>1
    <3>2. CASE session' = Abandoned(session)
      BY <2>1, <3>2, Sessions DEF Abandoned, Session
    <3> QED BY <1>1, <3>1, <3>2 DEF Watchdog
  <2>3. watchdogs' \in SUBSET Lobbies BY <1>1 DEF Watchdog, Types, TypeOK
  <2> QED BY <1>1, <2>2, <2>3 DEF Watchdog, Types, TypeOK, history
<1>2. CASE CodeTimerFires
  <2>1. /\ session \in Session /\ (session.joining # None => tries > 0)
        /\ RequestJoin(session, tries) /\ tries \in 0 .. MaxTries
    BY <1>2 DEF CodeTimerFires, Types, TypeOK
  <2>2. /\ session' \in Session /\ (session'.joining # None => tries > 0)
        /\ calls' \in SUBSET Job /\ watchdogs' \in SUBSET Lobbies
        /\ broker' \in BOOLEAN /\ asked' \in Nat
    BY <2>1, RequestTypes
  <2> QED BY <1>2, <2>2 DEF CodeTimerFires, Types, TypeOK, history
<1>3. CASE HostGone
  BY <1>3, StopTypes DEF HostGone, Types, TypeOK, history
<1> QED BY <1>1, <1>2, <1>3

LEMMA NextTypes == ASSUME Types, [Next]_vars PROVE Types'
<1>1. CASE UNCHANGED vars BY <1>1 DEF vars, history, Types, TypeOK
<1> QED BY <1>1, UserTypes, PosterTypes, SlotKeepsTypes, TimerTypes DEF Next

-----------------------------------------------------------------------------
(* One call, and how the fields go together *)

LEMMA AbandonedFields ==
    ASSUME NEW s \in Session
    PROVE  LET a == Abandoned(s) IN
           /\ a.mode = "idle" /\ a.lobby = None /\ a.joining = None
           /\ a.callStarted = FALSE /\ a.prompt = NoJob
           /\ a.loading = s.loading /\ a.config = s.config /\ a.control = s.control
BY DEF Abandoned, Session

LEMMA IdleFields ==
    /\ Idle.mode = "idle" /\ Idle.lobby = None /\ Idle.joining = None
    /\ Idle.loading = FALSE /\ Idle.callStarted = FALSE
    /\ Idle.prompt = NoJob /\ Idle.config = None /\ Idle.control = NoJob
BY DEF Idle

LEMMA EndedAgree ==
    /\ FieldsAgree(Idle) /\ ~Due(Idle)
    /\ \A s \in Session : FieldsAgree(Abandoned(s)) /\ ~Due(Abandoned(s))
BY IdleFields, AbandonedFields, Constants DEF FieldsAgree, Due

\* Fields an update of the session leaves alone decide both.
LEMMA SameFields ==
    ASSUME NEW s, NEW t, t.mode = s.mode, t.lobby = s.lobby, t.joining = s.joining,
           t.callStarted = s.callStarted
    PROVE  (FieldsAgree(s) => FieldsAgree(t)) /\ (Due(t) => Due(s))
BY DEF FieldsAgree, Due

LEMMA RequestAgree ==
    ASSUME Types, CallOnce, NEW s \in Session, FieldsAgree(s), Due(s) => asked = 0,
           RequestJoin(s, tries)
    PROVE  CallOnce' /\ Modes'
<1>1. CASE session' = s /\ UNCHANGED asked BY <1>1 DEF CallOnce, Modes
<1>2. CASE s.joining \in Lobbies /\ ~s.callStarted /\ CallJoinLobby(s, tries)
  <2>1. session' = [s EXCEPT !.callStarted = TRUE] /\ asked' = asked + 1
    BY <1>2 DEF CallJoinLobby
  <2>2. asked = 0 BY <1>2, Constants DEF Due
  <2>3. /\ session'.mode = s.mode /\ session'.lobby = s.lobby
        /\ session'.joining = s.joining /\ session'.callStarted
    BY <2>1 DEF Session
  <2>4. s.joining # Unknown BY <1>2, Constants
  <2> QED BY <2>1, <2>2, <2>3, <2>4 DEF FieldsAgree, Due, CallOnce, Modes
<1>3. CASE session' = Abandoned(s) /\ UNCHANGED asked
  BY <1>3, EndedAgree DEF CallOnce, Modes
<1> QED BY <1>1, <1>2, <1>3 DEF RequestJoin

\* The session once the host or Steam has named the lobby of its code.
Named(l) == [session EXCEPT !.joining = l,
                 !.lobby = IF session.joining = Unknown THEN l ELSE @]

LEMMA InvitedAgree ==
    ASSUME Types, Modes, NEW l \in Lobbies, session.joining \in {Unknown, l}
    PROVE  LET s == Named(l) IN
           /\ s \in Session /\ FieldsAgree(s) /\ (Due(s) => Due(session))
           /\ s.mode = "joining" /\ s.joining = l /\ s.lobby = l
           /\ s.loading = session.loading /\ s.callStarted = session.callStarted
           /\ s.prompt = session.prompt /\ s.config = session.config
           /\ s.control = session.control
<1> DEFINE s == Named(l)
<1>1. session \in Session BY DEF Types, TypeOK
<1>2. /\ s \in Session /\ s.mode = session.mode /\ s.joining = l
      /\ s.loading = session.loading /\ s.callStarted = session.callStarted
      /\ s.prompt = session.prompt /\ s.config = session.config
      /\ s.control = session.control
      /\ s.lobby = IF session.joining = Unknown THEN l ELSE session.lobby
  BY <1>1 DEF Session, Named
<1>3. session.joining # None /\ l # None /\ l # Unknown BY Constants
<1> HIDE DEF s
<1>4. /\ FieldsAgree(s) /\ (Due(s) => Due(session)) /\ s.mode = "joining" /\ s.lobby = l
  BY <1>2, <1>3 DEF Modes, FieldsAgree, Due
<1> QED BY <1>2, <1>4 DEF s

LEMMA NextAgree ==
    ASSUME Types, CallOnce, Modes, [Next]_vars
    PROVE  CallOnce' /\ Modes'
<1>0. session \in Session /\ tries \in 0 .. MaxTries BY DEF Types, TypeOK
<1>s. ASSUME StopSession, asked' = asked PROVE CallOnce' /\ Modes'
  BY <1>s, EndedAgree DEF StopSession, CallOnce, Modes
<1>u. ASSUME session' = session, asked' = asked PROVE CallOnce' /\ Modes'
  BY <1>u DEF CallOnce, Modes
<1>a. ASSUME session' = Abandoned(session), asked' = asked PROVE CallOnce' /\ Modes'
  BY <1>0, <1>a, EndedAgree DEF CallOnce, Modes
<1>f. ASSUME session'.mode = session.mode, session'.lobby = session.lobby,
             session'.joining = session.joining,
             session'.callStarted = session.callStarted, asked' = asked
      PROVE  CallOnce' /\ Modes'
  BY <1>f, SameFields DEF CallOnce, Modes
<1>1. ASSUME NEW l \in Lobbies, NEW password \in BOOLEAN, Join(l, password)
      PROVE  CallOnce' /\ Modes'
  <2> DEFINE s == [session EXCEPT !.mode = "joining", !.lobby = l, !.joining = l,
                        !.loading = FALSE, !.callStarted = FALSE, !.codePending = FALSE,
                        !.password = password, !.prompt = NoJob]
  <2>1. /\ s \in Session /\ s.mode = "joining" /\ s.lobby = l /\ s.joining = l
        /\ ~s.callStarted
    BY <1>0 DEF Session
  <2>2. RequestJoin(s, tries + 1) BY <1>1 DEF Join
  <2> HIDE DEF s
  <2>3. CASE session' = Abandoned(s) /\ UNCHANGED asked
    BY <2>1, <2>3, EndedAgree DEF CallOnce, Modes
  <2>4. CASE CallJoinLobby(s, tries + 1)
    <3>1. session' = [s EXCEPT !.callStarted = TRUE] BY <2>4 DEF CallJoinLobby
    <3>2. /\ session'.mode = "joining" /\ session'.lobby = l /\ session'.joining = l
          /\ session'.callStarted
      BY <2>1, <3>1 DEF Session
    <3>3. asked' = 1 BY <1>0, <2>4 DEF CallJoinLobby
    <3> QED BY <3>2, <3>3, Constants DEF CallOnce, Modes, FieldsAgree, Due
  <2>5. ~(s.joining \in {None, Unknown} \/ s.callStarted) BY <2>1, Constants
  <2> QED BY <2>2, <2>3, <2>4, <2>5 DEF RequestJoin
<1>2. ASSUME NEW l \in Lobbies \cup {Unknown}, NEW password \in BOOLEAN, JoinByCode(l, password)
      PROVE  CallOnce' /\ Modes'
  <2>1. /\ session'.mode = "joining" /\ session'.lobby = l /\ session'.joining = l
        /\ ~session'.callStarted
    BY <1>0, <1>2 DEF JoinByCode, Session
  <2>2. asked' = 0 BY <1>2 DEF JoinByCode
  <2> QED BY <2>1, <2>2, Constants DEF CallOnce, Modes, FieldsAgree, Due
<1>3. CASE Disconnect BY <1>3, <1>s DEF Disconnect
<1>c. ASSUME NEW s \in Session, NEW job, ApplyConfig(s, job), asked' = asked,
             s.mode = session.mode, s.lobby = session.lobby, s.joining = session.joining,
             s.callStarted = session.callStarted
      PROVE  CallOnce' /\ Modes'
  <2>1. CASE session' = s BY <1>c, <1>f, <2>1
  <2>2. CASE session' = [s EXCEPT !.prompt = job]
    <3>1. /\ session'.mode = s.mode /\ session'.lobby = s.lobby
          /\ session'.joining = s.joining /\ session'.callStarted = s.callStarted
      BY <2>2 DEF Session
    <3> QED BY <1>c, <1>f, <3>1
  <2>3. CASE /\ s.joining # None
             /\ session' = [s EXCEPT !.prompt = NoJob, !.config = job.lobby, !.control = job,
                                     !.lobby = s.joining]
    <3>1. s.lobby = s.joining BY <1>c, <2>3 DEF Modes, FieldsAgree
    <3>2. /\ session'.mode = s.mode /\ session'.lobby = s.joining
          /\ session'.joining = s.joining /\ session'.callStarted = s.callStarted
      BY <2>3 DEF Session
    <3> QED BY <1>c, <1>f, <3>1, <3>2
  <2>4. CASE StopSession BY <1>c, <1>s, <2>4
  <2> QED BY <1>c, <2>1, <2>2, <2>3, <2>4 DEF ApplyConfig
<1>4. CASE ProvidePassword
  <2> DEFINE s == [session EXCEPT !.password = TRUE]
  <2>1. /\ s \in Session /\ s.mode = session.mode /\ s.lobby = session.lobby
        /\ s.joining = session.joining /\ s.callStarted = session.callStarted
    BY <1>0 DEF Session
  <2>2. asked' = asked /\ (StopSession \/ ApplyConfig(s, session.prompt))
    BY <1>4 DEF ProvidePassword
  <2> HIDE DEF s
  <2> QED BY <1>c, <1>s, <2>1, <2>2
<1>5. ASSUME NEW e, BeginJoin(e), asked' = asked PROVE CallOnce' /\ Modes'
  <2>1. CASE session' = [session EXCEPT !.loading = TRUE]
    BY <1>0, <1>5, <1>f, <2>1 DEF Session
  <2> QED BY <1>5, <1>a, <1>u, <2>1 DEF BeginJoin
<1>7. ASSUME NEW e, HandleNoConfig(e) PROVE CallOnce' /\ Modes'
  <2> DEFINE s == Abandoned(session)
  <2>1. s \in Session BY <1>0, Sessions
  <2>2. session' = [s EXCEPT !.loading = FALSE, !.config = None] /\ asked' = asked
    BY <1>7 DEF HandleNoConfig
  <2>3. FieldsAgree(s) /\ ~Due(s) BY <1>0, EndedAgree
  <2> HIDE DEF s
  <2>4. /\ session'.mode = s.mode /\ session'.lobby = s.lobby
        /\ session'.joining = s.joining /\ session'.callStarted = s.callStarted
    BY <2>1, <2>2 DEF Session
  <2> QED BY <2>2, <2>3, <2>4, SameFields DEF CallOnce, Modes
<1>8. ASSUME NEW e, HandleCodeGranted(e) PROVE CallOnce' /\ Modes'
  <2>1. CASE UNCHANGED <<session, watchdogs, codeTimer, broker, links, inside, calls, asked>>
    BY <1>u, <2>1
  <2>2. CASE RejectCode BY <1>s, <2>2 DEF RejectCode
  <2>3. CASE /\ session.joining \in {Unknown, e.lobby}
             /\ session' = Named(e.lobby)
             /\ UNCHANGED <<watchdogs, broker, links, inside, calls, asked>>
    <3>0. e \in Good /\ e.kind = "codeGranted" BY <1>8, SlotTypes DEF HandleCodeGranted
    <3>1. e.lobby \in Lobbies BY <3>0 DEF Good
    <3>2. FieldsAgree(session') /\ (Due(session') => Due(session))
      BY <2>3, <3>1, InvitedAgree
    <3> QED BY <2>3, <3>2 DEF CallOnce, Modes
  <2> QED BY <1>8, <2>1, <2>2, <2>3 DEF HandleCodeGranted, Named
<1>9. ASSUME NEW e, HandleCodeDenied(e) PROVE CallOnce' /\ Modes'
  BY <1>9, <1>s, <1>u DEF HandleCodeDenied, RejectCode
<1>10. ASSUME NEW e, HandleSteamInvite(e) PROVE CallOnce' /\ Modes'
  <2> DEFINE s == Named(e.lobby)
  <2>1. CASE session.joining \in {Unknown, e.lobby} /\ RequestJoin(s, tries)
    <3>0. e \in Good /\ e.kind = "steamInvite" BY <1>10, SlotTypes DEF HandleSteamInvite
    <3>1. e.lobby \in Lobbies BY <3>0 DEF Good
    <3>2. s \in Session /\ FieldsAgree(s) /\ (Due(s) => Due(session))
      BY <2>1, <3>1, InvitedAgree
    <3>3. RequestJoin(s, tries) BY <2>1
    <3> HIDE DEF s
    <3> QED BY <3>2, <3>3, RequestAgree DEF CallOnce
  <2> QED BY <1>10, <1>u, <2>1 DEF HandleSteamInvite, Named
<1>11. ASSUME NEW e, HandleGranted(e) PROVE CallOnce' /\ Modes'
  <2>1. CASE session' = [session EXCEPT !.mode = "connected", !.joining = None,
                            !.loading = FALSE, !.callStarted = FALSE,
                            !.codePending = FALSE, !.password = FALSE]
    <3>1. session'.mode = "connected" /\ session'.joining = None BY <1>0, <2>1 DEF Session
    <3> QED BY <1>11, <3>1, Constants DEF HandleGranted, CallOnce, Modes, FieldsAgree, Due
  <2> QED BY <1>11, <1>s, <1>u, <2>1 DEF HandleGranted
<1>12. ASSUME Slot PROVE CallOnce' /\ Modes'
  <2>1. ASSUME NEW e, HandleEnter(e) \/ HandleResult(e) PROVE CallOnce' /\ Modes'
    BY <1>5, <1>u, <2>1 DEF HandleEnter, HandleResult
  <2>2. ASSUME NEW e, HandleConfig(e) PROVE CallOnce' /\ Modes'
    BY <1>0, <1>c, <2>2 DEF HandleConfig
  <2>3. ASSUME NEW e, HandleLost(e) \/ HandleDenied(e) PROVE CallOnce' /\ Modes'
    BY <1>s, <1>u, <2>3 DEF HandleLost, HandleDenied
  <2> QED BY <1>7, <1>8, <1>9, <1>10, <1>11, <1>12, <2>1, <2>2, <2>3 DEF Slot
<1>13. ASSUME NEW l, Watchdog(l) PROVE CallOnce' /\ Modes'
  BY <1>13, <1>a, <1>u DEF Watchdog
<1>14. CASE CodeTimerFires
  BY <1>0, <1>14, RequestAgree DEF CodeTimerFires, CallOnce, Modes
<1>15. CASE HostGone BY <1>15, <1>s DEF HostGone
<1>16. CASE UNCHANGED vars BY <1>16, <1>u DEF vars
<1>17. ASSUME NEW c, NEW ok, SteamAnswers(c, ok) PROVE CallOnce' /\ Modes'
  BY <1>17, <1>u DEF SteamAnswers
<1>18. ASSUME NEW l, BrokerAnswers(l) PROVE CallOnce' /\ Modes'
  BY <1>18, <1>u DEF BrokerAnswers
<1>19. ASSUME NEW w, NEW ok, WorkerEnds(w, ok) PROVE CallOnce' /\ Modes'
  BY <1>19, <1>u DEF WorkerEnds
<1>20. ASSUME NEW link, NEW kind, HostAnswers(link, kind) PROVE CallOnce' /\ Modes'
  BY <1>20, <1>u DEF HostAnswers
<1>21. ASSUME NEW e, Deliver(e) PROVE CallOnce' /\ Modes'
  BY <1>21, <1>u DEF Deliver
<1>22. ASSUME NEW l, FriendInvites(l) PROVE CallOnce' /\ Modes'
  BY <1>22, <1>u DEF FriendInvites
<1> QED
  BY <1>1, <1>2, <1>3, <1>4, <1>12, <1>13, <1>14, <1>15, <1>16, <1>17, <1>18, <1>19, <1>20,
     <1>21, <1>22
  DEF Next, User, Broker, Worker

-----------------------------------------------------------------------------
(* An attempt whose user waited for the leftovers of the one before *)

\* The inbox only lost its first k events, and nothing new waits.
Shifted(k) ==
    /\ DOMAIN inbox \subseteq Int /\ DOMAIN inbox' \subseteq Int
    /\ \A i \in DOMAIN inbox' : i + k \in DOMAIN inbox /\ inbox'[i] = inbox[i + k]
    /\ Waiting' \subseteq Waiting

EnterStays == \A n \in Waiting : n.kind = "enter" => n \in Waiting'

LEMMA Domains == ASSUME Types PROVE DOMAIN inbox \subseteq Int
<1>1. DOMAIN inbox = 1 .. Len(inbox) /\ Len(inbox) \in Nat BY DEF Types
<1> QED BY <1>1

LEMMA Unmoved ==
    ASSUME Types, inbox' = inbox, owed' = owed
    PROVE  Shifted(0) /\ EnterStays
<1>1. Waiting' = Waiting BY DEF Waiting
<1> QED BY <1>1, Domains DEF Shifted, EnterStays

LEMMA Moved ==
    ASSUME Types, NEW kind, NEW e, Takes(kind, e), owed' = owed
    PROVE  /\ Shifted(1)
           /\ 1 \in DOMAIN inbox /\ inbox[1] = e /\ e.kind = kind /\ e \in Waiting
           /\ \A n \in Waiting : n = e \/ n \in Waiting'
           /\ kind # "enter" => EnterStays
<1>1. inbox \in Seq(Good) /\ inbox # <<>> /\ inbox' = Tail(inbox) /\ e = Head(inbox)
      /\ e.kind = kind
  BY DEF Types, Takes
<1>2. /\ Len(inbox) \in Nat \ {0} /\ DOMAIN inbox = 1 .. Len(inbox)
      /\ DOMAIN inbox' = 1 .. Len(inbox) - 1 /\ inbox[1] = e
      /\ \A i \in 1 .. Len(inbox) - 1 : inbox'[i] = inbox[i + 1]
  BY <1>1, HeadTailProperties
<1>3. /\ DOMAIN inbox \subseteq Int /\ DOMAIN inbox' \subseteq Int /\ 1 \in DOMAIN inbox
      /\ \A i \in DOMAIN inbox' : i + 1 \in DOMAIN inbox /\ inbox'[i] = inbox[i + 1]
  BY <1>2
<1>4. \A i \in DOMAIN inbox : i = 1 \/ \E j \in DOMAIN inbox' : inbox'[j] = inbox[i]
  <2> TAKE i \in DOMAIN inbox
  <2>1. CASE i # 1
    <3>1. i - 1 \in DOMAIN inbox' /\ (i - 1) + 1 = i BY <1>2, <2>1
    <3>2. inbox'[i - 1] = inbox[i] BY <1>2, <3>1
    <3> QED BY <3>1, <3>2
  <2> QED BY <2>1
<1>5. Waiting' \subseteq Waiting BY <1>3 DEF Waiting
<1>6. \A n \in Waiting : n = e \/ n \in Waiting' BY <1>2, <1>4 DEF Waiting
<1>7. e \in Waiting BY <1>2, <1>3 DEF Waiting
<1>8. kind # "enter" => EnterStays BY <1>1, <1>6 DEF EnterStays
<1> QED BY <1>1, <1>2, <1>3, <1>5, <1>6, <1>7, <1>8 DEF Shifted

LEMMA Cancel == \A a, b, k \in Int : a + k = b + k => a = b
OBVIOUS

\* Posting keeps what waits in its place, and puts the new events behind it.
LEMMA Added ==
    ASSUME Types, NEW n \in Seq(Good), Posted(n)
    PROVE  /\ DOMAIN inbox \subseteq DOMAIN inbox'
           /\ \A i \in DOMAIN inbox : inbox'[i] = inbox[i]
           /\ \A i \in DOMAIN inbox' \ DOMAIN inbox :
                  /\ \A j \in DOMAIN inbox : j < i
                  /\ \E m \in DOMAIN n : i = Len(inbox) + m /\ inbox'[i] = n[m]
           /\ \A m \in DOMAIN n : \E i \in DOMAIN inbox' : inbox'[i] = n[m]
<1>1. inbox \in Seq(Good) /\ inbox' = inbox \o n BY DEF Types, Posted
<1>2. /\ Len(inbox) \in Nat /\ Len(n) \in Nat
      /\ DOMAIN inbox = 1 .. Len(inbox) /\ DOMAIN n = 1 .. Len(n)
      /\ DOMAIN inbox' = 1 .. Len(inbox) + Len(n)
      /\ \A i \in 1 .. Len(inbox) + Len(n) :
             inbox'[i] = IF i <= Len(inbox) THEN inbox[i] ELSE n[i - Len(inbox)]
  BY <1>1, ConcatProperties
<1>3. \A i \in DOMAIN inbox' \ DOMAIN inbox :
          /\ \A j \in DOMAIN inbox : j < i
          /\ \E m \in DOMAIN n : i = Len(inbox) + m /\ inbox'[i] = n[m]
  <2> TAKE i \in DOMAIN inbox' \ DOMAIN inbox
  <2>1. i - Len(inbox) \in DOMAIN n /\ i = Len(inbox) + (i - Len(inbox)) /\ ~(i <= Len(inbox))
    BY <1>2
  <2>2. inbox'[i] = n[i - Len(inbox)] BY <1>2, <2>1
  <2>3. \A j \in DOMAIN inbox : j < i BY <1>2, <2>1
  <2> QED BY <2>1, <2>2, <2>3
<1>4. \A m \in DOMAIN n : \E i \in DOMAIN inbox' : inbox'[i] = n[m]
  <2> TAKE m \in DOMAIN n
  <2>1. /\ Len(inbox) + m \in DOMAIN inbox' /\ ~(Len(inbox) + m <= Len(inbox))
        /\ Len(inbox) + m - Len(inbox) = m
    BY <1>2
  <2>2. inbox'[Len(inbox) + m] = n[m] BY <1>2, <2>1
  <2> QED BY <2>1, <2>2
<1> QED BY <1>2, <1>3, <1>4

\* What is not there stays away.
LEMMA ShiftedQuiet ==
    ASSUME NEW k \in {0, 1}, Shifted(k)
    PROVE  (NoConfigs => NoConfigs') /\ (NoAnswers => NoAnswers')
BY DEF Shifted, NoConfigs, NoAnswers

\* The one configuration that waits is still the only one.
LEMMA ShiftedConfigs ==
    ASSUME NEW k \in {0, 1}, Shifted(k), Attempt
    PROVE  \A i \in DOMAIN inbox' :
               inbox'[i].kind \in Configs =>
                   /\ \E m \in DOMAIN inbox : inbox'[i] = inbox[m]
                   /\ \A j \in DOMAIN inbox' : inbox'[j].kind \in Configs => i = j
<1> SUFFICES ASSUME NEW i \in DOMAIN inbox', inbox'[i].kind \in Configs
             PROVE  /\ \E m \in DOMAIN inbox : inbox'[i] = inbox[m]
                    /\ \A j \in DOMAIN inbox' : inbox'[j].kind \in Configs => i = j
  OBVIOUS
<1>1. i + k \in DOMAIN inbox /\ inbox'[i] = inbox[i + k] BY DEF Shifted
<1>2. ASSUME NEW j \in DOMAIN inbox', inbox'[j].kind \in Configs PROVE i = j
  <2>1. j + k \in DOMAIN inbox /\ inbox'[j] = inbox[j + k] BY DEF Shifted
  <2>2. i + k = j + k BY <1>1, <1>2, <2>1 DEF Attempt, Loaded
  <2>3. i \in Int /\ j \in Int /\ k \in Int BY DEF Shifted
  <2> QED BY <2>2, <2>3, Cancel
<1> QED BY <1>1, <1>2

\* Nothing an attempt needs has changed.
LEMMA KeptAttempt ==
    ASSUME NEW k \in {0, 1}, Shifted(k),
           calls' = calls, workers' = workers, links' = links, inside' = inside,
           expelled' = expelled,
           session'.mode = session.mode, session'.lobby = session.lobby,
           session'.joining = session.joining, session'.loading = session.loading,
           session'.callStarted = session.callStarted, session'.prompt = session.prompt,
           session'.config = session.config, session'.control = session.control,
           Attempt, EnterStays \/ Accounted'
    PROVE  Attempt'
<1>n. (NoConfigs => NoConfigs') /\ (NoAnswers => NoAnswers') BY ShiftedQuiet
<1>q. Quiet => Quiet' BY <1>n DEF Quiet
<1>c. \A l : Current(l) => Current(l)' BY DEF Current
<1>1. NotYetCalled' BY <1>n, <1>q DEF Attempt, NotYetCalled
<1>2. Calling' BY <1>n DEF Attempt, Calling
<1>3. Answered' BY DEF Attempt, Answered, Shifted
<1>4. Working' BY <1>c, <1>n DEF Attempt, Working
<1>5. Loaded'
  <2> SUFFICES ASSUME NEW i \in DOMAIN inbox', inbox'[i].kind \in Configs
               PROVE  /\ session'.mode = "joining" =>
                             /\ session'.loading /\ session'.joining = inbox'[i].lobby
                             /\ inbox'[i].lobby \in inside'
                      /\ \A j \in DOMAIN inbox' : inbox'[j].kind \in Configs => i = j
    BY DEF Loaded, Current
  <2>1. /\ \E m \in DOMAIN inbox : inbox'[i] = inbox[m]
        /\ \A j \in DOMAIN inbox' : inbox'[j].kind \in Configs => i = j
    BY ShiftedConfigs
  <2>2. session'.mode = "joining" =>
            /\ session'.loading /\ session'.joining = inbox'[i].lobby
            /\ inbox'[i].lobby \in inside'
    BY <2>1 DEF Attempt, Loaded, Current
  <2> QED BY <2>1, <2>2
<1>6. Prompting' BY <1>q, <1>c DEF Attempt, Prompting, Current
<1>7. Configured' BY <1>q DEF Attempt, Configured
<1>8. Linked' BY DEF Attempt, Linked
<1>9. Accounted' BY DEF Attempt, Accounted, EnterStays
<1> QED BY <1>1, <1>2, <1>3, <1>4, <1>5, <1>6, <1>7, <1>8, <1>9 DEF Attempt

\* The attempt is over, and nothing of it is kept.
LEMMA EndedAttempt ==
    ASSUME NEW k \in {0, 1}, Shifted(k), Attempt,
           calls' = calls, workers' = workers, links' = {}, inside' \subseteq inside,
           session'.mode = "idle", ~session'.loading, session'.prompt = NoJob,
           session'.config = None, session'.control = NoJob, Accounted'
    PROVE  Attempt'
<1>n. (NoConfigs => NoConfigs') /\ (NoAnswers => NoAnswers') BY ShiftedQuiet
<1>2. Calling' BY <1>n DEF Attempt, Calling
<1>3. Answered' BY DEF Attempt, Answered, Shifted
<1>c. \A l : Current(l)' BY DEF Current
<1>4. Working' BY <1>c, <1>n DEF Attempt, Working
<1>5. Loaded' BY ShiftedConfigs DEF Loaded, Current
<1>6. NotYetCalled' /\ Prompting' /\ Configured' /\ Linked'
  BY DEF NotYetCalled, Prompting, Configured, Linked
<1> QED BY <1>2, <1>3, <1>4, <1>5, <1>6 DEF Attempt

LEMMA FreshAttempt ==
    ASSUME Quiet', NoAnswers', inside' = {}, links' = {}, session'.mode = "joining",
           ~session'.callStarted, ~session'.loading, session'.prompt = NoJob,
           session'.config = None, session'.control = NoJob
    PROVE  Attempt'
BY DEF Attempt, NotYetCalled, Calling, Answered, Working, Loaded, Prompting, Configured,
       Linked, Accounted, Quiet, NoConfigs, NoAnswers

LEMMA CalledAttempt ==
    ASSUME NEW c, calls' = {c}, workers' = {}, inside' = {}, links' = {},
           NoConfigs', NoAnswers',
           session'.mode = "joining", session'.joining = c.lobby,
           session'.callStarted, ~session'.loading, session'.prompt = NoJob,
           session'.config = None, session'.control = NoJob
    PROVE  Attempt'
BY DEF Attempt, NotYetCalled, Calling, Answered, Working, Loaded, Prompting, Configured,
       Linked, Accounted, NoConfigs, NoAnswers

\* What there is not: before the call, before the worker, and when no attempt runs.
LEMMA NothingYet ==
    ASSUME Attempt, session.mode = "joining", ~session.callStarted
    PROVE  /\ Quiet /\ NoAnswers /\ inside = {} /\ links = {}
           /\ ~session.loading /\ session.prompt = NoJob
           /\ session.config = None /\ session.control = NoJob
<1>1. Quiet /\ NoAnswers /\ inside = {} /\ ~session.loading BY DEF Attempt, NotYetCalled
<1>2. session.prompt = NoJob BY <1>1 DEF Attempt, Prompting, Current
<1>3. session.config = None /\ session.control = NoJob BY <1>1 DEF Attempt, Configured
<1> QED BY <1>1, <1>2, <1>3 DEF Attempt, Linked

LEMMA NotLoading ==
    ASSUME Attempt, session.mode = "joining", ~session.loading
    PROVE  /\ workers = {} /\ links = {} /\ NoConfigs
           /\ session.prompt = NoJob /\ session.config = None /\ session.control = NoJob
<1>1. session.prompt = NoJob BY DEF Attempt, Prompting, Current
<1>2. session.config = None /\ session.control = NoJob BY DEF Attempt, Configured
<1>3. workers = {} BY DEF Attempt, Working, Current
<1>4. NoConfigs BY DEF Attempt, Loaded, Current, NoConfigs
<1> QED BY <1>1, <1>2, <1>3, <1>4 DEF Attempt, Linked

LEMMA IdleAttempt ==
    ASSUME Attempt, Modes, session.mode = "idle"
    PROVE  /\ links = {} /\ session.lobby = None /\ session.joining = None
           /\ ~session.loading /\ session.prompt = NoJob
           /\ session.config = None /\ session.control = NoJob
<1>1. session.lobby = None /\ session.joining = None BY DEF Modes, FieldsAgree
<1>2. ~session.loading BY DEF Attempt, NotYetCalled
<1>3. session.prompt = NoJob BY DEF Attempt, Prompting
<1>4. session.config = None /\ session.control = NoJob BY DEF Attempt, Configured
<1> QED BY <1>1, <1>2, <1>3, <1>4 DEF Attempt, Linked

\* A call, a worker or its event is under way, so nothing was configured.
LEMMA NotConfigured ==
    ASSUME Attempt, ~Quiet
    PROVE  /\ links = {} /\ session.mode # "connected"
           /\ session.prompt = NoJob /\ session.config = None /\ session.control = NoJob
<1>1. session.prompt = NoJob BY DEF Attempt, Prompting
<1>2. session.config = None /\ session.control = NoJob /\ session.mode # "connected"
  BY DEF Attempt, Configured
<1> QED BY <1>1, <1>2 DEF Attempt, Linked

LEMMA StoppedAttempt ==
    ASSUME Types, Modes, Attempt, NEW k \in {0, 1}, Shifted(k), EnterStays, StopSession,
           calls' = calls, workers' = workers
    PROVE  Attempt'
<1>1. /\ session' = Idle /\ links' = links \ {session.control}
      /\ inside' = inside \ {session.lobby}
  BY DEF StopSession
<1>2. links' = {} BY <1>1 DEF Attempt, Linked
<1>3. Accounted' BY <1>1 DEF Attempt, Accounted, EnterStays
<1>4. inside' \subseteq inside BY <1>1
<1> QED BY <1>1, <1>2, <1>3, <1>4, IdleFields, EndedAttempt

\* An attempt that has loaded nothing is abandoned.
LEMMA AbandonedAttempt ==
    ASSUME Types, Modes, Attempt, NEW k \in {0, 1}, Shifted(k),
           session.mode = "joining", ~session.loading,
           NEW s \in Session, ~s.loading, s.config = None, s.control = NoJob,
           session' = Abandoned(s),
           calls' = calls, workers' = workers, links' = links, inside' = inside,
           EnterStays \/ inside = {}
    PROVE  Attempt'
<1>1. links = {} BY NotLoading
<1>2. /\ session'.mode = "idle" /\ ~session'.loading /\ session'.prompt = NoJob
      /\ session'.config = None /\ session'.control = NoJob
  BY AbandonedFields
<1>3. Accounted' BY DEF Attempt, Accounted, EnterStays
<1>4. links' = {} /\ inside' \subseteq inside BY <1>1
<1> QED BY <1>2, <1>3, <1>4, EndedAttempt

\* The session with the lobby that a host named, or as it is.
LEMMA RequestAttempt ==
    ASSUME Types, Modes, Attempt, NEW k \in {0, 1}, Shifted(k), EnterStays,
           NEW s \in Session, RequestJoin(s, tries),
           s.mode = session.mode, s.joining # None => session.joining # None,
           s.callStarted = session.callStarted, s.loading = session.loading,
           s.prompt = session.prompt, s.config = session.config, s.control = session.control,
           \/ s.joining = session.joining /\ s.lobby = session.lobby
           \/ session.mode = "joining" /\ ~session.callStarted,
           workers' = workers, links' = links, inside' = inside, expelled' = expelled
    PROVE  Attempt'
<1>n. (NoConfigs => NoConfigs') /\ (NoAnswers => NoAnswers') BY ShiftedQuiet
<1>q. ASSUME Quiet, calls' = calls PROVE Quiet' BY <1>n, <1>q DEF Quiet
<1>1. CASE session' = s /\ UNCHANGED calls
  <2>1. CASE s.joining = session.joining /\ s.lobby = session.lobby
    BY <1>1, <2>1, KeptAttempt
  <2>2. CASE session.mode = "joining" /\ ~session.callStarted
    BY <1>1, <1>n, <1>q, <2>2, NothingYet, FreshAttempt
  <2> QED BY <2>1, <2>2
<1>2. ASSUME s.joining \in Lobbies, ~s.callStarted
      PROVE  session.mode = "joining" /\ ~session.callStarted
  BY <1>2, Constants DEF Modes, FieldsAgree
<1>3. CASE s.joining \in Lobbies /\ ~s.callStarted /\ CallJoinLobby(s, tries)
  <2>1. /\ Quiet /\ NoAnswers /\ inside = {} /\ links = {}
        /\ ~session.loading /\ session.prompt = NoJob
        /\ session.config = None /\ session.control = NoJob
    BY <1>2, <1>3, NothingYet
  <2> DEFINE c == [lobby |-> s.joining, try |-> tries]
  <2>2. calls' = {c} /\ c.lobby = s.joining BY <1>3, <2>1 DEF CallJoinLobby, Quiet
  <2>3. session' = [s EXCEPT !.callStarted = TRUE] BY <1>3 DEF CallJoinLobby
  <2>4. /\ session'.mode = "joining" /\ session'.joining = s.joining
        /\ session'.callStarted /\ ~session'.loading /\ session'.prompt = NoJob
        /\ session'.config = None /\ session'.control = NoJob
    BY <1>2, <1>3, <2>1, <2>3 DEF Session
  <2>5. NoConfigs' /\ NoAnswers' BY <1>n, <2>1 DEF Quiet
  <2>6. workers' = {} /\ inside' = {} /\ links' = {} BY <2>1 DEF Quiet
  <2> HIDE DEF c
  <2> QED BY <2>2, <2>4, <2>5, <2>6, CalledAttempt
<1>4. CASE s.joining \in Lobbies /\ ~s.callStarted /\ session' = Abandoned(s) /\ UNCHANGED calls
  BY <1>2, <1>4, NothingYet, AbandonedAttempt
<1> QED BY <1>1, <1>3, <1>4 DEF RequestJoin

\* The configuration of the lobby being entered is applied.
LEMMA ApplyAttempt ==
    ASSUME Types, Modes, Attempt, NEW k \in {0, 1}, Shifted(k), EnterStays,
           NEW s \in Session, s.mode = session.mode, s.lobby = session.lobby,
           s.joining = session.joining, s.loading = session.loading,
           s.callStarted = session.callStarted, s.config = session.config,
           s.control = session.control,
           NEW job \in Job, Current(job.lobby), ApplyConfig(s, job),
           session.joining # None, session.config = None, session.control = NoJob,
           links = {}, calls = {}, workers = {}, calls' = calls, workers' = workers,
           NoConfigs', expelled' = expelled
    PROVE  Attempt'
<1>1. /\ session.mode = "joining" /\ session.lobby = session.joining
      /\ session.loading /\ session.callStarted
      /\ session.joining = job.lobby /\ job.lobby \in inside
  <2>1. session.mode = "joining" /\ session.lobby = session.joining
    BY DEF Modes, FieldsAgree
  <2>2. session.loading /\ session.joining = job.lobby /\ job.lobby \in inside
    BY <2>1 DEF Current
  <2> QED BY <2>1, <2>2 DEF Attempt, NotYetCalled
<1>2. job.lobby \in Lobbies /\ job # NoJob BY Constants DEF Job
<1>3. Quiet' BY DEF Quiet
<1>4. Calling' /\ Working' /\ Loaded'
  BY <1>3 DEF Quiet, NoConfigs, Calling, Working, Loaded
<1>5. ASSUME session'.mode = session.mode, session'.lobby = session.lobby,
             session'.loading = session.loading, inside' = inside
      PROVE  Answered' /\ Accounted'
  <2>1. Answered' BY <1>5 DEF Attempt, Answered, Shifted
  <2>2. Accounted' BY <1>5 DEF Attempt, Accounted, EnterStays
  <2> QED BY <2>1, <2>2
<1>6. CASE session' = [s EXCEPT !.prompt = job] /\ UNCHANGED <<links, inside>>
  <2>1. /\ session'.mode = session.mode /\ session'.lobby = session.lobby
        /\ session'.joining = session.joining /\ session'.loading = session.loading
        /\ session'.callStarted = session.callStarted /\ session'.prompt = job
        /\ session'.config = None /\ session'.control = NoJob
    BY <1>6 DEF Session
  <2>2. NotYetCalled' BY <1>1, <2>1 DEF NotYetCalled
  <2>3. /\ session'.mode = "joining" /\ session'.loading
        /\ session'.joining = job.lobby /\ job.lobby \in inside'
    BY <1>1, <1>6, <2>1
  <2>4. session'.prompt.lobby = job.lobby BY <2>1
  <2>5. Prompting' BY <1>3, <2>1, <2>3, <2>4 DEF Prompting, Current
  <2>6. Configured' /\ Linked' BY <1>1, <1>6, <2>1 DEF Configured, Linked
  <2> QED BY <1>4, <1>5, <1>6, <2>1, <2>2, <2>5, <2>6 DEF Attempt
<1>7. CASE /\ session' = [s EXCEPT !.prompt = NoJob, !.config = job.lobby, !.control = job,
                                    !.lobby = s.joining]
           /\ links' = links \cup {job} /\ inside' = inside
  <2>1. /\ session'.mode = session.mode /\ session'.lobby = session.lobby
        /\ session'.joining = session.joining /\ session'.loading = session.loading
        /\ session'.callStarted = session.callStarted /\ session'.prompt = NoJob
        /\ session'.config = job.lobby /\ session'.control = job
    BY <1>1, <1>7 DEF Session
  <2>2. NotYetCalled' BY <1>1, <2>1 DEF NotYetCalled
  <2>3. links' = {job} BY <1>7
  <2>4. Prompting' /\ Linked' BY <1>2, <2>1, <2>3 DEF Prompting, Linked
  <2>5. /\ session'.mode = "joining" /\ session'.loading
        /\ session'.config = session'.lobby /\ session'.lobby \in inside'
    <3>1. session'.mode = "joining" /\ session'.loading BY <1>1, <2>1
    <3>2. session'.lobby = job.lobby /\ inside' = inside BY <1>1, <1>7, <2>1
    <3>3. session'.config = job.lobby /\ job.lobby \in inside BY <1>1, <2>1
    <3> QED BY <3>1, <3>2, <3>3
  <2>6. session'.config # None /\ session'.control # NoJob BY <1>2, <2>1, Constants
  <2>7. Configured' BY <1>3, <2>1, <2>5, <2>6 DEF Configured
  <2> QED BY <1>4, <1>5, <1>7, <2>1, <2>2, <2>4, <2>7 DEF Attempt
<1>8. CASE StopSession BY <1>8, StoppedAttempt
<1> QED BY <1>6, <1>7, <1>8 DEF ApplyConfig

-----------------------------------------------------------------------------
(* One lemma per actor *)

\* A new attempt counts as patient only if nothing of the last one is left.
LEMMA UserAttempt ==
    ASSUME Types, Modes, patient => Attempt, User, patient'
    PROVE  Attempt'
<1>0. session \in Session BY DEF Types, TypeOK
<1>1. ASSUME MayTry
      PROVE  /\ Attempt /\ calls = {} /\ workers = {} /\ links = {}
             /\ NoConfigs /\ NoAnswers /\ inside = {}
             /\ session.prompt = NoJob /\ session.config = None /\ session.control = NoJob
  <2>1. /\ Attempt /\ session.mode = "idle"
        /\ calls = {} /\ owed = {} /\ workers = {} /\ links = {} /\ inbox = <<>>
    BY <1>1 DEF MayTry, Settled
  <2>2. /\ session.prompt = NoJob /\ session.config = None /\ session.control = NoJob
        /\ ~session.loading
    BY <2>1, IdleAttempt
  <2>3. DOMAIN inbox = {} BY <2>1
  <2>4. Waiting = {} BY <2>1, <2>3 DEF Waiting
  <2>5. inside = {} BY <2>1, <2>2, <2>4 DEF Attempt, Accounted
  <2>6. NoConfigs /\ NoAnswers BY <2>3, <2>4 DEF NoConfigs, NoAnswers
  <2> QED BY <2>1, <2>2, <2>5, <2>6
<1>2. ASSUME NEW l \in Lobbies, NEW password \in BOOLEAN, Join(l, password) PROVE Attempt'
  <2> DEFINE s == [session EXCEPT !.mode = "joining", !.lobby = l, !.joining = l,
                        !.loading = FALSE, !.callStarted = FALSE, !.codePending = FALSE,
                        !.password = password, !.prompt = NoJob]
  <2>1. /\ s \in Session /\ s.mode = "joining" /\ s.joining = l
        /\ ~s.callStarted /\ ~s.loading /\ s.prompt = NoJob
        /\ s.config = session.config /\ s.control = session.control
    BY <1>0 DEF Session
  <2>2. MayTry /\ RequestJoin(s, tries + 1) BY <1>2 DEF Join
  <2>3. inbox' = inbox /\ owed' = owed /\ workers' = workers /\ links' = links
        /\ inside' = inside
    BY <1>2 DEF Join
  <2>4. Waiting' = Waiting /\ NoConfigs' /\ NoAnswers'
    BY <1>1, <2>2, <2>3 DEF Waiting, NoConfigs, NoAnswers
  <2> HIDE DEF s
  <2>5. ~(s.joining \in {None, Unknown} \/ s.callStarted) BY <2>1, Constants
  <2>6. CASE CallJoinLobby(s, tries + 1)
    <3> DEFINE c == [lobby |-> l, try |-> tries + 1]
    <3>1. calls' = {c} /\ c.lobby = l BY <1>1, <2>1, <2>2, <2>6 DEF CallJoinLobby
    <3>2. session' = [s EXCEPT !.callStarted = TRUE] BY <2>6 DEF CallJoinLobby
    <3>3. /\ session'.mode = "joining" /\ session'.joining = l
          /\ session'.callStarted /\ ~session'.loading /\ session'.prompt = NoJob
          /\ session'.config = session.config /\ session'.control = session.control
      BY <2>1, <3>2 DEF Session
    <3> HIDE DEF c
    <3> QED BY <1>1, <2>2, <2>3, <2>4, <3>1, <3>3, CalledAttempt
  <2>7. CASE session' = Abandoned(s) /\ UNCHANGED calls
    <3>1. /\ session'.mode = "idle" /\ ~session'.loading /\ session'.prompt = NoJob
          /\ session'.config = None /\ session'.control = NoJob
      BY <1>1, <2>1, <2>2, <2>7, AbandonedFields
    <3>2. inside' = {} /\ links' = {} BY <1>1, <2>2, <2>3
    <3>3. Accounted' BY <3>2 DEF Accounted
    <3>4. Shifted(0) BY <2>3, Unmoved
    <3>5. inside' \subseteq inside BY <2>3
    <3> QED BY <1>1, <2>2, <2>3, <2>7, <3>1, <3>2, <3>3, <3>4, <3>5, EndedAttempt
  <2> QED BY <2>2, <2>5, <2>6, <2>7 DEF RequestJoin
<1>3. ASSUME NEW l \in Lobbies \cup {Unknown}, NEW password \in BOOLEAN, JoinByCode(l, password)
      PROVE  Attempt'
  <2>1. /\ session'.mode = "joining"
        /\ ~session'.callStarted /\ ~session'.loading /\ session'.prompt = session.prompt
        /\ session'.config = session.config /\ session'.control = session.control
    BY <1>0, <1>3 DEF JoinByCode, Session
  <2>2. MayTry BY <1>3 DEF JoinByCode
  <2>3. /\ inbox' = inbox /\ calls' = calls /\ workers' = workers /\ links' = links
        /\ inside' = inside /\ owed' = owed
    BY <1>3 DEF JoinByCode
  <2>4. Quiet' /\ NoAnswers'
    BY <1>1, <2>2, <2>3 DEF Quiet, NoConfigs, NoAnswers, Waiting
  <2> QED BY <1>1, <2>1, <2>2, <2>3, <2>4, FreshAttempt
<1>4. CASE Disconnect
  BY <1>4, Unmoved, StoppedAttempt DEF Disconnect, history
<1>5. CASE ProvidePassword
  <2>1. Attempt BY <1>5 DEF ProvidePassword, history
  <2>2. session.prompt \in Job /\ session.mode = "joining" /\ session.prompt # NoJob
    BY <1>0, <1>5 DEF ProvidePassword, Session
  <2>4. /\ Quiet /\ session.config = None /\ session.control = NoJob
        /\ Current(session.prompt.lobby)
    BY <2>1, <2>2 DEF Attempt, Prompting, Configured
  <2>5. links = {} BY <2>1, <2>4 DEF Attempt, Linked
  <2>6. /\ calls' = calls /\ workers' = workers /\ inbox' = inbox /\ owed' = owed
        /\ expelled' = expelled
    BY <1>5 DEF ProvidePassword, history
  <2>7. Shifted(0) /\ EnterStays BY <2>6, Unmoved
  <2>8. NoConfigs' BY <2>4, <2>6 DEF Quiet, NoConfigs
  <2> DEFINE s == [session EXCEPT !.password = TRUE]
  <2>9. /\ s \in Session /\ s.mode = session.mode /\ s.lobby = session.lobby
        /\ s.joining = session.joining /\ s.loading = session.loading
        /\ s.callStarted = session.callStarted /\ s.config = session.config
        /\ s.control = session.control
    BY <1>0 DEF Session
  <2>10. StopSession \/ ApplyConfig(s, session.prompt) BY <1>5 DEF ProvidePassword
  <2> HIDE DEF s
  <2>11. CASE StopSession BY <2>1, <2>6, <2>7, <2>11, StoppedAttempt
  <2>12. CASE ApplyConfig(s, session.prompt)
    <3>1. session.joining # None BY <2>2 DEF Modes, FieldsAgree
    <3>2. calls = {} /\ workers = {} BY <2>4 DEF Quiet
    <3> QED
      BY <2>1, <2>2, <2>4, <2>5, <2>6, <2>7, <2>8, <2>9, <2>12, <3>1, <3>2, ApplyAttempt
  <2> QED BY <2>10, <2>11, <2>12
<1> QED BY <1>2, <1>3, <1>4, <1>5 DEF User, Disconnect, history

\* One event is posted behind the others.
LEMMA AddedOne ==
    ASSUME Types, NEW a \in Good, Posted(<<a>>)
    PROVE  /\ {inbox'[i] : i \in DOMAIN inbox'} = {inbox[i] : i \in DOMAIN inbox} \cup {a}
           /\ NoConfigs /\ a.kind \notin Configs => NoConfigs'
<1> DEFINE n == <<a>>
<1>1. n \in Seq(Good) /\ DOMAIN n = {1} /\ n[1] = a OBVIOUS
<1>2. Posted(n) OBVIOUS
<1> HIDE DEF n
<1>3. /\ DOMAIN inbox \subseteq DOMAIN inbox'
      /\ \A i \in DOMAIN inbox : inbox'[i] = inbox[i]
      /\ \A i \in DOMAIN inbox' \ DOMAIN inbox : \E m \in DOMAIN n : inbox'[i] = n[m]
      /\ \A m \in DOMAIN n : \E i \in DOMAIN inbox' : inbox'[i] = n[m]
  BY <1>1, <1>2, Added
<1>4. \A i \in DOMAIN inbox' : inbox'[i] = a \/ (i \in DOMAIN inbox /\ inbox'[i] = inbox[i])
  BY <1>1, <1>3
<1>5. \E i \in DOMAIN inbox' : inbox'[i] = a BY <1>1, <1>3
<1>6. NoConfigs /\ a.kind \notin Configs => NoConfigs' BY <1>4 DEF NoConfigs
<1> QED BY <1>3, <1>4, <1>5, <1>6

LEMMA SteamAttempt ==
    ASSUME Types, Modes, Attempt, NEW c \in calls, NEW ok \in BOOLEAN, SteamAnswers(c, ok)
    PROVE  Attempt'
<1> DEFINE enter == Note("enter", c.lobby, ok, c.try)
           result == Note("result", c.lobby, ok, c.try)
           lost == Note("lost", None, FALSE, c.try)
<1>1. c \in Job BY DEF Types, TypeOK
<1>2. c.lobby \in Lobbies /\ c.try \in 1 .. MaxTries /\ c.try \in 0 .. MaxTries
  BY <1>1, Constants DEF Job
<1>3. /\ enter \in Good /\ result \in Good /\ lost \in Good
  BY <1>2, NoteGood, NoteNone
<1>4. /\ enter.kind = "enter" /\ enter.ok = ok /\ enter.lobby = c.lobby
      /\ result.kind = "result" /\ result.ok = ok /\ result.lobby = c.lobby
      /\ lost.kind = "lost"
  BY DEF Note
<1>5. PICK outcome \in {result, lost} :
          \/ Posted(<<enter>>) /\ owed' = owed \cup {outcome}
          \/ Posted(<<outcome>>) /\ owed' = owed \cup {enter}
  BY DEF SteamAnswers
<1>6. /\ calls = {c} /\ workers = {} /\ inside = {} /\ ~session.loading
      /\ NoAnswers /\ NoConfigs
      /\ session.mode = "joining" => session.joining = c.lobby
  BY DEF Attempt, Calling
<1>7. /\ links = {} /\ session.mode # "connected"
      /\ session.prompt = NoJob /\ session.config = None /\ session.control = NoJob
  BY <1>6, NotConfigured DEF Quiet
<1>8. session.mode = "joining" => session.callStarted
  BY <1>6, NothingYet DEF Quiet
<1>9. /\ calls' = {} /\ workers' = {} /\ links' = {} /\ session' = session
      /\ inside' = IF ok THEN {c.lobby} ELSE {}
  BY <1>6, <1>7 DEF SteamAnswers
<1> HIDE DEF enter, result, lost
<1>10. /\ outcome \in Good /\ outcome.kind \notin Configs /\ enter.kind \notin Configs
       /\ outcome.kind \in Answers => outcome.ok = ok /\ outcome.lobby = c.lobby
  BY <1>3, <1>4 DEF Configs, Answers
<1>11. NoConfigs' /\ Waiting' = Waiting \cup {enter, outcome}
  <2>1. CASE Posted(<<enter>>) /\ owed' = owed \cup {outcome}
    <3>1. /\ {inbox'[i] : i \in DOMAIN inbox'} = {inbox[i] : i \in DOMAIN inbox} \cup {enter}
          /\ NoConfigs'
      BY <1>3, <1>6, <1>10, <2>1, AddedOne
    <3> QED BY <2>1, <3>1 DEF Waiting
  <2>2. CASE Posted(<<outcome>>) /\ owed' = owed \cup {enter}
    <3>1. /\ {inbox'[i] : i \in DOMAIN inbox'} = {inbox[i] : i \in DOMAIN inbox} \cup {outcome}
          /\ NoConfigs'
      BY <1>6, <1>10, <2>2, AddedOne
    <3> QED BY <2>2, <3>1 DEF Waiting
  <2> QED BY <1>5, <2>1, <2>2
<1>12. \A e \in Waiting' : e.kind \in Answers => e.ok = ok /\ e.lobby = c.lobby
  BY <1>4, <1>6, <1>10, <1>11 DEF NoAnswers
<1>13. NotYetCalled' BY <1>6, <1>8, <1>9 DEF NotYetCalled
<1>14. Calling' /\ Working' /\ Loaded' BY <1>9, <1>11 DEF Calling, Working, Loaded, NoConfigs
<1>15. Answered'
  <2>1. session.mode # "idle" => session.lobby = c.lobby
    <3>1. session \in Session BY DEF Types, TypeOK
    <3>2. session.mode \in {"idle", "joining", "connected"} BY <3>1 DEF Session
    <3> QED BY <1>6, <1>7, <3>2 DEF Modes, FieldsAgree
  <2> SUFFICES ASSUME NEW e \in Waiting', e.kind \in Answers
               PROVE  /\ ~e.ok => inside' = {}
                      /\ e.ok => session.mode = "idle" \/ session.lobby = e.lobby
                      /\ e.ok => e.lobby \in inside'
    BY <1>9 DEF Answered
  <2>2. e.ok = ok /\ e.lobby = c.lobby BY <1>12
  <2> QED BY <1>9, <2>1, <2>2
<1>16. Prompting' /\ Configured' /\ Linked'
  BY <1>7, <1>9 DEF Prompting, Configured, Linked
<1>17. Accounted' BY <1>4, <1>9, <1>11 DEF Accounted
<1> QED BY <1>13, <1>14, <1>15, <1>16, <1>17 DEF Attempt

\* Events are posted that no attempt needs, or that waited before.
LEMMA OtherPosted ==
    ASSUME Types, Attempt, NEW n \in Seq(Good), Posted(n),
           \A m \in DOMAIN n : n[m].kind \notin Configs,
           Waiting \subseteq Waiting',
           \A e \in Waiting' : e \in Waiting \/ e.kind \notin Answers,
           session' = session, calls' = calls, workers' = workers, links' = links,
           inside' = inside, expelled' = expelled
    PROVE  Attempt'
<1>1. \A i \in DOMAIN inbox' : \/ i \in DOMAIN inbox /\ inbox'[i] = inbox[i]
                               \/ inbox'[i].kind \notin Configs
  BY Added
<1>2. \A i \in DOMAIN inbox' : inbox'[i].kind \in Configs =>
          i \in DOMAIN inbox /\ inbox'[i] = inbox[i]
  BY <1>1
<1>n. (NoConfigs => NoConfigs') /\ (NoAnswers => NoAnswers')
  BY <1>2 DEF NoConfigs, NoAnswers
<1>q. Quiet => Quiet' BY <1>n DEF Quiet
<1>3. NotYetCalled' BY <1>n, <1>q DEF Attempt, NotYetCalled
<1>4. Calling' BY <1>n DEF Attempt, Calling
<1>5. Answered' BY DEF Attempt, Answered
<1>6. Working' BY <1>n DEF Attempt, Working, Current
<1>7. Loaded' BY <1>2 DEF Attempt, Loaded, Current
<1>8. Prompting' BY <1>q DEF Attempt, Prompting, Current
<1>9. Configured' BY <1>q DEF Attempt, Configured
<1>10. Linked' BY DEF Attempt, Linked
<1>11. Accounted' BY DEF Attempt, Accounted
<1> QED BY <1>3, <1>4, <1>5, <1>6, <1>7, <1>8, <1>9, <1>10, <1>11 DEF Attempt

\* What waits once events are posted that are no answers of Steam.
LEMMA NewPosted ==
    ASSUME Types, NEW n \in Seq(Good), Posted(n), owed' = owed,
           \A m \in DOMAIN n : n[m].kind \notin Answers
    PROVE  /\ Waiting \subseteq Waiting'
           /\ \A e \in Waiting' : e \in Waiting \/ e.kind \notin Answers
<1>1. /\ DOMAIN inbox \subseteq DOMAIN inbox'
      /\ \A i \in DOMAIN inbox : inbox'[i] = inbox[i]
      /\ \A i \in DOMAIN inbox' \ DOMAIN inbox : \E m \in DOMAIN n : inbox'[i] = n[m]
  BY Added
<1>2. Waiting \subseteq Waiting' BY <1>1 DEF Waiting
<1>3. ASSUME NEW e \in Waiting', e \notin Waiting PROVE e.kind \notin Answers
  <2>1. PICK i \in DOMAIN inbox' : e = inbox'[i] BY <1>3 DEF Waiting
  <2>2. i \notin DOMAIN inbox BY <1>1, <1>3, <2>1 DEF Waiting
  <2> QED BY <1>1, <2>1, <2>2
<1> QED BY <1>2, <1>3

LEMMA DeliverAttempt ==
    ASSUME Types, Attempt, NEW e \in owed, Deliver(e)
    PROVE  Attempt'
<1>1. e \in Good /\ e.kind \notin Configs BY DEF Types, Answers, Configs
<1>2. Posted(<<e>>) /\ owed' = owed \ {e} BY DEF Deliver
<1>3. {inbox'[i] : i \in DOMAIN inbox'} = {inbox[i] : i \in DOMAIN inbox} \cup {e}
  BY <1>1, <1>2, AddedOne
<1>4. Waiting' = Waiting BY <1>2, <1>3 DEF Waiting
<1> DEFINE n == <<e>>
<1>5. n \in Seq(Good) /\ DOMAIN n = {1} /\ n[1] = e BY <1>1
<1>6. Posted(n) BY <1>2
<1>7. \A m \in DOMAIN n : n[m].kind \notin Configs BY <1>1, <1>5
<1>8. /\ session' = session /\ calls' = calls /\ workers' = workers /\ links' = links
      /\ inside' = inside /\ expelled' = expelled
  BY DEF Deliver, history
<1> HIDE DEF n
<1> QED BY <1>4, <1>5, <1>6, <1>7, <1>8, OtherPosted

LEMMA InviteAttempt ==
    ASSUME Types, Attempt, NEW l \in Lobbies, FriendInvites(l)
    PROVE  Attempt'
<1> DEFINE invited == Note("steamInvite", l, TRUE, tries)
           n == <<invited>>
<1>1. tries \in 0 .. MaxTries BY DEF Types, TypeOK
<1>2. invited \in Good /\ invited.kind \notin Answers /\ invited.kind \notin Configs
  BY <1>1, NoteGood DEF Note, Answers, Configs
<1>3. Posted(n) BY DEF FriendInvites
<1>4. /\ session' = session /\ calls' = calls /\ workers' = workers /\ links' = links
      /\ inside' = inside /\ expelled' = expelled /\ owed' = owed
  BY DEF FriendInvites, history
<1> HIDE DEF invited
<1>5. n \in Seq(Good) /\ DOMAIN n = {1} /\ n[1] = invited BY <1>2
<1>6. \A m \in DOMAIN n : n[m].kind \notin Answers /\ n[m].kind \notin Configs
  BY <1>2, <1>5
<1> HIDE DEF n
<1> QED BY <1>3, <1>4, <1>5, <1>6, NewPosted, OtherPosted

LEMMA BrokerAttempt ==
    ASSUME Types, Attempt, NEW l \in Lobbies, BrokerAnswers(l)
    PROVE  Attempt'
<1> DEFINE granted == Note("codeGranted", l, TRUE, tries)
           invited == Note("steamInvite", l, TRUE, tries)
           denied == Note("codeDenied", None, FALSE, tries)
<1>0. tries \in 0 .. MaxTries BY DEF Types, TypeOK
<1>1. granted \in Good /\ invited \in Good /\ denied \in Good
  BY <1>0, NoteGood, NoteNone DEF Configs
<1>2. \A e \in {granted, invited, denied} : e.kind \notin Answers /\ e.kind \notin Configs
  BY DEF Note, Answers, Configs
<1>3. \/ Posted(<<granted>>) \/ Posted(<<denied>>)
      \/ Posted(<<invited, granted>>) \/ Posted(<<granted, invited>>)
      \/ Posted(<<granted, denied>>) \/ Posted(<<invited, denied>>)
  BY DEF BrokerAnswers
<1>4. /\ session' = session /\ calls' = calls /\ workers' = workers /\ links' = links
      /\ inside' = inside /\ expelled' = expelled /\ owed' = owed
  BY DEF BrokerAnswers, history
<1> HIDE DEF granted, invited, denied
<1>5. ASSUME NEW a \in {granted, invited, denied}, Posted(<<a>>) PROVE Attempt'
  <2> DEFINE n == <<a>>
  <2>1. n \in Seq(Good) /\ DOMAIN n = {1} /\ n[1] = a BY <1>1
  <2>2. Posted(n) BY <1>5
  <2>3. \A m \in DOMAIN n : n[m].kind \notin Answers /\ n[m].kind \notin Configs
    BY <1>2, <2>1
  <2> HIDE DEF n
  <2> QED BY <1>4, <2>1, <2>2, <2>3, NewPosted, OtherPosted
<1>6. ASSUME NEW a \in {granted, invited, denied}, NEW b \in {granted, invited, denied},
             Posted(<<a, b>>)
      PROVE  Attempt'
  <2> DEFINE n == <<a, b>>
  <2>1. n \in Seq(Good) /\ DOMAIN n = {1, 2} /\ n[1] = a /\ n[2] = b BY <1>1
  <2>2. Posted(n) BY <1>6
  <2>3. \A m \in DOMAIN n : n[m].kind \notin Answers /\ n[m].kind \notin Configs
    BY <1>2, <2>1
  <2> HIDE DEF n
  <2> QED BY <1>4, <2>1, <2>2, <2>3, NewPosted, OtherPosted
<1> QED BY <1>3, <1>5, <1>6

LEMMA HostAttempt ==
    ASSUME Types, Attempt, NEW link \in links, NEW kind \in {"granted", "denied"},
           HostAnswers(link, kind)
    PROVE  Attempt'
<1> DEFINE word == Note(kind, link.lobby, TRUE, link.try)
           n == <<word>>
<1>0. link \in Job BY DEF Types, TypeOK
<1>1. link.lobby \in Lobbies /\ link.try \in 0 .. MaxTries BY <1>0, Constants DEF Job
<1>2. word \in Good /\ word.kind \notin Answers /\ word.kind \notin Configs
  BY <1>1, NoteGood DEF Note, Answers, Configs
<1>3. Posted(n) BY DEF HostAnswers
<1>4. /\ session' = session /\ calls' = calls /\ workers' = workers /\ links' = links
      /\ inside' = inside /\ expelled' = expelled /\ owed' = owed
  BY DEF HostAnswers, history
<1> HIDE DEF word
<1>5. n \in Seq(Good) /\ DOMAIN n = {1} /\ n[1] = word BY <1>2
<1>6. \A m \in DOMAIN n : n[m].kind \notin Answers /\ n[m].kind \notin Configs
  BY <1>2, <1>5
<1> HIDE DEF n
<1> QED BY <1>3, <1>4, <1>5, <1>6, NewPosted, OtherPosted

LEMMA WorkerAttempt ==
    ASSUME Types, Attempt, NEW w \in workers, NEW ok \in BOOLEAN, WorkerEnds(w, ok)
    PROVE  Attempt'
<1> DEFINE end == Note(IF ok THEN "config" ELSE "noConfig", w.lobby, ok, w.try)
           n == <<end>>
<1>0. w \in Job BY DEF Types, TypeOK
<1>1. w.lobby \in Lobbies /\ w.try \in 1 .. MaxTries /\ w.try \in 0 .. MaxTries
  BY <1>0, Constants DEF Job
<1>2. end \in Good /\ end.kind \in Configs /\ end.kind \notin Answers /\ end.lobby = w.lobby
  BY <1>1, NoteGood DEF Note, Answers, Configs
<1>3. Posted(n) BY DEF WorkerEnds
<1>4. workers = {w} /\ Current(w.lobby) /\ NoConfigs BY DEF Attempt, Working
<1>5. /\ session' = session /\ calls' = calls /\ workers' = {} /\ links' = links
      /\ inside' = inside /\ owed' = owed
  BY <1>4 DEF WorkerEnds
<1>6. ~Quiet /\ calls = {} BY <1>4 DEF Quiet, Attempt, Calling
<1>7. /\ links = {} /\ session.mode # "connected"
      /\ session.prompt = NoJob /\ session.config = None /\ session.control = NoJob
  BY <1>6, NotConfigured
<1> HIDE DEF end
<1>8. n \in Seq(Good) /\ DOMAIN n = {1} /\ n[1] = end BY <1>2
<1>9. \A m \in DOMAIN n : n[m].kind \notin Answers BY <1>2, <1>8
<1> HIDE DEF n
<1>10. /\ \A i \in DOMAIN inbox : inbox'[i] = inbox[i]
      /\ \A i \in DOMAIN inbox' \ DOMAIN inbox : i = Len(inbox) + 1 /\ inbox'[i] = end
  BY <1>3, <1>8, Added
<1>11. \A i \in DOMAIN inbox' : inbox'[i].kind \in Configs => i = Len(inbox) + 1 /\ inbox'[i] = end
  BY <1>4, <1>10 DEF NoConfigs
<1>w. /\ Waiting \subseteq Waiting'
      /\ \A e \in Waiting' : e \in Waiting \/ e.kind \notin Answers
  BY <1>3, <1>5, <1>8, <1>9, NewPosted
<1>12. NotYetCalled' BY <1>5, <1>6, NothingYet DEF Attempt, NotYetCalled
<1>13. Calling' /\ Working' BY <1>5, <1>6 DEF Calling, Working
<1>14. Answered' BY <1>5, <1>w DEF Attempt, Answered
<1>15. Loaded' BY <1>2, <1>4, <1>5, <1>11 DEF Loaded, Current
<1>16. Prompting' /\ Configured' /\ Linked'
  BY <1>5, <1>7 DEF Prompting, Configured, Linked
<1>17. Accounted' BY <1>5, <1>w DEF Attempt, Accounted
<1> QED BY <1>12, <1>13, <1>14, <1>15, <1>16, <1>17 DEF Attempt

LEMMA TimerAttempt ==
    ASSUME Types, Modes, Attempt,
           (\E l \in Lobbies : Watchdog(l)) \/ CodeTimerFires \/ HostGone
    PROVE  Attempt'
<1>0. session \in Session BY DEF Types, TypeOK
<1>1. ASSUME NEW l \in Lobbies, Watchdog(l) PROVE Attempt'
  <2>1. /\ calls' = calls /\ workers' = workers /\ links' = links /\ inside' = inside
        /\ expelled' = expelled /\ Shifted(0) /\ EnterStays
    BY <1>1, Unmoved DEF Watchdog, history
  <2>2. CASE session' = session BY <2>1, <2>2, KeptAttempt
  <2>3. CASE session.joining = l /\ ~session.loading /\ session' = Abandoned(session)
    <3>1. session.mode = "joining" BY <2>3, Constants DEF Modes, FieldsAgree
    <3>2. session.config = None /\ session.control = NoJob BY <2>3, <3>1, NotLoading
    <3> QED BY <1>0, <2>1, <2>3, <3>1, <3>2, AbandonedAttempt
  <2> QED BY <1>1, <2>2, <2>3 DEF Watchdog
<1>2. CASE CodeTimerFires
  <2>1. /\ RequestJoin(session, tries) /\ Shifted(0) /\ EnterStays
        /\ workers' = workers /\ links' = links /\ inside' = inside /\ expelled' = expelled
    BY <1>2, Unmoved DEF CodeTimerFires, history
  <2> QED BY <1>0, <2>1, RequestAttempt
<1>3. CASE HostGone
  BY <1>3, Unmoved, StoppedAttempt DEF HostGone
<1> QED BY <1>1, <1>2, <1>3

-----------------------------------------------------------------------------
(* The slots *)

\* What is known when an answer of Steam is handled.
LEMMA AnswerWaits ==
    ASSUME Types, Attempt, NEW e \in Waiting, e.kind \in Answers
    PROVE  /\ calls = {}
           /\ ~e.ok => inside = {}
           /\ e.ok /\ session.mode # "idle" => session.lobby = e.lobby
           /\ e.ok /\ session.mode = "joining" => e.lobby \in inside
BY DEF Attempt, Calling, NoAnswers, Answered

LEMMA BeginAttempt ==
    ASSUME Types, Modes, Attempt, NEW kind \in Answers, NEW e, Takes(kind, e), BeginJoin(e),
           ~(session.joining = None /\ session.mode = "idle" /\ e.ok) \/ kind # "enter",
           calls' = calls, owed' = owed, links' = links, inside' = inside,
           expelled' = expelled
    PROVE  Attempt'
<1>0. session \in Session BY DEF Types, TypeOK
<1>1. /\ Shifted(1) /\ e.kind = kind /\ e \in Waiting
      /\ kind # "enter" => EnterStays
      /\ \A n \in Waiting : n = e \/ n \in Waiting'
  BY Moved
<1>2. /\ calls = {}
      /\ ~e.ok => inside = {}
      /\ e.ok /\ session.mode # "idle" => session.lobby = e.lobby
      /\ e.ok /\ session.mode = "joining" => session.joining = e.lobby /\ e.lobby \in inside
  BY <1>1, AnswerWaits DEF Modes, FieldsAgree
<1>4. e.lobby \in Lobbies
  <2>1. e \in Good /\ e.kind \in Answers BY <1>1, SlotTypes
  <2> QED BY <2>1 DEF Good, Answers
<1>5. session.mode \in {"idle", "joining", "connected"} BY <1>0 DEF Session
\* The user is in no lobby but the one shown, once its callback is handled.
<1>6. ASSUME session'.lobby = session.lobby, session'.mode = session.mode,
             session.mode # "idle", e.ok,
             session.loading => session'.loading,
             session'.loading \/ session'.mode = "connected"
      PROVE  Accounted'
  <2> SUFFICES ASSUME NEW l \in inside
               PROVE  \/ \E n \in Waiting' : n.kind = "enter" /\ n.ok /\ n.lobby = l
                      \/ session.lobby = l
    BY <1>6 DEF Accounted
  <2>1. CASE \E n \in Waiting : n.kind = "enter" /\ n.ok /\ n.lobby = l
    <3>1. PICK n \in Waiting : n.kind = "enter" /\ n.ok /\ n.lobby = l BY <2>1
    <3>2. CASE n = e BY <1>2, <1>6, <3>1, <3>2
    <3>3. CASE n \in Waiting' BY <3>1, <3>3
    <3> QED BY <1>1, <3>2, <3>3
  <2> QED BY <2>1 DEF Attempt, Accounted
<1>7. CASE (session.joining # e.lobby \/ session.loading) /\ UNCHANGED <<session, workers>>
  <2>1. CASE kind # "enter" BY <1>1, <1>7, <2>1, KeptAttempt
  <2>2. CASE ~e.ok
    <3>1. Accounted' BY <1>2, <2>2 DEF Accounted
    <3> QED BY <1>1, <1>7, <3>1, KeptAttempt
  <2>3. CASE kind = "enter" /\ e.ok
    <3>1. session.mode # "idle" BY <2>3 DEF Modes, FieldsAgree
    <3>2. session.loading \/ session.mode = "connected"
      BY <1>2, <1>5, <1>7, <2>3, <3>1
    <3>3. Accounted' BY <1>6, <1>7, <2>3, <3>1, <3>2
    <3> QED BY <1>1, <1>7, <3>3, KeptAttempt
  <2> QED BY <2>1, <2>2, <2>3
<1>8. ASSUME session.joining = e.lobby PROVE session.mode = "joining"
  BY <1>4, <1>8, Constants DEF Modes, FieldsAgree
<1>9. CASE session.joining = e.lobby /\ ~session.loading /\ ~e.ok
           /\ session' = Abandoned(session) /\ UNCHANGED workers
  <2>1. session.mode = "joining" /\ session.config = None /\ session.control = NoJob
        /\ inside = {}
    BY <1>2, <1>8, <1>9, NotLoading
  <2> QED BY <1>0, <1>1, <1>9, <2>1, AbandonedAttempt
<1>10. CASE /\ session.joining = e.lobby /\ ~session.loading /\ e.ok
            /\ session' = [session EXCEPT !.loading = TRUE]
            /\ workers' = workers \cup {[lobby |-> e.lobby, try |-> tries]}
  <2>1. session.mode = "joining" /\ e.lobby \in inside BY <1>2, <1>8, <1>10
  <2>2. /\ workers = {} /\ links = {} /\ NoConfigs
        /\ session.prompt = NoJob /\ session.config = None /\ session.control = NoJob
    BY <1>10, <2>1, NotLoading
  <2>3. /\ session'.mode = "joining" /\ session'.joining = e.lobby
        /\ session'.lobby = session.lobby /\ session'.loading
        /\ session'.callStarted = session.callStarted /\ session'.prompt = NoJob
        /\ session'.config = None /\ session'.control = NoJob
    BY <1>0, <1>10, <2>1, <2>2 DEF Session
  <2>4. session.callStarted BY <1>1, <2>1, NothingYet DEF NoAnswers
  <2> DEFINE w == [lobby |-> e.lobby, try |-> tries]
  <2>5. workers' = {w} /\ w.lobby = e.lobby BY <1>10, <2>2
  <2>6. NoConfigs' BY <1>1, <2>2, ShiftedQuiet
  <2> HIDE DEF w
  <2>7. NotYetCalled' BY <2>3, <2>4 DEF NotYetCalled
  <2>8. Calling' BY <1>2 DEF Calling
  <2>9. Answered' BY <1>1, <2>1, <2>3 DEF Attempt, Answered, Shifted
  <2>10. Working' BY <2>1, <2>3, <2>5, <2>6 DEF Working, Current
  <2>11. Loaded' BY <2>6 DEF Loaded, NoConfigs
  <2>12. Prompting' /\ Configured' /\ Linked'
    BY <2>2, <2>3 DEF Prompting, Configured, Linked
  <2>13. Accounted' BY <1>6, <1>10, <2>1, <2>3
  <2> QED BY <2>7, <2>8, <2>9, <2>10, <2>11, <2>12, <2>13 DEF Attempt
<1> QED BY <1>7, <1>9, <1>10 DEF BeginJoin

\* A lobby entered for no attempt is left.
LEMMA LeftAttempt ==
    ASSUME Types, Modes, Attempt, NEW kind \in Answers, NEW e, Takes(kind, e),
           session.joining = None, session.mode = "idle" \/ kind = "result",
           inside' = inside \ {e.lobby}, session.lobby = e.lobby => kind = "enter" \/ expelled',
           expelled => expelled',
           session' = session, calls' = calls, owed' = owed, workers' = workers, links' = links
    PROVE  Attempt'
<1>0. session \in Session BY DEF Types, TypeOK
<1>1. /\ Shifted(1) /\ e.kind = kind /\ e \in Waiting
      /\ kind # "enter" => EnterStays
      /\ \A n \in Waiting : n = e \/ n \in Waiting'
  BY Moved
<1>2. inside' \subseteq inside OBVIOUS
<1>n. (NoConfigs => NoConfigs') /\ (NoAnswers => NoAnswers') BY <1>1, ShiftedQuiet
<1>3. CASE session.mode = "idle"
  <2>1. /\ links = {} /\ ~session.loading /\ session.prompt = NoJob
        /\ session.config = None /\ session.control = NoJob
    BY <1>3, IdleAttempt
  <2>2. Accounted'
    <3> SUFFICES ASSUME NEW l \in inside, l # e.lobby
                 PROVE  \E n \in Waiting' : n.kind = "enter" /\ n.ok /\ n.lobby = l
      BY DEF Accounted
    <3>1. PICK n \in Waiting : n.kind = "enter" /\ n.ok /\ n.lobby = l
      BY <1>3, <2>1 DEF Attempt, Accounted
    <3> QED BY <1>1, <3>1
  <2> QED BY <1>1, <1>2, <1>3, <2>1, <2>2, EndedAttempt
\* The access was granted before the result of the call came.
<1>4. CASE session.mode = "connected"
  <2>1. kind = "result" /\ EnterStays BY <1>1, <1>4
  <2>2. session.config # None /\ Quiet BY <1>4 DEF Attempt, Configured
  <2>3. Quiet' BY <1>n, <2>2 DEF Quiet
  <2>4. NotYetCalled' BY <1>4 DEF Attempt, NotYetCalled
  <2>5. Calling' /\ Working' /\ Loaded'
    BY <2>3 DEF Quiet, NoConfigs, Calling, Working, Loaded
  <2>6. Answered' BY <1>1, <1>2, <1>4 DEF Attempt, Answered, Shifted
  <2>7. session.lobby \in inside' \/ expelled' BY <2>1, <2>2 DEF Attempt, Configured
  <2>8. Prompting' BY <2>2 DEF Attempt, Prompting
  <2>9. Configured' BY <1>4, <2>3, <2>7 DEF Attempt, Configured
  <2>10. Linked' BY DEF Attempt, Linked
  <2>11. Accounted' BY <1>2, <1>4, <2>1 DEF Attempt, Accounted, EnterStays
  <2> QED BY <2>4, <2>5, <2>6, <2>8, <2>9, <2>10, <2>11 DEF Attempt
<1>5. session.mode # "joining" BY DEF Modes, FieldsAgree
<1>6. session.mode \in {"idle", "joining", "connected"} BY <1>0 DEF Session
<1> QED BY <1>3, <1>4, <1>5, <1>6

LEMMA ConfigAttempt ==
    ASSUME Types, Modes, Attempt, NEW e, HandleConfig(e) \/ HandleNoConfig(e)
    PROVE  Attempt'
<1>0. session \in Session BY DEF Types, TypeOK
<1>1. /\ Shifted(1) /\ EnterStays /\ 1 \in DOMAIN inbox /\ inbox[1] = e
      /\ e \in Good /\ e.kind \in Configs
  BY Moved, SlotTypes DEF HandleConfig, HandleNoConfig, Configs
<1>2. /\ Current(e.lobby)
      /\ \A j \in DOMAIN inbox : inbox[j].kind \in Configs => j = 1
  BY <1>1 DEF Attempt, Loaded
<1>3. NoConfigs'
  <2> SUFFICES ASSUME NEW i \in DOMAIN inbox', inbox'[i].kind \in Configs PROVE FALSE
    BY DEF NoConfigs
  <2>1. i + 1 \in DOMAIN inbox /\ inbox'[i] = inbox[i + 1] /\ i \in Int
    BY <1>1 DEF Shifted
  <2>2. i + 1 = 1 BY <1>2, <2>1
  <2>3. DOMAIN inbox' = 1 .. Len(inbox')
    <3>1. inbox' \in Seq(Good) BY SlotTypes DEF HandleConfig, HandleNoConfig
    <3> QED BY <3>1
  <2> QED BY <2>1, <2>2, <2>3
<1>4. calls = {} /\ workers = {} /\ ~Quiet
  BY <1>1 DEF Attempt, Calling, Working, Quiet, NoConfigs
<1>5. /\ links = {} /\ session.mode # "connected"
      /\ session.prompt = NoJob /\ session.config = None /\ session.control = NoJob
  BY <1>4, NotConfigured
<1>6. CASE HandleNoConfig(e)
  <2> DEFINE s == Abandoned(session)
  <2>1. /\ s \in Session /\ s.mode = "idle" /\ s.prompt = NoJob /\ s.control = NoJob
    BY <1>0, <1>5, Sessions, AbandonedFields
  <2>2. session' = [s EXCEPT !.loading = FALSE, !.config = None] BY <1>6 DEF HandleNoConfig
  <2> HIDE DEF s
  <2>3. /\ session'.mode = "idle" /\ ~session'.loading /\ session'.prompt = NoJob
        /\ session'.config = None /\ session'.control = NoJob
    BY <2>1, <2>2 DEF Session
  <2>4. /\ calls' = calls /\ workers' = workers /\ links' = {}
        /\ inside' = inside \ {session.joining}
    BY <1>5, <1>6 DEF HandleNoConfig
  <2>5. Accounted'
    <3> SUFFICES ASSUME NEW l \in inside, l # session.joining
                 PROVE  \E n \in Waiting' : n.kind = "enter" /\ n.ok /\ n.lobby = l
      BY <2>4 DEF Accounted
    <3>1. ~(session.lobby = l /\ session.loading)
      BY DEF Attempt, NotYetCalled, Modes, FieldsAgree
    <3>2. PICK n \in Waiting : n.kind = "enter" /\ n.ok /\ n.lobby = l
      BY <1>5, <3>1 DEF Attempt, Accounted
    <3> QED BY <1>1, <3>2 DEF EnterStays
  <2>6. inside' \subseteq inside BY <2>4
  <2> QED BY <1>1, <2>3, <2>4, <2>5, <2>6, EndedAttempt
<1>7. CASE HandleConfig(e)
  <2> DEFINE job == [lobby |-> e.lobby, try |-> e.try]
  <2>1. job \in Job /\ job.lobby = e.lobby
    <3>1. e \in Good /\ e.kind = "config" BY <1>7, SlotTypes DEF HandleConfig
    <3>2. e.lobby \in Lobbies /\ e.try \in 1 .. MaxTries BY <3>1 DEF Good, Configs
    <3> QED BY <3>2 DEF Job
  <2>2. /\ ApplyConfig(session, job) /\ calls' = calls /\ workers' = workers
        /\ expelled' = expelled
    BY <1>7 DEF HandleConfig, history
  <2> HIDE DEF job
  <2>3. CASE session.joining = None
    <3>1. session' = session /\ links' = links /\ inside' = inside
      BY <2>2, <2>3 DEF ApplyConfig
    <3> QED BY <1>1, <2>2, <3>1, KeptAttempt
  <2>4. CASE session.joining # None
    <3>1. Current(job.lobby) BY <1>2, <2>1
    <3> QED BY <1>0, <1>1, <1>3, <1>4, <1>5, <2>1, <2>2, <2>4, <3>1, ApplyAttempt
  <2> QED BY <2>3, <2>4
<1> QED BY <1>6, <1>7

LEMMA CodeAttempt ==
    ASSUME Types, Modes, Attempt, NEW e,
           HandleCodeGranted(e) \/ HandleCodeDenied(e) \/ HandleSteamInvite(e)
    PROVE  Attempt'
<1>0. session \in Session BY DEF Types, TypeOK
<1>1. /\ Shifted(1) /\ EnterStays /\ e \in Good
      /\ e.kind \in {"codeGranted", "codeDenied", "steamInvite"}
      /\ workers' = workers /\ expelled' = expelled
  BY Moved, SlotTypes DEF HandleCodeGranted, HandleCodeDenied, HandleSteamInvite, history
<1>n. (NoConfigs => NoConfigs') /\ (NoAnswers => NoAnswers') BY <1>1, ShiftedQuiet
<1>2. CASE UNCHANGED <<session, calls, links, inside>> BY <1>1, <1>2, KeptAttempt
<1>3. CASE RejectCode BY <1>1, <1>3, StoppedAttempt DEF RejectCode
<1> DEFINE s == Named(e.lobby)
<1>4. ASSUME session.joining \in {Unknown, e.lobby}, e.kind # "codeDenied"
      PROVE  /\ s \in Session /\ session.mode = "joining"
             /\ s.mode = session.mode /\ s.loading = session.loading
             /\ s.callStarted = session.callStarted
             /\ s.prompt = session.prompt /\ s.config = session.config
             /\ s.control = session.control
             /\ s.joining # None
             /\ \/ s.joining = session.joining /\ s.lobby = session.lobby
                \/ ~session.callStarted
  <2>1. e.lobby \in Lobbies BY <1>1, <1>4 DEF Good
  <2>2. /\ s \in Session /\ s.mode = "joining" /\ s.joining = e.lobby /\ s.lobby = e.lobby
        /\ s.loading = session.loading /\ s.callStarted = session.callStarted
        /\ s.prompt = session.prompt /\ s.config = session.config
        /\ s.control = session.control
    BY <1>4, <2>1, InvitedAgree
  <2> HIDE DEF s
  <2>3. session.mode = "joining" /\ session.lobby = session.joining
    BY <1>4, <2>1, Constants DEF Modes, FieldsAgree
  <2>4. session.joining = Unknown => ~session.callStarted BY DEF Modes, FieldsAgree
  <2> QED BY <1>4, <2>1, <2>2, <2>3, <2>4, Constants
<1>5. CASE /\ HandleCodeGranted(e) /\ session.joining \in {Unknown, e.lobby}
           /\ session' = s /\ UNCHANGED <<calls, links, inside>>
  <2>1. e.kind # "codeDenied" BY <1>5, Moved DEF HandleCodeGranted
  <2>2. CASE s.joining = session.joining /\ s.lobby = session.lobby
    <3>1. /\ session'.mode = session.mode /\ session'.lobby = session.lobby
          /\ session'.joining = session.joining /\ session'.loading = session.loading
          /\ session'.callStarted = session.callStarted /\ session'.prompt = session.prompt
          /\ session'.config = session.config /\ session'.control = session.control
      BY <1>4, <1>5, <2>1, <2>2
    <3> QED BY <1>1, <1>5, <3>1, KeptAttempt
  <2>3. CASE ~session.callStarted
    <3>1. /\ Quiet /\ NoAnswers /\ inside = {} /\ links = {}
          /\ ~session.loading /\ session.prompt = NoJob
          /\ session.config = None /\ session.control = NoJob
      BY <1>4, <1>5, <2>1, <2>3, NothingYet
    <3>2. /\ session'.mode = "joining" /\ ~session'.callStarted /\ ~session'.loading
          /\ session'.prompt = NoJob /\ session'.config = None /\ session'.control = NoJob
      BY <1>4, <1>5, <2>1, <2>3, <3>1
    <3>3. Quiet' /\ NoAnswers' BY <1>1, <1>5, <1>n, <3>1 DEF Quiet
    <3> QED BY <1>5, <3>1, <3>2, <3>3, FreshAttempt
  <2> QED BY <1>4, <1>5, <2>1, <2>2, <2>3
<1>6. CASE /\ HandleSteamInvite(e) /\ session.joining \in {Unknown, e.lobby}
           /\ RequestJoin(s, tries)
  <2>1. e.kind # "codeDenied" BY <1>6, Moved DEF HandleSteamInvite
  <2>2. links' = links /\ inside' = inside BY <1>6 DEF HandleSteamInvite
  <2>3. /\ s \in Session /\ session.mode = "joining"
        /\ s.mode = session.mode /\ s.loading = session.loading
        /\ s.callStarted = session.callStarted
        /\ s.prompt = session.prompt /\ s.config = session.config
        /\ s.control = session.control
        /\ s.joining # None
        /\ \/ s.joining = session.joining /\ s.lobby = session.lobby
           \/ ~session.callStarted
    BY <1>4, <1>6, <2>1
  <2>4. RequestJoin(s, tries) BY <1>6
  <2> HIDE DEF s
  <2>5. session.joining # None BY <2>3 DEF Modes, FieldsAgree
  <2> QED BY <1>1, <2>2, <2>3, <2>4, <2>5, RequestAttempt
<1>7. ASSUME HandleCodeGranted(e) PROVE Attempt'
  BY <1>2, <1>3, <1>5, <1>7 DEF HandleCodeGranted, Named
<1>8. ASSUME HandleCodeDenied(e) PROVE Attempt'
  BY <1>2, <1>3, <1>8 DEF HandleCodeDenied
<1>9. ASSUME HandleSteamInvite(e) PROVE Attempt'
  BY <1>2, <1>6, <1>9 DEF HandleSteamInvite, Named
<1> QED BY <1>7, <1>8, <1>9

LEMMA HostWordAttempt ==
    ASSUME Types, Modes, Attempt, NEW e, HandleGranted(e) \/ HandleDenied(e)
    PROVE  Attempt'
<1>0. session \in Session BY DEF Types, TypeOK
<1>1. /\ Shifted(1) /\ EnterStays /\ calls' = calls /\ workers' = workers
      /\ expelled' = expelled
  BY Moved DEF HandleGranted, HandleDenied, history
<1>n. (NoConfigs => NoConfigs') /\ (NoAnswers => NoAnswers') BY <1>1, ShiftedQuiet
<1>2. CASE StopSession BY <1>1, <1>2, StoppedAttempt
<1>3. CASE UNCHANGED <<session, links, inside>> BY <1>1, <1>3, KeptAttempt
<1>4. CASE /\ session.config # None /\ session.mode = "joining"
           /\ session' = [session EXCEPT !.mode = "connected", !.joining = None,
                            !.loading = FALSE, !.callStarted = FALSE,
                            !.codePending = FALSE, !.password = FALSE]
           /\ UNCHANGED <<links, inside>>
  <2>1. /\ session'.mode = "connected" /\ ~session'.loading
        /\ session'.lobby = session.lobby /\ session'.prompt = session.prompt
        /\ session'.config = session.config /\ session'.control = session.control
    BY <1>0, <1>4 DEF Session
  <2>2. /\ Quiet /\ session.config = session.lobby
        /\ session.lobby \in inside \/ expelled
        /\ session.prompt = NoJob /\ session.control # NoJob
    BY <1>4 DEF Attempt, Configured
  <2>3. Quiet' BY <1>1, <1>n, <2>2 DEF Quiet
  <2>4. NotYetCalled' BY <2>1 DEF NotYetCalled
  <2>5. Calling' /\ Working' /\ Loaded'
    BY <2>3 DEF Quiet, NoConfigs, Calling, Working, Loaded
  <2>9. Answered' BY <1>1, <1>4, <2>1 DEF Attempt, Answered, Shifted
  <2>6. Prompting' /\ Configured' BY <1>1, <1>4, <2>1, <2>2, <2>3 DEF Prompting, Configured
  <2>7. Linked' BY <1>4, <2>1 DEF Attempt, Linked
  <2>8. Accounted' BY <1>1, <1>4, <2>1 DEF Attempt, Accounted, EnterStays
  <2> QED BY <2>4, <2>5, <2>6, <2>7, <2>8, <2>9 DEF Attempt
<1> QED BY <1>2, <1>3, <1>4 DEF HandleGranted, HandleDenied

LEMMA SlotAttempt == ASSUME Types, Modes, Attempt, Slot PROVE Attempt'
<1>1. ASSUME NEW e, HandleEnter(e) PROVE Attempt'
  <2>1. /\ Takes("enter", e) /\ "enter" \in Answers /\ calls' = calls /\ links' = links
        /\ owed' = owed /\ expelled' = expelled
    BY <1>1 DEF HandleEnter, Answers, history
  <2>2. CASE session.joining = None /\ session.mode = "idle" /\ e.ok
    <3>1. /\ session' = session /\ workers' = workers /\ inside' = inside \ {e.lobby}
      BY <1>1, <2>2 DEF HandleEnter
    <3> QED BY <2>1, <2>2, <3>1, LeftAttempt
  <2>3. CASE ~(session.joining = None /\ session.mode = "idle" /\ e.ok)
    <3>1. BeginJoin(e) /\ inside' = inside BY <1>1, <2>3 DEF HandleEnter
    <3> QED BY <2>1, <2>3, <3>1, BeginAttempt
  <2> QED BY <2>2, <2>3
<1>2. ASSUME NEW e, HandleResult(e) PROVE Attempt'
  <2>1. /\ Takes("result", e) /\ "result" \in Answers /\ calls' = calls /\ links' = links
        /\ owed' = owed
    BY <1>2 DEF HandleResult, Answers
  <2>2. CASE session.joining = None
    <3>1. /\ session' = session /\ workers' = workers /\ inside' = inside \ {e.lobby}
          /\ expelled' = (expelled \/ session.lobby = e.lobby)
      BY <1>2, <2>2 DEF HandleResult
    <3>2. /\ session.lobby = e.lobby => expelled'
          /\ expelled => expelled'
      BY <3>1
    <3> QED BY <2>1, <2>2, <3>1, <3>2, LeftAttempt
  <2>3. CASE session.joining # None
    <3>1. BeginJoin(e) /\ inside' = inside /\ expelled' = expelled
      BY <1>2, <2>3 DEF HandleResult
    <3> QED BY <2>1, <2>3, <3>1, BeginAttempt
  <2> QED BY <2>2, <2>3
<1>3. ASSUME NEW e, HandleLost(e) PROVE Attempt'
  BY <1>3, Moved, KeptAttempt DEF HandleLost, history
<1> QED BY <1>1, <1>2, <1>3, ConfigAttempt, CodeAttempt, HostWordAttempt DEF Slot

-----------------------------------------------------------------------------
(* The theorems *)

LEMMA InitHolds == Init => IInv
<1> SUFFICES ASSUME Init PROVE IInv OBVIOUS
<1>1. Types
  <2>1. session \in Session /\ session.joining = None BY Sessions, IdleFields DEF Init
  <2>2. inbox \in Seq(Good) /\ inbox \in Seq(Event) BY DEF Init
  <2>3. tries \in 0 .. MaxTries /\ asked \in Nat /\ watchdogs \in SUBSET Lobbies
    BY Constants DEF Init
  <2>4. /\ codeTimer \in BOOLEAN /\ broker \in BOOLEAN /\ patient \in BOOLEAN
        /\ calls \in SUBSET Job /\ workers \in SUBSET Job /\ links \in SUBSET Job
        /\ inside \in SUBSET Lobbies
    BY DEF Init
  <2>5. owed = {} /\ expelled \in BOOLEAN BY DEF Init
  <2> QED BY <2>1, <2>2, <2>3, <2>4, <2>5 DEF Types, TypeOK
<1>2. CallOnce /\ Modes BY EndedAgree DEF Init, CallOnce, Modes
<1>3. Attempt
  <2>1. /\ session = Idle /\ calls = {} /\ workers = {} /\ links = {} /\ inside = {}
        /\ owed = {} /\ DOMAIN inbox = {}
    BY DEF Init
  <2>2. Waiting = {} BY <2>1 DEF Waiting
  <2> QED
    BY <2>1, <2>2, IdleFields
    DEF Attempt, NotYetCalled, Calling, Answered, Working, Loaded, Prompting, Configured,
        Linked, Accounted
<1> QED BY <1>1, <1>2, <1>3 DEF IInv

LEMMA NextHolds == IInv /\ [Next]_vars => IInv'
<1> SUFFICES ASSUME IInv, [Next]_vars PROVE IInv' OBVIOUS
<1>1. Types' /\ CallOnce' /\ Modes' BY NextTypes, NextAgree DEF IInv
<1>2. ASSUME patient' PROVE Attempt'
  <2>1. CASE User BY <1>2, <2>1, UserAttempt DEF IInv
  <2>2. CASE UNCHANGED vars
    <3>1. Attempt BY <1>2, <2>2 DEF IInv, vars, history
    <3>2. Shifted(0) /\ EnterStays BY <2>2, Unmoved DEF IInv, vars
    <3>3. /\ session' = session /\ calls' = calls /\ workers' = workers /\ links' = links
          /\ inside' = inside /\ expelled' = expelled
      BY <2>2 DEF vars, history
    <3> QED BY <3>1, <3>2, <3>3, KeptAttempt
  <2>3. CASE Next /\ ~User
    <3>1. patient' = patient
      <4>1. ASSUME Slot PROVE patient' = patient
        BY <4>1
        DEF Slot, HandleEnter, HandleResult, HandleLost, HandleConfig, HandleNoConfig,
            HandleCodeGranted, HandleCodeDenied, HandleSteamInvite, HandleGranted,
            HandleDenied, history
      <4>2. ASSUME Next, ~User, ~Slot PROVE patient' = patient
        BY <4>2
        DEF Next, SteamAnswers, Deliver, FriendInvites, Broker, BrokerAnswers, Worker,
            WorkerEnds, HostAnswers, Watchdog, CodeTimerFires, HostGone, history
      <4> QED BY <2>3, <4>1, <4>2
    <3>2. Types /\ Modes /\ Attempt BY <1>2, <3>1 DEF IInv
    <3> QED
      BY <2>3, <3>2, SteamAttempt, DeliverAttempt, InviteAttempt, BrokerAttempt,
         WorkerAttempt, HostAttempt, SlotAttempt, TimerAttempt
      DEF Next, Broker, Worker
  <2> QED BY <2>1, <2>2, <2>3
<1> QED BY <1>1, <1>2 DEF IInv

LEMMA Always == Spec => []IInv
BY InitHolds, NextHolds, PTL DEF Spec

\* Every variable stays of its kind: a slot can rely on the fields of the
\* session and on what the events of the inbox carry, whatever attempt they
\* come from.
THEOREM JoinTypes == Spec => []TypeOK
<1>1. IInv => TypeOK BY DEF IInv, Types
<1> QED BY <1>1, Always, PTL

\* _request_join_current is reached from the host's answer, from Steam's
\* invitation and from a 300 ms timer, in any order and from any attempt, and
\* an attempt still asks Steam at most once.
THEOREM OneCallPerAttempt == Spec => []AskedOnce
<1>1. IInv => AskedOnce BY DEF IInv, CallOnce, AskedOnce
<1> QED BY <1>1, Always, PTL

\* However an attempt ends, and whatever of it is under way then, the lobby it
\* entered is left, its link is stopped and its configuration is dropped,
\* provided the user lets its leftovers end before the next attempt.
THEOREM NothingIsLeft == Spec => []NothingLeftBehind
<1>1. ASSUME IInv PROVE NoGhostLobby
  <2> SUFFICES ASSUME patient, owed = {}, inbox = <<>>, NEW l \in inside
               PROVE  l = session.lobby
    BY DEF NoGhostLobby
  <2>1. Waiting = {} BY DEF Waiting
  <2> QED BY <1>1, <2>1 DEF IInv, Attempt, Accounted
<1>2. ASSUME IInv PROVE IdleIsClean
  BY <1>2, IdleAttempt DEF IInv, IdleIsClean
<1>3. IInv => NothingLeftBehind BY <1>1, <1>2 DEF NothingLeftBehind
<1> QED BY <1>3, Always, PTL

\* The granted access of such a user is for the lobby shown, on its own
\* configuration, over the only link there is; and the user is in that lobby,
\* unless the result of its call came after the access and made the session leave.
THEOREM ConnectedToTheLobbyShown == Spec => []ConnectedIsConsistent
<1>1. ASSUME IInv PROVE ConnectedIsConsistent
  BY <1>1 DEF IInv, ConnectedIsConsistent, Attempt, Configured, Linked
<1> QED BY <1>1, Always, PTL
=============================================================================
