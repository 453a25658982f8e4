---------------------------- MODULE Updater_proofs ----------------------------
(***************************************************************************)
(* Proofs about the updater, for any number of versions, helpers and files *)
(* that cannot be read or deleted.                                         *)
(*                                                                         *)
(* That some version survives needs no lock: a helper that has moved the   *)
(* installation away keeps its own backup until an app runs from the new   *)
(* one, and nothing is moved while an app runs.  The marker of the attempt *)
(* is the lock that keeps helpers apart.  What it gives, LInv, holds until *)
(* a marker in use is not seen or is deleted by another helper.            *)
(***************************************************************************)
EXTENDS Updater, TLAPS

\* A helper that works under a marker it has not deleted.
Active(h) == helper[h].holds

\* The steps at which a helper has its marker, and those at which it has none; it
\* may be recording a failure with it or without.
Holding == {"waiting", "extracting", "removing", "replacing", "starting", "watching",
            "clearing", "undoing", "restoring"}
Free == {"none", "cleared", "relaunching", "done", "dead"}

HoldsKnown ==
    \A h \in Helpers : /\ helper[h].step \in Holding => Active(h)
                       /\ helper[h].step \in Free => ~Active(h)

\* What a helper that has moved the installation away can go back to.
BackupKept ==
    \A h \in Helpers :
        helper[h].step \in {"replacing", "starting", "watching", "undoing", "restoring"}
            => backup[h] # None

\* The running app is the installed version: it is only replaced while none runs.
AppCurrent ==
    /\ app.version = None => app = Off
    /\ app.version # None => app.version = install

ChildRuns == \A h \in Helpers : helper[h].child => app.version # None

\* The archive of an app belongs to its target version; a kept archive waits for
\* the end of a session.
Matched(a) ==
    /\ a.download # NoUpdate => a.installing /\ a.target = a.download.version
    /\ a.archive # NoUpdate =>
          /\ a.target = a.archive.version
          /\ a.download = NoUpdate
          /\ a.phase # "run" \/ (a.session /\ ~a.installing)
    /\ a.phase = "launching" => a.archive # NoUpdate

HelpersLabelled ==
    \A h \in Helpers :
        /\ helper[h].version = helper[h].archive
        /\ AtWork(h) => helper[h].version # None

IInv ==
    /\ TypeOK
    /\ HoldsKnown
    /\ BackupKept
    /\ SomeVersionSurvives
    /\ AppCurrent
    /\ ChildRuns
    /\ Matched(app)
    /\ HelpersLabelled

-----------------------------------------------------------------------------

\* No version is called None.
LEMMA VersionsAreNumbered == 1 \in Versions /\ None \notin Versions
  BY UpdaterAssumption DEF Versions, None

\* The initial states satisfy the invariant.
LEMMA InitIInv == Init => IInv
<1> SUFFICES ASSUME Init PROVE IInv
  OBVIOUS
<1> USE VersionsAreNumbered DEF Init
<1>1. TypeOK
  <2>1. app \in App
    BY DEF App, Off, Updates, NoUpdate
  <2>2. helper \in [Helpers -> Helper]
    BY DEF Helper, NoHelper, Steps
  <2>3. faults \in 0 .. MaxFaults
    BY UpdaterAssumption
  <2> QED BY <2>1, <2>2, <2>3 DEF TypeOK
<1>2. HoldsKnown /\ ChildRuns BY DEF HoldsKnown, ChildRuns, Active, Holding, NoHelper
<1>3. BackupKept /\ SomeVersionSurvives BY DEF BackupKept, SomeVersionSurvives, NoHelper
<1>4. Matched(app) /\ AppCurrent BY DEF Matched, AppCurrent, Off
<1>5. HelpersLabelled BY DEF HelpersLabelled, AtWork, NoHelper
<1> QED BY <1>1, <1>2, <1>3, <1>4, <1>5 DEF IInv

-----------------------------------------------------------------------------
(* The helpers *)

\* Where a helper that moves on is afterwards, and that nothing else of it changes.
LEMMA MoveMoves ==
  ASSUME TypeOK, NEW h \in Helpers, NEW from \in Steps, NEW to \in Steps, Moves(h, from, to)
  PROVE  /\ helper' \in [Helpers -> Helper]
         /\ \A g \in Helpers \ {h} : helper'[g] = helper[g]
         /\ helper[h].step = from /\ helper'[h].step = to
         /\ helper'[h].version = helper[h].version
         /\ helper'[h].archive = helper[h].archive
         /\ helper'[h].child = helper[h].child
         /\ helper'[h].holds = helper[h].holds
  BY DEF Moves, TypeOK, Helper

\* Where a helper that has ended is afterwards.
LEMMA EndEnds ==
  ASSUME TypeOK, NEW h \in Helpers, NEW to \in {"done", "dead"},
         helper' = [helper EXCEPT ![h] = [NoHelper EXCEPT !.step = to]]
  PROVE  /\ helper' \in [Helpers -> Helper]
         /\ \A g \in Helpers \ {h} : helper'[g] = helper[g]
         /\ helper'[h].step = to
         /\ helper'[h].version = helper'[h].archive
         /\ ~helper'[h].holds /\ ~helper'[h].child
<1>1. [NoHelper EXCEPT !.step = to] \in Helper
  BY DEF NoHelper, Helper, Steps
<1>2. /\ [NoHelper EXCEPT !.step = to].step = to
      /\ [NoHelper EXCEPT !.step = to].version = [NoHelper EXCEPT !.step = to].archive
      /\ ~[NoHelper EXCEPT !.step = to].holds
      /\ ~[NoHelper EXCEPT !.step = to].child
  BY DEF NoHelper
<1> QED BY <1>1, <1>2 DEF TypeOK

\* Where a helper that has deleted its marker is afterwards.
LEMMA ReleaseReleases ==
  ASSUME TypeOK, NEW h \in Helpers, NEW from \in Steps, NEW to \in Steps,
         Releases(h, from, to)
  PROVE  /\ helper' \in [Helpers -> Helper]
         /\ \A g \in Helpers \ {h} : helper'[g] = helper[g]
         /\ helper[h].step = from /\ helper'[h].step = to
         /\ helper'[h].version = helper[h].version
         /\ helper'[h].archive = helper[h].archive
         /\ helper'[h].child = helper[h].child
         /\ ~helper'[h].holds
  BY DEF Releases, TypeOK, Helper

\* What a step does to the helper that takes it and to the others.
Goes(h) ==
    /\ helper' \in [Helpers -> Helper]
    /\ \A g \in Helpers \ {h} : helper'[g] = helper[g]
    /\ \/ helper'[h].version = helper'[h].archive
       \/ /\ helper'[h].version = helper[h].version
          /\ helper'[h].archive = helper[h].archive
    /\ AtWork(h)' => AtWork(h) /\ helper'[h].version = helper[h].version
    /\ Active(h)' => Active(h)
    /\ helper'[h].step \in Holding => Active(h)'
    /\ helper'[h].step \in Free => ~Active(h)'

\* A helper moves on, or it ends; it works afterwards only if it did before, and for
\* the same version, and it never takes a marker.
LEMMA HelperMoves ==
  ASSUME TypeOK, HoldsKnown, NEW h \in Helpers, HelperStep(h) \/ HelperDies(h)
  PROVE  Goes(h)
<1> USE DEF Active, Holding, Free
<1>k. /\ helper[h].step \in Holding => helper[h].holds
      /\ helper[h].step \in Free => ~helper[h].holds
      /\ helper[h] \in Helper /\ helper \in [Helpers -> Helper]
  BY DEF TypeOK, HoldsKnown
<1>1. ASSUME NEW from \in Steps \ {"none", "done", "dead"},
             NEW to \in Steps, Moves(h, from, to),
             to \in Holding => from \in Holding, to \notin Free
      PROVE  Goes(h)
  BY <1>1, <1>k, MoveMoves DEF AtWork, Goes
<1>2. CASE \/ Remove(h) \/ Replace(h) \/ Watch(h) \/ Extract(h) \/ Undo(h) \/ Restore(h)
           \/ Record(h)
  BY <1>1, <1>2 DEF Steps, Remove, Replace, Watch, Extract, Undo, Restore, Record
<1>3. CASE Wait(h)
  <2>1. CASE Moves(h, "waiting", "recording")
    BY <1>1, <2>1 DEF Steps
  <2>2. CASE /\ helper[h].step = "waiting"
             /\ helper' = [helper EXCEPT ![h].step = "extracting", ![h].parent = "seen"]
    <3>1. [helper[h] EXCEPT !.step = "extracting", !.parent = "seen"] \in Helper
      BY <1>k DEF Helper, Steps
    <3>2. /\ helper' \in [Helpers -> Helper] /\ \A g \in Helpers \ {h} : helper'[g] = helper[g]
          /\ helper'[h].step = "extracting" /\ helper'[h].holds = helper[h].holds
          /\ helper'[h].version = helper[h].version /\ helper'[h].archive = helper[h].archive
      BY <1>k, <2>2, <3>1 DEF Helper
    <3> QED BY <1>k, <2>2, <3>2 DEF Goes, AtWork
  <2> QED BY <1>3, <2>1, <2>2 DEF Wait
<1>4. CASE Start(h)
  <2>1. CASE Moves(h, "starting", "watching") \/ Moves(h, "starting", "undoing")
    BY <1>1, <2>1 DEF Steps
  <2>2. CASE /\ helper[h].step = "starting"
             /\ helper' = [helper EXCEPT ![h].step = "watching", ![h].child = TRUE]
    <3>1. [helper[h] EXCEPT !.step = "watching", !.child = TRUE] \in Helper
      BY <1>k DEF Helper, Steps
    <3>2. /\ helper' \in [Helpers -> Helper] /\ \A g \in Helpers \ {h} : helper'[g] = helper[g]
          /\ helper'[h].step = "watching" /\ helper'[h].holds = helper[h].holds
          /\ helper'[h].version = helper[h].version /\ helper'[h].archive = helper[h].archive
      BY <1>k, <2>2, <3>1 DEF Helper
    <3> QED BY <1>k, <2>2, <3>2 DEF Goes, AtWork
  <2> QED BY <1>4, <2>1, <2>2 DEF Start
<1>5. ASSUME NEW to \in {"done", "dead"},
             helper' = [helper EXCEPT ![h] = [NoHelper EXCEPT !.step = to]]
      PROVE  Goes(h)
  BY <1>5, EndEnds DEF Goes, AtWork
<1>6. ASSUME NEW from \in Steps \ {"none", "done", "dead"}, NEW to \in Free,
             Releases(h, from, to)
      PROVE  Goes(h)
  <2>1. to \in Steps
    BY <1>6 DEF Steps
  <2> QED BY <1>6, <2>1, ReleaseReleases DEF Goes, AtWork
<1>7. CASE ClearAttempt(h)
  BY <1>1, <1>6, <1>7 DEF ClearAttempt, Steps
<1>8. CASE ClearFailure(h)
  BY <1>1, <1>5, <1>8 DEF ClearFailure, Ends, Steps
<1>9. CASE Unmark(h)
  BY <1>5, <1>6, <1>9 DEF Unmark, Ends, Steps
<1>10. CASE Relaunch(h) \/ HelperDies(h)
  BY <1>5, <1>10 DEF Relaunch, HelperDies, Ends
<1> QED BY <1>2, <1>3, <1>4, <1>7, <1>8, <1>9, <1>10 DEF HelperStep

-----------------------------------------------------------------------------
(* The app *)

\* The app goes on without a word to the disk or the helpers.
Quiet ==
    /\ app' \in App /\ Matched(app)'
    /\ app'.phase = "run"
    /\ attempted' \subseteq attempted /\ faults' \in 0 .. MaxFaults
    /\ UNCHANGED <<disk, helper, unlocked>>

\* The app takes the marker for the version of its archive.
Takes ==
    /\ app' \in App /\ Matched(app)'
    /\ app.phase = "run" /\ app'.phase = "launching"
    /\ attempt' = app'.target /\ attempt' \in Versions
    /\ attempted' = attempted \ {attempt} /\ faults' \in 0 .. MaxFaults
    /\ unlocked' = (unlocked \/ (attempt # None /\ InUse))
    /\ UNCHANGED <<install, backup, failure, helper>>

\* A download begins only if none is under way and no archive waits.
LEMMA BeginMatched ==
  ASSUME NEW a \in App, Matched(a), a.phase = "run", a.archive = NoUpdate, NEW u \in Update
  PROVE  /\ BeginDownload(a, u) \in App
         /\ Matched(BeginDownload(a, u))
         /\ BeginDownload(a, u).phase = "run"
<1>1. CASE a.installing
  BY <1>1 DEF BeginDownload
<1>2. CASE ~a.installing
  <2>1. BeginDownload(a, u) = [a EXCEPT !.installing = TRUE, !.download = u,
                                        !.target = u.version]
    BY <1>2 DEF BeginDownload
  <2>2. BeginDownload(a, u) \in App
    BY <2>1 DEF App, Update, Updates
  <2>3. /\ BeginDownload(a, u).download = u /\ BeginDownload(a, u).installing
        /\ BeginDownload(a, u).target = u.version
        /\ BeginDownload(a, u).archive = a.archive /\ BeginDownload(a, u).phase = a.phase
    BY <2>1 DEF App
  <2> QED BY <2>2, <2>3 DEF Matched
<1> QED BY <1>1, <1>2 DEF App

\* What is launched is what the target version says.
LEMMA LaunchMatched ==
  ASSUME NEW a \in App, a.phase = "run", a.archive = NoUpdate, a.download = NoUpdate,
         NEW u \in Update, a.target = u.version, Launch(a, u),
         app.phase = "run", faults \in 0 .. MaxFaults,
         UNCHANGED <<install, backup, failure, helper>>
  PROVE  Quiet \/ Takes
<1>1. CASE /\ app' = [a EXCEPT !.installing = FALSE, !.target = None]
           /\ UNCHANGED <<attempt, history>>
  <2>1. /\ app' \in App /\ app'.phase = "run"
        /\ app'.archive = NoUpdate /\ app'.download = NoUpdate
    BY <1>1 DEF App
  <2> QED BY <1>1, <2>1 DEF Quiet, Matched, disk, history
<1>2. CASE /\ Reads(attempt, None)
           /\ app' = [a EXCEPT !.installing = TRUE, !.phase = "launching", !.archive = u]
           /\ attempt' = a.target
           /\ attempted' = attempted \ {attempt}
           /\ unlocked' = (unlocked \/ (attempt # None /\ InUse))
  <2>1. /\ app' \in App /\ app'.phase = "launching" /\ app'.target = u.version
        /\ app'.archive = u /\ app'.download = NoUpdate /\ u.version \in Versions
    BY <1>2 DEF App, Updates, Update
  <2>2. u # NoUpdate
    BY VersionsAreNumbered, <2>1 DEF NoUpdate
  <2>3. faults' \in 0 .. MaxFaults
    BY <1>2, UpdaterAssumption DEF Reads, Fault
  <2>4. attempt' = app'.target /\ attempt' \in Versions /\ Matched(app)'
    BY <1>2, <2>1, <2>2 DEF Matched
  <2> QED BY <1>2, <2>1, <2>3, <2>4 DEF Takes
<1> QED BY <1>1, <1>2 DEF Launch

\* The idle snapshot, with or without the end of a session.
LEMMA InstallMatched ==
  ASSUME app \in App, Matched(app), app.phase = "run", faults \in 0 .. MaxFaults,
         NEW a \in {app, [app EXCEPT !.session = FALSE]}, ~a.session, InstallPending(a),
         UNCHANGED <<install, backup, failure, helper>>
  PROVE  Quiet \/ Takes
<1>1. /\ a \in App /\ a.phase = "run" /\ a.download = app.download /\ a.target = app.target
      /\ a.archive = app.archive /\ a.installing = app.installing /\ a.info = app.info
  BY DEF App
<1>2. CASE /\ a.installing \/ (a.archive = NoUpdate /\ a.info = NoUpdate)
           /\ app' = a /\ UNCHANGED <<attempt, history>>
  BY <1>1, <1>2 DEF Quiet, Matched, disk, history
<1>3. CASE /\ ~a.installing /\ a.archive # NoUpdate
           /\ app' = [a EXCEPT !.archive = NoUpdate, !.info = NoUpdate, !.target = None]
           /\ UNCHANGED <<attempt, history>>
  <2>1. /\ app' \in App /\ app'.phase = "run" /\ app'.archive = NoUpdate
        /\ app'.download = a.download
    BY <1>1, <1>3 DEF App, Updates
  <2> QED BY <1>1, <1>3, <2>1 DEF Quiet, Matched, disk, history
<1>4. CASE /\ ~a.installing /\ a.archive = NoUpdate /\ a.info # NoUpdate
           /\ app' = BeginDownload([a EXCEPT !.info = NoUpdate], a.info)
           /\ UNCHANGED <<attempt, history>>
  <2> DEFINE b == [a EXCEPT !.info = NoUpdate]
  <2>1. b \in App /\ b.phase = "run" /\ b.archive = NoUpdate /\ b.download = NoUpdate
    BY <1>1, <1>4 DEF App, Updates, Matched
  <2>2. Matched(b)
    BY <2>1 DEF Matched
  <2>3. a.info \in Update
    BY <1>1, <1>4 DEF App, Updates
  <2>4. app' \in App /\ Matched(app)' /\ app'.phase = "run"
    BY <1>4, <2>1, <2>2, <2>3, BeginMatched
  <2> QED BY <1>4, <2>4 DEF Quiet, disk, history
<1>5. CASE /\ ~a.installing /\ a.archive # NoUpdate
           /\ Launch([a EXCEPT !.archive = NoUpdate, !.info = NoUpdate], a.archive)
  <2> DEFINE b == [a EXCEPT !.archive = NoUpdate, !.info = NoUpdate]
  <2>1. /\ b \in App /\ b.phase = "run" /\ b.archive = NoUpdate
        /\ b.download = NoUpdate /\ b.target = a.archive.version
    BY <1>1, <1>5 DEF App, Updates, Matched
  <2>2. a.archive \in Update
    BY <1>1, <1>5 DEF App, Updates
  <2> QED BY <1>5, <2>1, <2>2, LaunchMatched
<1> QED BY <1>2, <1>3, <1>4, <1>5 DEF InstallPending

\* A new app, whoever starts it.
LEMMA NewAppMatched ==
  ASSUME NEW v \in Versions \cup {None}, app' = [Off EXCEPT !.version = v]
  PROVE  app' \in App /\ Matched(app)' /\ app'.phase = "run"
<1>1. app' \in App
  BY DEF Off, App, Updates, NoUpdate
<1>2. app'.archive = NoUpdate /\ app'.download = NoUpdate /\ app'.phase = "run"
  BY DEF Off
<1> QED BY <1>1, <1>2 DEF Matched

\* What the app does while it runs: it takes the marker, or touches no file.
Works ==
    \/ StartApp
    \/ StartSession \/ EndSession \/ IdleSnapshot
    \/ \E kind \in {"auto", "manual"}, found \in BOOLEAN : Check(kind, found)
    \/ DownloadEnds \/ DownloadFails

LEMMA WorksMatched ==
  ASSUME TypeOK, Matched(app), Works
  PROVE  (Quiet \/ Takes) /\ UNCHANGED latest
<1>t. /\ app \in App /\ latest \in Versions /\ install \in Versions \cup {None}
      /\ faults \in 0 .. MaxFaults
  BY DEF TypeOK
<1>1. CASE StartApp
  BY <1>1, <1>t, NewAppMatched DEF StartApp, Quiet, history
<1>2. CASE StartSession
  <2>1. /\ app' \in App /\ app'.phase = "run" /\ app'.session
        /\ app'.download = app.download /\ app'.archive = app.archive
        /\ app'.target = app.target /\ app'.installing = app.installing
    BY <1>2, <1>t DEF StartSession, Running, App
  <2> QED BY <1>2, <1>t, <2>1 DEF StartSession, Running, Quiet, Matched, history
<1>3. CASE EndSession
  <2>1. [app EXCEPT !.session = FALSE].session = FALSE
    BY <1>t DEF App
  <2>2. /\ app.phase = "run" /\ UNCHANGED <<install, backup, failure, helper>>
        /\ InstallPending([app EXCEPT !.session = FALSE])
    BY <1>3 DEF EndSession, Running, history
  <2> QED BY <1>3, <1>t, <2>1, <2>2, InstallMatched DEF EndSession
<1>4. CASE IdleSnapshot
  <2>1. /\ app.phase = "run" /\ UNCHANGED <<install, backup, failure, helper>>
        /\ InstallPending(app) /\ ~app.session
    BY <1>4 DEF IdleSnapshot, Running, history
  <2> QED BY <1>4, <1>t, <2>1, InstallMatched DEF IdleSnapshot
<1>5. ASSUME NEW kind \in {"auto", "manual"}, NEW found \in BOOLEAN, Check(kind, found)
      PROVE  (Quiet \/ Takes) /\ UNCHANGED latest
  <2> DEFINE a == [app EXCEPT !.checked = @ \/ kind = "auto"]
             u == [version |-> latest, auto |-> kind = "auto"]
  <2>1. /\ a \in App /\ a.phase = "run" /\ a.session = app.session
        /\ a.download = app.download /\ a.archive = app.archive
        /\ a.target = app.target /\ a.installing = app.installing
    BY <1>5, <1>t DEF Check, Running, App
  <2>2. Matched(a)
    BY <1>5, <2>1 DEF Check, Running, Matched
  <2>3. u \in Update
    BY <1>t DEF Update
  <2>4. \/ app' = a
        \/ app' = [a EXCEPT !.info = u]
        \/ ~a.session /\ app' = BeginDownload(a, u)
    BY <1>5 DEF Check
  <2>5. app' \in App /\ Matched(app)' /\ app'.phase = "run"
    <3>1. CASE app' = a
      BY <2>1, <2>2, <3>1
    <3>2. CASE app' = [a EXCEPT !.info = u]
      <4>1. /\ app' \in App /\ app'.phase = "run" /\ app'.session = a.session
            /\ app'.download = a.download /\ app'.archive = a.archive
            /\ app'.target = a.target /\ app'.installing = a.installing
        BY <2>1, <2>3, <3>2 DEF App, Updates
      <4> HIDE DEF a
      <4> QED BY <2>1, <2>2, <4>1 DEF Matched
    <3>3. CASE ~a.session /\ app' = BeginDownload(a, u)
      <4> HIDE DEF a, u
      <4>1. a.archive = NoUpdate
        BY <2>1, <2>2, <3>3 DEF Matched
      <4> QED BY <2>1, <2>2, <2>3, <3>3, <4>1, BeginMatched
    <3> QED BY <2>4, <3>1, <3>2, <3>3
  <2>6. attempted' \subseteq attempted /\ faults' \in 0 .. MaxFaults
    BY <1>5, <1>t, UpdaterAssumption DEF Check, Fault
  <2> QED BY <1>5, <2>5, <2>6 DEF Check, Quiet
<1>6. CASE DownloadEnds
  <2> DEFINE u == app.download
             a == [app EXCEPT !.download = NoUpdate]
  <2>1. /\ a \in App /\ a.phase = "run" /\ a.session = app.session
        /\ a.download = NoUpdate /\ a.archive = NoUpdate
        /\ a.target = u.version /\ u \in Update
    BY <1>6, <1>t DEF DownloadEnds, Running, App, Updates, Matched
  <2>2. CASE /\ a.session
             /\ app' = [a EXCEPT !.archive = u, !.info = u, !.installing = FALSE]
             /\ UNCHANGED <<attempt, history>>
    <3>1. /\ app' \in App /\ app'.phase = "run" /\ app'.session
          /\ app'.download = NoUpdate /\ app'.archive = u /\ ~app'.installing
          /\ app'.target = u.version
      BY <2>1, <2>2 DEF App, Updates
    <3> QED BY <1>6, <1>t, <2>2, <3>1 DEF DownloadEnds, Quiet, Matched, disk, history
  <2>3. CASE Launch(a, u)
    <3>1. /\ UNCHANGED <<install, backup, failure, helper>> /\ UNCHANGED latest
          /\ app.phase = "run"
      BY <1>6 DEF DownloadEnds, Running
    <3> HIDE DEF a, u
    <3> QED BY <1>t, <2>1, <2>3, <3>1, LaunchMatched
  <2> QED BY <1>6, <2>2, <2>3 DEF DownloadEnds
<1>7. CASE DownloadFails
  <2>1. /\ app' \in App /\ app'.phase = "run" /\ app'.download = NoUpdate
        /\ app'.archive = NoUpdate
    BY <1>7, <1>t DEF DownloadFails, Running, App, Updates, Matched
  <2> QED BY <1>7, <1>t, <2>1 DEF DownloadFails, Quiet, Matched, history
<1> QED BY <1>1, <1>2, <1>3, <1>4, <1>5, <1>6, <1>7 DEF Works

-----------------------------------------------------------------------------
(* What the steps of the app leave it to work on. *)

\* The updates an app works on, now or at the end of the session.
Held(a) == {a.info, a.download, a.archive} \ {NoUpdate}

LEMMA HeldBegin ==
  ASSUME NEW a \in App, NEW u
  PROVE  /\ Held(BeginDownload(a, u)) \subseteq Held(a) \cup {u}
         /\ BeginDownload(a, u).version = a.version
         /\ BeginDownload(a, u).phase = a.phase
<1>1. CASE a.installing
  BY <1>1 DEF BeginDownload
<1>2. CASE ~a.installing
  <2> DEFINE b == [a EXCEPT !.installing = TRUE, !.download = u, !.target = u.version]
  <2>1. /\ b.info = a.info /\ b.download = u /\ b.archive = a.archive
        /\ b.version = a.version /\ b.phase = a.phase
    BY DEF App
  <2>2. BeginDownload(a, u) = b
    BY <1>2 DEF BeginDownload
  <2> HIDE DEF b
  <2> QED BY <2>1, <2>2 DEF Held
<1> QED BY <1>1, <1>2

LEMMA HeldLaunch ==
  ASSUME NEW a \in App, NEW u, Launch(a, u)
  PROVE  Held(app') \subseteq Held(a) \cup {u} /\ app'.version = a.version
<1>1. CASE app' = [a EXCEPT !.installing = FALSE, !.target = None]
  <2>1. /\ app'.info = a.info /\ app'.download = a.download /\ app'.archive = a.archive
        /\ app'.version = a.version
    BY <1>1 DEF App
  <2> QED BY <2>1 DEF Held
<1>2. CASE app' = [a EXCEPT !.installing = TRUE, !.phase = "launching", !.archive = u]
  <2>1. /\ app'.info = a.info /\ app'.download = a.download /\ app'.archive = u
        /\ app'.version = a.version
    BY <1>2 DEF App
  <2> QED BY <2>1 DEF Held
<1> QED BY <1>1, <1>2 DEF Launch

LEMMA HeldInstall ==
  ASSUME NEW a \in App, InstallPending(a)
  PROVE  Held(app') \subseteq Held(a) /\ app'.version = a.version
<1>1. CASE app' = a
  BY <1>1
<1>2. CASE app' = [a EXCEPT !.archive = NoUpdate, !.info = NoUpdate, !.target = None]
  <2>1. /\ app'.info = NoUpdate /\ app'.download = a.download /\ app'.archive = NoUpdate
        /\ app'.version = a.version
    BY <1>2 DEF App
  <2> QED BY <2>1 DEF Held
<1>3. CASE /\ a.info # NoUpdate
           /\ app' = BeginDownload([a EXCEPT !.info = NoUpdate], a.info)
  <2> DEFINE b == [a EXCEPT !.info = NoUpdate]
  <2>1. /\ b \in App /\ b.info = NoUpdate /\ b.download = a.download
        /\ b.archive = a.archive /\ b.version = a.version
    BY DEF App, Updates
  <2> HIDE DEF b
  <2>2. Held(b) \subseteq Held(a) /\ a.info \in Held(a)
    BY <1>3, <2>1 DEF Held
  <2>3. Held(app') \subseteq Held(b) \cup {a.info} /\ app'.version = b.version
    BY <1>3, <2>1, HeldBegin DEF b
  <2> QED BY <2>1, <2>2, <2>3
<1>4. CASE /\ a.archive # NoUpdate
           /\ Launch([a EXCEPT !.archive = NoUpdate, !.info = NoUpdate], a.archive)
  <2> DEFINE b == [a EXCEPT !.archive = NoUpdate, !.info = NoUpdate]
  <2>1. /\ b \in App /\ b.info = NoUpdate /\ b.download = a.download
        /\ b.archive = NoUpdate /\ b.version = a.version
    BY DEF App, Updates
  <2>2. Launch(b, a.archive)
    BY <1>4
  <2> HIDE DEF b
  <2>3. Held(b) \subseteq Held(a) /\ a.archive \in Held(a)
    BY <1>4, <2>1 DEF Held
  <2>4. Held(app') \subseteq Held(b) \cup {a.archive} /\ app'.version = b.version
    BY <2>1, <2>2, HeldLaunch
  <2> QED BY <2>1, <2>3, <2>4
<1> QED BY <1>1, <1>2, <1>3, <1>4 DEF InstallPending

\* What an automatic or manual check may find.
Found(u) ==
    /\ u.version = latest /\ latest > app.version
    /\ u.auto => ~Blocked(latest) \/ latest \notin attempted'

\* A running app keeps its version, comes by an update only through a check, and
\* goes on running then.
LEMMA WorksHeld ==
  ASSUME TypeOK, Works
  PROVE  \/ /\ app.version = None
            /\ app' = [Off EXCEPT !.version = install] /\ install # None
         \/ /\ app.phase = "run" /\ app.version # None /\ app'.version = app.version
            /\ \A u \in Held(app') : u \in Held(app) \/ (Found(u) /\ app'.phase = "run")
<1>t. app \in App /\ Running => app.phase = "run" /\ app.version # None
  BY DEF TypeOK, Running
<1>a. app \in App
  BY DEF TypeOK
<1>1. CASE StartApp
  BY <1>1 DEF StartApp
<1>2. CASE StartSession
  <2>1. /\ Running /\ app'.info = app.info /\ app'.download = app.download
        /\ app'.archive = app.archive /\ app'.version = app.version
    BY <1>2, <1>a DEF StartSession, App
  <2> QED BY <1>t, <1>a, <2>1 DEF Held
<1>3. CASE EndSession \/ IdleSnapshot
  <2>1. ASSUME NEW a \in {app, [app EXCEPT !.session = FALSE]}, InstallPending(a), Running
        PROVE  /\ app.phase = "run" /\ app.version # None /\ app'.version = app.version
               /\ Held(app') \subseteq Held(app)
    <3>1. /\ a \in App /\ a.info = app.info /\ a.download = app.download
          /\ a.archive = app.archive /\ a.version = app.version
      BY <1>a DEF App
    <3>2. Held(a) = Held(app)
      BY <3>1 DEF Held
    <3> QED BY <1>t, <1>a, <2>1, <3>1, <3>2, HeldInstall
  <2>2. \E a \in {app, [app EXCEPT !.session = FALSE]} : InstallPending(a) /\ Running
    BY <1>3 DEF EndSession, IdleSnapshot
  <2> QED BY <2>1, <2>2
<1>4. ASSUME NEW kind \in {"auto", "manual"}, NEW found \in BOOLEAN, Check(kind, found)
      PROVE  /\ app.phase = "run" /\ app.version # None /\ app'.version = app.version
             /\ \A u \in Held(app') : u \in Held(app) \/ (Found(u) /\ app'.phase = "run")
  <2> DEFINE a == [app EXCEPT !.checked = @ \/ kind = "auto"]
             n == [version |-> latest, auto |-> kind = "auto"]
  <2>1. /\ a \in App /\ a.info = app.info /\ a.download = app.download
        /\ a.archive = app.archive /\ a.version = app.version /\ a.phase = app.phase
    BY <1>a DEF App
  <2>2. Held(a) = Held(app)
    BY <2>1 DEF Held
  <2>3. Running
    BY <1>4 DEF Check
  <2>4. CASE app' = a
    BY <1>t, <1>a, <2>1, <2>2, <2>3, <2>4
  <2>5. CASE /\ Found(n)
             /\ app' = [a EXCEPT !.info = n] \/ app' = BeginDownload(a, n)
    <3> HIDE DEF a, n
    <3>1. CASE app' = [a EXCEPT !.info = n]
      <4>1. /\ app'.info = n /\ app'.download = a.download /\ app'.archive = a.archive
            /\ app'.version = a.version /\ app'.phase = a.phase
        BY <2>1, <3>1 DEF App
      <4>2. Held(app') \subseteq Held(a) \cup {n}
        BY <4>1 DEF Held
      <4> QED BY <1>t, <1>a, <2>1, <2>2, <2>3, <2>5, <4>1, <4>2
    <3>2. CASE app' = BeginDownload(a, n)
      <4>1. /\ Held(app') \subseteq Held(a) \cup {n} /\ app'.version = a.version
            /\ app'.phase = a.phase
        BY <2>1, <3>2, HeldBegin
      <4> QED BY <1>t, <1>a, <2>1, <2>2, <2>3, <2>5, <4>1
    <3> QED BY <2>5, <3>1, <3>2
  <2>6. n.version = latest /\ n.auto = (kind = "auto")
    OBVIOUS
  <2>7. app' = a \/ (Found(n) /\ (app' = [a EXCEPT !.info = n] \/ app' = BeginDownload(a, n)))
    BY <1>4, <2>6 DEF Check, Found, Fault
  <2> QED BY <2>4, <2>5, <2>7
<1>5. CASE DownloadEnds
  <2> DEFINE a == [app EXCEPT !.download = NoUpdate]
             n == app.download
  <2>1. /\ a \in App /\ a.info = app.info /\ a.download = NoUpdate
        /\ a.archive = app.archive /\ a.version = app.version
    BY <1>a DEF App, Updates
  <2>2. Held(a) \subseteq Held(app) /\ n \in Held(app) /\ Running
    BY <1>5, <2>1 DEF Held, DownloadEnds
  <2>3. CASE app' = [a EXCEPT !.archive = n, !.info = n, !.installing = FALSE]
    <3>1. /\ app'.info = n /\ app'.download = NoUpdate /\ app'.archive = n
          /\ app'.version = a.version
      BY <2>1, <2>3 DEF App
    <3>2. Held(app') \subseteq {n}
      BY <3>1 DEF Held
    <3> QED BY <1>t, <1>a, <2>1, <2>2, <3>1, <3>2
  <2>4. CASE Launch(a, n)
    <3> HIDE DEF a, n
    <3>1. Held(app') \subseteq Held(a) \cup {n} /\ app'.version = a.version
      BY <2>1, <2>4, HeldLaunch
    <3> QED BY <1>t, <1>a, <2>1, <2>2, <3>1
  <2> QED BY <1>5, <2>3, <2>4 DEF DownloadEnds
<1>6. CASE DownloadFails
  <2>1. /\ Running /\ app'.info = app.info /\ app'.download = NoUpdate
        /\ app'.archive = app.archive /\ app'.version = app.version
    BY <1>6, <1>a DEF DownloadFails, App
  <2>2. Held(app') \subseteq Held(app)
    BY <2>1 DEF Held
  <2> QED BY <1>t, <1>a, <2>1, <2>2
<1> QED BY <1>1, <1>2, <1>3, <1>4, <1>5, <1>6 DEF Works

-----------------------------------------------------------------------------
(* The inductive invariant, one lemma for each actor *)

\* The parts of the invariant about the helpers look at nothing but these fields.
LEMMA HelpersSame ==
  ASSUME IInv, UNCHANGED <<install, backup>>,
         \A h \in Helpers : /\ helper'[h].step = helper[h].step
                            /\ helper'[h].version = helper[h].version
                            /\ helper'[h].archive = helper[h].archive
                            /\ helper'[h].holds = helper[h].holds
  PROVE  /\ HoldsKnown' /\ BackupKept' /\ SomeVersionSurvives' /\ HelpersLabelled'
         /\ \A h \in Helpers : Active(h)' = Active(h) /\ AtWork(h)' = AtWork(h)
<1>1. \A h \in Helpers : Active(h)' = Active(h) /\ AtWork(h)' = AtWork(h)
  BY DEF Active, AtWork
<1>2. HoldsKnown' BY <1>1 DEF IInv, HoldsKnown
<1>3. BackupKept' BY DEF IInv, BackupKept
<1>4. SomeVersionSurvives' BY DEF IInv, SomeVersionSurvives
<1>5. HelpersLabelled' BY <1>1 DEF IInv, HelpersLabelled
<1> QED BY <1>1, <1>2, <1>3, <1>4, <1>5

\* The app at work leaves the files a helper moves alone.
LEMMA WorksIInv == ASSUME IInv, Works PROVE IInv'
<1>1. (Quiet \/ Takes) /\ UNCHANGED latest
  BY WorksMatched DEF IInv
<1>2. UNCHANGED <<install, backup, helper>>
  BY <1>1 DEF Quiet, Takes, disk
<1>3. HoldsKnown' /\ BackupKept' /\ SomeVersionSurvives' /\ HelpersLabelled'
  BY <1>2, HelpersSame
<1>4. TypeOK'
  BY <1>1 DEF IInv, TypeOK, Quiet, Takes, disk
<1>5. /\ app' = [Off EXCEPT !.version = install] \/ app'.version = app.version
      /\ app'.version # None
  <2>1. [Off EXCEPT !.version = install].version = install
    BY DEF Off
  <2> QED BY <2>1, WorksHeld DEF IInv
<1>6. AppCurrent' /\ ChildRuns'
  <2>1. [Off EXCEPT !.version = install].version = install
    BY DEF Off
  <2> QED BY <1>2, <1>5, <2>1 DEF IInv, AppCurrent, ChildRuns
<1> QED BY <1>1, <1>3, <1>4, <1>6 DEF IInv, Quiet, Takes

\* An app that ends was launching an update that has a version, and no child runs.
LEMMA AppEndsIInv == ASSUME IInv, AppEnds PROVE IInv'
<1>1. /\ helper' \in [Helpers -> Helper]
      /\ \A h \in Helpers : /\ helper'[h].step = helper[h].step
                            /\ helper'[h].version = helper[h].version
                            /\ helper'[h].archive = helper[h].archive
                            /\ helper'[h].holds = helper[h].holds
                            /\ ~helper'[h].child
  BY ZenonT(30) DEF IInv, TypeOK, AppEnds, Helper
<1>a. /\ app' = Off /\ UNCHANGED <<latest, disk, faults, unlocked>>
      /\ attempted' = IF app.phase = "launching" THEN attempted \cup {app.target} ELSE attempted
  BY Zenon DEF AppEnds
<1>2. UNCHANGED <<latest, install, backup, attempt, failure, faults, unlocked>> /\ app' = Off
  BY <1>a DEF disk
<1>3. HoldsKnown' /\ BackupKept' /\ SomeVersionSurvives' /\ HelpersLabelled'
  BY <1>1, <1>2, HelpersSame
<1>4. app' \in App /\ Matched(app)'
  <2>1. app' \in App
    BY <1>2 DEF Off, App, Updates, NoUpdate
  <2> QED BY <1>2, <2>1 DEF Off, Matched
<1>5. attempted' \subseteq Versions
  <2>1. app.phase = "launching" => app.target \in Versions
    BY DEF IInv, TypeOK, Matched, App, Updates, Update
  <2> QED BY <1>a, <2>1 DEF IInv, TypeOK
<1>6. TypeOK'
  BY <1>1, <1>2, <1>4, <1>5 DEF IInv, TypeOK
<1>7. AppCurrent' /\ ChildRuns'
  BY <1>1, <1>2 DEF AppCurrent, ChildRuns, Off
<1> QED BY <1>3, <1>4, <1>6, <1>7 DEF IInv

LEMMA LaunchingRuns == ASSUME AppCurrent, app.phase = "launching" PROVE app.version # None
  BY DEF AppCurrent, Off

\* A helper that cannot be started.
LEMMA PrepareFailsIInv == ASSUME IInv, PrepareFails PROVE IInv'
<1>1. /\ app' \in App /\ app'.phase = "run" /\ app'.archive = NoUpdate
      /\ app'.download = app.download /\ app'.version = app.version
  BY DEF IInv, TypeOK, PrepareFails, App, Updates
<1>2. app'.download = NoUpdate /\ app.version # None
  BY <1>1, LaunchingRuns DEF IInv, Matched, PrepareFails
<1>3. HoldsKnown' /\ BackupKept' /\ SomeVersionSurvives' /\ HelpersLabelled'
  BY HelpersSame DEF PrepareFails
<1>4. faults' \in 0 .. MaxFaults
  BY UpdaterAssumption DEF IInv, TypeOK, PrepareFails, Fault
<1>5. TypeOK'
  BY <1>1, <1>4 DEF IInv, TypeOK, PrepareFails
<1>6. AppCurrent' /\ ChildRuns'
  BY <1>1, <1>2 DEF IInv, AppCurrent, ChildRuns, PrepareFails
<1> QED BY <1>1, <1>2, <1>3, <1>5, <1>6 DEF IInv, Matched

\* The helper that starts works for the archive it is given, under its marker.
LEMMA StartHelperIInv ==
  ASSUME IInv, NEW h \in Helpers, StartHelper(h)
  PROVE  IInv'
<1>1. /\ app.archive \in Update /\ app.target = app.archive.version
      /\ app.target \in Versions /\ helper[h].step = "none"
  BY DEF IInv, TypeOK, StartHelper, Matched, App, Updates, Update
<1>2. /\ helper' \in [Helpers -> Helper]
      /\ \A g \in Helpers \ {h} : helper'[g] = helper[g]
      /\ helper'[h].step = "waiting" /\ helper'[h].holds /\ ~helper'[h].child
      /\ helper'[h].version = app.target /\ helper'[h].archive = app.target
  BY <1>1 DEF IInv, TypeOK, StartHelper, Helper, Steps
<1>3. app.version # None /\ app.version \in Versions
  BY LaunchingRuns DEF IInv, TypeOK, App, StartHelper
<1>4. /\ app' \in App /\ app'.phase = "quitting" /\ app'.archive = NoUpdate
      /\ app'.download = NoUpdate /\ app'.version = app.version
  BY <1>3 DEF StartHelper, App, Off, Updates, NoUpdate
<1>5. TypeOK'
  BY <1>1, <1>2, <1>4 DEF IInv, TypeOK, StartHelper, disk
<1>6. HoldsKnown' /\ ChildRuns'
  BY <1>2, <1>3, <1>4 DEF IInv, HoldsKnown, ChildRuns, Active, Holding, Free
<1>7. BackupKept' /\ SomeVersionSurvives'
  BY <1>2 DEF IInv, BackupKept, SomeVersionSurvives, StartHelper, disk
<1>8. Matched(app)' /\ AppCurrent'
  BY <1>3, <1>4 DEF IInv, Matched, AppCurrent, StartHelper, disk
<1>9. HelpersLabelled'
  BY <1>1, <1>2, VersionsAreNumbered DEF IInv, HelpersLabelled, AtWork
<1> QED BY <1>5, <1>6, <1>7, <1>8, <1>9 DEF IInv

\* A version a helper works for is a version.
LEMMA HelperVersion ==
  ASSUME TypeOK, HelpersLabelled, NEW h \in Helpers, AtWork(h)
  PROVE  helper[h].version \in Versions /\ helper[h].archive \in Versions
  BY DEF TypeOK, HelpersLabelled, Helper

\* A helper moves the installation only while no app runs, and starts only the
\* installed version.
LEMMA HelperApp ==
  ASSUME IInv, NEW h \in Helpers, HelperStep(h) \/ HelperDies(h)
  PROVE  \/ UNCHANGED <<app, install>>
         \/ app = Off /\ UNCHANGED app
         \/ /\ UNCHANGED install /\ install # None
            /\ app' = [Off EXCEPT !.version = install] /\ app.version = None
<1>1. app.version = None => app = Off
  BY DEF IInv, AppCurrent
<1>2. install = None => app = Off
  BY <1>1 DEF IInv, AppCurrent
<1>3. CASE Remove(h) \/ Replace(h) \/ Undo(h) \/ Restore(h)
  BY <1>1, <1>2, <1>3 DEF Remove, Replace, Undo, Restore
<1>4. CASE Start(h) \/ Relaunch(h)
  BY <1>4 DEF Start, Relaunch, disk
<1>5. CASE \/ Wait(h) \/ Extract(h) \/ Watch(h) \/ ClearAttempt(h) \/ ClearFailure(h)
           \/ Record(h) \/ Unmark(h) \/ HelperDies(h)
  BY <1>5 DEF Wait, Extract, Watch, ClearAttempt, ClearFailure, Record, Unmark, HelperDies, disk
<1> QED BY <1>3, <1>4, <1>5 DEF HelperStep

\* The files a helper moves stay accounted for: what is taken away is a backup, and
\* the backup goes only while an app runs from the new version.
LEMMA HelperBackup ==
  ASSUME IInv, NEW h \in Helpers, HelperStep(h) \/ HelperDies(h)
  PROVE  BackupKept' /\ SomeVersionSurvives'
<1> DEFINE Leans(g) == helper[g].step \in {"replacing", "starting", "watching", "undoing",
                                           "restoring"}
           Rests(g) == Leans(g) => backup[g] # None
<1>t. /\ backup \in [Helpers -> Versions \cup {None}]
      /\ helper \in [Helpers -> Helper]
  BY DEF IInv, TypeOK
<1>m. \A from, to \in Steps :
        Moves(h, from, to) => helper[h].step = from /\ helper'[h].step = to
  BY MoveMoves DEF IInv
<1>e. /\ \A to \in {"done", "dead"} :
            helper' = [helper EXCEPT ![h] = [NoHelper EXCEPT !.step = to]]
            => helper'[h].step = to
      /\ \A from, to \in Steps : Releases(h, from, to) => helper'[h].step = to
  BY EndEnds, ReleaseReleases DEF IInv
<1>r. Rests(h) /\ SomeVersionSurvives
  BY DEF IInv, BackupKept
<1>1. ASSUME NEW g \in Helpers \ {h} PROVE Rests(g)'
  <2>1. helper'[g] = helper[g]
    BY HelperMoves DEF IInv, Goes
  <2>2. backup'[g] = backup[g]
    BY <1>t DEF HelperStep, HelperDies, Wait, Extract, Remove, Replace, Start, Watch,
       ClearAttempt, ClearFailure, Undo, Restore, Record, Unmark, Relaunch, disk
  <2> QED BY <2>1, <2>2 DEF IInv, BackupKept
<1>2. CASE Remove(h)
  <2>1. ASSUME Moves(h, "removing", "replacing"), install # None,
               backup' = [backup EXCEPT ![h] = install]
        PROVE  Rests(h)' /\ SomeVersionSurvives'
    <3>1. backup'[h] # None
      BY <1>t, <2>1
    <3> QED BY <3>1 DEF SomeVersionSurvives
  <2>2. ASSUME Moves(h, "removing", "recording"), UNCHANGED <<install, backup>>
        PROVE  Rests(h)' /\ SomeVersionSurvives'
    <3>1. helper'[h].step = "recording"
      BY <1>m, <2>2 DEF Steps
    <3> QED BY <1>r, <2>2, <3>1 DEF SomeVersionSurvives
  <2>3. Rests(h)' /\ SomeVersionSurvives'
    BY <1>2, <2>1, <2>2 DEF Remove
  <2> QED BY <1>1, <2>3 DEF BackupKept
<1>3. CASE Replace(h) \/ Undo(h)
  <2>1. backup[h] # None /\ backup' = backup
    BY <1>3, <1>m, <1>r DEF Replace, Undo, Steps
  <2>2. Rests(h)' /\ SomeVersionSurvives'
    BY <2>1 DEF SomeVersionSurvives
  <2> QED BY <1>1, <2>2 DEF BackupKept
<1>4. CASE Start(h)
  <2>1. helper[h].step = "starting"
    BY <1>4 DEF Start, Moves
  <2>2. backup[h] # None /\ UNCHANGED <<install, backup>>
    BY <1>4, <1>r, <2>1 DEF Start, disk
  <2>3. Rests(h)' /\ SomeVersionSurvives'
    BY <1>r, <2>2 DEF SomeVersionSurvives
  <2> QED BY <1>1, <2>3 DEF BackupKept
<1>5. CASE Watch(h)
  <2>1. helper[h].child => install # None
    BY DEF IInv, ChildRuns, AppCurrent
  <2>2. \/ helper'[h].step = "clearing" /\ install # None
        \/ helper[h].step = "watching" /\ backup' = backup
    BY <1>m, <1>5, <2>1 DEF Watch, Steps
  <2>3. Rests(h)' /\ SomeVersionSurvives'
    BY <1>r, <1>5, <2>2 DEF SomeVersionSurvives, Watch
  <2> QED BY <1>1, <2>3 DEF BackupKept
<1>6. CASE Restore(h)
  <2>1. helper'[h].step = "recording"
    BY <1>m, <1>6 DEF Restore, Steps
  <2>2. install' # None \/ UNCHANGED <<install, backup>>
    BY <1>6 DEF Restore
  <2>3. Rests(h)' /\ SomeVersionSurvives'
    BY <1>r, <2>1, <2>2 DEF SomeVersionSurvives
  <2> QED BY <1>1, <2>3 DEF BackupKept
<1>7. CASE \/ Wait(h) \/ Extract(h) \/ ClearAttempt(h) \/ ClearFailure(h) \/ Record(h)
           \/ Unmark(h) \/ Relaunch(h) \/ HelperDies(h)
  <2>1. UNCHANGED <<install, backup>>
    BY <1>7 DEF Wait, Extract, ClearAttempt, ClearFailure, Record, Unmark, Relaunch,
       HelperDies, disk
  <2>2. helper'[h].step \in {"extracting", "recording", "removing", "cleared", "done",
                             "unmarking", "relaunching", "dead"}
    <3>1. CASE Wait(h)
      BY <1>t, <1>m, <3>1 DEF Wait, Steps, Helper
    <3>2. CASE Extract(h) \/ Record(h)
      BY <1>m, <3>2 DEF Extract, Record, Steps
    <3>3. CASE ClearAttempt(h) \/ ClearFailure(h) \/ Unmark(h)
      BY <1>m, <1>e, <3>3 DEF ClearAttempt, ClearFailure, Unmark, Ends, Steps
    <3>4. CASE Relaunch(h) \/ HelperDies(h)
      BY <1>e, <3>4 DEF Relaunch, HelperDies, Ends
    <3> QED BY <1>7, <3>1, <3>2, <3>3, <3>4
  <2>3. Rests(h)' /\ SomeVersionSurvives'
    BY <1>r, <2>1, <2>2 DEF SomeVersionSurvives
  <2> QED BY <1>1, <2>3 DEF BackupKept
<1> QED BY <1>2, <1>3, <1>4, <1>5, <1>6, <1>7 DEF HelperStep

\* A helper that has a child has started it, or had it before.
LEMMA HelperChild ==
  ASSUME IInv, NEW h \in Helpers, HelperStep(h) \/ HelperDies(h)
  PROVE  ChildRuns'
<1>t. helper \in [Helpers -> Helper]
  BY DEF IInv, TypeOK
<1>m. \A from, to \in Steps : Moves(h, from, to) => helper'[h].child = helper[h].child
  BY MoveMoves DEF IInv
<1>e. /\ \A to \in {"done", "dead"} :
            helper' = [helper EXCEPT ![h] = [NoHelper EXCEPT !.step = to]]
            => ~helper'[h].child
      /\ \A from, to \in Steps : Releases(h, from, to) => helper'[h].child = helper[h].child
  BY EndEnds, ReleaseReleases DEF IInv
<1>1. app.version # None => app'.version # None
  BY HelperApp DEF IInv, AppCurrent
<1>2. ASSUME NEW g \in Helpers, helper'[g].child, ~helper[g].child
      PROVE  app'.version # None
  <2>1. g = h
    BY <1>2, HelperMoves DEF IInv, Goes
  <2>2. CASE Start(h)
    <3>1. [Off EXCEPT !.version = install].version = install
      BY DEF Off
    <3> QED BY <1>2, <1>m, <2>1, <2>2, <3>1 DEF Start, Steps
  <2>3. CASE Wait(h)
    BY <1>2, <1>m, <1>t, <2>1, <2>3 DEF Wait, Steps, Helper
  <2>4. CASE \/ Extract(h) \/ Remove(h) \/ Replace(h) \/ Watch(h) \/ Undo(h) \/ Restore(h)
             \/ Record(h)
    BY <1>2, <1>m, <2>1, <2>4 DEF Extract, Remove, Replace, Watch, Undo, Restore, Record, Steps
  <2>5. CASE ClearAttempt(h) \/ ClearFailure(h) \/ Unmark(h)
    BY <1>2, <1>m, <1>e, <2>1, <2>5 DEF ClearAttempt, ClearFailure, Unmark, Ends, Steps
  <2>6. CASE Relaunch(h) \/ HelperDies(h)
    BY <1>2, <1>e, <2>1, <2>6 DEF Relaunch, HelperDies, Ends
  <2> QED BY <2>2, <2>3, <2>4, <2>5, <2>6 DEF HelperStep
<1> QED BY <1>1, <1>2 DEF IInv, ChildRuns

\* A helper that works, ends or dies.
LEMMA HelperIInv ==
  ASSUME IInv, NEW h \in Helpers, HelperStep(h) \/ HelperDies(h)
  PROVE  IInv'
<1>1. Goes(h)
  BY HelperMoves DEF IInv
<1>2. /\ helper' \in [Helpers -> Helper] /\ HoldsKnown' /\ HelpersLabelled'
  BY <1>1 DEF IInv, Goes, HoldsKnown, HelpersLabelled, Active, AtWork
<1>3. /\ app' \in App /\ Matched(app)' /\ AppCurrent'
  <2>1. /\ [Off EXCEPT !.version = install].version = install
        /\ Off.version = None
    BY DEF Off
  <2>2. app' = [Off EXCEPT !.version = install] => app' \in App /\ Matched(app)'
    BY NewAppMatched DEF IInv, TypeOK
  <2>3. UNCHANGED app => app' \in App /\ Matched(app)'
    BY DEF IInv, TypeOK, Matched
  <2> QED BY <2>1, <2>2, <2>3, HelperApp DEF IInv, AppCurrent
<1>4. BackupKept' /\ SomeVersionSurvives'
  BY HelperBackup
<1>5. TypeOK'
  <2> USE DEF IInv, TypeOK
  <2>1. latest' \in Versions /\ attempted' \subseteq Versions /\ unlocked' \in BOOLEAN
    BY DEF HelperStep, HelperDies, Wait, Extract, Remove, Replace, Start, Watch,
       ClearAttempt, ClearFailure, Undo, Restore, Record, Unmark, Relaunch, history
  <2>2. install' \in Versions \cup {None} /\ backup' \in [Helpers -> Versions \cup {None}]
    BY DEF HelperStep, HelperDies, Wait, Extract, Remove, Replace, Start, Watch, Helper,
       ClearAttempt, ClearFailure, Undo, Restore, Record, Unmark, Relaunch, disk
  <2>3. failure' \in Versions \cup {None} /\ attempt' \in Versions \cup {None}
    <3>1. helper[h].version \in Versions \cup {None}
      BY DEF Helper
    <3> QED BY <3>1 DEF HelperStep, HelperDies, Wait, Extract, Marks, Remove, Replace, Start,
            Watch, ClearAttempt, ClearFailure, Undo, Restore, Record, Unmark, Relaunch, disk
  <2>4. faults' \in 0 .. MaxFaults
    BY UpdaterAssumption DEF HelperStep, HelperDies, Wait, Extract, Remove, Replace, Start,
       Watch, ClearAttempt, ClearFailure, Undo, Restore, Record, Unmark, Relaunch, history,
       Fault
  <2> QED BY <1>2, <1>3, <2>1, <2>2, <2>3, <2>4
<1> QED BY <1>2, <1>3, <1>4, <1>5, HelperChild DEF IInv

\* Every step preserves the invariant.
LEMMA NextIInv == IInv /\ [Next]_vars => IInv'
<1> SUFFICES ASSUME IInv, [Next]_vars PROVE IInv'
  OBVIOUS
<1>0. ASSUME UNCHANGED <<install, backup, attempt, failure, app, helper, attempted, faults,
                         unlocked>>,
             latest' \in Versions
      PROVE  IInv'
  <2>1. TypeOK'
    BY <1>0 DEF IInv, TypeOK
  <2>2. HoldsKnown' /\ BackupKept' /\ SomeVersionSurvives' /\ HelpersLabelled'
    BY <1>0, HelpersSame
  <2>3. AppCurrent' /\ ChildRuns' /\ Matched(app)'
    BY <1>0 DEF IInv, AppCurrent, ChildRuns, Matched
  <2> QED BY <2>1, <2>2, <2>3 DEF IInv
<1>1. CASE UNCHANGED vars
  BY <1>0, <1>1 DEF vars, disk, history, IInv, TypeOK
<1>2. CASE Publish
  <2>1. latest' \in Versions
    BY <1>2, UpdaterAssumption DEF IInv, TypeOK, Publish, Versions
  <2> QED BY <1>0, <1>2, <2>1 DEF Publish, disk, history
<1>3. CASE AppEnds
  BY <1>3, AppEndsIInv
<1>4. CASE Works
  BY <1>4, WorksIInv
<1>5. CASE PrepareFails
  BY <1>5, PrepareFailsIInv
<1>6. ASSUME NEW h \in Helpers, StartHelper(h) PROVE IInv'
  BY <1>6, StartHelperIInv
<1>7. ASSUME NEW h \in Helpers, HelperStep(h) \/ HelperDies(h) PROVE IInv'
  BY <1>7, HelperIInv
<1> QED BY <1>1, <1>2, <1>3, <1>4, <1>5, <1>6, <1>7 DEF Next, Application, Works

LEMMA Invariance == Spec => []IInv
  BY InitIInv, NextIInv, PTL DEF Spec

-----------------------------------------------------------------------------
(* What the lock gives.  Only the newest release can be found again, so that *)
(* it is enough to know what blocks that one, and that no app holds an       *)
(* update older than an attempt.                                             *)

\* The marker is there from begin_update_attempt until the helper's end.
MarkerHeld ==
    /\ app.phase = "launching" => attempt # None /\ \A h \in Helpers : ~Active(h)
    /\ \A h \in Helpers : Active(h) => attempt # None

\* HelperAlone in terms of Active.
OneActive == \A h, g \in Helpers : Active(h) /\ Active(g) => h = g

\* What an app may do with an update.
Fresh(u) ==
    /\ install < u.version /\ u.version <= latest
    /\ \A v \in attempted : v <= u.version
    /\ u.auto => u.version \notin attempted

HeldFresh == \A u \in Held(app) : Fresh(u)

\* The marker names the version it is held for, which is the newest attempted.
MarkerNames ==
    /\ app.phase = "launching" => attempt = app.archive.version
    /\ \A h \in Helpers : Active(h) =>
          /\ attempt = helper[h].version /\ helper[h].version <= latest
          /\ \A v \in attempted : v <= helper[h].version

\* What is installed at each step of a helper that has its marker.
Stage(h) == Active(h) =>
    /\ helper[h].step \in {"waiting", "extracting", "removing"} => install < helper[h].version
    /\ helper[h].step = "replacing" => install = None
    /\ helper[h].step \in {"starting", "watching", "clearing"} => install = helper[h].version
    /\ helper[h].step \in {"undoing", "restoring"} => install \in {None, helper[h].version}
    /\ helper[h].step = "unmarking" =>
          failure = helper[h].version \/ helper[h].version \notin attempted

\* An attempt at the newest release is on record, or it is what is installed.
LatestSettled ==
    latest \in attempted =>
        \/ failure = latest
        \/ install = latest
        \/ attempt = latest /\ app.phase # "launching"

AttemptsKnown == \A v \in attempted : v <= latest

LInv ==
    /\ MarkerHeld /\ OneActive
    /\ AttemptsKnown /\ HeldFresh /\ MarkerNames
    /\ \A h \in Helpers : Stage(h)
    /\ LatestSettled

LEMMA InitLInv == Init => LInv
<1> SUFFICES ASSUME Init PROVE LInv
  OBVIOUS
<1> USE DEF Init
<1>1. MarkerHeld /\ OneActive /\ AttemptsKnown /\ LatestSettled
  BY DEF MarkerHeld, OneActive, AttemptsKnown, LatestSettled, Active, NoHelper, Off
<1>2. HeldFresh /\ MarkerNames
  BY DEF HeldFresh, Held, MarkerNames, Active, NoHelper, Off
<1>3. \A h \in Helpers : Stage(h)
  BY DEF Stage, Active, NoHelper
<1> QED BY <1>1, <1>2, <1>3 DEF LInv

\* Versions are numbers.
LEMMA Numbers ==
  ASSUME TypeOK
  PROVE  /\ latest \in Nat /\ install \in Nat /\ attempt \in Nat /\ failure \in Nat
         /\ attempted \subseteq Nat /\ None = 0
         /\ \A h \in Helpers : helper[h].version \in Nat
BY UpdaterAssumption DEF TypeOK, Versions, None, Helper

LEMMA HeldOff == Held(Off) = {} /\ \A v : Held([Off EXCEPT !.version = v]) = {}
BY DEF Held, Off

\* A marker that is not in use is needed by no helper and no app.
LEMMA NotInUse ==
  ASSUME HoldsKnown, ~InUse
  PROVE  app.phase # "launching" /\ \A h \in Helpers : ~Active(h)
BY DEF InUse, HoldsKnown, AtWork, Active, Free

LEMMA PublishLInv == ASSUME IInv, LInv, Publish PROVE LInv'
<1>n. latest \in Nat /\ attempted \subseteq Nat /\ install \in Nat
  BY Numbers DEF IInv
<1>1. /\ latest' = latest + 1
      /\ UNCHANGED <<install, backup, attempt, failure, app, helper, attempted>>
  BY DEF Publish, disk, history
<1>2. MarkerHeld' /\ OneActive' /\ \A h \in Helpers : Stage(h)'
  BY <1>1 DEF LInv, MarkerHeld, OneActive, Stage, Active
<1>3. latest' \notin attempted /\ AttemptsKnown'
  BY <1>n, <1>1 DEF LInv, AttemptsKnown
<1>4. LatestSettled'
  BY <1>1, <1>3 DEF LatestSettled
<1>5. HeldFresh'
  <2>1. ASSUME NEW u \in Held(app)
        PROVE  Fresh(u)'
    <3>1. Fresh(u) /\ u.version \in Nat
      BY <2>1 DEF LInv, HeldFresh, Held, IInv, TypeOK, App, Updates, Update, Versions, NoUpdate
    <3>2. u.version <= latest'
      BY <1>n, <1>1, <3>1 DEF Fresh
    <3> QED BY <1>1, <3>1, <3>2 DEF Fresh
  <2> QED BY <1>1, <2>1 DEF HeldFresh
<1>6. MarkerNames'
  <2>1. ASSUME NEW h \in Helpers, Active(h)
        PROVE  helper[h].version <= latest'
    BY <1>n, <1>1, <2>1, Numbers DEF IInv, LInv, MarkerNames
  <2> QED BY <1>1, <2>1 DEF LInv, MarkerNames, Active
<1> QED BY <1>2, <1>3, <1>4, <1>5, <1>6 DEF LInv

\* An app that ends while it launches leaves its attempt on record.
LEMMA AppEndsLInv == ASSUME IInv, LInv, AppEnds PROVE LInv'
<1>a. /\ app' = Off /\ UNCHANGED <<latest, disk, faults, unlocked>>
      /\ attempted' = IF app.phase = "launching" THEN attempted \cup {app.target} ELSE attempted
  BY Zenon DEF AppEnds
<1>1. app' = Off /\ UNCHANGED <<latest, install, backup, attempt, failure>>
  BY <1>a DEF disk
<1>2. \A h \in Helpers : /\ helper'[h].step = helper[h].step
                         /\ helper'[h].version = helper[h].version
                         /\ helper'[h].holds = helper[h].holds
  BY ZenonT(30) DEF IInv, TypeOK, AppEnds, Helper
<1>3. \A h \in Helpers : Active(h)' = Active(h)
  BY <1>2 DEF Active
<1>4. \/ app.phase # "launching" /\ attempted' = attempted
      \/ /\ app.phase = "launching" /\ attempted' = attempted \cup {attempt}
         /\ attempt <= latest /\ \A h \in Helpers : ~Active(h)
  <2>1. CASE app.phase # "launching"
    BY <1>a, <2>1
  <2>2. CASE app.phase = "launching"
    <3>1. app.archive \in Held(app) /\ attempt = app.archive.version /\ attempt = app.target
      BY <2>2 DEF IInv, Matched, Held, LInv, MarkerNames
    <3>2. attempt <= latest
      BY <2>2, <3>1 DEF LInv, HeldFresh, Fresh
    <3> QED BY <1>a, <2>2, <3>1, <3>2 DEF LInv, MarkerHeld
  <2> QED BY <2>1, <2>2
<1>5. HeldFresh' /\ MarkerHeld' /\ OneActive'
  BY <1>1, <1>3, HeldOff DEF HeldFresh, LInv, MarkerHeld, OneActive, Off
<1>6. AttemptsKnown'
  BY <1>1, <1>4 DEF LInv, AttemptsKnown
<1>7. MarkerNames' /\ \A h \in Helpers : Stage(h)'
  BY <1>1, <1>2, <1>3, <1>4 DEF LInv, MarkerNames, Stage, Off
<1>8. LatestSettled'
  BY <1>1, <1>4 DEF LInv, LatestSettled, Off
<1> QED BY <1>5, <1>6, <1>7, <1>8 DEF LInv

\* A check finds no version that was attempted, unless its record is gone.
LEMMA FoundFresh ==
  ASSUME IInv, LInv, app.version # None, app.phase = "run", attempted' \subseteq attempted,
         UNCHANGED <<install, latest>>, NEW u, Found(u)
  PROVE  Fresh(u)'
<1>n. latest \in Nat /\ install \in Nat
  BY Numbers DEF IInv
<1>1. app.version = install /\ u.version = latest /\ install < latest
  BY <1>n DEF IInv, AppCurrent, Found
<1>2. u.auto => latest \notin attempted'
  BY <1>n, <1>1 DEF LInv, LatestSettled, Found, Blocked
<1> QED BY <1>n, <1>1, <1>2 DEF Fresh, LInv, AttemptsKnown

\* The app at work takes the marker only while no helper holds it.
LEMMA WorksLInv == ASSUME IInv, LInv, Works, ~unlocked' PROVE LInv'
<1>1. (Quiet \/ Takes) /\ UNCHANGED latest
  BY WorksMatched DEF IInv
<1>2. /\ UNCHANGED <<latest, install, backup, failure, helper>> /\ attempted' \subseteq attempted
      /\ \A h \in Helpers : Active(h)' = Active(h)
  BY <1>1 DEF Quiet, Takes, disk, Active
<1>3. \/ /\ app.version = None
         /\ app' = [Off EXCEPT !.version = install] /\ install # None
      \/ /\ app.phase = "run" /\ app.version # None /\ app'.version = app.version
         /\ \A u \in Held(app') : u \in Held(app) \/ Found(u)
  BY WorksHeld DEF IInv
<1>4. Takes => \A h \in Helpers : ~Active(h)
  <2>1. attempt = None => \A h \in Helpers : ~Active(h)
    BY DEF LInv, MarkerHeld
  <2> QED BY <2>1, NotInUse DEF Takes, IInv
<1>5. MarkerHeld' /\ OneActive'
  <2>1. OneActive'
    BY <1>2 DEF LInv, OneActive
  <2>2. CASE Quiet
    <3>1. app'.phase = "run" /\ attempt' = attempt
      BY <2>2 DEF Quiet, disk
    <3>2. \A h \in Helpers : Active(h)' => attempt # None
      BY <1>2 DEF LInv, MarkerHeld
    <3>3. MarkerHeld'
      BY <3>1, <3>2 DEF MarkerHeld
    <3> QED BY <2>1, <3>3
  <2>3. CASE Takes
    <3>1. attempt' # None /\ \A h \in Helpers : ~Active(h)'
      BY <1>2, <1>4, <2>3, VersionsAreNumbered DEF Takes
    <3>2. MarkerHeld'
      BY <3>1 DEF MarkerHeld
    <3> QED BY <2>1, <3>2
  <2> QED BY <1>1, <2>1, <2>2, <2>3
<1>6. HeldFresh'
  <2>1. ASSUME NEW u, Fresh(u) PROVE Fresh(u)'
    BY <1>2, <2>1 DEF Fresh
  <2>2. ASSUME NEW u \in Held(app') PROVE Fresh(u)'
    <3>1. CASE app' = [Off EXCEPT !.version = install]
      BY <2>2, <3>1, HeldOff
    <3>2. CASE u \in Held(app)
      BY <2>1, <3>2 DEF LInv, HeldFresh
    <3>3. CASE app.phase = "run" /\ app.version # None /\ Found(u)
      BY <1>2, <3>3, FoundFresh
    <3> QED BY <1>3, <2>2, <3>1, <3>2, <3>3
  <2>3. Held(app)' = Held(app')
    BY DEF Held
  <2> QED BY <2>2, <2>3 DEF HeldFresh
<1>7. AttemptsKnown' /\ \A h \in Helpers : Stage(h)'
  BY <1>2 DEF LInv, AttemptsKnown, Stage
<1>8. MarkerNames'
  <2>1. app'.phase = "launching" => attempt' = app'.archive.version
    BY <1>1 DEF Quiet, Takes, Matched
  <2>2. \A h \in Helpers : Active(h) => attempt' = attempt
    BY <1>1, <1>4 DEF Quiet, disk
  <2> QED BY <1>2, <2>1, <2>2 DEF LInv, MarkerNames
<1>9. LatestSettled'
  <2>1. CASE Quiet
    BY <1>2, <2>1 DEF LInv, LatestSettled, Quiet, disk
  <2>2. CASE Takes
    BY <1>2, <2>2 DEF LInv, LatestSettled, Takes
  <2> QED BY <1>1, <2>1, <2>2
<1> QED BY <1>5, <1>6, <1>7, <1>8, <1>9 DEF LInv

\* A helper that cannot be started leaves nothing on record, and needs nothing.
LEMMA PrepareFailsLInv == ASSUME IInv, LInv, PrepareFails PROVE LInv'
<1>1. /\ app' = [app EXCEPT !.phase = "run", !.installing = FALSE, !.target = None,
                            !.archive = NoUpdate]
      /\ app.phase = "launching" /\ attempt' \in {attempt, None}
      /\ UNCHANGED <<latest, install, backup, failure, helper, attempted>>
  BY DEF PrepareFails
<1>2. /\ app'.info = app.info /\ app'.download = app.download
      /\ app'.archive = NoUpdate /\ app'.phase = "run"
  BY <1>1 DEF IInv, TypeOK, App
<1>3. Held(app') \subseteq Held(app)
  BY <1>2 DEF Held
<1>4. \A h \in Helpers : ~Active(h)'
  BY <1>1 DEF LInv, MarkerHeld, Active
<1>5. HeldFresh'
  <2>1. \A u \in Held(app') : Fresh(u)
    BY <1>3 DEF LInv, HeldFresh
  <2>2. ASSUME NEW u, Fresh(u) PROVE Fresh(u)'
    BY <1>1, <2>2 DEF Fresh
  <2>3. \A u \in Held(app') : Fresh(u)'
    BY <2>1, <2>2
  <2> QED BY <2>3 DEF HeldFresh
<1>6. AttemptsKnown' /\ MarkerHeld' /\ OneActive' /\ MarkerNames'
      /\ \A h \in Helpers : Stage(h)'
  BY <1>1, <1>2, <1>4 DEF LInv, AttemptsKnown, MarkerHeld, OneActive, MarkerNames, Stage
<1>7. LatestSettled'
  BY <1>1 DEF LInv, LatestSettled
<1> QED BY <1>5, <1>6, <1>7 DEF LInv

\* The helper that starts is the only one, and works on the newest version attempted.
LEMMA StartHelperLInv == ASSUME IInv, LInv, NEW h \in Helpers, StartHelper(h) PROVE LInv'
<1>1. /\ app.phase = "launching"
      /\ app' = [Off EXCEPT !.version = app.version, !.phase = "quitting"]
      /\ attempted' = attempted \cup {app.target}
      /\ UNCHANGED <<latest, install, backup, attempt, failure>>
  BY DEF StartHelper, disk
<1>2. app'.phase = "quitting" /\ Held(app') = {}
  BY <1>1 DEF Held, Off
<1>3. /\ app.archive \in Held(app) /\ app.target = app.archive.version
      /\ attempt = app.target /\ attempt # None /\ \A g \in Helpers : ~Active(g)
  BY <1>1 DEF IInv, LInv, Matched, MarkerHeld, Held, MarkerNames
<1>4. install < app.target /\ app.target <= latest /\ \A v \in attempted : v <= app.target
  BY <1>3 DEF LInv, HeldFresh, Fresh
<1>5. /\ helper'[h].step = "waiting" /\ helper'[h].version = app.target
      /\ \A g \in Helpers \ {h} : helper'[g] = helper[g]
  BY DEF IInv, TypeOK, StartHelper
<1>6. \A g \in Helpers \ {h} : ~Active(g)'
  BY <1>3, <1>5 DEF Active
<1>7. HeldFresh' /\ MarkerHeld' /\ OneActive'
  BY <1>1, <1>2, <1>3, <1>6 DEF HeldFresh, MarkerHeld, OneActive
<1>8. AttemptsKnown'
  BY <1>1, <1>4 DEF LInv, AttemptsKnown
<1>9. \A v \in attempted' : v <= app.target
  <2>1. app.target \in Nat
    BY <1>3, Numbers DEF IInv
  <2> QED BY <1>1, <1>4, <2>1
<1>10. MarkerNames'
  BY <1>1, <1>2, <1>3, <1>4, <1>5, <1>6, <1>9 DEF MarkerNames
<1>11. \A g \in Helpers : Stage(g)'
  <2>1. Stage(h)'
    BY <1>1, <1>4, <1>5 DEF Stage
  <2> QED BY <1>6, <2>1 DEF Stage
<1>12. LatestSettled'
  BY <1>1, <1>2, <1>3 DEF LInv, LatestSettled
<1> QED BY <1>7, <1>8, <1>10, <1>11, <1>12 DEF LInv

\* A helper without a marker touches no version.  It may delete or overwrite the
\* record of a failure, or delete the marker of another: both are counted.
LEMMA HelperFree ==
  ASSUME IInv, NEW h \in Helpers, HelperStep(h) \/ HelperDies(h), ~Active(h)
  PROVE  /\ UNCHANGED <<latest, install>> /\ ~Active(h)'
         /\ attempted' \subseteq attempted
         /\ failure' = failure \/ failure \notin attempted'
         /\ \/ attempt' = attempt
            \/ /\ attempt' = None /\ attempt \notin attempted'
               /\ unlocked' \/ attempt = None \/ ~InUse
<1>m. \A from, to \in Steps : Moves(h, from, to) => helper[h].step = from
  BY DEF Moves
<1>1. ~Active(h)'
  BY HelperMoves DEF IInv, Goes
<1>k. helper[h].step \notin Holding /\ ~helper[h].holds
  BY DEF IInv, HoldsKnown, Active
<1>2. ClearFailure(h) \/ Record(h) \/ Unmark(h) \/ Relaunch(h) \/ HelperDies(h)
  BY <1>m, <1>k DEF HelperStep, Wait, Extract, Remove, Replace, Start, Watch, ClearAttempt,
     Releases, Undo, Restore, Holding, Steps
<1>3. CASE ClearFailure(h) \/ Record(h)
  BY <1>1, <1>3 DEF ClearFailure, Record
<1>4. CASE Unmark(h)
  BY <1>1, <1>4, <1>k DEF Unmark
<1>5. CASE Relaunch(h) \/ HelperDies(h)
  BY <1>1, <1>5 DEF Relaunch, HelperDies, disk, history
<1> QED BY <1>2, <1>3, <1>4, <1>5

\* A helper with its marker keeps it at its version, or gives it up for good.
LEMMA HelperHolds ==
  ASSUME IInv, LInv, NEW h \in Helpers, HelperStep(h) \/ HelperDies(h), Active(h)
  PROVE  /\ UNCHANGED latest /\ attempted' \subseteq attempted
         /\ UNCHANGED attempt \/ ~Active(h)'
<1>1. attempt = helper[h].version /\ helper[h].holds
  BY DEF LInv, MarkerNames, Active
<1>2. CASE Wait(h) \/ Extract(h)
  BY <1>1, <1>2 DEF Wait, Extract, Marks, history
<1>3. CASE ClearAttempt(h)
  <2>1. CASE Releases(h, "clearing", "cleared")
    BY <1>3, <2>1, ReleaseReleases DEF IInv, ClearAttempt, Steps, Active
  <2>2. CASE UNCHANGED attempt
    BY <1>3, <2>2 DEF ClearAttempt
  <2> QED BY <1>3, <2>1, <2>2 DEF ClearAttempt
<1>4. CASE Unmark(h)
  <2>1. CASE Releases(h, "unmarking", "relaunching")
    <3>1. ~Active(h)'
      BY <2>1, ReleaseReleases DEF IInv, Steps, Active
    <3> QED BY <1>1, <1>4, <3>1 DEF Unmark
  <2>2. CASE UNCHANGED <<attempt, attempted>>
    BY <1>4, <2>2 DEF Unmark
  <2> QED BY <1>4, <2>1, <2>2 DEF Unmark
<1>5. CASE \/ Remove(h) \/ Replace(h) \/ Start(h) \/ Watch(h) \/ ClearFailure(h) \/ Undo(h)
           \/ Restore(h) \/ Record(h) \/ Relaunch(h) \/ HelperDies(h)
  BY <1>5 DEF Remove, Replace, Start, Watch, ClearFailure, Undo, Restore, Record,
     Relaunch, HelperDies, disk, history
<1> QED BY <1>2, <1>3, <1>4, <1>5 DEF HelperStep

\* The stage of a helper that keeps its marker.
LEMMA HelperStage ==
  ASSUME IInv, LInv, NEW h \in Helpers, HelperStep(h) \/ HelperDies(h)
  PROVE  Stage(h)'
<1> SUFFICES ASSUME Active(h)' PROVE Stage(h)'
  BY DEF Stage
<1>m. \A from, to \in Steps : Moves(h, from, to) =>
        /\ helper[h].step = from /\ helper'[h].step = to
        /\ helper'[h].version = helper[h].version
  BY MoveMoves DEF IInv
<1>e. /\ \A to \in {"done", "dead"} :
            helper' # [helper EXCEPT ![h] = [NoHelper EXCEPT !.step = to]]
      /\ \A from, to \in Steps : ~Releases(h, from, to)
  BY EndEnds, ReleaseReleases DEF IInv, Active
<1>t. /\ helper \in [Helpers -> Helper] /\ helper[h].version \in Nat
      /\ helper[h].version = helper[h].archive
  BY Numbers DEF IInv, TypeOK, HelpersLabelled
<1>a. Active(h)
  BY HelperMoves DEF IInv, Goes
<1>s. Stage(h)
  BY DEF LInv
<1>2. CASE Wait(h)
  <2>1. /\ helper[h].step = "waiting" /\ helper'[h].step \in {"extracting", "recording"}
        /\ helper'[h].version = helper[h].version
    BY <1>m, <1>t, <1>2 DEF Wait, Steps, Helper
  <2> QED BY <1>a, <1>s, <1>t, <1>2, <2>1 DEF Wait, Stage
<1>3. CASE Extract(h)
  <2>1. /\ helper[h].step = "extracting" /\ helper'[h].step \in {"removing", "recording"}
        /\ helper'[h].version = helper[h].version
    BY <1>m, <1>3 DEF Extract, Steps
  <2> QED BY <1>a, <1>s, <1>t, <1>3, <2>1 DEF Extract, Stage
<1>4. CASE Remove(h)
  <2>1. \/ helper'[h].step = "replacing" /\ install' = None
        \/ helper'[h].step = "recording"
    BY <1>m, <1>4 DEF Remove, Steps
  <2> QED BY <2>1 DEF Stage
<1>5. CASE Replace(h)
  <2>1. /\ helper[h].step = "replacing"
        /\ \/ helper'[h].step = "starting" /\ install' = helper[h].archive
           \/ helper'[h].step = "undoing" /\ install' = install
        /\ helper'[h].version = helper[h].version
    BY <1>m, <1>5 DEF Replace, Steps
  <2> QED BY <1>a, <1>s, <1>t, <2>1 DEF Stage
<1>6. CASE Start(h)
  <2>1. /\ helper[h].step = "starting" /\ helper'[h].step \in {"watching", "undoing"}
        /\ helper'[h].version = helper[h].version
    BY <1>m, <1>t, <1>6 DEF Start, Steps, Helper
  <2> QED BY <1>a, <1>s, <1>t, <1>6, <2>1 DEF Start, Stage, disk
<1>7. CASE Watch(h)
  <2>1. /\ helper[h].step = "watching" /\ helper'[h].step \in {"clearing", "undoing"}
        /\ helper'[h].version = helper[h].version
    BY <1>m, <1>7 DEF Watch, Steps
  <2> QED BY <1>a, <1>s, <1>t, <1>7, <2>1 DEF Watch, Stage
<1>8. CASE Undo(h)
  <2>1. /\ helper[h].step = "undoing" /\ helper'[h].step = "restoring"
        /\ helper'[h].version = helper[h].version
    BY <1>m, <1>8 DEF Undo, Steps
  <2> QED BY <1>a, <1>s, <1>t, <1>8, <2>1 DEF Undo, Stage
<1>9. CASE Restore(h)
  <2>1. helper'[h].step = "recording"
    BY <1>m, <1>9 DEF Restore, Steps
  <2> QED BY <2>1 DEF Stage
<1>10. CASE Record(h)
  <2>1. helper'[h].step = "unmarking" /\ helper'[h].version = helper[h].version
    BY <1>m, <1>10 DEF Record, Steps
  <2> QED BY <1>10, <2>1 DEF Record, Stage
<1>11. CASE ClearAttempt(h) \/ ClearFailure(h)
  <2>1. helper'[h].step = "recording"
    BY <1>m, <1>e, <1>11 DEF ClearAttempt, ClearFailure, Ends, Steps
  <2> QED BY <2>1 DEF Stage
<1>12. CASE Unmark(h) \/ Relaunch(h) \/ HelperDies(h)
  BY <1>e, <1>12 DEF Unmark, Relaunch, HelperDies, Ends, Steps
<1> QED BY <1>2, <1>3, <1>4, <1>5, <1>6, <1>7, <1>8, <1>9, <1>10, <1>11, <1>12
    DEF HelperStep

\* A helper that gives up its marker has put its version on record or has installed
\* it; what it takes away is older than what it works on.
LEMMA HelperSettled ==
  ASSUME IInv, LInv, NEW h \in Helpers, HelperStep(h) \/ HelperDies(h), Active(h)
  PROVE  LatestSettled'
<1> SUFFICES ASSUME (latest \in attempted)'
             PROVE  (\/ failure = latest
                     \/ install = latest
                     \/ attempt = latest /\ app.phase # "launching")'
  BY DEF LatestSettled
<1>m. \A from, to \in Steps : Moves(h, from, to) \/ Releases(h, from, to)
                              => helper[h].step = from
  BY DEF Moves, Releases
<1>n. /\ latest \in Nat /\ install \in Nat /\ attempted \subseteq Nat /\ None = 0
      /\ helper[h].version \in Nat /\ latest \in Versions
  BY Numbers DEF IInv, TypeOK
<1>1. latest' = latest /\ latest \in attempted
  BY HelperHolds
<1>2. app'.phase # "launching" \/ app.phase = "launching"
  BY HelperApp DEF Off
<1>3. /\ attempt = helper[h].version /\ helper[h].version = latest
      /\ app.phase # "launching" /\ helper[h].holds
  BY <1>n, <1>1 DEF LInv, MarkerNames, MarkerHeld, Active
<1>4. CASE UNCHANGED attempt
  BY <1>1, <1>2, <1>3, <1>4
<1>5. CASE ClearAttempt(h) /\ ~UNCHANGED attempt
  <2>1. helper[h].step = "clearing" /\ install' = install
    BY <1>m, <1>5 DEF ClearAttempt, Steps
  <2> QED BY <1>1, <1>3, <2>1 DEF LInv, Stage, Active
<1>6. CASE Unmark(h) /\ ~UNCHANGED attempt
  <2>1. helper[h].step = "unmarking" /\ failure' = failure /\ attempted' = attempted
    BY <1>m, <1>3, <1>6 DEF Unmark, Steps
  <2> QED BY <1>1, <1>3, <2>1 DEF LInv, Stage, Active
<1>7. CASE Wait(h) \/ Extract(h)
  <2>1. UNCHANGED attempt
    BY <1>3, <1>7 DEF Wait, Extract, Marks
  <2> QED BY <1>4, <2>1
<1>8. CASE \/ Remove(h) \/ Replace(h) \/ Start(h) \/ Watch(h) \/ ClearFailure(h) \/ Undo(h)
           \/ Restore(h) \/ Record(h) \/ Relaunch(h) \/ HelperDies(h)
  <2>1. UNCHANGED attempt
    BY <1>8 DEF Remove, Replace, Start, Watch, ClearFailure, Undo, Restore, Record,
       Relaunch, HelperDies, disk
  <2> QED BY <1>4, <2>1
<1> QED BY <1>4, <1>5, <1>6, <1>7, <1>8 DEF HelperStep

\* What a helper's step leaves of the app's updates.
LEMMA HelperFresh ==
  ASSUME IInv, LInv, NEW h \in Helpers, HelperStep(h) \/ HelperDies(h),
         UNCHANGED latest, attempted' \subseteq attempted
  PROVE  HeldFresh' /\ AttemptsKnown' /\ (app'.phase = "launching" => UNCHANGED app)
<1>1. \/ UNCHANGED <<app, install>>
      \/ app = Off /\ UNCHANGED app
      \/ app' = [Off EXCEPT !.version = install]
  BY HelperApp
<1>2. HeldFresh'
  <2>1. CASE UNCHANGED <<app, install>>
    <3>1. ASSUME NEW u, Fresh(u) PROVE Fresh(u)'
      BY <2>1, <3>1 DEF Fresh
    <3>2. \A u \in Held(app) : Fresh(u)'
      BY <3>1 DEF LInv, HeldFresh
    <3>3. Held(app)' = Held(app)
      BY <2>1 DEF Held
    <3> QED BY <3>2, <3>3 DEF HeldFresh
  <2>2. CASE app' = Off \/ app' = [Off EXCEPT !.version = install]
    <3>1. Held(app)' = {}
      BY <2>2 DEF Held, Off
    <3> QED BY <3>1 DEF HeldFresh
  <2> QED BY <1>1, <2>1, <2>2
<1>3. app'.phase = "launching" => UNCHANGED app
  BY <1>1 DEF Off
<1> QED BY <1>2, <1>3 DEF LInv, AttemptsKnown

\* A helper with its marker works, ends or dies: no other one has a marker, and no
\* app is about to launch.
LEMMA HolderLInv ==
  ASSUME IInv, LInv, NEW h \in Helpers, HelperStep(h) \/ HelperDies(h), Active(h)
  PROVE  LInv'
<1>1. UNCHANGED latest /\ attempted' \subseteq attempted /\ (UNCHANGED attempt \/ ~Active(h)')
  BY HelperHolds
<1>2. HeldFresh' /\ AttemptsKnown' /\ app'.phase # "launching"
  BY <1>1, HelperFresh DEF LInv, MarkerHeld
<1>3. \A g \in Helpers \ {h} : ~Active(g)'
  <2>1. \A g \in Helpers \ {h} : ~Active(g) /\ helper'[g] = helper[g]
    BY HelperMoves DEF IInv, Goes, LInv, OneActive
  <2> QED BY <2>1 DEF Active
<1>4. Active(h)' => UNCHANGED attempt /\ helper'[h].version = helper[h].version
  <2>1. Active(h)' => AtWork(h)'
    BY HelperMoves DEF IInv, Goes, AtWork, Free
  <2> QED BY <1>1, <2>1, HelperMoves DEF IInv, Goes
<1>5. MarkerHeld' /\ OneActive'
  BY <1>2, <1>3, <1>4 DEF LInv, MarkerHeld, OneActive
<1>6. MarkerNames'
  BY <1>1, <1>2, <1>3, <1>4 DEF LInv, MarkerNames
<1>7. \A g \in Helpers : Stage(g)'
  BY <1>3, HelperStage DEF Stage
<1> QED BY <1>2, <1>5, <1>6, <1>7, HelperSettled DEF LInv

\* A helper without a marker: the one that has its own is not disturbed.
LEMMA FreeLInv ==
  ASSUME IInv, LInv, NEW h \in Helpers, HelperStep(h) \/ HelperDies(h), ~Active(h),
         ~unlocked'
  PROVE  LInv'
<1>1. /\ UNCHANGED <<latest, install>> /\ ~Active(h)' /\ attempted' \subseteq attempted
      /\ failure' = failure \/ failure \notin attempted'
      /\ \/ attempt' = attempt
         \/ attempt' = None /\ attempt \notin attempted' /\ (attempt = None \/ ~InUse)
  BY HelperFree
<1>2. HeldFresh' /\ AttemptsKnown' /\ (app'.phase = "launching" => UNCHANGED app)
  BY <1>1, HelperFresh
<1>3. \A g \in Helpers : /\ Active(g)' = Active(g)
                         /\ Active(g) => g # h /\ helper'[g] = helper[g]
  <2>1. \A g \in Helpers \ {h} : helper'[g] = helper[g]
    BY HelperMoves DEF IInv, Goes
  <2>2. helper'[h].holds = helper[h].holds
    <3>1. helper[h].holds \in BOOLEAN /\ helper'[h].holds \in BOOLEAN
      BY HelperMoves DEF IInv, TypeOK, Goes, Helper
    <3> QED BY <1>1, <3>1 DEF Active
  <2>3. ASSUME NEW g \in Helpers
        PROVE  /\ Active(g)' = Active(g)
               /\ Active(g) => g # h /\ helper'[g] = helper[g]
    BY <2>1, <2>2 DEF Active
  <2> QED BY <2>3
<1>4. \/ UNCHANGED attempt
      \/ ~(app.phase = "launching") /\ \A g \in Helpers : ~Active(g)
  BY <1>1, NotInUse DEF IInv
<1>5. MarkerHeld' /\ OneActive'
  BY <1>2, <1>3, <1>4 DEF LInv, MarkerHeld, OneActive
<1>6. MarkerNames'
  BY <1>1, <1>2, <1>3, <1>4 DEF LInv, MarkerNames
<1>7. ASSUME NEW g \in Helpers PROVE Stage(g)'
  BY <1>1, <1>3 DEF LInv, Stage
<1>8. LatestSettled'
  BY <1>1, <1>2 DEF LInv, LatestSettled
<1> QED BY <1>2, <1>5, <1>6, <1>7, <1>8 DEF LInv

\* What the lock gives lasts while no marker in use is missed or deleted by another.
LEMMA NextLInv == IInv /\ LInv /\ [Next]_vars /\ ~unlocked' => LInv'
<1> SUFFICES ASSUME IInv, LInv, [Next]_vars, ~unlocked' PROVE LInv'
  OBVIOUS
<1>1. CASE UNCHANGED vars
  <2>1. UNCHANGED <<latest, install, backup, attempt, failure, app, helper, attempted>>
    BY <1>1 DEF vars, disk, history
  <2>2. MarkerHeld' /\ OneActive' /\ AttemptsKnown' /\ LatestSettled'
    BY <2>1 DEF LInv, MarkerHeld, OneActive, AttemptsKnown, LatestSettled, Active
  <2>3. MarkerNames' /\ \A h \in Helpers : Stage(h)'
    BY <2>1 DEF LInv, MarkerNames, Active, Stage
  <2>4. HeldFresh'
    BY <2>1 DEF LInv, HeldFresh, Held, Fresh
  <2> QED BY <2>2, <2>3, <2>4 DEF LInv
<1>2. CASE Publish
  BY <1>2, PublishLInv
<1>3. CASE AppEnds
  BY <1>3, AppEndsLInv
<1>4. CASE Works
  BY <1>4, WorksLInv
<1>5. CASE PrepareFails
  BY <1>5, PrepareFailsLInv
<1>6. ASSUME NEW h \in Helpers, StartHelper(h) PROVE LInv'
  BY <1>6, StartHelperLInv
<1>7. ASSUME NEW h \in Helpers, HelperStep(h) \/ HelperDies(h) PROVE LInv'
  BY <1>7, HolderLInv, FreeLInv
<1> QED BY <1>1, <1>2, <1>3, <1>4, <1>5, <1>6, <1>7 DEF Next, Application, Works

\* The lock cannot be restored.
LEMMA UnlockedForGood == IInv /\ [Next]_vars /\ unlocked => unlocked'
<1> SUFFICES ASSUME IInv, [Next]_vars, unlocked PROVE unlocked'
  OBVIOUS
<1>1. CASE Works
  BY <1>1, WorksMatched DEF IInv, Quiet, Takes
<1>2. CASE Publish \/ AppEnds \/ UNCHANGED vars
  <2>1. CASE AppEnds
    BY <2>1, Zenon DEF AppEnds
  <2>2. CASE Publish \/ UNCHANGED vars
    BY <2>2 DEF Publish, vars, history
  <2> QED BY <1>2, <2>1, <2>2
<1>3. CASE PrepareFails \/ \E h \in Helpers : StartHelper(h)
  BY <1>3 DEF PrepareFails, StartHelper
<1>4. ASSUME NEW h \in Helpers, HelperStep(h) \/ HelperDies(h) PROVE unlocked'
  <2>1. CASE \/ Wait(h) \/ Extract(h) \/ Remove(h) \/ Replace(h) \/ Start(h) \/ Watch(h)
             \/ Undo(h) \/ Restore(h) \/ Relaunch(h) \/ HelperDies(h)
    BY <2>1 DEF Wait, Extract, Remove, Replace, Start, Watch, Undo, Restore, Relaunch,
       HelperDies, history
  <2>2. CASE ClearAttempt(h) \/ ClearFailure(h) \/ Record(h)
    BY <2>2 DEF ClearAttempt, ClearFailure, Record
  <2>3. CASE Unmark(h)
    BY <2>3 DEF Unmark
  <2> QED BY <1>4, <2>1, <2>2, <2>3 DEF HelperStep
<1> QED BY <1>1, <1>2, <1>3, <1>4 DEF Next, Application, Works

LEMMA Locked == Spec => [](IInv /\ (unlocked \/ LInv))
<1>1. IInv /\ (unlocked \/ LInv) /\ [Next]_vars => IInv' /\ (unlocked \/ LInv)'
  BY NextIInv, NextLInv, UnlockedForGood
<1> QED BY <1>1, InitIInv, InitLInv, PTL DEF Spec

\* An app that begins a launch has held its archive since it was found.
LEMMA LaunchIsFresh ==
  ASSUME IInv, LInv, [Next]_vars,
         app.phase = "run", app'.phase = "launching", app'.archive.auto
  PROVE  app'.archive.version \notin attempted
<1>1. CASE Works
  <2>1. Quiet \/ Takes
    BY <1>1, WorksMatched DEF IInv
  <2>2. app'.archive \in Held(app') /\ Takes
    BY <2>1 DEF Quiet, Takes, Matched, Held
  <2>3. [Off EXCEPT !.version = install].phase = "run"
    BY DEF Off
  <2>4. app'.archive \in Held(app)
    BY <1>1, <2>2, <2>3, WorksHeld DEF IInv
  <2> QED BY <2>4 DEF LInv, HeldFresh, Fresh
<1>2. CASE UNCHANGED app
  BY <1>2
<1>3. CASE ~Works /\ ~UNCHANGED app
  <2>1. \/ app' = Off \/ app' = [Off EXCEPT !.version = install]
        \/ app.phase = "launching"
    <3>1. ASSUME NEW h \in Helpers, HelperStep(h) \/ HelperDies(h)
          PROVE  UNCHANGED app \/ app' = [Off EXCEPT !.version = install]
      BY <3>1, HelperApp
    <3>2. CASE AppEnds
      BY <3>2, Zenon DEF AppEnds
    <3>3. CASE Publish \/ UNCHANGED vars
      BY <3>3 DEF Publish, vars
    <3>4. CASE PrepareFails \/ \E h \in Helpers : StartHelper(h)
      BY <3>4 DEF PrepareFails, StartHelper
    <3> QED BY <1>3, <3>1, <3>2, <3>3, <3>4 DEF Next, Application, Works
  <2> QED BY <2>1 DEF Off
<1> QED BY <1>1, <1>2, <1>3

-----------------------------------------------------------------------------
(* Theorems *)

\* TypeOK: the fields of app, helpers and files hold what their code puts there.
THEOREM UpdaterTypes == Spec => []TypeOK
<1>1. IInv => TypeOK BY DEF IInv
<1> QED BY <1>1, Invariance, PTL

\* SomeVersionSurvives: wherever the app, a helper or the machine stops, whatever
\* fails in _swap_and_launch, and even if two helpers swap at once because the
\* marker failed to keep them apart, a complete version is on disk.
THEOREM AVersionSurvives == Spec => []SomeVersionSurvives
<1>1. IInv => SomeVersionSurvives BY DEF IInv
<1> QED BY <1>1, Invariance, PTL

\* HelperAlone: as long as no marker in use is misread by begin_update_attempt or
\* deleted by the helper of an earlier success, the marker keeps a second helper from
\* an installation another one works on, whatever else fails or dies.
THEOREM HelpersAreAlone == Spec => []HelperAlone
<1>1. IInv /\ (unlocked \/ LInv) => HelperAlone
  BY DEF LInv, OneActive, HelperAlone, Active
<1> QED BY <1>1, Locked, PTL

\* LabelMatchesArchive: a helper records and confirms the version it installs.
THEOREM LabelsMatch == Spec => []LabelMatchesArchive
<1>1. IInv => LabelMatchesArchive
  BY DEF IInv, HelpersLabelled, LabelMatchesArchive
<1> QED BY <1>1, Invariance, PTL

\* NotRetried (updater.py:85): while the marker keeps helpers apart, an automatic
\* update is never one that was interrupted or failed before, unless the file that
\* blocks it could not be written or read, or was deleted or overwritten by another
\* update.
THEOREM NothingRetried == Spec => NotRetried
<1>1. IInv /\ (unlocked \/ LInv) /\ [Next]_vars =>
        [ /\ app.phase = "run" /\ app'.phase = "launching" /\ app'.archive.auto
          => unlocked' \/ app'.archive.version \notin attempted ]_vars
  BY LaunchIsFresh, UnlockedForGood
<1> QED BY <1>1, Locked, PTL DEF Spec, NotRetried
=============================================================================
