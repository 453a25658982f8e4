-------------------------------- MODULE Updater --------------------------------
(***************************************************************************)
(* How an installation replaces itself (SteamyLan/updater.py, the update   *)
(* slots of ui/main_window.py, and tools/update_helper.py).                *)
(*                                                                         *)
(* Three processes share the files beside the installation directory: the  *)
(* app, of which one runs at a time (app.py SingleInstance), the helper it *)
(* starts before it quits, and the user, who starts and quits the app      *)
(* whenever there is one.  Each may die between any two file operations.   *)
(* A directory cannot be renamed while the app runs from it, and renaming  *)
(* may time out for other reasons.  A file may be unreadable when it is    *)
(* read, which passes for its not being there (_read_state), and may not   *)
(* be written or deleted when the other process has it open.               *)
(***************************************************************************)
EXTENDS Naturals

CONSTANTS
    MaxVersion,  \* bound: versions published; version 1 is installed first
    MaxHelpers,  \* bound: helpers started
    MaxFaults    \* bound: files that cannot be read, or deleted

ASSUME UpdaterAssumption ==
    MaxVersion \in Nat \ {0} /\ MaxHelpers \in Nat /\ MaxFaults \in Nat

Versions == 1 .. MaxVersion
Helpers == 1 .. MaxHelpers   \* in the order they are started
None == 0

VARIABLES
    latest,     \* the newest release
    install,    \* the version in the installation directory
    backup,     \* the version in the .previous directory of each helper
    attempt,    \* the version in SteamyLAN-update-attempt.json
    failure,    \* the version in SteamyLAN-update-failed.json
    app,        \* the running app, see App
    helper,     \* the helpers, see Helper
    attempted,  \* history: versions a helper was started, or nearly, for, except
                \*          those whose marker or record of failure could not be
                \*          written or read since, or went with that of another update
    faults,     \* files that could not be read or deleted so far
    unlocked    \* history: a marker in use was not seen by an app that wanted to
                \*          launch, or was deleted by the helper of an earlier update

disk == <<install, backup, attempt, failure>>
history == <<attempted, faults, unlocked>>
vars == <<latest, disk, app, helper, history>>

\* An update the app works on, and whether an automatic check found it.
Update == [version : Versions, auto : BOOLEAN]
NoUpdate == [version |-> None, auto |-> FALSE]
Updates == Update \cup {NoUpdate}

App ==
    [version : Versions \cup {None},        \* APP_VERSION, None if no app runs
     phase : {"run", "launching", "quitting"},
     session : BOOLEAN,                     \* whether the session is not idle
     checked : BOOLEAN,                     \* _automatic_update_check_attempted
     installing : BOOLEAN,                  \* _update_install_running
     download : Updates,                    \* the download under way
     target : Versions \cup {None},         \* _update_target_version
     info : Updates,                        \* _pending_update_info
     archive : Updates]                     \* _pending_update_archive

Off == [version |-> None, phase |-> "run", session |-> FALSE, checked |-> FALSE,
        installing |-> FALSE, download |-> NoUpdate,
        target |-> None, info |-> NoUpdate, archive |-> NoUpdate]

Running == app.version # None /\ app.phase = "run"

Steps == {"none", "waiting", "extracting", "removing", "replacing", "starting",
          "watching", "clearing", "cleared", "undoing", "restoring", "recording",
          "unmarking", "relaunching", "done", "dead"}

Helper ==
    [step : Steps,
     version : Versions \cup {None},   \* --version
     archive : Versions \cup {None},   \* the version in --archive
     parent : {"runs", "gone", "seen"}, \* the app that started it; seen: to be gone
     child : BOOLEAN,                  \* the app it started still runs
     holds : BOOLEAN]                  \* it has not deleted the marker it works under

NoHelper == [step |-> "none", version |-> None, archive |-> None,
             parent |-> "gone", child |-> FALSE, holds |-> FALSE]

TypeOK ==
    /\ latest \in Versions
    /\ install \in Versions \cup {None}
    /\ backup \in [Helpers -> Versions \cup {None}]
    /\ attempt \in Versions \cup {None}
    /\ failure \in Versions \cup {None}
    /\ app \in App
    /\ helper \in [Helpers -> Helper]
    /\ attempted \subseteq Versions
    /\ faults \in 0 .. MaxFaults
    /\ unlocked \in BOOLEAN

Init ==
    /\ latest = 1
    /\ install = 1
    /\ backup = [h \in Helpers |-> None]
    /\ attempt = None
    /\ failure = None
    /\ app = Off
    /\ helper = [h \in Helpers |-> NoHelper]
    /\ attempted = {}
    /\ faults = 0
    /\ unlocked = FALSE

AtWork(h) == helper[h].step \notin {"none", "done", "dead"}

\* The marker is in use: there is, or is to be, a helper that works under it.
InUse == app.phase = "launching" \/ \E h \in Helpers : AtWork(h) /\ helper[h].holds

\* A file cannot be read or deleted.
Fault == faults < MaxFaults /\ faults' = faults + 1

\* What _read_state finds in a file: what is there, or nothing on any exception.
Reads(file, seen) ==
    \/ seen = file /\ UNCHANGED faults
    \/ seen = None /\ file # None /\ Fault

-----------------------------------------------------------------------------
(* The outside world *)

Publish ==
    /\ latest < MaxVersion
    /\ latest' = latest + 1
    /\ UNCHANGED <<disk, app, helper, history>>

\* An app that finds another one running quits at once.
StartApp ==
    /\ app.version = None
    /\ install # None
    /\ app' = [Off EXCEPT !.version = install]
    /\ UNCHANGED <<latest, disk, helper, history>>

\* The app quits, for an update or because the user wants it to, or it dies.
AppEnds ==
    /\ app.version # None
    /\ app' = Off
    /\ helper' = [h \in Helpers |-> [helper[h] EXCEPT
                     !.parent = IF @ = "runs" THEN "gone" ELSE @, !.child = FALSE]]
    /\ attempted' = IF app.phase = "launching" THEN attempted \cup {app.target} ELSE attempted
    /\ UNCHANGED <<latest, disk, faults, unlocked>>

-----------------------------------------------------------------------------
(* The app: main_window.py and updater.py *)

\* Faulty variant: a download under way, which ends first, is not noticed.
BeginDownloadAgain(a, u) ==
    [a EXCEPT !.installing = TRUE, !.download = IF a.installing THEN @ ELSE u,
              !.target = u.version]

\* _begin_update_download
BeginDownload(a, u) ==
    IF a.installing THEN a
    ELSE [a EXCEPT !.installing = TRUE, !.download = u, !.target = u.version]

\* Faulty variant: markers are not looked at before the new one is written.
LaunchUnmarked(a, u) ==
    /\ app' = [a EXCEPT !.installing = TRUE, !.phase = "launching", !.archive = u]
    /\ attempt' = a.target
    /\ UNCHANGED history

\* _launch_downloaded_update up to begin_update_attempt, which refuses every
\* update while it finds a marker, and fails if it cannot write its own.  A target
\* that is given up is forgotten: the next download sets it before it is read.
Launch(a, u) ==
    \/ /\ app' = [a EXCEPT !.installing = FALSE, !.target = None]
       /\ UNCHANGED <<attempt, history>>
    \/ /\ Reads(attempt, None)
       /\ app' = [a EXCEPT !.installing = TRUE, !.phase = "launching", !.archive = u]
       /\ attempt' = a.target
       /\ attempted' = attempted \ {attempt}
       /\ unlocked' = (unlocked \/ (attempt # None /\ InUse))

\* _install_pending_update, for a snapshot of an idle session.
InstallPending(a) ==
    \/ /\ \/ a.installing
          \/ a.archive = NoUpdate /\ a.info = NoUpdate
       /\ app' = a
       /\ UNCHANGED <<attempt, history>>
    \/ \* the archive has been deleted
       /\ ~a.installing /\ a.archive # NoUpdate
       /\ app' = [a EXCEPT !.archive = NoUpdate, !.info = NoUpdate, !.target = None]
       /\ UNCHANGED <<attempt, history>>
    \/ /\ ~a.installing /\ a.archive = NoUpdate /\ a.info # NoUpdate
       /\ app' = BeginDownload([a EXCEPT !.info = NoUpdate], a.info)
       /\ UNCHANGED <<attempt, history>>
    \/ /\ ~a.installing /\ a.archive # NoUpdate
       /\ Launch([a EXCEPT !.archive = NoUpdate, !.info = NoUpdate], a.archive)

StartSession ==
    /\ Running
    /\ ~app.session
    /\ app' = [app EXCEPT !.session = TRUE]
    /\ UNCHANGED <<latest, disk, helper, history>>

EndSession ==
    /\ Running
    /\ app.session
    /\ InstallPending([app EXCEPT !.session = FALSE])
    /\ UNCHANGED <<latest, install, backup, failure, helper>>

IdleSnapshot ==
    /\ Running
    /\ ~app.session
    /\ InstallPending(app)
    /\ UNCHANGED <<latest, install, backup, failure, helper>>

\* update_version_is_blocked, if it can read the two files
Blocked(version) == version \in {attempt, failure}

\* A check and its _update_result: one check by itself, and whenever the user asks.
\* Only the result looks at anything that changes, so that the check takes its place
\* in the order of events when it ends.  It found the newest release to install, or
\* nothing: it failed, or the release cannot be installed or is only announced.
\* What cannot be read does not block.
Check(kind, found) ==
    LET a == [app EXCEPT !.checked = @ \/ kind = "auto"]
        u == [version |-> latest, auto |-> kind = "auto"]
    IN  /\ Running
        /\ u.auto => ~app.checked
        /\ \/ /\ found /\ latest > app.version
              /\ \/ ~(u.auto /\ Blocked(latest)) /\ UNCHANGED <<attempted, faults>>
                 \/ u.auto /\ Blocked(latest) /\ Fault /\ attempted' = attempted \ {latest}
              /\ app' = IF a.session THEN [a EXCEPT !.info = u] ELSE BeginDownload(a, u)
           \/ app' = a /\ UNCHANGED <<attempted, faults>>
        /\ UNCHANGED <<latest, disk, helper, unlocked>>

\* _update_download_result
DownloadEnds ==
    /\ Running
    /\ app.download # NoUpdate
    /\ LET u == app.download
           a == [app EXCEPT !.download = NoUpdate]
       IN  IF a.session
           THEN /\ app' = [a EXCEPT !.archive = u, !.info = u, !.installing = FALSE]
                /\ UNCHANGED <<attempt, history>>
           ELSE Launch(a, u)
    /\ UNCHANGED <<latest, install, backup, failure, helper>>

\* _update_download_error
DownloadFails ==
    /\ Running
    /\ app.download # NoUpdate
    /\ app' = [app EXCEPT !.download = NoUpdate, !.installing = FALSE, !.target = None]
    /\ UNCHANGED <<latest, disk, helper, history>>

\* launch_update_helper: the copy of the helper cannot be made or started.  The
\* marker stays if no file name can be had for the copy, or it cannot be deleted.
PrepareFails ==
    /\ app.phase = "launching"
    /\ \/ attempt' = None /\ UNCHANGED faults
       \/ UNCHANGED attempt /\ Fault
    /\ app' = [app EXCEPT !.phase = "run", !.installing = FALSE, !.target = None,
                          !.archive = NoUpdate]
    /\ UNCHANGED <<latest, install, backup, failure, helper, attempted, unlocked>>

\* launch_update_helper: the helper runs and the app quits, whatever it works on.
StartHelper(h) ==
    /\ app.phase = "launching"
    /\ helper[h].step = "none"
    /\ \A g \in Helpers : g < h => helper[g].step # "none"
    /\ helper' = [helper EXCEPT ![h] =
                    [step |-> "waiting", version |-> app.target,
                     archive |-> app.archive.version, parent |-> "runs", child |-> FALSE,
                     holds |-> TRUE]]
    /\ app' = [Off EXCEPT !.version = app.version, !.phase = "quitting"]
    /\ attempted' = attempted \cup {app.target}
    /\ UNCHANGED <<latest, disk, faults, unlocked>>

-----------------------------------------------------------------------------
(* The helper: update_helper.py main, one action per file operation *)

Moves(h, from, to) ==
    /\ helper[h].step = from
    /\ helper' = [helper EXCEPT ![h].step = to]

Ends(h, from, to) ==
    /\ helper[h].step = from
    /\ helper' = [helper EXCEPT ![h] = [NoHelper EXCEPT !.step = to]]

\* The helper moves on without its marker.
Releases(h, from, to) ==
    /\ helper[h].step = from
    /\ helper' = [helper EXCEPT ![h].step = to, ![h].holds = FALSE]

\* _write_attempt, which ignores that the file cannot be written.
Marks(h) == attempt' \in {attempt, helper[h].version}

\* _write_attempt and _wait_for_parent: the app has gone, or has not after 60 s.
Wait(h) ==
    /\ \/ /\ helper[h].step = "waiting"
          /\ helper[h].parent = "gone"
          /\ helper' = [helper EXCEPT ![h].step = "extracting", ![h].parent = "seen"]
       \/ Moves(h, "waiting", "recording")
    /\ Marks(h)
    /\ UNCHANGED <<latest, install, backup, failure, app, history>>

\* _extract_archive
Extract(h) ==
    /\ Moves(h, "extracting", "removing") \/ Moves(h, "extracting", "recording")
    /\ Marks(h)
    /\ UNCHANGED <<latest, install, backup, failure, app, history>>

\* _swap_and_launch: the installation becomes the backup.
Remove(h) ==
    /\ \/ /\ Moves(h, "removing", "replacing")
          /\ install # None /\ app.version = None
          /\ backup' = [backup EXCEPT ![h] = install]
          /\ install' = None
       \/ /\ Moves(h, "removing", "recording")
          /\ UNCHANGED <<install, backup>>
    /\ UNCHANGED <<latest, attempt, failure, app, history>>

\* The staged version becomes the installation.
Replace(h) ==
    /\ \/ /\ Moves(h, "replacing", "starting")
          /\ install = None
          /\ install' = helper[h].archive
       \/ /\ Moves(h, "replacing", "undoing")
          /\ UNCHANGED install
    /\ UNCHANGED <<latest, backup, attempt, failure, app, history>>

\* The new version is started; it quits at once if the user was faster.
Start(h) ==
    /\ \/ /\ helper[h].step = "starting"
          /\ app.version = None /\ install # None
          /\ app' = [Off EXCEPT !.version = install]
          /\ helper' = [helper EXCEPT ![h].step = "watching", ![h].child = TRUE]
       \/ /\ app.version # None /\ install # None
          /\ Moves(h, "starting", "watching")
          /\ UNCHANGED app
       \/ /\ Moves(h, "starting", "undoing")
          /\ UNCHANGED app
    /\ UNCHANGED <<latest, disk, history>>

\* Faulty variant: the backup goes before it is known that the app runs.
WatchLate(h) ==
    /\ \/ helper[h].child /\ Moves(h, "watching", "clearing")
       \/ ~helper[h].child /\ Moves(h, "watching", "undoing")
    /\ backup' = [backup EXCEPT ![h] = None]
    /\ UNCHANGED <<latest, install, attempt, failure, app, history>>

\* After 8 s: if the new version runs, the backup goes.
Watch(h) ==
    /\ \/ /\ helper[h].child
          /\ Moves(h, "watching", "clearing")
          /\ backup' = [backup EXCEPT ![h] = None]
       \/ /\ ~helper[h].child
          /\ Moves(h, "watching", "undoing")
          /\ UNCHANGED backup
    /\ UNCHANGED <<latest, install, attempt, failure, app, history>>

\* Faulty variant: a success leaves its marker.
ClearAttemptNot(h) ==
    /\ Releases(h, "clearing", "cleared")
    /\ UNCHANGED <<latest, disk, app, history>>

\* main, after success: the two markers go.  A marker that cannot be deleted makes
\* a failure of the success.
ClearAttempt(h) ==
    /\ \/ Releases(h, "clearing", "cleared") /\ attempt' = None /\ UNCHANGED faults
       \/ Moves(h, "clearing", "recording") /\ UNCHANGED attempt /\ Fault
    /\ UNCHANGED <<latest, install, backup, failure, app, attempted, unlocked>>

ClearFailure(h) ==
    /\ \/ /\ Ends(h, "cleared", "done")
          /\ failure' = None
          /\ attempted' = attempted \ {failure}
          /\ UNCHANGED faults
       \/ /\ Moves(h, "cleared", "recording")
          /\ Fault
          /\ UNCHANGED <<failure, attempted>>
    /\ UNCHANGED <<latest, install, backup, attempt, app, unlocked>>

\* The except clause of _swap_and_launch: the new version is moved away and
\* deleted.  That it cannot be moved is ignored.
Undo(h) ==
    /\ Moves(h, "undoing", "restoring")
    /\ \/ install' = None /\ app.version = None
       \/ UNCHANGED install
    /\ UNCHANGED <<latest, backup, attempt, failure, app, history>>

\* Then the backup becomes the installation.
Restore(h) ==
    /\ Moves(h, "restoring", "recording")
    /\ \/ /\ backup[h] # None /\ install = None
          /\ install' = backup[h]
          /\ backup' = [backup EXCEPT ![h] = None]
       \/ UNCHANGED <<install, backup>>
    /\ UNCHANGED <<latest, attempt, failure, app, history>>

\* Faulty variant: the marker of the attempt goes first, and the helper may die.
RecordUnmarked(h) ==
    /\ attempt' = None
    /\ \/ Moves(h, "recording", "unmarking") /\ failure' = helper[h].version
       \/ Moves(h, "recording", "dead") /\ UNCHANGED failure
    /\ UNCHANGED <<latest, install, backup, app, history>>

\* _record_failure, which ignores that the record cannot be written.
Record(h) ==
    /\ Moves(h, "recording", "unmarking")
    /\ \/ /\ failure' = helper[h].version
          /\ attempted' = attempted \ ({failure} \ {helper[h].version})
       \/ /\ UNCHANGED failure
          /\ attempted' = attempted \ {helper[h].version}
    /\ UNCHANGED <<latest, install, backup, attempt, app, faults, unlocked>>

\* Then the marker goes, whoever holds it.  If it cannot be deleted, the helper dies
\* of the exception, with the marker in place and the app not relaunched.
Unmark(h) ==
    /\ \/ /\ Releases(h, "unmarking", "relaunching")
          /\ attempt' = None
          /\ IF helper[h].holds THEN UNCHANGED <<attempted, unlocked>>
             ELSE /\ attempted' = attempted \ {attempt}
                  /\ unlocked' = (unlocked \/ (attempt # None /\ InUse))
       \/ /\ Ends(h, "unmarking", "dead")
          /\ UNCHANGED <<attempt, attempted, unlocked>>
    /\ UNCHANGED <<latest, install, backup, failure, app, faults>>

\* _launch_existing, if the app that started the helper was seen to be gone.
Relaunch(h) ==
    /\ Ends(h, "relaunching", "done")
    /\ app' = IF helper[h].parent = "seen" /\ install # None /\ app.version = None
              THEN [Off EXCEPT !.version = install] ELSE app
    /\ UNCHANGED <<latest, disk, history>>

HelperDies(h) ==
    /\ AtWork(h)
    /\ helper' = [helper EXCEPT ![h] = [NoHelper EXCEPT !.step = "dead"]]
    /\ UNCHANGED <<latest, disk, app, history>>

-----------------------------------------------------------------------------

Application ==
    \/ StartSession \/ EndSession \/ IdleSnapshot
    \/ \E kind \in {"auto", "manual"}, found \in BOOLEAN : Check(kind, found)
    \/ DownloadEnds \/ DownloadFails
    \/ PrepareFails
    \/ \E h \in Helpers : StartHelper(h)

HelperStep(h) ==
    \/ Wait(h) \/ Extract(h) \/ Remove(h) \/ Replace(h) \/ Start(h) \/ Watch(h)
    \/ ClearAttempt(h) \/ ClearFailure(h)
    \/ Undo(h) \/ Restore(h) \/ Record(h) \/ Unmark(h) \/ Relaunch(h)

Next ==
    \/ Publish
    \/ StartApp
    \/ AppEnds
    \/ Application
    \/ \E h \in Helpers : HelperStep(h) \/ HelperDies(h)

Spec == Init /\ [][Next]_vars

\* Every wait of a helper has a time limit.
FairSpec == Spec /\ WF_vars(\E h \in Helpers : HelperStep(h))

-----------------------------------------------------------------------------
(* Properties *)

\* Whenever the machine stops, whatever failed before, however often an update
\* was tried and even by two helpers at once, a complete version is on disk:
\* installed, or as a backup.
SomeVersionSurvives == install # None \/ \E h \in Helpers : backup[h] # None

\* Two helpers never work on one installation: not if the user starts the old
\* app and asks for the update again while a helper waits, nor if the new app
\* finds a newer release before its own helper is done.  The marker that keeps
\* them apart fails in two ways, which `unlocked` records: updater.py:66 takes a
\* marker it cannot read for none, and update_helper.py:125 deletes whatever
\* marker there is after a success whose record of failure could not be deleted.
HelperAlone ==
    unlocked \/ \A h, g \in Helpers :
        AtWork(h) /\ helper[h].holds /\ AtWork(g) /\ helper[g].holds => h = g

\* The version a helper blocks or confirms is the one it installs, although the
\* app keeps the archive and the version apart, and while an update waits for
\* the end of a session newer ones are found.
LabelMatchesArchive == \A h \in Helpers : helper[h].version = helper[h].archive

\* updater.py:85: a version that was interrupted or failed is not tried again by
\* itself, whichever process died and when, unless two helpers could meet, or what
\* was to block it was not written, not readable when it was looked for, or went
\* with the files of another update: one that succeeded after its own marker was
\* gone, or one that was started or recorded over it.
NotRetried ==
    [][ /\ app.phase = "run" /\ app'.phase = "launching" /\ app'.archive.auto
        => unlocked' \/ app'.archive.version \notin attempted ]_vars

\* A helper that waits for its app deletes the marker in the end, unless it dies,
\* of a crash or of the exception when the marker cannot be deleted after a failure
\* was recorded: nothing that fails before leaves later updates refused, the first
\* deletion after a success included.
AttemptResolves ==
    \A h \in Helpers :
        helper[h].step = "waiting" ~> attempt = None \/ helper[h].step = "dead"
=============================================================================
