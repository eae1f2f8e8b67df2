---------------------------- MODULE UpdateService ----------------------------
(***************************************************************************)
(* app/updates/service.py (with ready.py, outcome.py and the exits of      *)
(* app/main.py): the update service of the running application, composed   *)
(* with the updater and the launch guard of UpdaterProcess.                *)
(*                                                                         *)
(* The service lives on the UI thread; beside it run a check, a download,  *)
(* the verification of the ready record, the pre-extraction of the package *)
(* and the delayed cleanup, each on a thread of its own that ends in a     *)
(* signal.  A check is its outcome; a cancelled download is one that fails *)
(* (a cancel that comes too early is lost).  The two threads that touch    *)
(* what the updater reads take several steps.  The gate of the automation  *)
(* (entitlement, eligible manifest, settings, free space, not attempted    *)
(* before) is read each time and may answer either way.                    *)
(***************************************************************************)
EXTENDS UpdaterProcess

CONSTANT MaxChecks      \* bound: update checks, over all launches

ASSUME CheckAssumption == MaxChecks \in Nat

VARIABLES
    running,            \* the version that runs (__version__); 0: none does
    cleanup,            \* the post-launch cleanup is due, and what it may remove
    checking, verified, available,  \* _check_in_flight, _verified_manifest,
                                    \* _availability.remote
    verificationFailed, downloadWhenVerified,
    checks,             \* counter for the bound
    ready, record, restore, \* _ready; ready.json; the thread that verifies it
    state, download,    \* _download_state ("none": empty); the download thread
    prestaged, prestage     \* _prestaged; version and step of the thread

NoDownload == [of |-> 0, done |-> FALSE]
NoPrestage == [of |-> 0, step |-> "none"]

sessionVars == <<running, cleanup>>
checkVars == <<checking, verified, available, verificationFailed,
               downloadWhenVerified, checks>>
readyVars == <<ready, record, restore>>
downloadVars == <<state, download>>
prestageVars == <<prestaged, prestage>>
serviceVars == <<sessionVars, checkVars, readyVars, downloadVars, prestageVars>>
vars == <<updaterVars, serviceVars>>

ServiceTypeOK ==
    /\ running \in Maybe(Version)
    /\ cleanup \in {"none", "all", "not_recovery"}
    /\ checking \in BOOLEAN /\ checks \in Nat
    /\ verified \in Maybe(Version) /\ available \in Maybe(Version)
    /\ verificationFailed \in BOOLEAN /\ downloadWhenVerified \in BOOLEAN
    /\ ready \in Maybe(Version) /\ record \in Maybe(Version)
    /\ restore \in BOOLEAN
    /\ state \in {"none", "downloading", "ready", "error", "installing"}
    /\ download \in [of : Maybe(Version), done : BOOLEAN]
    /\ prestaged \in Maybe(Version)
    /\ prestage \in [of : Maybe(Version),
                     step : {"none", "clear", "extract"}]

TypeOK == UpdaterTypeOK /\ ServiceTypeOK

\* An earlier session has left the verified package of release 2.
Init ==
    /\ UpdaterInit
    /\ record = 2 /\ archives = {2}
    /\ running = 0 /\ cleanup = "none"
    /\ checking = FALSE /\ verified = 0 /\ available = 0 /\ verificationFailed = FALSE
    /\ downloadWhenVerified = FALSE /\ checks = 0
    /\ ready = 0 /\ restore = FALSE
    /\ state = "none" /\ download = NoDownload
    /\ prestaged = 0 /\ prestage = NoPrestage

\* The UI thread handles events until the shutdown begins.
Responsive == app \in {"up", "closing"}

-----------------------------------------------------------------------------
\* Session start, and the cleanup 30 seconds later

\* cleanup_after_launch: this launch proves that the recovery material is
\* not needed any more.
HealthyStart(r, version) ==
    \/ r = NoResult
    \/ r.outcome \in {"success", "relaunch_failed"} /\ r.to = version
    \/ r.outcome \in {"restored", "recovered", "prepare_failed",
                      "process_timeout", "invalid_job"}

\* begin_session.  A root left half swapped starts as the version its
\* executable is of.
BeginSession ==
    /\ BecomeApplication
    /\ \E version \in IF installed = 0 THEN {old, fresh.of} \ {0} ELSE {installed} :
          /\ running' = version
          /\ cleanup' = IF HealthyStart(result, version) THEN "all" ELSE "not_recovery"
    /\ restore' = TRUE
    /\ UNCHANGED <<checkVars, ready, record,
                   downloadVars, prestageVars>>

\* cleanup_after_launch: recovery material, the staged tree, the pending job,
\* and packages that are neither newer than this version nor the verified one.
CleanupFiles ==
    /\ IF cleanup = "all" THEN old' = 0 /\ fresh' = NoTree /\ backup' = 0
                          ELSE UNCHANGED <<old, fresh, backup>>
    /\ staging' = NoTree /\ job' = NoJob
    /\ archives' = {v \in archives : v > running \/ v = verified}

CleanupFrame == <<installed, damaged, journal, swaps, marker, result, seen, updaters, startup,
                  faults, running, checkVars, readyVars, downloadVars,
                  prestageVars>>

CleanupUnderJournal ==
    /\ Responsive /\ cleanup # "none"
    /\ cleanup' = "none"
    /\ IF UpdaterActive THEN UNCHANGED <<old, fresh, backup, staging, job, archives>>
                        ELSE CleanupFiles
    /\ UNCHANGED CleanupFrame

\* _start_post_launch_cleanup and its thread: nothing is touched while an
\* updater runs or a journal waits to be undone.
CleanupAfterLaunch ==
    /\ Responsive /\ cleanup # "none"
    /\ cleanup' = "none"
    /\ IF UpdaterActive \/ JournalExists
       THEN UNCHANGED <<old, fresh, backup, staging, job, archives>>
       ELSE CleanupFiles
    /\ UNCHANGED CleanupFrame

-----------------------------------------------------------------------------
\* The ready record, the pre-extraction

\* _maybe_prestage, for a verified manifest m, if the gate is open.
MaybePrestage(m) ==
    \/ /\ m \in archives /\ prestage = NoPrestage /\ prestaged # m
       /\ prestage' = [of |-> m, step |-> "clear"]
    \/ UNCHANGED prestage

\* _drop_ready and discard_ready_record: the record goes with its package.
DropReady ==
    /\ ready' = 0 /\ record' = 0 /\ prestaged' = 0
    /\ archives' = archives \ {record}

\* load_ready_update and _on_ready_restored.  Signature, version and package
\* are verified again; what fails is discarded with its package, and so is a
\* record that a check has superseded.  A check in flight decides itself.
RestoreReady ==
    /\ Responsive /\ restore
    /\ restore' = FALSE
    /\ LET valid == record > running /\ record \in archives
           offered == valid /\ ~checking /\ available \in {0, record}
       IN
       /\ ready' = IF offered \/ (valid /\ checking) THEN record ELSE ready
       /\ IF offered \/ (valid /\ checking)
          THEN UNCHANGED <<record, archives>>
          ELSE record' = 0 /\ archives' = archives \ {record}
       /\ IF offered
          THEN /\ verified' = record /\ available' = record
               /\ state' = "ready" /\ MaybePrestage(record) /\ UNCHANGED prestaged
          ELSE /\ UNCHANGED <<verified, available, state, prestage>>
               /\ prestaged' = IF valid /\ ~checking THEN 0 ELSE prestaged
    /\ UNCHANGED <<root, journal, swaps, backup, staging, files, updaters, startup,
                   faults, sessionVars, checking, verificationFailed,
                   downloadWhenVerified, checks, download>>

\* The prestage thread: validate, clear the staging directory, extract, and
\* _on_prestage_finished.
PrestageClears ==
    /\ app # "down" /\ prestage.step = "clear"
    /\ IF prestage.of \in archives
       THEN /\ staging' = [of |-> prestage.of, whole |-> FALSE]
            /\ prestage' = [prestage EXCEPT !.step = "extract"] /\ UNCHANGED prestaged
       ELSE prestage' = NoPrestage /\ prestaged' = 0 /\ UNCHANGED staging
    /\ UNCHANGED <<root, journal, swaps, backup, archives, files, updaters, startup,
                   faults, sessionVars, checkVars, readyVars, downloadVars>>

\* What a cleanup removed meanwhile is missing from the tree.
PrestageFinishes ==
    /\ Responsive /\ prestage.step = "extract"
    /\ prestage' = NoPrestage
    /\ \/ /\ staging' = [of |-> prestage.of, whole |-> staging # NoTree]
          /\ prestaged' = prestage.of /\ UNCHANGED faults
       \/ Fault /\ prestaged' = 0 /\ UNCHANGED staging
    /\ UNCHANGED <<root, journal, swaps, backup, archives, files, updaters, startup,
                   sessionVars, checkVars, readyVars, downloadVars>>

-----------------------------------------------------------------------------
\* Checks

\* _start_check by the timer or the user; one at a time.
StartCheck ==
    /\ Responsive /\ ~checking /\ checks < MaxChecks
    /\ checking' = TRUE /\ checks' = checks + 1
    /\ UNCHANGED <<updaterVars, sessionVars, verified, available, verificationFailed,
                   downloadWhenVerified, readyVars, downloadVars,
                   prestageVars>>

\* _finish_check without an answer.
FinishCheckFailed ==
    /\ Responsive /\ checking
    /\ checking' = FALSE /\ downloadWhenVerified' = FALSE
    /\ verified' = 0 /\ verificationFailed' = FALSE
    /\ state' = IF downloadWhenVerified THEN "none" ELSE state
    /\ UNCHANGED <<updaterVars, sessionVars, available, checks,
                   readyVars, download, prestageVars>>

\* The newest release v has no manifest that verifies.
FinishCheckUnverified(v) ==
    /\ Responsive /\ checking /\ v > running
    /\ checking' = FALSE /\ downloadWhenVerified' = FALSE
    /\ verified' = 0 /\ verificationFailed' = TRUE
    /\ available' = 0 /\ state' = "none"
    /\ IF ready # 0 THEN DropReady
                    ELSE UNCHANGED <<ready, record, prestaged, archives>>
    /\ UNCHANGED <<root, journal, swaps, backup, staging, files, updaters, startup,
                   faults, sessionVars, checks, restore, download,
                   prestage>>

\* The newest release is v.  A ready package of another version goes; a new
\* release is downloaded if the supporter's automation or the user's waiting
\* click asks for it.
FinishCheckOfAnyVersion(v) ==
    /\ Responsive /\ checking
    /\ checking' = FALSE /\ downloadWhenVerified' = FALSE
    /\ verificationFailed' = FALSE
    /\ verified' = v /\ available' = v
    /\ IF ready \notin {0, v} THEN DropReady
                              ELSE UNCHANGED <<ready, record, prestaged, archives>>
    /\ state' = "downloading"
    /\ download' = IF download = NoDownload THEN [of |-> v, done |-> FALSE] ELSE download
    /\ UNCHANGED <<root, journal, swaps, backup, staging, files, updaters, startup,
                   faults, sessionVars, checks, restore, prestage>>

FinishCheck(v) ==
    LET newer == v > running
        keeps == newer /\ ready = v
        drops == ready # 0 /\ ~keeps
        auto(gate) == /\ gate /\ newer /\ ~keeps
                      /\ download = NoDownload
    IN
    /\ Responsive /\ checking
    /\ checking' = FALSE /\ downloadWhenVerified' = FALSE
    /\ verificationFailed' = FALSE
    /\ verified' = (IF newer THEN v ELSE 0) /\ available' = v
    /\ IF drops THEN DropReady ELSE UNCHANGED <<ready, record, prestaged, archives>>
    /\ \E gate \in BOOLEAN :
          LET fetch == auto(gate) \/ (downloadWhenVerified /\ newer) IN
          /\ state' = CASE fetch -> "downloading"
                        [] ~fetch /\ (downloadWhenVerified \/ drops) -> "none"
                        [] ~fetch /\ ~downloadWhenVerified /\ keeps -> "ready"
                        [] OTHER -> state
          /\ download' = IF fetch /\ download = NoDownload
                         THEN [of |-> v, done |-> FALSE] ELSE download
    /\ IF keeps THEN MaybePrestage(v) ELSE UNCHANGED prestage
    /\ UNCHANGED <<root, journal, swaps, backup, staging, files, updaters, startup,
                   faults, sessionVars, checks, restore>>

-----------------------------------------------------------------------------
\* Downloads

\* start_download by the user.  A release that only the settings remember has
\* no manifest yet: the click waits for a check.
UserDownloads ==
    /\ Responsive /\ state \in {"none", "error"}
    /\ state' = "downloading"
    /\ \/ /\ verified = 0 \/ available = 0
          /\ ~verificationFailed
          /\ checking \/ checks < MaxChecks
          /\ downloadWhenVerified' = TRUE /\ checking' = TRUE
          /\ checks' = IF checking THEN checks ELSE checks + 1
          /\ UNCHANGED download
       \/ /\ verified # 0 /\ available # 0
          /\ download' = IF download = NoDownload
                         THEN [of |-> verified, done |-> FALSE] ELSE download
          /\ UNCHANGED <<downloadWhenVerified, checking, checks>>
    /\ UNCHANGED <<updaterVars, sessionVars, verified, available, verificationFailed,
                   readyVars, prestageVars>>

\* The file gets its final name after its full hash matched.
PromotePackage ==
    /\ app # "down" /\ download.of # 0 /\ ~download.done
    /\ download' = [download EXCEPT !.done = TRUE]
    /\ archives' = archives \cup {download.of}
    /\ UNCHANGED <<root, journal, swaps, backup, staging, files, updaters, startup,
                   faults, sessionVars, checkVars, readyVars, state,
                   prestageVars>>

\* _finish_download: the record is written for the manifest that is verified
\* now, whatever was downloaded.
FinishDownload ==
    /\ Responsive /\ download.of # 0
    /\ download' = NoDownload
    /\ \/ /\ ~download.done /\ state' = "error" /\ UNCHANGED <<record, prestage>>
       \/ /\ download.done /\ state' = "ready"
          /\ record' = IF verified # 0 THEN verified ELSE record
          /\ MaybePrestage(verified)
    /\ UNCHANGED <<updaterVars, sessionVars, checkVars, ready, restore, prestaged>>

-----------------------------------------------------------------------------
\* The hand-off

\* begin_restart_and_update and what it refuses.
CanHandOff ==
    /\ verified \in archives /\ prestage = NoPrestage /\ ~UpdaterActive

MustExtract == prestaged # verified \/ staging = NoTree

\* The tree is extracted unless the prestaged one is there, the job is written,
\* the updater started.
HandOff(restart) ==
    /\ CanHandOff
    /\ IF MustExtract
       THEN staging' = [of |-> verified, whole |-> TRUE]
       ELSE UNCHANGED staging
    /\ job' = [to |-> verified, restart |-> restart]
    /\ LaunchUpdater("install")
    /\ prestaged' = 0 /\ state' = "installing"
    /\ UNCHANGED <<root, journal, swaps, backup, archives, marker, result, seen, holder,
                   relaunching, guard, failedOpen, launches, faults, running,
                   cleanup, checkVars, readyVars, download, prestage>>

\* request_restart_for_update; 150 ms later the application shuts down.
UserRestarts ==
    /\ Responsive /\ state = "ready"
    /\ HandOff(TRUE) /\ app' = "closing"

\* Popen fails: the tree and the job stay, the application goes on.
HandOffFails ==
    /\ Responsive /\ state = "ready" /\ CanHandOff /\ Fault
    /\ job' = [to |-> verified, restart |-> TRUE]
    /\ staging' = IF MustExtract THEN [of |-> verified, whole |-> TRUE] ELSE staging
    /\ UNCHANGED <<root, journal, swaps, backup, archives, marker, result, seen,
                   updaters, startup, serviceVars>>

\* install_on_exit_ready
InstallOnExitReady ==
    /\ state = "ready" /\ verified > running
    /\ prestaged = verified /\ CanHandOff

\* A clean exit by the user: begin_install_on_exit.
QuitInstalling ==
    /\ Responsive /\ InstallOnExitReady
    /\ HandOff(FALSE) /\ app' = "exiting"

\* Every other end of the process, and the last step of a shutdown.
ApplicationEnds ==
    /\ app # "down"
    /\ app' = "down" /\ running' = 0 /\ cleanup' = "none"
    /\ checking' = FALSE /\ verified' = 0 /\ available' = 0
    /\ verificationFailed' = FALSE /\ downloadWhenVerified' = FALSE
    /\ ready' = 0 /\ restore' = FALSE
    /\ state' = "none" /\ download' = NoDownload
    /\ prestaged' = 0 /\ prestage' = NoPrestage
    /\ UNCHANGED <<root, disk, files, updaters, guard, failedOpen, launches, faults,
                   checks, record>>

-----------------------------------------------------------------------------
ServiceStep ==
    \/ BeginSession \/ CleanupAfterLaunch
    \/ RestoreReady
    \/ PrestageClears \/ PrestageFinishes
    \/ StartCheck \/ FinishCheckFailed
    \/ \E v \in Version : FinishCheckUnverified(v) \/ FinishCheck(v)
    \/ UserDownloads \/ PromotePackage \/ FinishDownload
    \/ UserRestarts \/ HandOffFails \/ QuitInstalling \/ ApplicationEnds

Next ==
    \/ (UpdaterStep \/ GuardStep) /\ UNCHANGED serviceVars
    \/ ServiceStep

\* The updater's own steps: everything but being started and being killed.
UpdaterRuns ==
    /\ \/ \E k \in Kind : AcquireMutex(k)
       \/ LoadJob \/ LoadJournal \/ WaitForInstallProcesses \/ WaitTimeout
       \/ RecoverInterruptedInstall \/ Prepare \/ Verify \/ BeginSwap \/ EndSwap
       \/ Commit \/ ConsumeLaunchRequest \/ WriteResult \/ ReleaseMutex
    /\ UNCHANGED serviceVars

GuardRuns ==
    \/ /\ \/ GuardChecksMutex \/ GuardRequestsLaunch \/ GuardChecksJournal
          \/ SecondInstanceExits
       /\ UNCHANGED serviceVars
    \/ BeginSession

\* A started updater and a launched process run until they end.  No fairness
\* for users, the network, or the threads of the service.
Spec ==
    /\ Init /\ [][Next]_vars
    /\ WF_vars(UpdaterRuns) /\ WF_vars(GuardRuns)
    /\ WF_vars(\E r \in relaunching : RestartApplication(r) /\ UNCHANGED serviceVars)

-----------------------------------------------------------------------------
\* Properties

\* From the end of its wait to the commit the updater works on an install
\* directory the application does not run from, unless the launch guard or the
\* look for processes failed.  A launched process that is still in the guard runs
\* from it too, and leaves.
InstallNotInUse ==
    pc \in {"rewind", "prepare", "verify", "swap", "swapping", "commit"}
    /\ app # "down" => failedOpen

\* Without a journal the install directory is one complete release: what was
\* staged, pre-extracted, cleaned away or left by an earlier hand-off, no half
\* tree is ever committed.  (Entries that a restore from the backup, cut short,
\* destroyed are InstallTransaction's subject.)
InstalledIsComplete == ~JournalExists => installed # 0

\* While the journal says that a swap may have to be undone, the moved-aside
\* release is there, whatever the cleanup of an application does.
JournalCanBeUndone == JournalExists => old # 0

\* An updater never replaces a release by an older one, however late it runs
\* and whichever job it finds; an application that ran beside an updater can be
\* older than the installed release and is excepted.
NeverInstallsOlder ==
    pc \in {"swap", "swapping", "commit"} /\ ~failedOpen =>
        task.to >= (IF JournalExists THEN old ELSE installed)

Atomic ==
    INSTANCE AtomicUpdate
        WITH release <- IF JournalExists THEN old ELSE installed,
             interrupted <- JournalExists, job <- job.to, unguarded <- failedOpen

\* The whole system, with its updaters, guard, journal, staging and cleanup, is
\* an atomic update: nothing changes the installation in use, a swap ends in the
\* release of the job or in the one before it, and the releases only go up.
ImplementsAtomicUpdate == Atomic!Spec

\* While a journal exists the install, .update-old and .update-new change only by
\* the steps InstallTransaction is shown to take them through: no cleanup, download
\* or second updater touches them.
OnlySwapsUnderJournal == [][JournalExists => UnderJournal]_vars

\* Every launch is deferred while an updater holds the mutex: it is always
\* released, also when the application it waits for stays.
MutexIsReleased == UpdaterActive ~> ~UpdaterActive

\* docs/UPDATE_RELEASE_SIGNING.md and begin_install_on_exit: at exit nothing
\* is extracted.  The cleanup 30 seconds after the launch removes the
\* prestaged tree, and begin_restart_and_update extracts it again.
ExitNeverExtracts ==
    [][app # "exiting" /\ app' = "exiting" => staging' = staging]_vars
=============================================================================
