--------------------------- MODULE UpdaterProcess ---------------------------
(***************************************************************************)
(* updater/install.py and app/updates/startup_guard.py: the external       *)
(* updater from its launch to the relaunch of ExileLens, and the guard     *)
(* every launch of ExileLens passes first.  They share a named mutex, the  *)
(* update directory in app data, and the install directory.                *)
(*                                                                         *)
(* The swap itself is InstallTransaction's; here it is three steps (begin, *)
(* end, commit), each of which can fail.  A directory holds a version (0:  *)
(* nothing whole); a staged tree is a version and whether it is complete.  *)
(*                                                                         *)
(* Any number of updaters may have been started; one of them, at pc, holds *)
(* the mutex, the ones in "starting" have not tried to take it, and those  *)
(* in "relaunching" have released it.  This module has no specification of *)
(* its own: UpdateService adds the application and composes both.          *)
(***************************************************************************)
EXTENDS Naturals, FiniteSets

CONSTANTS
    MaxVersion,     \* releases are 1..MaxVersion, 1 the one installed first
    MaxUpdaters,    \* bound: updaters started and not yet at the mutex
    MaxLaunches,    \* bound: launches of ExileLens
    MaxFaults       \* bound: raised errors and killed updaters

ASSUME VersionAssumption == MaxVersion \in Nat \ {0, 1}
ASSUME BoundAssumption ==
    MaxUpdaters \in Nat /\ MaxLaunches \in Nat /\ MaxFaults \in Nat

Version == 1..MaxVersion
Maybe(S) == S \cup {0}
Kind == {"install", "recover"}
Outcome == {"success", "restored", "restore_failed", "recovered", "prepare_failed",
            "process_timeout", "invalid_job", "relaunch_failed"}

NoTree == [of |-> 0, whole |-> FALSE]
NoJob == [to |-> 0, restart |-> FALSE]
NoResult == [outcome |-> "none", to |-> 0, at |-> 0]

VARIABLES
    installed, old, fresh,      \* install root, .update-old, .update-new
    damaged,                    \* a restore from the backup destroyed entries of
                                \* the install and has not brought them back
    journal, swaps,             \* journal.json (the swap that wrote it; 0: none),
                                \* and the number of swaps begun, which dates things
    backup, archives, staging,  \* backup, downloaded packages, staged tree
    job, marker, result,        \* pending.json, launch_requested, last_result.json
    seen,                       \* date of the consumed result, if restore_failed
    starting,                   \* started updaters, by kind
    pc, kind, task, outcome, wants, \* the updater that holds the mutex
    relaunching,                \* results of updaters about to relaunch
    guard,                      \* a launched ExileLens before it is the application
    app,                        \* the application
    launches, faults,           \* counters for the bounds
    failedOpen                  \* history: a launch guard, or an updater's look for
                                \* processes, has failed and let the two overlap

root == <<installed, old, fresh, damaged>>
disk == <<journal, swaps, backup, archives, staging>>
files == <<job, marker, result, seen>>
holder == <<pc, kind, task, outcome, wants>>
updaters == <<starting, holder, relaunching>>
startup == <<guard, app, failedOpen, launches>>
updaterVars == <<root, disk, files, updaters, startup, faults>>

Tree == [of : Maybe(Version), whole : BOOLEAN]
Job == [to : Maybe(Version), restart : BOOLEAN]
Result == [outcome : Outcome, to : Maybe(Version), at : Nat]

UpdaterTypeOK ==
    /\ installed \in Maybe(Version) /\ old \in Maybe(Version) /\ fresh \in Tree
    /\ damaged \in BOOLEAN
    /\ journal \in Nat /\ swaps \in Nat
    /\ backup \in Maybe(Version) /\ archives \subseteq Version /\ staging \in Tree
    /\ job \in Job /\ marker \in BOOLEAN /\ result \in Result \cup {NoResult} /\ seen \in Nat
    /\ starting \in [Kind -> Nat]
    /\ pc \in {"idle", "load", "wait", "rewind", "prepare", "verify", "swap",
               "swapping", "commit", "marker", "finish", "release"}
    /\ kind \in Kind /\ task \in Job /\ outcome \in Outcome \cup {"none"}
    /\ wants \in BOOLEAN /\ relaunching \subseteq Result
    /\ guard \in {"none", "mutex", "mark", "journal", "open"}
    /\ app \in {"down", "up", "closing", "exiting"} /\ failedOpen \in BOOLEAN
    /\ launches \in Nat /\ faults \in Nat

UpdaterInit ==
    /\ installed = 1 /\ old = 0 /\ fresh = NoTree /\ damaged = FALSE
    /\ journal = 0 /\ swaps = 0
    /\ backup = 0 /\ staging = NoTree
    /\ job = NoJob /\ marker = FALSE /\ result = NoResult /\ seen = 0
    /\ starting = [k \in Kind |-> 0]
    /\ pc = "idle" /\ kind = "install" /\ task = NoJob /\ outcome = "none"
    /\ wants = FALSE /\ relaunching = {}
    /\ guard = "none" /\ app = "down" /\ failedOpen = FALSE
    /\ launches = 0 /\ faults = 0

\* winsys.updater_mutex_active
UpdaterActive == pc # "idle"

\* winsys.processes_running_from(install_root)
ProcessesRunning == guard # "none" \/ app # "down"

JournalExists == journal # 0

Fault == faults < MaxFaults /\ faults' = faults + 1

\* bootstrap.launch_updater: Popen of a detached process.
LaunchUpdater(k) ==
    /\ starting["install"] + starting["recover"] < MaxUpdaters
    /\ starting' = [starting EXCEPT ![k] = @ + 1]

-----------------------------------------------------------------------------
\* The updater

Goto(step) == pc' = step
\* The process ends, and the mutex with it.
Leave ==
    /\ Goto("idle") /\ kind' = "install" /\ task' = NoJob
    /\ outcome' = "none" /\ wants' = FALSE
\* _finish is next, with or without a look at the launch request first.
End(step, result_) == Goto(step) /\ outcome' = result_

\* acquire_updater_mutex: the second updater leaves without a result.
AcquireMutex(k) ==
    /\ starting[k] > 0
    /\ starting' = [starting EXCEPT ![k] = @ - 1]
    /\ IF UpdaterActive
       THEN UNCHANGED holder
       ELSE /\ Goto("load") /\ kind' = k /\ UNCHANGED <<task, outcome, wants>>
    /\ UNCHANGED <<root, disk, files, relaunching, startup, faults>>

\* load_job: pending.json as it is now, and its layout checks; an install
\* root half swapped or damaged may or may not look like one.
LoadJob ==
    /\ pc = "load" /\ kind = "install"
    /\ \/ /\ job # NoJob /\ Goto("wait") /\ task' = job /\ UNCHANGED outcome
       \/ /\ job = NoJob \/ installed = 0 \/ damaged
          /\ End("finish", "invalid_job") /\ UNCHANGED task
    /\ UNCHANGED <<root, disk, files, starting, kind, wants, relaunching,
                   startup, faults>>

\* run_recovery: without a journal there is nothing to recover or report.
LoadJournal ==
    /\ pc = "load" /\ kind = "recover"
    /\ IF JournalExists THEN Goto("wait") /\ UNCHANGED <<kind, task, outcome, wants>>
                        ELSE Leave
    /\ UNCHANGED <<root, disk, files, starting, relaunching, startup, faults>>

\* Mutant: the updater does not look for processes.
WaitWithoutProcesses ==
    /\ pc = "wait"
    /\ Goto("rewind")
    /\ UNCHANGED <<root, disk, files, starting, kind, task, outcome, wants,
                   relaunching, startup, faults>>

\* wait_for_install_processes: a snapshot or a process that cannot be opened reads as no processes.
WaitForInstallProcesses ==
    /\ pc = "wait"
    /\ Goto("rewind")
    /\ \/ ~ProcessesRunning /\ UNCHANGED <<failedOpen, faults>>
       \/ ProcessesRunning /\ Fault /\ failedOpen' = TRUE
    /\ UNCHANGED <<root, disk, files, starting, kind, task, outcome, wants,
                   relaunching, guard, app, launches>>

\* 120 seconds later somebody still runs: only run_recovery looks at the
\* launch request before it gives up.
WaitTimeoutUnreported ==
    /\ pc = "wait" /\ ProcessesRunning
    /\ Goto(IF kind = "install" THEN "finish" ELSE "marker")
    /\ UNCHANGED <<root, disk, files, starting, kind, task, outcome, wants,
                   relaunching, startup, faults>>

WaitTimeoutOfRecoveryOnly ==
    /\ pc = "wait" /\ ProcessesRunning /\ kind = "recover"
    /\ End("marker", "process_timeout")
    /\ UNCHANGED <<root, disk, files, starting, kind, task, wants,
                   relaunching, startup, faults>>

WaitTimeout ==
    /\ pc = "wait" /\ ProcessesRunning
    /\ End(IF kind = "install" THEN "finish" ELSE "marker", "process_timeout")
    /\ UNCHANGED <<root, disk, files, starting, kind, task, wants,
                   relaunching, startup, faults>>

\* transaction.undo: the renamed entries go back, or the backup is copied
\* over, which repairs what an earlier copy destroyed; the removal of
\* .update-old afterwards is allowed to fail.
Undo ==
    /\ installed' \in {old, backup} \ {0} /\ damaged' \in {damaged, FALSE}
    /\ journal' = 0 /\ fresh' = NoTree /\ old' \in {0, old}

\* An undo cut short: the journal stays, the root is neither version; a restore
\* from the backup may have destroyed an entry, or brought one back.
UndoCutShort ==
    /\ installed' = 0 /\ damaged' \in BOOLEAN
    /\ UNCHANGED <<journal, old, fresh>>

UndoFails == UndoCutShort /\ Fault

\* recover_interrupted_install, first thing after the wait.  An undo that fails is
\* returned, or raised (the journal cannot be unlinked): then the launch request is
\* looked at.
RecoverInterruptedInstall ==
    /\ pc = "rewind"
    /\ \/ /\ ~JournalExists /\ kind = "install" /\ Goto("prepare")
          /\ UNCHANGED <<root, journal, kind, task, outcome, wants, faults>>
       \/ /\ ~JournalExists /\ kind = "recover" /\ Leave
          /\ UNCHANGED <<root, journal, faults>>
       \/ /\ JournalExists /\ old # 0 /\ Undo
          /\ IF kind = "install" THEN Goto("prepare") /\ UNCHANGED outcome
                                 ELSE End("marker", "recovered")
          /\ UNCHANGED <<kind, task, wants, faults>>
       \/ /\ JournalExists /\ old = 0
          /\ End(IF kind = "install" THEN "finish" ELSE "marker", "restore_failed")
          /\ UNCHANGED <<root, journal, faults, kind, task, wants>>
       \/ /\ JournalExists /\ UndoFails
          /\ \/ kind = "install" /\ End("finish", "restore_failed")
             \/ End("marker", "restore_failed")
          /\ UNCHANGED <<kind, task, wants>>
    /\ UNCHANGED <<swaps, backup, archives, staging, files, starting,
                   relaunching, startup>>

\* transaction.prepare, up to the copy: the leftover .update-old goes, the
\* package must have the signed size and hash, the staged tree must look like
\* an install root.
Prepare ==
    /\ pc = "prepare"
    /\ old' = 0
    /\ IF task.to \in archives /\ staging # NoTree
       THEN Goto("verify") /\ fresh' = staging /\ UNCHANGED outcome
       ELSE End("marker", "prepare_failed") /\ fresh' = NoTree
    /\ UNCHANGED <<damaged, installed, disk, files, starting, kind, task, wants,
                   relaunching, startup, faults>>

\* verify_tree_against_zip on the copy, then the backup.
VerifyNothing ==
    /\ pc = "verify"
    /\ Goto("swap") /\ backup' = installed /\ UNCHANGED <<fresh, outcome>>
    /\ UNCHANGED <<damaged, installed, old, journal, swaps, archives, staging, files,
                   starting, kind, task, wants, relaunching, startup, faults>>

Verify ==
    /\ pc = "verify"
    /\ IF fresh = [of |-> task.to, whole |-> TRUE]
       THEN Goto("swap") /\ backup' = installed /\ UNCHANGED <<fresh, outcome>>
       ELSE End("marker", "prepare_failed") /\ fresh' = NoTree /\ UNCHANGED backup
    /\ UNCHANGED <<damaged, installed, old, journal, swaps, archives, staging, files,
                   starting, kind, task, wants, relaunching, startup, faults>>

\* An OSError anywhere in prepare, or before the journal is written.
PrepareFails ==
    /\ pc \in {"prepare", "verify", "swap"} /\ Fault
    /\ End("marker", "prepare_failed") /\ fresh' = NoTree
    /\ UNCHANGED <<damaged, installed, old, disk, files, starting, kind, task, wants,
                   relaunching, startup>>

\* transaction.swap: .update-old, the journal, and the first renames.
BeginSwap ==
    /\ pc = "swap"
    /\ Goto("swapping") /\ old' = installed /\ installed' = 0
    /\ swaps' = swaps + 1 /\ journal' = swaps + 1
    /\ UNCHANGED <<fresh, damaged, backup, archives, staging, files, starting, kind, task,
                   outcome, wants, relaunching, startup, faults>>

\* The last rename of the swap.
MoveIn ==
    /\ installed' = IF fresh.whole THEN fresh.of ELSE 0
    /\ UNCHANGED <<old, fresh, damaged, journal>>

EndSwap ==
    /\ pc = "swapping"
    /\ Goto("commit") /\ MoveIn
    /\ UNCHANGED <<swaps, backup, archives, staging, files, starting, kind, task, outcome,
                   wants, relaunching, startup, faults>>

\* Only .update-new is removed.
FreshRemoved == fresh' \in {fresh, NoTree} /\ UNCHANGED <<installed, old, damaged, journal>>

\* A rename fails and the journal is undone, or cannot be read: "nothing was moved
\* yet", .update-new goes and the journal stays.  Or the journal cannot be unlinked,
\* which the last-resort handler reports as a failed restore.
SwapFails ==
    /\ \/ pc = "swapping" /\ Fault /\ Undo /\ End("marker", "restored")
       \/ pc = "swapping" /\ UndoFails /\ End("marker", "restore_failed")
       \/ pc = "swapping" /\ Fault /\ FreshRemoved /\ End("marker", "prepare_failed")
       \/ /\ pc = "commit" /\ Fault /\ UNCHANGED <<root, journal>>
          /\ End("marker", "restore_failed")
    /\ UNCHANGED <<swaps, backup, archives, staging, files, starting, kind, task,
                   wants, relaunching, startup>>

\* The journal is unlinked: the commit point.  The package may replace what
\* was damaged.
Unlink ==
    /\ journal' = 0 /\ fresh' = NoTree /\ damaged' \in {damaged, FALSE}
    /\ UNCHANGED <<installed, old>>

Commit ==
    /\ pc = "commit"
    /\ End("marker", "success") /\ Unlink
    /\ UNCHANGED <<swaps, backup, archives, staging, files,
                   starting, kind, task, wants, relaunching, startup, faults>>

\* All that is done to the install while a journal exists, by whichever updater:
\* what this module takes from InstallTransaction.
UnderJournal ==
    \/ pc = "swapping" /\ pc' = "commit" /\ MoveIn
    \/ pc = "commit" /\ installed = fresh.of /\ fresh.whole /\ Unlink
    \/ /\ pc \in {"rewind", "swapping"} /\ pc' # "commit"
       /\ old # 0 /\ (Undo \/ UndoCutShort)
    \/ pc = "swapping" /\ pc' # "commit" /\ FreshRemoved
    \/ (pc' = "commit" => pc = "commit") /\ UNCHANGED <<root, journal>>

-----------------------------------------------------------------------------
\* The end of a run: launch request, result, mutex, relaunch

MayRelaunch ==
    \/ kind = "install" /\ outcome \in {"success", "restored", "recovered", "prepare_failed"}
    \/ kind = "recover" /\ outcome = "recovered"

\* What an updater decides after its look at the launch request; run_recovery
\* is only started with --restart, and needs a root that looks like one.
DecideRelaunch ==
    LET asked == marker \/ kind = "recover" \/ task.restart IN
    \E startable \in {TRUE, ~damaged} :
       wants' = (MayRelaunch /\ asked /\ (kind = "recover" => startable))

\* _consume_launch_request
ConsumeLaunchRequest ==
    /\ pc = "marker"
    /\ Goto("finish") /\ marker' = FALSE
    /\ DecideRelaunch
    /\ UNCHANGED <<root, disk, job, result, seen, starting, kind, task, outcome,
                   relaunching, startup, faults>>

Report == [outcome |-> outcome, to |-> task.to, at |-> swaps]

\* _write: an OSError is logged and the run goes on without a result file.
WriteResult ==
    /\ pc = "finish"
    /\ Goto("release")
    /\ \/ result' = Report /\ UNCHANGED faults
       \/ UNCHANGED result /\ Fault
    /\ UNCHANGED <<root, disk, job, marker, seen, starting, kind, task, outcome,
                   wants, relaunching, startup>>

ReleaseMutex ==
    /\ pc = "release"
    /\ Leave
    /\ relaunching' = IF wants THEN relaunching \cup {Report} ELSE relaunching
    /\ UNCHANGED <<root, disk, files, starting, startup, faults>>

\* restart_application, after the release; a failure after a success is
\* written over the result.
RestartApplication(r) ==
    /\ r \in relaunching
    /\ relaunching' = relaunching \ {r}
    /\ \/ guard = "none" /\ guard' = "mutex" /\ UNCHANGED <<result, faults>>
       \/ /\ Fault /\ UNCHANGED guard
          /\ result' = IF r.outcome = "success"
                       THEN [r EXCEPT !.outcome = "relaunch_failed"] ELSE result
    /\ UNCHANGED <<root, disk, job, marker, seen, starting, holder,
                   app, failedOpen, launches>>

\* The process is killed: the OS drops the mutex, the disk stays, in the middle
\* of an undo too.
UpdaterKilled ==
    /\ UpdaterActive /\ Fault
    /\ Leave
    /\ \/ UNCHANGED <<root, journal>>
       \/ pc \in {"rewind", "swapping"} /\ JournalExists /\ old # 0 /\ UndoCutShort
    /\ UNCHANGED <<swaps, backup, archives, staging, files, starting, relaunching,
                   startup>>

-----------------------------------------------------------------------------
\* The startup guard of a launched ExileLens

GuardUnchanged == <<root, disk, updaters, launches>>

UserLaunches ==
    /\ guard = "none" /\ launches < MaxLaunches
    /\ guard' = "mutex" /\ launches' = launches + 1
    /\ UNCHANGED <<root, disk, files, updaters, app, failedOpen, faults>>

GuardChecksMutex ==
    /\ guard = "mutex"
    /\ guard' = IF UpdaterActive THEN "mark" ELSE "journal"
    /\ UNCHANGED <<GuardUnchanged, files, app, failedOpen, faults>>

\* _request_launch, and the process exits; an exception here lets it start.
GuardRequestsLaunch ==
    /\ guard = "mark"
    /\ \/ marker' = TRUE /\ guard' = "none" /\ UNCHANGED faults
       \/ Fault /\ guard' = "open" /\ UNCHANGED marker
    /\ UNCHANGED <<GuardUnchanged, job, result, seen, app, failedOpen>>

RestoreFailed(r) == r.outcome = "restore_failed"

\* _recovery_already_failed: a result, consumed or not, at least as young as
\* the journal.
RecoveryAlreadyFailed ==
    (RestoreFailed(result) /\ result.at >= journal) \/ seen >= journal

GuardChecksJournal ==
    /\ guard = "journal" /\ JournalExists /\ ~RecoveryAlreadyFailed
    /\ \/ LaunchUpdater("recover") /\ guard' = "none" /\ UNCHANGED faults
       \/ Fault /\ guard' = "open" /\ UNCHANGED starting
    /\ UNCHANGED <<root, disk, files, holder, relaunching, launches,
                   app, failedOpen>>

PastGuard ==
    \/ guard = "open"
    \/ guard = "journal" /\ (~JournalExists \/ RecoveryAlreadyFailed)

\* The single-instance lock: a second instance hands over and exits.
SecondInstanceExits ==
    /\ PastGuard /\ app # "down"
    /\ guard' = "none"
    /\ UNCHANGED <<GuardUnchanged, files, app, failedOpen, faults>>

\* The application starts; begin_session consumes the result of the last
\* updater (os.replace onto last_result.seen.json).
BecomeApplication ==
    /\ PastGuard /\ app = "down"
    /\ guard' = "none" /\ app' = "up"
    /\ failedOpen' = (failedOpen \/ guard = "open")
    /\ IF result = NoResult
       THEN UNCHANGED <<result, seen>>
       ELSE /\ seen' = IF RestoreFailed(result) THEN result.at ELSE 0
            /\ result' = NoResult
    /\ UNCHANGED <<GuardUnchanged, job, marker, faults>>

UpdaterStep ==
    \/ \E k \in Kind : AcquireMutex(k)
    \/ LoadJob \/ LoadJournal
    \/ WaitForInstallProcesses \/ WaitTimeout
    \/ RecoverInterruptedInstall
    \/ Prepare \/ Verify \/ PrepareFails
    \/ BeginSwap \/ EndSwap \/ SwapFails \/ Commit
    \/ ConsumeLaunchRequest \/ WriteResult \/ ReleaseMutex
    \/ \E r \in relaunching : RestartApplication(r)
    \/ UpdaterKilled

GuardStep ==
    \/ UserLaunches \/ GuardChecksMutex \/ GuardRequestsLaunch \/ GuardChecksJournal
    \/ SecondInstanceExits
=============================================================================
