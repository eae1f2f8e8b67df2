------------------------------ MODULE ItemCheck ------------------------------
(***************************************************************************)
(* Item Checks against a build file that changes while they run:           *)
(* app/controller.py (GUI thread), _EvaluationWorker (worker thread) and   *)
(* engine.py (the client of the PoB process).                              *)
(*                                                                         *)
(* The GUI thread decides from what it remembers of the file (parsed) and  *)
(* of the baseline whether a copied item is evaluated, held back until a   *)
(* load settles, or answered from the cache; the worker thread looks at    *)
(* the file again when it evaluates and when it captures a baseline; the   *)
(* PoB process may die (a hang is killed by the client: the same).         *)
(*                                                                         *)
(* The lane is PobScheduler, with checks ("gameplay") and loads            *)
(* ("baseline") only; PobLane models the other kinds.  The build has one   *)
(* path, so change_build's fallback to a previous path never applies, and  *)
(* checks copy one item, so the result cache is one entry.  File revisions *)
(* are numbered in the order they are saved.  Any read may find the file   *)
(* unreadable (half saved, shared); PoB rejects the revisions in "bad" and *)
(* otherwise answers while the process lives.                              *)
(***************************************************************************)
EXTENDS PobScheduler

CONSTANTS
    Checks, Loads,      \* request ids of Item Checks and of baseline jobs
    NoRevision, Missing,\* "" (no revision known); the file is not there
    MaxSaves, MaxUserLoads, MaxCrashes      \* bounds on the environment

Revision == 0..MaxSaves

ASSUME IdAssumption ==
    /\ Requests = Checks \cup Loads /\ Checks \cap Loads = {}
    /\ \A r \in Requests : Kind[r] = IF r \in Checks THEN "gameplay" ELSE "baseline"
\* At most a running, a queued and a new load exist at once: an id is always free.
ASSUME LoadIdAssumption ==
    Loads # {} /\ \A l, m \in Loads : \E n \in Loads : n # l /\ n # m
ASSUME RevisionAssumption ==
    /\ MaxSaves \in Nat /\ MaxUserLoads \in Nat /\ MaxCrashes \in Nat
    /\ NoRevision \notin Nat /\ Missing \notin Nat /\ NoRevision # Missing

VARIABLES
    \* the build file, what PoB rejects, and bounds on the environment
    disk, bad, saves, userLoads, crashes,
    \* GUI thread: build_info.state, _baseline_generation, the revisions of
    \* baseline_state and of its metrics, _build_file_revision together with
    \* _last_good_source, _pending_identity_switch
    build, generation, baseline, measured, parsed, pendingSwitch,
    \* _latest_request_id, the lifecycle registry, the baseline_generation of
    \* a request, _deferred_evaluation, the result cache
    latest, phase, ticket, deferred, cached,
    \* _engine is not None, _recovery_reload, _recovery_attempted
    engineUp, recoveryReload, recoveryAttempted,
    \* _baseline_jobs and requests: what a queued or running load will do
    job,
    \* worker thread: where it is in the active request, and what it reports
    step, result,
    \* PoB process: it lives; Engine._loaded_revision and _loaded_source
    alive, loaded,
    \* history: the file when an item was copied; the last painted result; the check
    \* that was held when a recovery raised
    seen, painted, stranded

envVars == <<disk, bad, saves, userLoads, crashes>>
buildVars == <<build, generation, baseline, measured, parsed, pendingSwitch>>
checkVars == <<latest, phase, ticket, deferred, cached, seen, painted>>
engineVars == <<engineUp, recoveryReload, recoveryAttempted, stranded>>
reportVars == <<step, result>>
pobVars == <<alive, loaded>>
laneVars == <<schedVars, job>>
vars == <<envVars, buildVars, checkVars, engineVars, reportVars, pobVars, laneVars>>

Loading == build \in {"LOADING", "RELOADING"}
Terminal == {"error", "painted", "superseded"}
NoJob == [kind |-> "none", generation |-> 0, source |-> NoRevision,
          restore |-> NoRevision]
NoResult == [outcome |-> "none", revision |-> NoRevision,
             measured |-> NoRevision, kept |-> FALSE]

LiveLoads == Loads \cap (waiting \cup {active})

\* The engine has booted, a readable file exists and no build is loaded yet.
Init ==
    /\ SchedInit
    /\ disk = 0 /\ bad \in {{}, {0}}
    /\ saves = 0 /\ userLoads = 0 /\ crashes = 0
    /\ build = "NO_BUILD" /\ generation = 0 /\ pendingSwitch = FALSE
    /\ baseline = NoRevision /\ measured = NoRevision /\ parsed = NoRevision
    /\ latest = None /\ deferred = None /\ cached = NoRevision
    /\ phase = [c \in Checks |-> "none"] /\ ticket = [c \in Checks |-> 0]
    /\ engineUp = TRUE /\ recoveryReload = FALSE /\ recoveryAttempted = FALSE
    /\ stranded = None
    /\ job = [l \in Loads |-> NoJob]
    /\ step = "idle" /\ result = NoResult
    /\ alive = TRUE /\ loaded = NoRevision
    /\ seen = [c \in Checks |-> NoRevision]
    /\ painted = [check |-> None, revision |-> NoRevision, kept |-> FALSE]

-----------------------------------------------------------------------------
\* Pieces of handlers

\* _dispatch_to_worker posts a request that just became the active one.
Dispatch ==
    /\ step' = IF active' = active THEN step
               ELSE IF active' = None THEN "idle" ELSE "posted"
    /\ result' = IF active' = active THEN result ELSE NoResult

\* An entry of _baseline_jobs lives as long as its request is on the lane.
JobsWith(new, entry) ==
    job' = [l \in Loads |-> CASE l = new -> entry
                              [] l # new /\ l \in waiting' \cup {active'} -> job[l]
                              [] OTHER -> NoJob]

\* Which of the free ids a new load takes makes no difference.
NextLoad == CHOOSE l \in Loads : l \notin LiveLoads

\* Mutant: the job notes the generation from before the transaction.
LoadJobOfOldGeneration(source, restore) ==
    [kind |-> "load", generation |-> generation, source |-> source, restore |-> restore]

\* A load request, which reads the file now, and an identity switch.
LoadJob(source, restore) ==
    [kind |-> "load", generation |-> generation', source |-> source, restore |-> restore]
SwitchJob == [NoJob EXCEPT !.kind = "switch", !.generation = generation']

\* _submit_baseline_job
SubmitBaselineJob(entry) ==
    submit(NextLoad, waiting) /\ Dispatch /\ JobsWith(NextLoad, entry)

\* Mutant: the held check is dropped without an answer.
ForgetDeferred(phases, held) == deferred' = None /\ phase' = phases

\* Mutant: the held check is left where it is.
KeepDeferred(phases, held) == deferred' = held /\ phase' = phases

\* _reject_deferred_evaluation, and the same lines of _fail_baseline.
RejectDeferred(phases, held) ==
    /\ deferred' = None
    /\ phase' = IF held = None THEN phases ELSE [phases EXCEPT ![held] = "error"]

\* Mutant: the result cache is not invalidated.
BeginReloadKeepingCache(state) ==
    /\ build' = state
    /\ generation' = generation + 1
    /\ baseline' = NoRevision /\ measured' = NoRevision
    /\ pendingSwitch' = FALSE
    /\ UNCHANGED cached

\* Mutant: the generation is not bumped.
BeginReloadSameGeneration(state) ==
    /\ build' = state
    /\ baseline' = NoRevision /\ measured' = NoRevision
    /\ cached' = NoRevision /\ pendingSwitch' = FALSE
    /\ UNCHANGED generation

\* _begin_reload_transaction: the baseline is gone until a load settles.
BeginReload(state) ==
    /\ build' = state
    /\ generation' = generation + 1
    /\ baseline' = NoRevision /\ measured' = NoRevision
    /\ cached' = NoRevision
    /\ pendingSwitch' = FALSE

\* _begin_build_load: there is a last good build to fall back to.
SameBuild ==
    build \in {"READY", "RELOADING"} /\ parsed # NoRevision /\ loaded # NoRevision

\* load_build_async and _begin_build_load, called when the lifecycle registry
\* is "phases" and the held check is "held".
LoadBuildAsync(phases, held) ==
    /\ UNCHANGED parsed
    /\ \/ \* the replacement worker is booting and will load the file
          /\ ~engineUp /\ recoveryReload
          /\ phase' = phases /\ deferred' = held
          /\ UNCHANGED <<build, generation, baseline, measured, pendingSwitch,
                         cached, laneVars, reportVars>>
       \/ \* no worker at all
          /\ ~engineUp /\ ~recoveryReload
          /\ build' = "FAILED" /\ baseline' = NoRevision /\ measured' = NoRevision
          /\ RejectDeferred(phases, held)
          /\ UNCHANGED <<generation, pendingSwitch, cached, laneVars, reportVars>>
       \/ \* unreadable: _keep_last_good_build
          /\ engineUp /\ SameBuild
          /\ RejectDeferred(phases, held)
          /\ UNCHANGED <<build, generation, baseline, measured, pendingSwitch,
                         cached, laneVars, reportVars>>
       \/ \* unreadable, nothing to keep: _fail_baseline
          /\ engineUp /\ ~SameBuild
          /\ BeginReload("FAILED")
          /\ RejectDeferred(phases, held)
          /\ UNCHANGED <<laneVars, reportVars>>
       \/ \* readable
          /\ engineUp /\ disk # Missing
          /\ BeginReload(IF build \in {"READY", "RELOADING"} THEN "RELOADING"
                                                             ELSE "LOADING")
          /\ SubmitBaselineJob(LoadJob(disk, IF SameBuild THEN parsed ELSE NoRevision))
          /\ phase' = phases /\ deferred' = held

-----------------------------------------------------------------------------
\* Environment and user

\* PoB saves a revision, which a later load may find unacceptable.
Save ==
    /\ saves < MaxSaves
    /\ saves' = saves + 1 /\ disk' = saves + 1
    /\ bad' \in {bad, bad \cup {saves + 1}}
    /\ UNCHANGED <<userLoads, crashes, buildVars, checkVars, engineVars, reportVars,
                   pobVars, laneVars>>

RemoveFile ==
    /\ disk' = Missing /\ disk # Missing
    /\ UNCHANGED <<bad, saves, userLoads, crashes, buildVars, checkVars, engineVars,
                   reportVars, pobVars, laneVars>>

\* The PoB process exits, or hangs until the client kills it.
Crash ==
    /\ alive /\ crashes < MaxCrashes
    /\ crashes' = crashes + 1 /\ alive' = FALSE
    /\ UNCHANGED <<disk, bad, saves, userLoads, buildVars, checkVars, engineVars,
                   reportVars, loaded, laneVars>>

UserLoads ==
    userLoads < MaxUserLoads /\ userLoads' = userLoads + 1
    /\ UNCHANGED <<disk, bad, saves, crashes>>

\* reload_evaluation_build, change_build and set_context.
LoadBuild ==
    /\ UserLoads
    /\ LoadBuildAsync(phase, deferred)
    /\ UNCHANGED <<latest, ticket, seen, painted, engineVars, pobVars>>

\* set_active_loadout and set_active_item_set.
SetActive ==
    /\ UserLoads /\ engineUp
    /\ \/ Loading /\ pendingSwitch' = TRUE
          /\ UNCHANGED <<build, generation, baseline, measured, cached, laneVars,
                         reportVars>>
       \/ build = "READY" /\ BeginReload("RELOADING") /\ SubmitBaselineJob(SwitchJob)
    /\ UNCHANGED <<parsed, latest, phase, ticket, deferred, seen, painted, engineVars,
                   pobVars>>

-----------------------------------------------------------------------------
\* submit_clipboard_text: the user copies item c

\* _disk_revision_changed
DiskChanged == parsed # NoRevision /\ disk # parsed

Copied(c) ==
    /\ phase[c] = "none"
    /\ latest' = c
    /\ seen' = [seen EXCEPT ![c] = disk]
    /\ UNCHANGED <<envVars, engineVars, pobVars>>

\* No build, or text that is no item the program can read.
CopyRefused(c) ==
    /\ Copied(c)
    /\ phase' = [phase EXCEPT ![c] = "error"]
    /\ UNCHANGED <<ticket, deferred, cached, painted, buildVars, laneVars, reportVars>>

\* _defer_evaluation: only the newest held check is kept.
Superseding(held, c) ==
    [d \in Checks |-> CASE d = c -> "pending"
                        [] d # c /\ d = held -> "superseded"
                        [] OTHER -> phase[d]]

CopyDeferred(c) ==
    /\ Copied(c) /\ build \notin {"NO_BUILD", "FAILED"}
    /\ DiskChanged \/ Loading
    /\ IF DiskChanged /\ ~Loading
       THEN LoadBuildAsync(Superseding(deferred, c), c)
       ELSE /\ deferred' = c /\ phase' = Superseding(deferred, c)
            /\ UNCHANGED <<buildVars, cached, laneVars, reportVars>>
    /\ ticket' = [ticket EXCEPT ![c] = generation]
    /\ UNCHANGED painted

\* _submit_evaluation_request: an error while it prepares, a cache hit, a miss.
CopyAccepted(c) ==
    /\ Copied(c) /\ build \notin {"NO_BUILD", "FAILED"}
    /\ ~DiskChanged /\ ~Loading
    /\ ticket' = [ticket EXCEPT ![c] = generation]
    /\ \/ /\ phase' = [phase EXCEPT ![c] = "error"]
          /\ UNCHANGED <<painted, laneVars, reportVars>>
       \/ /\ cached # NoRevision
          /\ phase' = [phase EXCEPT ![c] = "painted"]
          /\ painted' = [check |-> c, revision |-> cached, kept |-> FALSE]
          /\ UNCHANGED <<laneVars, reportVars>>
       \/ /\ phase' = [phase EXCEPT ![c] = "pending"]
          /\ submit(c, waiting) /\ Dispatch /\ UNCHANGED <<painted, job>>
    /\ UNCHANGED <<deferred, cached, buildVars>>

\* _on_item_check_watchdog
Watchdog(c) ==
    /\ latest = c /\ phase[c] = "pending"
    /\ phase' = [phase EXCEPT ![c] = "error"]
    /\ UNCHANGED <<latest, ticket, deferred, cached, seen, painted, envVars, buildVars,
                   engineVars, reportVars, pobVars, laneVars>>

-----------------------------------------------------------------------------
\* Worker thread

Report(outcome) == step' = "done" /\ result' = [result EXCEPT !.outcome = outcome]

\* A call to a dead process raises WorkerUnhealthy.
Failure == IF alive THEN "error" ELSE "unhealthy"

\* The rest of a worker step: it changes nothing of the GUI thread's.
WorkerOnly == UNCHANGED <<envVars, buildVars, checkVars, engineVars, alive, laneVars>>

\* Engine.load_prepared_input with the bytes of revision r.
LoadAccepted(r) == alive /\ r \notin bad /\ loaded' = r
LoadRejected(r) == (~alive \/ r \in bad) /\ loaded' = NoRevision

\* Engine.ensure_source_ready: the loaded build is kept while the file has not
\* moved or is not there; else the file is read and loaded.
Unmoved == loaded # NoRevision /\ disk \in {loaded, Missing}
Ensured == IF Unmoved THEN loaded ELSE disk
CanEnsure == alive /\ Ensured \in Revision \ bad
EnsureSucceeds == CanEnsure /\ loaded' = Ensured
EnsureFails ==
    \/ Unmoved /\ ~alive /\ UNCHANGED loaded
    \/ ~Unmoved /\ UNCHANGED loaded             \* unreadable
    \/ ~Unmoved /\ disk # Missing /\ LoadRejected(disk)

\* load_build_async.prepare: the bytes the GUI thread read.
WorkerLoads ==
    /\ active \in Loads /\ step = "posted" /\ job[active].kind = "load"
    /\ \/ /\ LoadAccepted(job[active].source)
          /\ step' = "capture" /\ result' = [NoResult EXCEPT !.outcome = "ok"]
       \/ /\ LoadRejected(job[active].source)
          /\ result' = [NoResult EXCEPT !.outcome = Failure]
          /\ step' = IF job[active].restore # NoRevision THEN "restore" ELSE "done"
    /\ WorkerOnly

\* load_build_async.prepare: PoB rejected them, the previous bytes go back.  If
\* that fails too the first failure is the one reported.
WorkerRestores ==
    /\ step = "restore"
    /\ \/ /\ LoadAccepted(job[active].restore)
          /\ step' = "capture" /\ result' = [NoResult EXCEPT !.outcome = "restored"]
       \/ LoadRejected(job[active].restore) /\ step' = "done" /\ UNCHANGED result
    /\ WorkerOnly

\* set_active_loadout.prepare and set_active_item_set.prepare: PoB refuses
\* without a healthy build.
WorkerSwitches ==
    /\ active \in Loads /\ step = "posted" /\ job[active].kind = "switch"
    /\ \/ /\ alive /\ loaded # NoRevision
          /\ step' = "capture" /\ result' = [NoResult EXCEPT !.outcome = "ok"]
       \/ (~alive \/ loaded = NoRevision) /\ Report(Failure)
    /\ UNCHANGED loaded /\ WorkerOnly

\* capture_baseline: metrics and equipment are read, then load_tree_snapshot
\* ensures that the build is that of the file, then the revision is noted.
WorkerCaptures ==
    /\ step = "capture"
    /\ \/ /\ EnsureSucceeds
          /\ step' = "done"
          /\ result' = [result EXCEPT !.measured = loaded, !.revision = loaded']
       \/ EnsureFails /\ Report(Failure)
    /\ WorkerOnly

\* run_evaluation, with the deferred restore that must succeed before the
\* result is reported.  Whatever went wrong, a dead process makes that last
\* call raise WorkerUnhealthy.
WorkerEvaluates ==
    /\ active \in Checks /\ step = "posted"
    /\ \/ \* evaluated and restored
          /\ EnsureSucceeds
          /\ step' = "done"
          /\ result' = [NoResult EXCEPT !.outcome = "ok", !.revision = loaded',
                                        !.kept = (disk = Missing)]
       \/ \* PoB cannot evaluate the item
          EnsureSucceeds /\ Report("error")
       \/ \* RestoreFailed: invalidate_build
          CanEnsure /\ loaded' = NoRevision /\ Report("error")
       \/ \* no build to evaluate on, or no process
          EnsureFails /\ Report(Failure)
    /\ WorkerOnly

-----------------------------------------------------------------------------
\* GUI thread: a check is back

\* Mutant: the replacement worker is not told what to load.
AttemptRecoveryWithoutReload ==
    /\ BeginReload("RELOADING")
    /\ engineUp' = FALSE /\ recoveryAttempted' = TRUE
    /\ alive' = FALSE /\ loaded' = NoRevision
    /\ UNCHANGED <<recoveryReload, stranded>>

\* The recovery raises, before the old worker is down or after the build was reset
\* for the new one: BuildState.ERROR, no replacement, and a held check stays held.
RecoveryRaises ==
    /\ build' = "FAILED" /\ recoveryAttempted' = TRUE /\ stranded' = deferred
    /\ \/ UNCHANGED <<generation, baseline, measured, cached, pendingSwitch, engineUp,
                      pobVars>>
       \/ /\ BeginReload("FAILED")
          /\ engineUp' = FALSE /\ alive' = FALSE /\ loaded' = NoRevision
    /\ UNCHANGED recoveryReload

\* _attempt_recovery
AttemptRecovery ==
    \/ /\ recoveryAttempted
       /\ build' = "FAILED"                    \* BuildState.ERROR
       /\ UNCHANGED <<generation, baseline, measured, cached, pendingSwitch, engineVars,
                      pobVars>>
    \/ /\ ~recoveryAttempted
       /\ BeginReload("RELOADING")
       /\ engineUp' = FALSE /\ recoveryReload' = TRUE /\ recoveryAttempted' = TRUE
       /\ alive' = FALSE /\ loaded' = NoRevision /\ UNCHANGED stranded
    \/ ~recoveryAttempted /\ RecoveryRaises

\* Mutant: a result is painted although a newer item was copied.
ReachedByAnyone(c) ==
    IF result.outcome = "ok"
    THEN IF ticket[c] = generation /\ result.revision = baseline
         THEN "painted" ELSE "error"
    ELSE "error"

\* _on_worker_finished and _deliver_evaluation_result: what becomes of c.  An
\* error of an older presentation is only recorded; a result must belong to
\* the current baseline.
Reached(c) ==
    CASE latest # c -> "superseded"
      [] latest = c /\ result.outcome # "ok" ->
            IF ticket[c] # generation THEN "superseded" ELSE "error"
      [] latest = c /\ result.outcome = "ok" ->
            IF ticket[c] = generation /\ result.revision = baseline
            THEN "painted" ELSE "error"

OnWorkerFinished(c) ==
    /\ active = c /\ step = "done"
    /\ IF Reached(c) = "painted"
       THEN painted' = [check |-> c, revision |-> result.revision, kept |-> result.kept]
       ELSE UNCHANGED painted
    /\ \/ /\ result.outcome # "unhealthy"
          /\ phase' = [phase EXCEPT ![c] = Reached(c)]
          /\ cached' = IF Reached(c) = "painted" THEN result.revision ELSE cached
          /\ complete(c, waiting) /\ UNCHANGED job
          /\ UNCHANGED <<build, generation, baseline, measured, pendingSwitch, engineVars,
                         pobVars>>
       \/ /\ result.outcome = "unhealthy"       \* discard_pending, recovery
          /\ phase' = [d \in Checks |-> CASE d = c -> Reached(c)
                                          [] d # c /\ d \in waiting -> "error"
                                          [] OTHER -> phase[d]]
          /\ complete(c, {}) /\ JobsWith(None, NoJob)
          /\ AttemptRecovery
    /\ Dispatch
    /\ UNCHANGED <<envVars, parsed, latest, ticket, deferred, seen>>

-----------------------------------------------------------------------------
\* GUI thread: a load is back.  The request completes last.

LoadIsBack(l) == active = l /\ l \in Loads /\ step = "done"
Current(l) == job[l].generation = generation

\* _on_baseline_finished and _settle_baseline_job: a newer transaction owns
\* the controller's state.
OnStaleBaseline(l) ==
    /\ LoadIsBack(l) /\ ~Current(l)
    /\ complete(l, waiting) /\ Dispatch /\ JobsWith(None, NoJob)
    /\ UNCHANGED <<envVars, buildVars, checkVars, engineVars, pobVars>>

\* The load failed, for whatever reason: _fail_baseline.
OnBaselineFailed(l) ==
    /\ LoadIsBack(l) /\ Current(l) /\ result.outcome \in {"error", "unhealthy"}
    /\ build' = "FAILED"
    /\ RejectDeferred(phase, deferred)
    /\ complete(l, waiting) /\ Dispatch /\ JobsWith(None, NoJob)
    /\ UNCHANGED <<envVars, generation, baseline, measured, parsed, pendingSwitch,
                   latest, ticket, cached, seen, painted, engineVars, pobVars>>

\* Mutant: the file is looked at again instead of taking the parsed revision.
ApplyCaptureOfLaterStat ==
    parsed' = disk /\ recoveryAttempted' = FALSE
    /\ UNCHANGED <<engineUp, recoveryReload, stranded>>

\* Mutant: a settled build does not arm the recovery again.
ApplyCaptureKeepingRecovery == parsed' = result.revision /\ UNCHANGED engineVars

\* _apply_baseline_capture
ApplyCapture ==
    /\ parsed' = result.revision
    /\ recoveryAttempted' = FALSE
    /\ UNCHANGED <<engineUp, recoveryReload, stranded>>

\* The previous bytes went back: they are the baseline again, but the held
\* check saw newer bytes and is rejected (_keep_last_good_build).
OnBaselineRestored(l) ==
    /\ LoadIsBack(l) /\ Current(l) /\ result.outcome = "restored"
    /\ ApplyCapture
    /\ build' = "READY" /\ baseline' = result.revision /\ measured' = result.measured
    /\ RejectDeferred(phase, deferred)
    /\ complete(l, waiting) /\ Dispatch /\ JobsWith(None, NoJob)
    /\ UNCHANGED <<envVars, generation, pendingSwitch, latest, ticket, cached, seen,
                   painted, pobVars>>

\* _resume_deferred_evaluation submits the held check under the new generation
\* (unless preparing it fails); then an identity switch that was asked for
\* meanwhile is applied (unless it changes nothing), and replaces the baseline.
OnBaselineReady(l) ==
    /\ LoadIsBack(l) /\ Current(l) /\ result.outcome = "ok"
    /\ ApplyCapture
    /\ deferred' = None
    /\ \E prepared \in (IF deferred = None THEN {FALSE} ELSE BOOLEAN) :
          LET queue == IF prepared THEN QueueAfterSubmit(deferred, waiting) ELSE waiting IN
          /\ IF deferred = None THEN UNCHANGED <<ticket, phase>> ELSE
             /\ ticket' = [ticket EXCEPT ![deferred] = generation]
             /\ phase' = IF prepared THEN phase ELSE
                   [phase EXCEPT ![deferred] =
                       IF latest = deferred THEN "error" ELSE "superseded"]
          /\ \/ /\ build' = "READY"
                /\ baseline' = result.revision /\ measured' = result.measured
                /\ pendingSwitch' = FALSE
                /\ UNCHANGED <<generation, cached>>
                /\ complete(l, queue) /\ JobsWith(None, NoJob)
             \/ /\ pendingSwitch
                /\ BeginReload("RELOADING")
                /\ complete(l, QueueAfterSubmit(NextLoad, queue))
                /\ JobsWith(NextLoad, SwitchJob)
    /\ Dispatch
    /\ UNCHANGED <<envVars, latest, seen, painted, pobVars>>

-----------------------------------------------------------------------------
\* GUI thread: the replacement worker has booted, or has not
\* (_on_engine_boot_result)

EngineBoots ==
    /\ ~engineUp /\ recoveryReload
    /\ engineUp' = TRUE /\ recoveryReload' = FALSE
    /\ alive' = TRUE
    /\ \/ \* load_build_async: unreadable, and a fresh worker has no build to keep
          /\ BeginReload("FAILED")
          /\ RejectDeferred(phase, deferred)
          /\ UNCHANGED <<laneVars, reportVars>>
       \/ \* readable
          /\ disk # Missing
          /\ BeginReload("RELOADING")
          /\ SubmitBaselineJob(LoadJob(disk, NoRevision))
          /\ UNCHANGED <<phase, deferred>>
    /\ UNCHANGED <<envVars, parsed, latest, ticket, seen, painted, recoveryAttempted,
                   stranded, loaded>>

EngineFailsToBoot ==
    /\ ~engineUp /\ recoveryReload
    /\ recoveryReload' = FALSE
    /\ build' = "FAILED"
    /\ RejectDeferred(phase, deferred)
    /\ UNCHANGED <<envVars, generation, baseline, measured, parsed, pendingSwitch, latest,
                   ticket, cached, seen, painted, engineUp, recoveryAttempted, stranded,
                   pobVars, laneVars, reportVars>>

-----------------------------------------------------------------------------

Environment == Save \/ RemoveFile \/ Crash
User ==
    \/ LoadBuild \/ SetActive
    \/ \E c \in Checks : CopyRefused(c) \/ CopyDeferred(c) \/ CopyAccepted(c)
Worker ==
    \/ WorkerLoads \/ WorkerRestores \/ WorkerSwitches
    \/ WorkerCaptures \/ WorkerEvaluates
Handlers ==
    \/ \E c \in Checks : OnWorkerFinished(c)
    \/ \E l \in Loads : OnStaleBaseline(l) \/ OnBaselineFailed(l) \/ OnBaselineRestored(l)
                        \/ OnBaselineReady(l)
    \/ EngineBoots \/ EngineFailsToBoot
Timer == \E c \in Checks : Watchdog(c)

Next == Environment \/ User \/ Worker \/ Handlers \/ Timer

Spec == Init /\ [][Next]_vars

\* The two event loops run and the boot thread reports; the watchdog is not
\* relied on.
FairSpec == Spec /\ WF_vars(Worker) /\ WF_vars(Handlers)

-----------------------------------------------------------------------------

\* Type invariant.
TypeOK ==
    /\ SchedTypeOK
    /\ disk \in Revision \cup {Missing} /\ bad \subseteq Revision
    /\ saves \in 0..MaxSaves /\ userLoads \in 0..MaxUserLoads /\ crashes \in 0..MaxCrashes
    /\ build \in {"NO_BUILD", "LOADING", "RELOADING", "READY", "FAILED"}
    /\ generation \in Nat /\ pendingSwitch \in BOOLEAN
    /\ {baseline, measured, parsed, cached, loaded} \subseteq Revision \cup {NoRevision}
    /\ {latest, deferred, stranded} \subseteq Checks \cup {None}
    /\ phase \in [Checks -> Terminal \cup {"none", "pending"}]
    /\ ticket \in [Checks -> Nat]
    /\ {engineUp, recoveryReload, recoveryAttempted, alive} \subseteq BOOLEAN
    /\ job \in [Loads -> [kind : {"none", "load", "switch"}, generation : Nat,
                          source : Revision \cup {NoRevision},
                          restore : Revision \cup {NoRevision}]]
    /\ step \in {"idle", "posted", "restore", "capture", "done"}
    /\ result \in [outcome : {"none", "ok", "restored", "error", "unhealthy"},
                   revision : Revision \cup {NoRevision},
                   measured : Revision \cup {NoRevision}, kept : BOOLEAN]
    /\ seen \in [Checks -> Revision \cup {NoRevision, Missing}]
    /\ painted \in [check : Checks \cup {None}, revision : Revision \cup {NoRevision},
                    kept : BOOLEAN]

\* An Item Check is never answered from a build older than the file was when
\* the item was copied, whatever was saved, loaded, restored or cached since.
\* (Only if the file has disappeared when the worker looks does it go on with
\* the build it holds.)
CheckNeverUsesOlderBuild ==
    (painted.check # None /\ ~painted.kept /\ seen[painted.check] \in Revision)
        => painted.revision >= seen[painted.check]

\* The GUI thread shows a build as loading only while somebody will settle it:
\* a load of the current generation is on the lane, or the replacement worker
\* is booting.  Nothing that discards, replaces or drops a load strands it.
LoadingHasOwner ==
    Loading => \/ \E l \in LiveLoads : Current(l)
               \/ ~engineUp /\ recoveryReload

\* A held check never outlives the load it waits for: every path on which a
\* load settles, fails, is replaced or is kept away resumes or rejects it, except
\* the one on which the recovery from a dead process itself raises: that check
\* stays held beside a failed build until another build is loaded.
HeldCheckHasRelease ==
    deferred # None => Loading \/ (build = "FAILED" /\ deferred = stranded)

\* A settled build stays settled: no load that is still on the lane can
\* change it when it comes back, and it is described by the revision the next
\* item check compares the file with.
SettledBuildIsFinal ==
    ~Loading => /\ \A l \in LiveLoads : ~Current(l)
                /\ build = "READY" => baseline = parsed /\ baseline # NoRevision

\* The worker thread has a step to take, or has reported.
WorkerIsDue ==
    /\ active # None
    /\ \/ step = "posted" /\ (active \in Checks \/ job[active].kind # "none")
       \/ step \in {"restore", "capture"} /\ active \in Loads
       \/ step = "done" /\ result.outcome # "none"

\* Nothing is stranded between the actors.  The newest copied item, until it is
\* answered, is running, queued or held, whatever is submitted, replaced,
\* discarded, resumed or rejected meanwhile; and while anything runs, waits, is
\* held or loads, the worker thread or the boot of its replacement has the
\* next step; again except for the check a raising recovery forgets.
NothingIsStranded ==
    /\ latest # None /\ phase[latest] = "pending" => latest \in waiting \cup {active, deferred}
    /\ active # None \/ waiting # {} \/ deferred \notin {None, stranded} \/ Loading =>
          WorkerIsDue \/ (~engineUp /\ recoveryReload)

\* Only the newest copied item is ever painted, however late the result of an
\* older one arrives; and what is painted or superseded stays so: of what was
\* recorded about a check only an error can be overtaken.
OnlyNewestIsPainted ==
    [][/\ painted' # painted => painted'.check = latest'
       /\ \A c \in Checks : phase[c] \in {"painted", "superseded"} => phase'[c] = phase[c]]_vars

\* Whenever a check finds the process dead a replacement is booted, or that
\* raises: the branch of _attempt_recovery that gives up is never taken, because no
\* check gets on the lane between a recovery and the load that settles it.
DeadProcessIsReplaced ==
    [][\A c \in Checks : (active = c /\ step = "done" /\ result.outcome = "unhealthy"
                              /\ active' # c)
          => recoveryReload' \/ (~recoveryAttempted /\ RecoveryRaises)]_vars

\* The build shown as loading settles.
BuildLoadSettles == Loading ~> ~Loading

\* The newest copied item is answered, without the watchdog's help: held,
\* queued or running, through failed loads and the loss of the process, unless the
\* recovery from that loss raises while it is held.
NewestCheckIsAnswered ==
    \A c \in Checks : (phase[c] = "pending" /\ latest = c)
                          ~> (phase[c] \in Terminal \/ latest # c \/ stranded = c)

\* docs/TRUST-01B-BUILD-FRESHNESS.md:33: "a failed reload restores the last
\* good build".  Once PoB has taken the previous bytes back and lives, the load
\* does not report a failure.
RestoredBuildIsKept ==
    [][(step = "capture" /\ result.outcome = "restored" /\ alive)
          => result'.outcome # "error"]_vars

\* app/controller.py:2110: "a PoB save landing during the load must still be
\* seen as a change on the next Item Check".  The metrics and equipment of the
\* baseline are those of the file, or the file counts as changed.
SaveDuringLoadIsSeen ==
    (build = "READY" /\ measured # disk) => DiskChanged

\* engine.py:68: "A hang or crash now kills the worker and raises
\* WorkerUnhealthy so the controller's recovery path runs".  Whoever handles a
\* WorkerUnhealthy of the current build has started a recovery.
CrashedLoadIsRecovered ==
    [][\A l \in Loads : (LoadIsBack(l) /\ Current(l) /\ result.outcome = "unhealthy"
                             /\ active' # l)
          => recoveryReload']_vars
=============================================================================
