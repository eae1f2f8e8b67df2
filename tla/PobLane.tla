------------------------------- MODULE PobLane -------------------------------
(***************************************************************************)
(* The PoB lane of app/controller.py: the scheduler (PobScheduler), the    *)
(* worker thread _EvaluationWorker behind it, and the analysis that is     *)
(* interrupted by an Item Check (_analysis_resume).                        *)
(*                                                                         *)
(* The GUI thread submits requests and handles the finished_* signals; the *)
(* worker thread starts a dispatched request later, when its event loop    *)
(* delivers the queued signal, and polls its own flag _yield_analysis      *)
(* between PoB transactions.  Both threads write _yield_analysis: the GUI  *)
(* thread sets it (request_yield) and the worker clears it when a run      *)
(* begins.                                                                 *)
(*                                                                         *)
(* Kinds: "analysis" stands for every task of run_analysis (build and tree *)
(* analysis), "gear" for run_market_search and run_gear_optimization,      *)
(* which poll the same flag but are never resumed.                         *)
(***************************************************************************)
EXTENDS PobScheduler

VARIABLES
    posted,             \* signals emitted by _dispatch_to_worker, not delivered
    running,            \* the request the worker thread is executing, or None
    finished,           \* finished_* signals the GUI thread has not handled
    yield_analysis,     \* _EvaluationWorker._yield_analysis
    analysis_resume,    \* _analysis_resume
    fresh,              \* requests that do not exist yet
    outdated,           \* requests whose baseline_generation was replaced
    interrupted         \* history: the analysis that yielded, or None

laneVars == <<posted, running, finished, yield_analysis, analysis_resume,
              fresh, outdated, interrupted>>
vars == <<schedVars, laneVars>>

Outcomes == {"done", "yielded", "error"}

\* run_analysis, run_market_search and run_gear_optimization poll
\* _yield_analysis; run_build_decomp polls the scheduler's own flag.
PollsWorkerFlag(r) == Kind[r] \in {"analysis", "gear"}
PollsSchedulerFlag(r) == Kind[r] = "build_decomp"

Init ==
    /\ SchedInit
    /\ posted = {} /\ running = None /\ finished = {}
    /\ yield_analysis = FALSE
    /\ analysis_resume = None
    /\ fresh = Requests
    /\ outdated = {}
    /\ interrupted = None

\* Mutant: the end of the queue is dispatched, too.
DispatchAnything == posted' = IF active' # active THEN posted \cup {active'} ELSE posted

\* _start calls _dispatch_to_worker: a request that just became the active one
\* is posted to the worker thread.
Dispatch == posted' = IF active' \notin {active, None} THEN posted \cup {active'}
                                                       ELSE posted

-----------------------------------------------------------------------------
\* GUI thread: user actions

\* submit_analyze_build and submit_tree_analysis.
SubmitAnalysis(r) ==
    /\ r \in fresh /\ Kind[r] = "analysis"
    /\ fresh' = fresh \ {r}
    /\ analysis_resume' = r /\ interrupted' = None
    /\ submit(r, waiting)
    /\ Dispatch
    /\ UNCHANGED <<running, finished, yield_analysis, outdated>>

\* submit_market_search, submit_gear_optimization and _schedule_prewarm.
SubmitBackground(r) ==
    /\ r \in fresh /\ Kind[r] \in {"gear", "prewarm"}
    /\ fresh' = fresh \ {r}
    /\ submit(r, waiting)
    /\ Dispatch
    /\ UNCHANGED <<running, finished, yield_analysis, analysis_resume,
                   outdated, interrupted>>

\* submit_clipboard_text and _submit_evaluation_request, on a cache miss: the
\* queued upgrade work is dropped, the check submitted and, unless the lane is
\* held by a check or a load, the worker asked to yield.
SubmitItemCheck(r) ==
    /\ r \in fresh /\ Kind[r] = "gameplay"
    /\ fresh' = fresh \ {r}
    /\ submit(r, WithoutUpgradePath(waiting))
    /\ Dispatch
    /\ yield_analysis' = (yield_analysis \/ IsAnalysisLike(active'))
    /\ UNCHANGED <<running, finished, analysis_resume, outdated, interrupted>>

\* The tail of _deliver_evaluation_result and of _on_upgrade_path_finished:
\* the analysis can be resubmitted if it belongs to the current build.
MayResume == analysis_resume # None /\ analysis_resume \notin outdated

\* What _deliver_evaluation_result may submit for a painted check: an upgrade-path
\* request and, after it, a decomposition.
FollowUps ==
    {new \in SUBSET {f \in fresh : Kind[f] \in {"upgrade_path", "build_decomp"}} :
        \A f, g \in new : Kind[f] = Kind[g] => f = g}

\* The result cache is emptied with the build: it holds nothing until a check of the
\* current one is back.
CacheMayHit ==
    \E r \in Requests \ (fresh \cup outdated \cup waiting \cup {active}) : Kind[r] = "gameplay"

\* submit_clipboard_text on a result-cache hit: painted at once, with its follow-up
\* work; if the lane is idle even then, the analysis is resubmitted.
CachedItemCheck ==
    /\ CacheMayHit
    /\ \E followUps \in FollowUps :
          LET kept == WithoutUpgradePath(waiting) IN
          /\ fresh' = fresh \ followUps
          /\ \/ /\ active = None /\ followUps = {} /\ MayResume
                /\ submit(analysis_resume, kept)
                /\ interrupted' = None
             \/ /\ active = None
                /\ \E first \in followUps :
                      /\ IsHead(first, followUps)
                      /\ active' = first /\ waiting' = followUps \ {first}
                /\ UNCHANGED <<yield_requested, interrupted>>
             \/ /\ active # None \/ (followUps = {} /\ ~MayResume)
                /\ waiting' = kept \cup followUps
                /\ UNCHANGED <<active, yield_requested, interrupted>>
    /\ Dispatch
    /\ UNCHANGED <<running, finished, yield_analysis, analysis_resume, outdated>>

\* _begin_reload_transaction: what exists belongs to a replaced build, nothing
\* is resumed any more, running analysis is asked to yield.
ReplaceBuild ==
    /\ outdated' = Requests \ fresh
    /\ analysis_resume' = None /\ interrupted' = None
    /\ yield_analysis' = TRUE

\* load_build_async and _submit_baseline_job: queued analysis is dropped.
LoadBuild(r) ==
    /\ r \in fresh /\ Kind[r] = "baseline"
    /\ fresh' = fresh \ {r}
    /\ ReplaceBuild
    /\ submit(r, WithoutUpgradePath(WithoutAnalysis(waiting)))
    /\ Dispatch
    /\ UNCHANGED <<running, finished>>

\* cancel_tree_analysis.
CancelAnalysis ==
    /\ analysis_resume' = None /\ interrupted' = None
    /\ yield_analysis' = TRUE
    /\ UNCHANGED <<schedVars, posted, running, finished, fresh, outdated>>

-----------------------------------------------------------------------------
\* Worker thread

\* The event loop delivers the dispatched request; run_analysis, market search
\* and gear optimization clear the flag before anything else.
WorkerBegins(r) ==
    /\ r \in posted /\ running = None
    /\ posted' = posted \ {r}
    /\ running' = r
    /\ yield_analysis' = (yield_analysis /\ ~PollsWorkerFlag(r))
    /\ UNCHANGED <<schedVars, finished, analysis_resume, fresh, outdated,
                   interrupted>>

\* should_yield() between two PoB transactions.
ShouldYield ==
    \/ PollsWorkerFlag(running) /\ yield_analysis
    \/ PollsSchedulerFlag(running) /\ yield_requested

\* The run ends and emits its finished_* signal exactly once.
WorkerEnds ==
    /\ running # None
    /\ \E outcome \in Outcomes :
          /\ outcome = "yielded" => ShouldYield
          /\ finished' = finished \cup {[req |-> running, outcome |-> outcome]}
    /\ running' = None
    /\ UNCHANGED <<schedVars, posted, yield_analysis, analysis_resume, fresh,
                   outdated, interrupted>>

-----------------------------------------------------------------------------
\* GUI thread: finished_* handlers

Signal(r, outcome) ==
    /\ [req |-> r, outcome |-> outcome] \in finished
    /\ finished' = finished \ {[req |-> r, outcome |-> outcome]}

\* _on_analysis_finished.  A yielded or failed run leaves _analysis_resume as
\* it is; a result of a replaced build is dropped; a current result clears it.
OnAnalysisFinished(r, outcome) ==
    /\ Kind[r] = "analysis" /\ Signal(r, outcome)
    /\ complete(r, waiting)
    /\ Dispatch
    /\ analysis_resume' = IF outcome = "done" /\ r \notin outdated
                          THEN None ELSE analysis_resume
    /\ interrupted' = IF outcome = "yielded" /\ analysis_resume = r
                      THEN r ELSE interrupted
    /\ UNCHANGED <<running, yield_analysis, fresh, outdated>>

\* _on_worker_finished.  A painted result may submit an upgrade-path and a
\* decomposition request (the lane is still held by the check); WorkerUnhealthy
\* ("error") discards the whole queue and, the first time, starts a recovery
\* that reloads the build.
OnItemCheckFinished(r, outcome) ==
    /\ Kind[r] = "gameplay" /\ Signal(r, outcome)
    /\ \/ /\ outcome = "done"
          /\ \E followUps \in FollowUps :
                /\ r \in outdated => followUps = {}
                /\ fresh' = fresh \ followUps
                /\ complete(r, waiting \cup followUps)
          /\ UNCHANGED <<yield_analysis, analysis_resume, outdated, interrupted>>
       \/ /\ outcome = "error"
          /\ complete(r, {})
          /\ \/ ReplaceBuild
             \/ UNCHANGED <<yield_analysis, analysis_resume, outdated, interrupted>>
          /\ UNCHANGED fresh
    /\ Dispatch
    /\ UNCHANGED running

\* _on_upgrade_path_finished: once the lane is handed over, an idle lane takes
\* the interrupted analysis.  A stale or failed result returns before that.
OnUpgradePathFinished(r, outcome) ==
    /\ Kind[r] = "upgrade_path" /\ Signal(r, outcome)
    /\ \/ complete(r, waiting) /\ UNCHANGED interrupted
       \/ /\ outcome = "done" /\ waiting = {} /\ MayResume
          /\ active' = analysis_resume /\ waiting' = {}
          /\ yield_requested' = FALSE
          /\ interrupted' = None
    /\ Dispatch
    /\ UNCHANGED <<running, yield_analysis, analysis_resume, fresh, outdated>>

\* _on_market_finished, _on_gear_finished, _on_prewarm_finished,
\* _on_build_decomp_finished and _on_baseline_finished: the lane is handed over.
OnOtherFinished(r, outcome) ==
    /\ Kind[r] \in {"gear", "prewarm", "build_decomp", "baseline"}
    /\ Signal(r, outcome)
    /\ complete(r, waiting)
    /\ Dispatch
    /\ UNCHANGED <<running, yield_analysis, analysis_resume, fresh, outdated,
                   interrupted>>

-----------------------------------------------------------------------------

UserActs ==
    \/ \E r \in Requests : \/ SubmitAnalysis(r) \/ SubmitBackground(r)
                           \/ SubmitItemCheck(r) \/ LoadBuild(r)
    \/ CachedItemCheck
    \/ CancelAnalysis

WorkerActs == WorkerEnds \/ \E r \in Requests : WorkerBegins(r)

HandlerActs ==
    \E r \in Requests, outcome \in Outcomes :
        \/ OnAnalysisFinished(r, outcome) \/ OnItemCheckFinished(r, outcome)
        \/ OnUpgradePathFinished(r, outcome) \/ OnOtherFinished(r, outcome)

Next == UserActs \/ WorkerActs \/ HandlerActs

Spec == Init /\ [][Next]_vars

\* The worker thread's event loop keeps running and every PoB transaction ends
\* (the engine client times out); Qt delivers queued signals.
FairSpec == Spec /\ WF_vars(WorkerActs) /\ WF_vars(HandlerActs)

-----------------------------------------------------------------------------

\* Type invariant of the composition.
TypeOK ==
    /\ SchedTypeOK
    /\ posted \subseteq Requests /\ running \in Requests \cup {None}
    /\ finished \subseteq [req : Requests, outcome : Outcomes]
    /\ yield_analysis \in BOOLEAN
    /\ analysis_resume \in Requests \cup {None}
    /\ interrupted \in Requests \cup {None}
    /\ fresh \subseteq Requests /\ outdated \subseteq Requests

\* "Single-owner PoB lane: max one active mutation": whatever the worker thread
\* has been sent, executes or has just finished is the scheduler's active
\* request, in exactly one of these stages, and the worker never forgets an
\* active request (which would block the lane for good).
LaneHasOneOwner ==
    \/ active = None /\ posted = {} /\ running = None /\ finished = {}
    \/ active # None /\ posted = {active} /\ running = None /\ finished = {}
    \/ active # None /\ posted = {} /\ running = active /\ finished = {}
    \/ /\ active # None /\ posted = {} /\ running = None
       /\ \E outcome \in Outcomes :
             finished = {[req |-> active, outcome |-> outcome]}

\* Work that was created for a build that has been replaced never starts on
\* the lane after the replacement, neither from the queue nor by resuming it;
\* only checks and loads may (their results are rejected by generation).
StartsOnlyCurrentWork ==
    \A r \in outdated : (active' = r /\ active # r) => IsPreempting(r)
NoWorkForReplacedBuildStarts == [][StartsOnlyCurrentWork]_vars

\* "Gameplay (Ctrl+C) always outranks long-running analysis": whenever the lane
\* changes hands, whoever gets it outranks all that is left in the queue ...
HighestIsNext ==
    active' # active =>
        \A r \in waiting' :
            active' # None /\ request_priority(r) <= request_priority(active')

\* ... and a queued Item Check leaves the queue in three ways only: it gets the
\* lane, a newer copy takes its place, or the worker is found unhealthy.
CheckLosesOnlyToNewer ==
    \A r \in waiting \ waiting' : Kind[r] = "gameplay" =>
        \/ active' = r
        \/ \E newer \in waiting' \cap fresh : Kind[newer] = "gameplay"
        \/ \E signal \in finished \ finished' :
              Kind[signal.req] = "gameplay" /\ signal.outcome = "error"

\* A queued Item Check is the next on the lane, whatever the handlers that
\* complete, discard, resume and submit other work do meanwhile.
QueuedCheckIsNext == [][HighestIsNext /\ CheckLosesOnlyToNewer]_vars

\* A queued Item Check always gets its turn or is replaced by a newer one.
QueuedCheckIsServed ==
    \A r \in Requests :
        (Kind[r] = "gameplay" /\ r \in waiting) ~> (r \notin waiting)

\* docs/R1-BUILD-INTELLIGENCE-PRODUCTIZATION.md: Analyze Build "yields to Item
\* Check and resumes": an analysis that yielded is run again unless the user
\* cancels it, replaces it or loads a build.
InterruptedAnalysisResumes ==
    \A r \in Requests : (interrupted = r) ~> (interrupted # r)

\* scheduler.py: "the worker yields between transactions, then higher-priority
\* work runs": while a check or a load waits, an analysis running on the worker
\* sees the request to yield.
WaitingCheckReachesWorker ==
    (/\ running # None /\ PollsWorkerFlag(running)
     /\ \E r \in waiting : IsPreempting(r)) => yield_analysis

=============================================================================
