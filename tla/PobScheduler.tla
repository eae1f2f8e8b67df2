---------------------------- MODULE PobScheduler ----------------------------
(***************************************************************************)
(* app/scheduler.py: BoundedEvaluationScheduler, the single-owner lane in   *)
(* front of the one Path of Building worker.                               *)
(*                                                                         *)
(* _queue is a list kept sorted by request_priority.  Every filter keeps   *)
(* its order and the only reader is _pop_next, so the queue is the set     *)
(* "waiting" and its front is a member of highest priority.  Among equal   *)
(* priorities the code starts the oldest request and the model any of      *)
(* them.  SchedulerMetrics only feeds logs and is left out.                *)
(*                                                                         *)
(* The operators describe one call each.  The handlers of the controller   *)
(* make several calls in a row, so submit, complete and the discards take  *)
(* the queue they start from, and PobLane chains them into actions.        *)
(***************************************************************************)
EXTENDS Naturals, FiniteSets

CONSTANTS
    Requests,       \* request objects; _same_request compares their ids
    Kind,           \* request_kind: a function from Requests to Kinds
    None            \* Python None

KIND_PRIORITY ==
    [gameplay |-> 100, price_check |-> 90, baseline |-> 95, tree_node |-> 80,
     tree_visible |-> 70, tree_frontier |-> 60, tree_nearby |-> 50,
     market_capture |-> 45, analysis |-> 40, market |-> 38,
     market_capture_ideal |-> 37, gear |-> 36, prewarm |-> 25,
     upgrade_path |-> 22, build_decomp |-> 20]

Kinds == {"gameplay", "price_check", "baseline", "tree_node", "tree_visible",
          "tree_frontier", "tree_nearby", "market_capture", "analysis",
          "market", "market_capture_ideal", "gear", "prewarm",
          "upgrade_path", "build_decomp"}

ASSUME KindAssumption == Kind \in [Requests -> Kinds]
ASSUME NoneAssumption == None \notin Requests

VARIABLES
    active,             \* _active
    waiting,            \* the members of _queue
    yield_requested     \* yield_requested

schedVars == <<active, waiting, yield_requested>>

\* The two request classes that carry an explicit priority attribute
\* (upgrade_path 22, build_decomp 20) carry the value of the table.
request_priority(r) == KIND_PRIORITY[Kind[r]]

IsPreempting(r) == Kind[r] \in {"gameplay", "baseline"}
IsAnalysisLike(r) == ~IsPreempting(r)

SchedInit ==
    /\ active = None
    /\ waiting = {}
    /\ yield_requested = FALSE

\* Mutant: _queue is not sorted before its front is taken.
IsHeadUnsorted(r, queue) == r \in queue

\* _pop_next may return r: no other queued request has a higher priority.
IsHead(r, queue) ==
    /\ r \in queue
    /\ \A s \in queue : request_priority(s) <= request_priority(r)

\* What submitting r replaces: only the newest gameplay request and the
\* newest baseline request stay queued.
Superseded(r, queue) ==
    IF IsPreempting(r) THEN {s \in queue : Kind[s] = Kind[r]} ELSE {}

\* Mutant: every request stays queued.
QueueAfterSubmitKeepingAll(r, queue) == queue \cup {r}

\* _queue after submit(r) found the lane busy.
QueueAfterSubmit(r, queue) == (queue \ Superseded(r, queue)) \cup {r}

\* Mutant: a busy lane is not asked to yield.
submitWithoutYield(r, queue) ==
    \/ active = None /\ active' = r /\ waiting' = queue /\ UNCHANGED yield_requested
    \/ /\ active # None
       /\ waiting' = QueueAfterSubmit(r, queue)
       /\ UNCHANGED <<active, yield_requested>>

\* Mutant: an Item Check or a load takes the lane from running analysis.
submitPreempting(r, queue) ==
    IF active = None \/ (IsPreempting(r) /\ IsAnalysisLike(active))
    THEN active' = r /\ waiting' = queue /\ UNCHANGED yield_requested
    ELSE waiting' = QueueAfterSubmit(r, queue) /\ UNCHANGED <<active, yield_requested>>

\* submit(r), called when _queue is "queue".
submit(r, queue) ==
    \/ /\ active = None
       /\ active' = r
       /\ waiting' = queue
       /\ UNCHANGED yield_requested
    \/ /\ active # None
       /\ waiting' = QueueAfterSubmit(r, queue)
       /\ yield_requested' =
             (yield_requested \/ (IsPreempting(r) /\ IsAnalysisLike(active)))
       /\ UNCHANGED active

\* Mutant: the lane falls idle although requests are queued.
completeWithoutPop(r, queue) ==
    r = active /\ yield_requested' = FALSE /\ active' = None /\ waiting' = queue

\* Mutant: yield_requested survives the hand-over.
completeKeepingYield(r, queue) ==
    /\ r = active
    /\ UNCHANGED yield_requested
    /\ \/ queue = {} /\ active' = None /\ waiting' = {}
       \/ \E s \in queue : IsHead(s, queue) /\ active' = s /\ waiting' = queue \ {s}

\* complete(r) and complete_by_id for the active request, called when _queue
\* is "queue": the lane is handed to the front of the queue at once.
complete(r, queue) ==
    /\ r = active
    /\ yield_requested' = FALSE
    /\ \/ queue = {} /\ active' = None /\ waiting' = {}
       \/ \E s \in queue :
             /\ IsHead(s, queue)
             /\ active' = s
             /\ waiting' = queue \ {s}

\* Mutant: discard_queued_analysis discards nothing.
WithoutAnalysisKeepingAll(queue) == queue

\* The queue that discard_queued_upgrade_path and discard_queued_analysis leave.
WithoutUpgradePath(queue) ==
    {r \in queue : Kind[r] \notin {"upgrade_path", "build_decomp"}}
WithoutAnalysis(queue) == {r \in queue : IsPreempting(r)}

-----------------------------------------------------------------------------

\* Type invariant of the scheduler object.
SchedTypeOK ==
    /\ active \in Requests \cup {None}
    /\ waiting \subseteq Requests
    /\ yield_requested \in BOOLEAN

\* _queue is only used behind a running request: whenever the lane falls idle
\* nothing is left waiting for a wake-up that never comes (complete pops the
\* queue, discards never touch the active request).
IdleLaneHasNoQueue == active = None => waiting = {}

\* Submitting an Item Check or a build load while analysis work holds the lane
\* asks that work to yield, and the request stays standing until the lane
\* changes hands, whatever else is submitted or discarded meanwhile.
PreemptionIsRequested ==
    (/\ active # None
     /\ IsAnalysisLike(active)
     /\ \E r \in waiting : IsPreempting(r)) => yield_requested

\* An Item Check or a build load is never asked to yield: the flag never
\* survives a hand-over to a preempting request ("never torn down").
OnlyAnalysisIsAskedToYield ==
    yield_requested => (active # None /\ IsAnalysisLike(active))

\* The queue is bounded for the kinds a user can trigger quickly: at most one
\* gameplay and one baseline request wait, the newest of each.
AtMostOneQueuedOfEachPreemptingKind ==
    \A r, s \in waiting : (IsPreempting(r) /\ Kind[r] = Kind[s]) => r = s

=============================================================================
