------------------------- MODULE PobSchedulerProofs -------------------------
(***************************************************************************)
(* What submit and complete of PobScheduler keep, for any set of requests  *)
(* of any kinds.  PobLaneProofs and ItemCheckProofs build on it.           *)
(***************************************************************************)
EXTENDS PobScheduler, TLAPS

\* The scheduler's own invariant: it is preserved by each of its operations,
\* whatever subset of the queue a handler discarded before the call.
SchedInv ==
    /\ SchedTypeOK
    /\ active \notin waiting
    /\ IdleLaneHasNoQueue
    /\ PreemptionIsRequested
    /\ OnlyAnalysisIsAskedToYield
    /\ AtMostOneQueuedOfEachPreemptingKind

-----------------------------------------------------------------------------

\* The priority table (scheduler.py, KIND_PRIORITY): a check or a load outranks
\* every kind of analysis work.
LEMMA PreemptingOutranks ==
    ASSUME NEW r \in Requests, NEW s \in Requests,
           IsPreempting(r), IsAnalysisLike(s)
    PROVE  ~(request_priority(r) <= request_priority(s))
<1>1. Kind[r] \in Kinds /\ Kind[s] \in Kinds
  BY KindAssumption
<1>2. KIND_PRIORITY[Kind[r]] \in {95, 100}
  BY DEF IsPreempting, KIND_PRIORITY
<1>3. KIND_PRIORITY[Kind[s]] \in {90, 80, 70, 60, 50, 45, 40, 38, 37, 36, 25, 22, 20}
  BY <1>1 DEF IsAnalysisLike, IsPreempting, KIND_PRIORITY, Kinds
<1>. QED
  BY <1>2, <1>3 DEF request_priority

\* submit keeps the scheduler's invariant, from any part of the queue.
LEMMA SubmitKeepsSchedInv ==
    ASSUME SchedInv, NEW r \in Requests, NEW queue \in SUBSET waiting,
           r \notin waiting, r # active, submit(r, queue)
    PROVE  SchedInv'
<1>. USE NoneAssumption
<1>1. CASE active = None
  <2>1. waiting' = {} /\ active' = r /\ yield_requested' = FALSE
    BY <1>1 DEF submit, SchedInv, IdleLaneHasNoQueue, OnlyAnalysisIsAskedToYield,
                SchedTypeOK
  <2>. QED
    BY <2>1 DEF SchedInv, SchedTypeOK, IdleLaneHasNoQueue, PreemptionIsRequested,
                OnlyAnalysisIsAskedToYield, AtMostOneQueuedOfEachPreemptingKind
<1>2. CASE active # None
  <2>1. /\ active' = active
        /\ waiting' = (queue \ Superseded(r, queue)) \cup {r}
        /\ yield_requested' =
              (yield_requested \/ (IsPreempting(r) /\ IsAnalysisLike(active)))
    BY <1>2 DEF submit, QueueAfterSubmit
  <2>2. SchedTypeOK' /\ active' \notin waiting' /\ IdleLaneHasNoQueue'
    BY <1>2, <2>1 DEF SchedInv, SchedTypeOK, Superseded, IdleLaneHasNoQueue
  <2>3. PreemptionIsRequested'
    BY <2>1 DEF SchedInv, PreemptionIsRequested, Superseded
  <2>4. OnlyAnalysisIsAskedToYield'
    BY <1>2, <2>1 DEF SchedInv, OnlyAnalysisIsAskedToYield
  <2>5. AtMostOneQueuedOfEachPreemptingKind'
    <3>. SUFFICES ASSUME NEW x \in waiting', NEW y \in waiting',
                         IsPreempting(x), Kind[x] = Kind[y]
                  PROVE  x = y
      BY DEF AtMostOneQueuedOfEachPreemptingKind, IsPreempting
    <3>1. CASE x = r \/ y = r
      BY <2>1, <3>1 DEF Superseded, IsPreempting
    <3>2. CASE x # r /\ y # r
      BY <2>1, <3>2 DEF SchedInv, AtMostOneQueuedOfEachPreemptingKind
    <3>. QED
      BY <3>1, <3>2
  <2>. QED
    BY <2>2, <2>3, <2>4, <2>5 DEF SchedInv
<1>. QED
  BY <1>1, <1>2

\* complete keeps it as well: the lane is handed to the highest priority.
LEMMA CompleteKeepsSchedInv ==
    ASSUME NEW r \in Requests, NEW queue \in SUBSET Requests,
           \A x, y \in queue : (IsPreempting(x) /\ Kind[x] = Kind[y]) => x = y,
           complete(r, queue)
    PROVE  SchedInv'
<1>. USE NoneAssumption
<1>1. CASE queue = {} /\ active' = None /\ waiting' = {}
  BY <1>1 DEF complete, SchedInv, SchedTypeOK, IdleLaneHasNoQueue,
              PreemptionIsRequested, OnlyAnalysisIsAskedToYield,
              AtMostOneQueuedOfEachPreemptingKind
<1>2. CASE \E s \in queue : /\ IsHead(s, queue)
                            /\ active' = s /\ waiting' = queue \ {s}
  <2>1. PICK s \in queue : /\ IsHead(s, queue)
                           /\ active' = s /\ waiting' = queue \ {s}
    BY <1>2
  <2>2. ~yield_requested'
    BY DEF complete
  <2>3. PreemptionIsRequested'
    <3>. SUFFICES ASSUME IsAnalysisLike(s), NEW x \in waiting', IsPreempting(x)
                  PROVE  FALSE
      BY <2>1 DEF PreemptionIsRequested
    <3>1. request_priority(x) <= request_priority(s)
      BY <2>1 DEF IsHead
    <3>. QED
      BY <2>1, <3>1, PreemptingOutranks
  <2>. QED
    BY <2>1, <2>2, <2>3 DEF SchedInv, SchedTypeOK, IdleLaneHasNoQueue, complete,
          OnlyAnalysisIsAskedToYield, AtMostOneQueuedOfEachPreemptingKind
<1>. QED
  BY <1>1, <1>2 DEF complete

\* The queue of a handler is always a part of _queue, so at most one check and
\* one load wait in it too.
LEMMA PartOfQueueKeepsSchedInv ==
    ASSUME SchedInv, NEW r \in Requests, NEW queue \in SUBSET waiting,
           complete(r, queue)
    PROVE  SchedInv'
BY CompleteKeepsSchedInv
   DEF SchedInv, SchedTypeOK, AtMostOneQueuedOfEachPreemptingKind

=============================================================================
