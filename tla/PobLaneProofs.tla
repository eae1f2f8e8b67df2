---------------------------- MODULE PobLaneProofs ----------------------------
(***************************************************************************)
(* The lane invariants of PobLane, for any set of requests of any kinds.   *)
(***************************************************************************)
EXTENDS PobLane, PobSchedulerProofs, TLAPS

\* A request object is in one place: it does not exist yet, waits, or is active.
RequestsAreDistinct ==
    /\ active \notin fresh
    /\ fresh \cap waiting = {}
    /\ fresh \cap outdated = {}
    /\ analysis_resume \notin fresh

\* Only analysis is ever resumed.
ResumesAnalysis == analysis_resume # None => Kind[analysis_resume] = "analysis"

\* Whatever waits for a replaced build is a check or a load.
OnlyChecksOutliveTheirBuild == \A r \in waiting \cap outdated : IsPreempting(r)

LaneInv ==
    /\ TypeOK
    /\ SchedInv
    /\ RequestsAreDistinct
    /\ ResumesAnalysis
    /\ LaneHasOneOwner
    /\ OnlyChecksOutliveTheirBuild

-----------------------------------------------------------------------------
\* The hand-over between the scheduler and the worker thread.

\* After submit, the worker thread still holds exactly the active request.
LEMMA SubmitKeepsOneOwner ==
    ASSUME LaneHasOneOwner, NEW r \in Requests, NEW queue, r # active,
           submit(r, queue), Dispatch, UNCHANGED <<running, finished>>
    PROVE  LaneHasOneOwner'
BY NoneAssumption DEF LaneHasOneOwner, submit, Dispatch

\* A finished_* signal belongs to the active request and is the only one.
LEMMA SignalIsOfActive ==
    ASSUME LaneHasOneOwner, NEW r, NEW outcome, Signal(r, outcome)
    PROVE  /\ active # None /\ r = active
           /\ posted = {} /\ running = None /\ finished' = {}
BY DEF LaneHasOneOwner, Signal

\* After complete, the worker thread holds exactly the request started next.
LEMMA CompleteKeepsOneOwner ==
    ASSUME LaneHasOneOwner, NEW r \in Requests, NEW outcome,
           NEW queue \in SUBSET Requests, active \notin queue,
           Signal(r, outcome), complete(r, queue), Dispatch, UNCHANGED running
    PROVE  LaneHasOneOwner'
BY SignalIsOfActive, NoneAssumption DEF LaneHasOneOwner, complete, Dispatch

-----------------------------------------------------------------------------

LEMMA InitLaneInv == Init => LaneInv
BY NoneAssumption
   DEF Init, SchedInit, LaneInv, TypeOK, SchedTypeOK, SchedInv, IdleLaneHasNoQueue,
       PreemptionIsRequested, OnlyAnalysisIsAskedToYield, RequestsAreDistinct,
       ResumesAnalysis,
       AtMostOneQueuedOfEachPreemptingKind, LaneHasOneOwner,
       OnlyChecksOutliveTheirBuild

\* A handler that submits request r, r being new, from a part of the queue.
LEMMA SubmitStep ==
    ASSUME LaneInv, NEW r \in fresh, NEW queue \in SUBSET waiting,
           submit(r, queue), Dispatch, fresh' = fresh \ {r},
           UNCHANGED <<running, finished>>
    PROVE  /\ SchedInv' /\ LaneHasOneOwner'
           /\ posted' \subseteq Requests
           /\ waiting' \subseteq queue \cup {r}
           /\ active' \notin fresh' /\ fresh' \cap waiting' = {}
<1>1. r \in Requests /\ r \notin waiting /\ r # active
  BY DEF LaneInv, RequestsAreDistinct, ResumesAnalysis, TypeOK
<1>2. SchedInv' /\ LaneHasOneOwner'
  BY <1>1, SubmitKeepsSchedInv, SubmitKeepsOneOwner DEF LaneInv
<1>. QED
  BY <1>1, <1>2 DEF LaneInv, TypeOK, SchedTypeOK, RequestsAreDistinct,
                    ResumesAnalysis, submit,
                    Dispatch, QueueAfterSubmit

\* A finished_* handler that completes request r from the queue "queue".
LEMMA CompleteStep ==
    ASSUME LaneInv, NEW r \in Requests, NEW outcome, NEW queue \in SUBSET Requests,
           active \notin queue,
           \A x, y \in queue : (IsPreempting(x) /\ Kind[x] = Kind[y]) => x = y,
           Signal(r, outcome), complete(r, queue), Dispatch, UNCHANGED running
    PROVE  /\ SchedInv' /\ LaneHasOneOwner'
           /\ posted' \subseteq Requests /\ finished' = {}
           /\ waiting' \subseteq queue /\ active' \in queue \cup {None}
<1>1. SchedInv' /\ LaneHasOneOwner'
  BY CompleteKeepsSchedInv, CompleteKeepsOneOwner DEF LaneInv
<1>. QED
  BY <1>1, SignalIsOfActive DEF LaneInv, complete, Dispatch, SchedInv, SchedTypeOK

\* Follow-up work is new and never preempts.
LEMMA FollowUpsEffect ==
    ASSUME LaneInv, NEW followUps \in FollowUps
    PROVE  /\ followUps \in SUBSET fresh /\ followUps \in SUBSET Requests
           /\ \A f \in followUps : ~IsPreempting(f) /\ Kind[f] # "gameplay"
BY DEF FollowUps, IsPreempting, LaneInv, TypeOK

\* A cache hit: the analysis is resumed on an idle lane, or follow-up work takes that, or
\* joins the queue without the old.
LEMMA CachedEffect ==
    ASSUME LaneInv, CachedItemCheck
    PROVE  /\ Dispatch
           /\ UNCHANGED <<running, finished, yield_analysis, analysis_resume, outdated>>
           /\ \/ /\ active = None /\ MayResume /\ interrupted' = None
                 /\ active' = analysis_resume /\ waiting' = {} /\ yield_requested' = FALSE
                 /\ fresh' = fresh
              \/ \E followUps \in FollowUps :
                    /\ fresh' = fresh \ followUps
                    /\ UNCHANGED <<yield_requested, interrupted>>
                    /\ \/ \E first \in followUps :
                             /\ active = None /\ IsHead(first, followUps)
                             /\ active' = first /\ waiting' = followUps \ {first}
                       \/ /\ active' = active
                          /\ waiting' = WithoutUpgradePath(waiting) \cup followUps
                          /\ active = None => followUps = {}
<1>1. PICK followUps \in FollowUps :
          /\ fresh' = fresh \ followUps
          /\ \/ /\ active = None /\ followUps = {} /\ MayResume
                /\ submit(analysis_resume, WithoutUpgradePath(waiting))
                /\ interrupted' = None
             \/ /\ active = None
                /\ \E first \in followUps :
                      /\ IsHead(first, followUps)
                      /\ active' = first /\ waiting' = followUps \ {first}
                /\ UNCHANGED <<yield_requested, interrupted>>
             \/ /\ active # None \/ (followUps = {} /\ ~MayResume)
                /\ waiting' = WithoutUpgradePath(waiting) \cup followUps
                /\ UNCHANGED <<active, yield_requested, interrupted>>
  BY DEF CachedItemCheck
<1>2. CASE /\ active = None /\ followUps = {} /\ MayResume
           /\ submit(analysis_resume, WithoutUpgradePath(waiting))
           /\ interrupted' = None
  <2>1. active' = analysis_resume /\ waiting' = {} /\ yield_requested' = FALSE
    BY <1>2 DEF submit, WithoutUpgradePath, LaneInv, SchedInv, SchedTypeOK,
       IdleLaneHasNoQueue, OnlyAnalysisIsAskedToYield
  <2>. QED
    BY <1>1, <1>2, <2>1 DEF CachedItemCheck
<1>3. CASE ~(/\ active = None /\ followUps = {} /\ MayResume
             /\ submit(analysis_resume, WithoutUpgradePath(waiting))
             /\ interrupted' = None)
  BY <1>1, <1>3 DEF CachedItemCheck
<1>. QED
  BY <1>2, <1>3

LEMMA CachedItemCheckStep == ASSUME LaneInv, CachedItemCheck PROVE LaneInv'
<1>. USE NoneAssumption
<1>1. /\ Dispatch
      /\ UNCHANGED <<running, finished, yield_analysis, analysis_resume, outdated>>
  BY CachedEffect
<1>2. CASE /\ active = None /\ MayResume /\ interrupted' = None /\ fresh' = fresh
           /\ active' = analysis_resume /\ waiting' = {} /\ yield_requested' = FALSE
  <2>1. SchedInv'
    BY <1>2 DEF MayResume, LaneInv, TypeOK, SchedInv, SchedTypeOK,
       IdleLaneHasNoQueue, PreemptionIsRequested, OnlyAnalysisIsAskedToYield,
       AtMostOneQueuedOfEachPreemptingKind
  <2>2. LaneHasOneOwner'
    BY <1>1, <1>2 DEF Dispatch, LaneInv, LaneHasOneOwner, TypeOK, MayResume
  <2>. QED
    BY <1>1, <1>2, <2>1, <2>2 DEF MayResume, Dispatch, LaneInv, TypeOK, SchedInv,
       RequestsAreDistinct, ResumesAnalysis, OnlyChecksOutliveTheirBuild
<1>3. ASSUME NEW followUps \in FollowUps, NEW first \in followUps,
             fresh' = fresh \ followUps, UNCHANGED <<yield_requested, interrupted>>,
             active = None, active' = first, waiting' = followUps \ {first}
      PROVE  LaneInv'
  <2>1. /\ followUps \in SUBSET fresh /\ followUps \in SUBSET Requests
        /\ \A f \in followUps : ~IsPreempting(f)
    BY FollowUpsEffect
  <2>2. yield_requested' = FALSE
    BY <1>3 DEF LaneInv, SchedInv, SchedTypeOK, OnlyAnalysisIsAskedToYield
  <2>3. SchedInv'
    BY <1>3, <2>1, <2>2 DEF SchedInv, SchedTypeOK, IdleLaneHasNoQueue,
       PreemptionIsRequested, OnlyAnalysisIsAskedToYield,
       AtMostOneQueuedOfEachPreemptingKind, IsPreempting
  <2>4. LaneHasOneOwner'
    BY <1>1, <1>3, <2>1 DEF Dispatch, LaneInv, LaneHasOneOwner
  <2>. QED
    BY <1>1, <1>3, <2>1, <2>3, <2>4 DEF Dispatch, LaneInv, TypeOK, SchedInv,
       RequestsAreDistinct, ResumesAnalysis, OnlyChecksOutliveTheirBuild
<1>4. ASSUME NEW followUps \in FollowUps, fresh' = fresh \ followUps,
             UNCHANGED <<yield_requested, interrupted>>, active' = active,
             waiting' = WithoutUpgradePath(waiting) \cup followUps,
             active = None => followUps = {}
      PROVE  LaneInv'
  <2>1. /\ followUps \in SUBSET fresh /\ followUps \in SUBSET Requests
        /\ \A f \in followUps : ~IsPreempting(f)
    BY FollowUpsEffect
  <2>2. waiting' \subseteq waiting \cup followUps
    BY <1>4 DEF WithoutUpgradePath
  <2>3. posted' = posted
    BY <1>1, <1>4 DEF Dispatch
  <2>4. SchedInv'
    <3>1. \A x \in waiting' : IsPreempting(x) => x \in waiting
      BY <2>1, <2>2
    <3>2. SchedTypeOK' /\ IdleLaneHasNoQueue' /\ active' \notin waiting'
      BY <1>4, <2>1, <2>2 DEF LaneInv, SchedInv, SchedTypeOK, IdleLaneHasNoQueue,
         WithoutUpgradePath, RequestsAreDistinct
    <3>3. /\ PreemptionIsRequested' /\ OnlyAnalysisIsAskedToYield'
          /\ AtMostOneQueuedOfEachPreemptingKind'
      BY <1>4, <3>1 DEF LaneInv, SchedInv, PreemptionIsRequested, IsAnalysisLike,
         IsPreempting, OnlyAnalysisIsAskedToYield, AtMostOneQueuedOfEachPreemptingKind
    <3>. QED
      BY <3>2, <3>3 DEF SchedInv
  <2>5. LaneHasOneOwner'
    BY <1>1, <1>4, <2>3 DEF LaneInv, LaneHasOneOwner
  <2>. QED
    BY <1>1, <1>4, <2>1, <2>2, <2>3, <2>4, <2>5 DEF LaneInv, TypeOK, SchedInv,
       RequestsAreDistinct, ResumesAnalysis, OnlyChecksOutliveTheirBuild
<1>. QED
  BY <1>2, <1>3, <1>4, CachedEffect

LEMMA NextLaneInv == LaneInv /\ [Next]_vars => LaneInv'
<1>. SUFFICES ASSUME LaneInv, [Next]_vars PROVE LaneInv'
  OBVIOUS
<1>. USE NoneAssumption
<1>1. ASSUME NEW r \in Requests, SubmitAnalysis(r) PROVE LaneInv'
  BY <1>1, SubmitStep
     DEF SubmitAnalysis, LaneInv, TypeOK, SchedInv, RequestsAreDistinct,
         ResumesAnalysis,
         OnlyChecksOutliveTheirBuild
<1>2. ASSUME NEW r \in Requests, SubmitBackground(r) PROVE LaneInv'
  BY <1>2, SubmitStep
     DEF SubmitBackground, LaneInv, TypeOK, SchedInv, RequestsAreDistinct,
         ResumesAnalysis,
         OnlyChecksOutliveTheirBuild
<1>3. ASSUME NEW r \in Requests, SubmitItemCheck(r) PROVE LaneInv'
  BY <1>3, SubmitStep
     DEF SubmitItemCheck, LaneInv, TypeOK, SchedInv, RequestsAreDistinct,
         ResumesAnalysis,
         OnlyChecksOutliveTheirBuild, WithoutUpgradePath, IsAnalysisLike,
         IsPreempting
<1>4. ASSUME CachedItemCheck PROVE LaneInv'
  BY <1>4, CachedItemCheckStep
<1>5. ASSUME NEW r \in Requests, LoadBuild(r) PROVE LaneInv'
  BY <1>5, SubmitStep
     DEF LoadBuild, ReplaceBuild, LaneInv, TypeOK, SchedInv, RequestsAreDistinct,
         ResumesAnalysis,
         OnlyChecksOutliveTheirBuild, WithoutUpgradePath, WithoutAnalysis
<1>6. CASE CancelAnalysis
  BY <1>6 DEF CancelAnalysis, schedVars, LaneInv, TypeOK, SchedInv, SchedTypeOK,
     IdleLaneHasNoQueue, PreemptionIsRequested, OnlyAnalysisIsAskedToYield,
     AtMostOneQueuedOfEachPreemptingKind, RequestsAreDistinct, ResumesAnalysis,
     LaneHasOneOwner,
     OnlyChecksOutliveTheirBuild
<1>7. ASSUME NEW r \in Requests, WorkerBegins(r) PROVE LaneInv'
  BY <1>7 DEF WorkerBegins, schedVars, LaneInv, TypeOK, SchedInv, SchedTypeOK,
     IdleLaneHasNoQueue, PreemptionIsRequested, OnlyAnalysisIsAskedToYield,
     AtMostOneQueuedOfEachPreemptingKind, RequestsAreDistinct, ResumesAnalysis,
     LaneHasOneOwner,
     OnlyChecksOutliveTheirBuild, PollsWorkerFlag
<1>8. CASE WorkerEnds
  BY <1>8 DEF WorkerEnds, schedVars, LaneInv, TypeOK, SchedInv, SchedTypeOK,
     IdleLaneHasNoQueue, PreemptionIsRequested, OnlyAnalysisIsAskedToYield,
     AtMostOneQueuedOfEachPreemptingKind, RequestsAreDistinct, ResumesAnalysis,
     LaneHasOneOwner,
     OnlyChecksOutliveTheirBuild
<1>9. /\ waiting \in SUBSET Requests /\ active \notin waiting
      /\ \A x, y \in waiting : (IsPreempting(x) /\ Kind[x] = Kind[y]) => x = y
  BY DEF LaneInv, SchedInv, SchedTypeOK, AtMostOneQueuedOfEachPreemptingKind
<1>10. ASSUME NEW r \in Requests, NEW outcome \in Outcomes,
              OnAnalysisFinished(r, outcome)
       PROVE  LaneInv'
  BY <1>9, <1>10, CompleteStep
     DEF OnAnalysisFinished, LaneInv, TypeOK, SchedInv, RequestsAreDistinct,
         ResumesAnalysis,
         OnlyChecksOutliveTheirBuild
<1>11. ASSUME NEW r \in Requests, NEW outcome \in Outcomes,
              OnItemCheckFinished(r, outcome)
       PROVE  LaneInv'
  <2>1. PICK followUps \in SUBSET fresh :
           /\ \A f \in followUps : ~IsPreempting(f)
           /\ fresh' = fresh \ followUps
           /\ complete(r, waiting \cup followUps) \/ complete(r, {})
    <3>1. \/ \E new \in FollowUps : fresh' = fresh \ new /\ complete(r, waiting \cup new)
          \/ complete(r, {}) /\ fresh' = fresh
      BY <1>11 DEF OnItemCheckFinished
    <3>2. CASE complete(r, {}) /\ fresh' = fresh
      <4>1. fresh' = fresh \ {} /\ {} \in SUBSET fresh
        BY <3>2
      <4>. QED
        BY <3>2, <4>1
    <3>3. ASSUME NEW new \in FollowUps, fresh' = fresh \ new, complete(r, waiting \cup new)
          PROVE  /\ new \in SUBSET fresh /\ \A f \in new : ~IsPreempting(f)
                 /\ fresh' = fresh \ new
                 /\ complete(r, waiting \cup new) \/ complete(r, {})
      BY <3>3, FollowUpsEffect
    <3>. QED
      BY <3>1, <3>2, <3>3
  <2>2. Signal(r, outcome) /\ Dispatch /\ UNCHANGED running
    BY <1>11 DEF OnItemCheckFinished
  <2>4. \/ UNCHANGED <<yield_analysis, analysis_resume, outdated, interrupted>>
        \/ ReplaceBuild /\ waiting' = {} /\ active' = None /\ UNCHANGED fresh
    BY <1>9, <1>11 DEF OnItemCheckFinished, complete, IsHead
  <2>3. /\ SchedInv' /\ LaneHasOneOwner'
        /\ posted' \subseteq Requests /\ finished' = {}
        /\ waiting' \subseteq waiting \cup followUps
        /\ active' \in waiting \cup followUps \cup {None}
    <3>1. CASE complete(r, waiting \cup followUps)
      <4>1. waiting \cup followUps \in SUBSET Requests
        BY <1>9 DEF LaneInv, TypeOK
      <4>2. active \notin waiting \cup followUps
        BY <1>9 DEF LaneInv, RequestsAreDistinct
      <4>3. \A x, y \in waiting \cup followUps :
               (IsPreempting(x) /\ Kind[x] = Kind[y]) => x = y
        BY <1>9, <2>1 DEF IsPreempting
      <4>. QED
        BY <2>2, <3>1, <4>1, <4>2, <4>3, CompleteStep
    <3>2. CASE complete(r, {})
      BY <2>2, <3>2, CompleteStep
    <3>. QED
      BY <2>1, <3>1, <3>2
  <2>. QED
    BY <2>1, <2>2, <2>3, <2>4 DEF LaneInv, TypeOK, SchedInv, RequestsAreDistinct,
       ResumesAnalysis, OnlyChecksOutliveTheirBuild, ReplaceBuild
<1>12. ASSUME NEW r \in Requests, NEW outcome \in Outcomes,
              OnUpgradePathFinished(r, outcome)
       PROVE  LaneInv'
  <2>1. CASE complete(r, waiting)
    BY <1>9, <1>12, <2>1, CompleteStep
       DEF OnUpgradePathFinished, LaneInv, TypeOK, SchedInv, RequestsAreDistinct,
           ResumesAnalysis,
           OnlyChecksOutliveTheirBuild
  <2>2. CASE ~complete(r, waiting)
    <3>1. /\ Signal(r, outcome) /\ MayResume /\ Dispatch
          /\ active' = analysis_resume /\ waiting' = {} /\ yield_requested' = FALSE
          /\ UNCHANGED <<running, yield_analysis, analysis_resume, fresh, outdated>>
          /\ interrupted' = None
      BY <1>12, <2>2 DEF OnUpgradePathFinished
    <3>2. analysis_resume # active
      BY <1>12, <3>1, SignalIsOfActive
         DEF LaneInv, OnUpgradePathFinished, ResumesAnalysis, MayResume
    <3>3. SchedInv'
      BY <3>1 DEF MayResume, LaneInv, TypeOK, SchedInv, SchedTypeOK,
         IdleLaneHasNoQueue, PreemptionIsRequested, OnlyAnalysisIsAskedToYield,
         AtMostOneQueuedOfEachPreemptingKind
    <3>4. LaneHasOneOwner'
      BY <3>1, <3>2, SignalIsOfActive DEF Dispatch, LaneInv, LaneHasOneOwner,
         TypeOK, MayResume
    <3>. QED
      BY <3>1, <3>2, <3>3, <3>4, SignalIsOfActive DEF MayResume, Dispatch,
         LaneInv, TypeOK, SchedInv, RequestsAreDistinct, ResumesAnalysis,
         OnlyChecksOutliveTheirBuild
  <2>. QED
    BY <2>1, <2>2
<1>13. ASSUME NEW r \in Requests, NEW outcome \in Outcomes,
              OnOtherFinished(r, outcome)
       PROVE  LaneInv'
  BY <1>9, <1>13, CompleteStep
     DEF OnOtherFinished, LaneInv, TypeOK, SchedInv, RequestsAreDistinct,
         ResumesAnalysis,
         OnlyChecksOutliveTheirBuild
<1>14. CASE UNCHANGED vars
  BY <1>14 DEF vars, schedVars, laneVars, LaneInv, TypeOK, SchedInv, SchedTypeOK,
     IdleLaneHasNoQueue, PreemptionIsRequested, OnlyAnalysisIsAskedToYield,
     AtMostOneQueuedOfEachPreemptingKind, RequestsAreDistinct, ResumesAnalysis,
     LaneHasOneOwner,
     OnlyChecksOutliveTheirBuild
<1>. QED
  BY <1>1, <1>2, <1>3, <1>4, <1>5, <1>6, <1>7, <1>8, <1>10, <1>11, <1>12, <1>13,
     <1>14 DEF Next, UserActs, WorkerActs, HandlerActs

\* Type correctness of the lane.
THEOREM TypeCorrect == Spec => []TypeOK
<1>1. LaneInv => TypeOK
  BY DEF LaneInv
<1>. QED
  BY <1>1, InitLaneInv, NextLaneInv, PTL DEF Spec

\* The worker thread never holds anything but the scheduler's active request,
\* and never loses it: one mutation at a time, for any number of requests.
THEOREM OneOwner == Spec => []LaneHasOneOwner
<1>1. LaneInv => LaneHasOneOwner
  BY DEF LaneInv
<1>. QED
  BY <1>1, InitLaneInv, NextLaneInv, PTL DEF Spec

\* Nothing waits behind an idle lane.
THEOREM NoQueueBehindIdleLane == Spec => []IdleLaneHasNoQueue
<1>1. LaneInv => IdleLaneHasNoQueue
  BY DEF LaneInv, SchedInv
<1>. QED
  BY <1>1, InitLaneInv, NextLaneInv, PTL DEF Spec

\* While a check or a load waits behind analysis work, the request to yield
\* stands, for every mix of kinds in the priority table.
THEOREM PreemptionStands == Spec => []PreemptionIsRequested
<1>1. LaneInv => PreemptionIsRequested
  BY DEF LaneInv, SchedInv
<1>. QED
  BY <1>1, InitLaneInv, NextLaneInv, PTL DEF Spec

\* Checks and loads are never asked to yield.
THEOREM ChecksAreNotAskedToYield == Spec => []OnlyAnalysisIsAskedToYield
<1>1. LaneInv => OnlyAnalysisIsAskedToYield
  BY DEF LaneInv, SchedInv
<1>. QED
  BY <1>1, InitLaneInv, NextLaneInv, PTL DEF Spec

\* At most one check and one load wait.
THEOREM QueueIsBounded == Spec => []AtMostOneQueuedOfEachPreemptingKind
<1>1. LaneInv => AtMostOneQueuedOfEachPreemptingKind
  BY DEF LaneInv, SchedInv
<1>. QED
  BY <1>1, InitLaneInv, NextLaneInv, PTL DEF Spec

\* No step starts work of a replaced build: the queue holds none, an analysis
\* of a replaced build is not resumed, and new requests are current.
THEOREM OnlyCurrentWorkStarts == Spec => NoWorkForReplacedBuildStarts
<1>1. LaneInv /\ [Next]_vars => [StartsOnlyCurrentWork]_vars
  <2>. SUFFICES ASSUME LaneInv, Next PROVE StartsOnlyCurrentWork
    BY DEF StartsOnlyCurrentWork, vars, schedVars
  <2>1. /\ OnlyChecksOutliveTheirBuild /\ fresh \cap outdated = {}
        /\ None \notin outdated
    BY NoneAssumption DEF LaneInv, RequestsAreDistinct, TypeOK
  <2>2. ASSUME NEW r \in fresh, NEW queue, submit(r, queue)
        PROVE  StartsOnlyCurrentWork
    BY <2>1, <2>2 DEF StartsOnlyCurrentWork, submit
  <2>3. ASSUME NEW r, NEW new \in SUBSET fresh, NEW queue \in SUBSET (waiting \cup new),
               complete(r, queue)
        PROVE  StartsOnlyCurrentWork
    BY <2>1, <2>3 DEF StartsOnlyCurrentWork, complete, OnlyChecksOutliveTheirBuild
  <2>4. CASE UserActs
    <3>1. CASE CachedItemCheck
      BY <2>1, <3>1, CachedEffect, FollowUpsEffect DEF MayResume, StartsOnlyCurrentWork
    <3>. QED
      BY <2>1, <2>2, <2>4, <3>1
         DEF UserActs, SubmitAnalysis, SubmitBackground, SubmitItemCheck, LoadBuild,
             CancelAnalysis, schedVars, StartsOnlyCurrentWork
  <2>5. CASE WorkerActs
    BY <2>5 DEF WorkerActs, WorkerBegins, WorkerEnds, schedVars,
                StartsOnlyCurrentWork
  <2>6. ASSUME NEW r \in Requests, NEW outcome \in Outcomes,
               \/ OnAnalysisFinished(r, outcome) \/ OnItemCheckFinished(r, outcome)
               \/ OnOtherFinished(r, outcome)
        PROVE  StartsOnlyCurrentWork
    <3>1. CASE OnItemCheckFinished(r, outcome)
      <4>1. PICK new \in SUBSET fresh : complete(r, waiting \cup new) \/ complete(r, {})
        BY <3>1, FollowUpsEffect DEF OnItemCheckFinished
      <4>. QED
        BY <2>3, <4>1
    <3>. QED
      BY <2>3, <2>6, <3>1 DEF OnAnalysisFinished, OnOtherFinished
  <2>7. ASSUME NEW r \in Requests, NEW outcome \in Outcomes,
               OnUpgradePathFinished(r, outcome)
        PROVE  StartsOnlyCurrentWork
    BY <2>3, <2>7 DEF OnUpgradePathFinished, MayResume, StartsOnlyCurrentWork
  <2>. QED
    BY <2>4, <2>5, <2>6, <2>7 DEF Next, HandlerActs
<1>. QED
  BY <1>1, InitLaneInv, NextLaneInv, PTL DEF Spec, NoWorkForReplacedBuildStarts

\* Submitting a request from a part of the queue that still holds every check:
\* the owner of the lane stays, and only a newer check takes the place of one.
LEMMA SubmitKeepsTurns ==
    ASSUME LaneInv, NEW r \in fresh, NEW queue \in SUBSET waiting, submit(r, queue),
           \A s \in waiting \ queue : Kind[s] # "gameplay"
    PROVE  HighestIsNext /\ CheckLosesOnlyToNewer
<1>1. CASE active = None
  BY <1>1 DEF submit, LaneInv, SchedInv, IdleLaneHasNoQueue, HighestIsNext,
              CheckLosesOnlyToNewer
<1>2. CASE active # None
  BY <1>2 DEF submit, QueueAfterSubmit, Superseded, IsPreempting, HighestIsNext,
              CheckLosesOnlyToNewer
<1>. QED
  BY <1>1, <1>2

\* Completing the owner hands the lane to the front of the queue, and takes
\* nothing but that from it.
LEMMA CompleteKeepsTurns ==
    ASSUME NEW r, NEW queue \in SUBSET Requests, waiting \subseteq queue,
           complete(r, queue)
    PROVE  HighestIsNext /\ CheckLosesOnlyToNewer
<1>1. CASE queue = {}
  BY <1>1 DEF complete, HighestIsNext, CheckLosesOnlyToNewer
<1>2. CASE queue # {}
  <2>1. PICK s \in queue : IsHead(s, queue) /\ active' = s /\ waiting' = queue \ {s}
    BY <1>2 DEF complete
  <2>2. waiting \ waiting' \subseteq {active'}
    BY <2>1
  <2>3. s # None
    BY NoneAssumption
  <2>. QED
    BY <2>1, <2>2, <2>3 DEF IsHead, HighestIsNext, CheckLosesOnlyToNewer
<1>. QED
  BY <1>1, <1>2

\* A queued check is the next on the lane, for any queue and whatever the
\* handlers do to it.
THEOREM CheckIsNext == Spec => QueuedCheckIsNext
<1>1. LaneInv /\ [Next]_vars => [HighestIsNext /\ CheckLosesOnlyToNewer]_vars
  <2>. SUFFICES ASSUME LaneInv, Next PROVE HighestIsNext /\ CheckLosesOnlyToNewer
    OBVIOUS
  <2>. DEFINE kept == WithoutUpgradePath(waiting)
              keptAtLoad == WithoutUpgradePath(WithoutAnalysis(waiting))
  <2>1. /\ kept \in SUBSET waiting /\ keptAtLoad \in SUBSET waiting
        /\ \A s \in waiting : Kind[s] = "gameplay" => s \in kept \cap keptAtLoad
    BY DEF WithoutUpgradePath, WithoutAnalysis, IsPreempting
  <2>2. ASSUME NEW r \in Requests,
               \/ SubmitAnalysis(r) \/ SubmitBackground(r)
               \/ SubmitItemCheck(r) \/ LoadBuild(r)
        PROVE  HighestIsNext /\ CheckLosesOnlyToNewer
    <3>. DEFINE queue == IF SubmitItemCheck(r) THEN kept
                         ELSE IF LoadBuild(r) THEN keptAtLoad ELSE waiting
    <3>1. r \in fresh /\ submit(r, queue)
      BY <2>2 DEF SubmitAnalysis, SubmitBackground, SubmitItemCheck, LoadBuild
    <3>2. queue \in SUBSET waiting /\ \A s \in waiting \ queue : Kind[s] # "gameplay"
      BY <2>1
    <3>. HIDE DEF queue
    <3>. QED
      BY <3>1, <3>2, SubmitKeepsTurns
  <2>3. CASE CachedItemCheck
    <3>1. CASE active = None
      <4>1. waiting = {}
        BY <3>1 DEF LaneInv, SchedInv, IdleLaneHasNoQueue
      <4>2. ASSUME NEW followUps \in FollowUps, NEW first \in followUps,
                   IsHead(first, followUps), active' = first,
                   waiting' = followUps \ {first}
            PROVE  HighestIsNext
        BY <4>2, FollowUpsEffect, NoneAssumption DEF IsHead, HighestIsNext
      <4>. QED
        BY <2>3, <3>1, <4>1, <4>2, CachedEffect DEF HighestIsNext, CheckLosesOnlyToNewer
    <3>2. CASE active # None
      <4>1. active' = active /\ kept \subseteq waiting'
        BY <2>3, <3>2, CachedEffect
      <4>. QED
        BY <2>1, <4>1 DEF HighestIsNext, CheckLosesOnlyToNewer
    <3>. QED
      BY <3>1, <3>2
  <2>4. CASE CancelAnalysis \/ WorkerActs
    BY <2>4 DEF CancelAnalysis, WorkerActs, WorkerBegins, WorkerEnds, schedVars,
                HighestIsNext, CheckLosesOnlyToNewer
  <2>5. ASSUME NEW r \in Requests, NEW outcome \in Outcomes,
               OnAnalysisFinished(r, outcome) \/ OnOtherFinished(r, outcome)
        PROVE  HighestIsNext /\ CheckLosesOnlyToNewer
    BY <2>5, CompleteKeepsTurns DEF LaneInv, TypeOK, SchedTypeOK, OnAnalysisFinished,
                                    OnOtherFinished
  <2>6. ASSUME NEW r \in Requests, NEW outcome \in Outcomes,
               OnItemCheckFinished(r, outcome)
        PROVE  HighestIsNext /\ CheckLosesOnlyToNewer
    <3>1. CASE outcome = "done"
      <4>1. PICK followUps \in SUBSET fresh : complete(r, waiting \cup followUps)
        BY <2>6, <3>1, FollowUpsEffect DEF OnItemCheckFinished
      <4>. QED
        BY <4>1, CompleteKeepsTurns DEF LaneInv, TypeOK, SchedTypeOK
    <3>2. CASE outcome # "done"
      <4>1. /\ outcome = "error" /\ complete(r, {})
            /\ Kind[r] = "gameplay" /\ Signal(r, outcome)
        BY <2>6, <3>2 DEF OnItemCheckFinished
      <4>2. waiting' = {}
        BY <4>1 DEF complete
      <4>3. [req |-> r, outcome |-> outcome] \in finished \ finished'
        BY <4>1 DEF Signal
      <4>4. CheckLosesOnlyToNewer
        BY <4>1, <4>3 DEF CheckLosesOnlyToNewer
      <4>. QED
        BY <4>2, <4>4 DEF HighestIsNext
    <3>. QED
      BY <3>1, <3>2
  <2>7. ASSUME NEW r \in Requests, NEW outcome \in Outcomes,
               OnUpgradePathFinished(r, outcome)
        PROVE  HighestIsNext /\ CheckLosesOnlyToNewer
    <3>1. CASE complete(r, waiting)
      BY <3>1, CompleteKeepsTurns DEF LaneInv, TypeOK, SchedTypeOK
    <3>2. CASE ~complete(r, waiting)
      BY <2>7, <3>2 DEF OnUpgradePathFinished, HighestIsNext, CheckLosesOnlyToNewer
    <3>. QED
      BY <3>1, <3>2
  <2>. QED
    BY <2>2, <2>3, <2>4, <2>5, <2>6, <2>7 DEF Next, UserActs, HandlerActs
<1>. QED
  BY <1>1, InitLaneInv, NextLaneInv, PTL DEF Spec, QueuedCheckIsNext

=============================================================================
