-------------------------- MODULE ItemCheckProofs --------------------------
(***************************************************************************)
(* The safety of ItemCheck for any number of checks, loads, saves, user    *)
(* actions and crashes.                                                    *)
(***************************************************************************)
EXTENDS ItemCheck, PobSchedulerProofs, TLAPS

\* Request r is running or queued.
OnLane(r) == r = active \/ r \in waiting

\* The replacement worker boots, or there is no worker, only behind an empty
\* lane; and no check is accepted between a recovery and the next settled load.
EngineInv ==
    /\ engineUp => ~recoveryReload
    /\ ~engineUp => /\ active = None /\ waiting = {}
                    /\ recoveryReload => build = "RELOADING"
                    /\ ~recoveryReload => build = "FAILED"
                    /\ baseline = NoRevision
    /\ recoveryAttempted => /\ build # "READY"
                            /\ \A c \in Checks : ~OnLane(c)

\* No load on the lane is newer than the controller's generation, and one at
\* most is of it.
JobInv ==
    /\ \A l \in LiveLoads : job[l].generation <= generation
    /\ \A l, m \in LiveLoads : Current(l) /\ Current(m) => l = m

\* A build that is not settled has no baseline, and the cache is of the baseline.
\* (A failed one may keep it.)
BaselineInv ==
    /\ build \notin {"READY", "FAILED"} => baseline = NoRevision
    /\ cached \in {NoRevision, baseline}

\* Where the worker thread is, and what it reports with an outcome.
ReportInv ==
    /\ step \in {"restore", "capture"} => active \in Loads
    /\ step = "restore" => result.outcome \in {"error", "unhealthy"}
    /\ step = "done" /\ result.outcome \in {"ok", "restored"} => result.revision \in Revision

\* Saves are numbered in order, so what was seen is not newer than the file is.
FileInv ==
    /\ disk \in Revision => disk = saves
    /\ \A c \in Checks : seen[c] \in Revision => seen[c] <= saves

\* A check that is held, queued, active or painted has been copied.
CopiedInv ==
    \A c \in Checks :
        phase[c] = "none" => ~OnLane(c) /\ c # deferred /\ c # painted.check

\* What the worker evaluated on is not older than the file the active check saw.
EvaluatedInv ==
    active \in Checks /\ step = "done" /\ result.outcome = "ok" /\ ~result.kept
    /\ seen[active] \in Revision => result.revision >= seen[active]

LoadInv == LoadingHasOwner /\ HeldCheckHasRelease /\ SettledBuildIsFinal

ItemInv ==
    /\ TypeOK /\ SchedInv
    /\ EngineInv /\ JobInv /\ BaselineInv /\ LoadInv
    /\ ReportInv /\ FileInv /\ CopiedInv /\ EvaluatedInv
    /\ CheckNeverUsesOlderBuild
-----------------------------------------------------------------------------
\* Types, variable by variable

JobRow == [kind : {"none", "load", "switch"}, generation : Nat,
           source : Revision \cup {NoRevision}, restore : Revision \cup {NoRevision}]
ResultRow == [outcome : {"none", "ok", "restored", "error", "unhealthy"},
              revision : Revision \cup {NoRevision},
              measured : Revision \cup {NoRevision}, kept : BOOLEAN]
PaintedRow == [check : Checks \cup {None}, revision : Revision \cup {NoRevision},
               kept : BOOLEAN]
Phase == Terminal \cup {"none", "pending"}

EnvOK ==
    /\ disk \in Revision \cup {Missing} /\ bad \subseteq Revision
    /\ saves \in 0..MaxSaves /\ userLoads \in 0..MaxUserLoads /\ crashes \in 0..MaxCrashes
BuildOK ==
    /\ build \in {"NO_BUILD", "LOADING", "RELOADING", "READY", "FAILED"}
    /\ generation \in Nat /\ pendingSwitch \in BOOLEAN
    /\ baseline \in Revision \cup {NoRevision} /\ measured \in Revision \cup {NoRevision}
    /\ parsed \in Revision \cup {NoRevision}
CheckOK ==
    /\ latest \in Checks \cup {None} /\ deferred \in Checks \cup {None}
    /\ cached \in Revision \cup {NoRevision}
    /\ phase \in [Checks -> Phase] /\ ticket \in [Checks -> Nat]
    /\ seen \in [Checks -> Revision \cup {NoRevision, Missing}]
    /\ painted \in PaintedRow
EngineOK ==
    /\ engineUp \in BOOLEAN /\ recoveryReload \in BOOLEAN /\ recoveryAttempted \in BOOLEAN
    /\ stranded \in Checks \cup {None}
ReportOK ==
    step \in {"idle", "posted", "restore", "capture", "done"} /\ result \in ResultRow
PobOK == alive \in BOOLEAN /\ loaded \in Revision \cup {NoRevision}
JobOK == job \in [Loads -> JobRow]

LEMMA TypeByPart ==
    TypeOK <=> SchedTypeOK /\ EnvOK /\ BuildOK /\ CheckOK /\ EngineOK /\ ReportOK /\ PobOK /\ JobOK
<1>1. /\ {baseline, measured, parsed, cached, loaded} \subseteq Revision \cup {NoRevision}
      <=> /\ baseline \in Revision \cup {NoRevision} /\ measured \in Revision \cup {NoRevision}
          /\ parsed \in Revision \cup {NoRevision} /\ cached \in Revision \cup {NoRevision}
          /\ loaded \in Revision \cup {NoRevision}
  OBVIOUS
<1>2. {latest, deferred, stranded} \subseteq Checks \cup {None}
      <=> /\ latest \in Checks \cup {None} /\ deferred \in Checks \cup {None}
          /\ stranded \in Checks \cup {None}
  OBVIOUS
<1>3. {engineUp, recoveryReload, recoveryAttempted, alive} \subseteq BOOLEAN
      <=> /\ engineUp \in BOOLEAN /\ recoveryReload \in BOOLEAN
          /\ recoveryAttempted \in BOOLEAN /\ alive \in BOOLEAN
  BY Zenon
<1> QED
  BY <1>1, <1>2, <1>3, Zenon
     DEF TypeOK, EnvOK, BuildOK, CheckOK, EngineOK, ReportOK, PobOK, JobOK, JobRow, ResultRow,
         PaintedRow, Phase

\* The same for the next state.
LEMMA TypeByPartNext ==
    TypeOK' <=> /\ SchedTypeOK' /\ EnvOK' /\ BuildOK' /\ CheckOK' /\ EngineOK' /\ ReportOK'
                /\ PobOK' /\ JobOK'
BY TypeByPart, PTL

\* Item Checks and loads are the two kinds that preempt.
LEMMA Ids ==
    /\ \A c \in Checks : c \in Requests /\ c \notin Loads /\ c # None /\ Kind[c] = "gameplay"
    /\ \A l \in Loads : l \in Requests /\ l \notin Checks /\ l # None /\ Kind[l] = "baseline"
    /\ None \notin Checks /\ None \notin Loads
    /\ \A r \in Requests : IsPreempting(r)
BY IdAssumption, NoneAssumption DEF IsPreempting

\* The revisions are numbers, and neither of the two other values is one.
LEMMA Revisions ==
    /\ Revision \subseteq Nat /\ NoRevision \notin Revision /\ Missing \notin Revision
    /\ NoRevision # Missing /\ saves \in Nat => saves >= 0
BY RevisionAssumption DEF Revision

-----------------------------------------------------------------------------
\* The lane

\* At most one load runs and one waits, so a new one finds a free id.
LEMMA NextLoadIsFree ==
    ASSUME SchedInv PROVE NextLoad \in Loads /\ ~OnLane(NextLoad)
<1>1. PICK x \in Loads : Loads \cap waiting \subseteq {x}
  BY LoadIdAssumption, Ids DEF SchedInv, SchedTypeOK, AtMostOneQueuedOfEachPreemptingKind
<1>2. PICK y \in Loads : Loads \cap {active} \subseteq {y}
  BY LoadIdAssumption
<1>3. PICK n \in Loads : n # x /\ n # y
  BY LoadIdAssumption
<1>4. n \notin LiveLoads
  BY <1>1, <1>2, <1>3 DEF LiveLoads
<1>5. NextLoad \in Loads /\ NextLoad \notin LiveLoads
  BY <1>4 DEF NextLoad
<1> QED
  BY <1>5 DEF LiveLoads, OnLane

\* _dispatch_to_worker leaves the worker thread alone or gives it a new request.
LEMMA DispatchEffect ==
    ASSUME Dispatch
    PROVE  \/ active' = active /\ step' = step /\ result' = result
           \/ active' # active /\ step' \in {"idle", "posted"} /\ result' = NoResult
BY DEF Dispatch

\* What a hand-over does to the invariants of the worker thread.
LEMMA DispatchKeepsReport ==
    ASSUME ReportOK, ReportInv, EvaluatedInv, Dispatch,
           active \in Checks => seen'[active] = seen[active]
    PROVE  ReportOK' /\ ReportInv' /\ EvaluatedInv'
<1>1. CASE active' = active /\ step' = step /\ result' = result
  BY <1>1 DEF ReportOK, ReportInv, EvaluatedInv
<1>2. CASE active' # active /\ step' \in {"idle", "posted"} /\ result' = NoResult
  <2>1. NoResult \in ResultRow
    BY DEF NoResult, ResultRow
  <2> QED
    BY <1>2, <2>1 DEF ReportOK, ReportInv, EvaluatedInv
<1> QED
  BY <1>1, <1>2, DispatchEffect

\* Jobs are kept for the loads on the lane.
LEMMA JobsEffect ==
    ASSUME JobOK, NEW n, NEW entry \in JobRow, JobsWith(n, entry)
    PROVE  /\ JobOK'
           /\ n \in Loads => job'[n] = entry
           /\ \A l \in Loads : l # n /\ OnLane(l)' => job'[l] = job[l]
<1>1. NoJob \in JobRow
  BY DEF NoJob, JobRow
<1>2. \A l \in Loads : job'[l] = CASE l = n -> entry
                              [] l # n /\ l \in waiting' \cup {active'} -> job[l]
                              [] OTHER -> NoJob
  BY DEF JobsWith
<1>3. \A l \in Loads : job'[l] \in JobRow
  BY <1>1, <1>2 DEF JobOK
<1>4. JobOK'
  BY <1>3 DEF JobsWith, JobOK
<1> QED
  BY <1>2, <1>4 DEF OnLane

\* A load is submitted: the new one is on the lane, and of the old ones some.
LEMMA SubmitLoadEffect ==
    ASSUME SchedInv, JobOK, NEW entry \in JobRow, SubmitBaselineJob(entry)
    PROVE  /\ SchedInv' /\ JobOK' /\ Dispatch
           /\ \E n \in Loads :
                 /\ OnLane(n)' /\ job'[n] = entry
                 /\ \A l \in Loads : l # n /\ OnLane(l)' => OnLane(l) /\ job'[l] = job[l]
           /\ \A c \in Checks : OnLane(c)' => OnLane(c)
<1>0. PICK n \in Loads : n = NextLoad /\ ~OnLane(n)
  BY NextLoadIsFree
<1>1. n \in Loads /\ ~OnLane(n) /\ n \in Requests
  BY <1>0, Ids
<1>2. submit(n, waiting) /\ Dispatch /\ JobsWith(n, entry)
  BY <1>0 DEF SubmitBaselineJob
<1>3. SchedInv'
  BY <1>1, <1>2, SubmitKeepsSchedInv DEF OnLane
<1>4. /\ JobOK' /\ job'[n] = entry
      /\ \A l \in Loads : l # n /\ OnLane(l)' => job'[l] = job[l]
  BY <1>1, <1>2, JobsEffect
<1>5. OnLane(n)' /\ \A r : r # n /\ OnLane(r)' => OnLane(r)
  BY <1>2 DEF submit, QueueAfterSubmit, OnLane
<1> QED
  BY <1>1, <1>2, <1>3, <1>4, <1>5, Ids

\* A request completes and the next one starts, from the queue a handler left.
LEMMA CompletionEffect ==
    ASSUME SchedInv, active \in Requests, NEW queue \in SUBSET Requests,
           \A x, y \in queue : Kind[x] = Kind[y] => x = y, active \notin queue,
           complete(active, queue)
    PROVE  /\ SchedInv'
           /\ \A r : OnLane(r)' => (r = None \/ r \in queue)
           /\ \A r \in queue : OnLane(r)'
<1>1. SchedInv'
  BY CompleteKeepsSchedInv DEF IsPreempting
<1>2. /\ \A r : OnLane(r)' => (r = None \/ r \in queue)
      /\ \A r \in queue : OnLane(r)'
  BY DEF complete, OnLane
<1> QED
  BY <1>1, <1>2

-----------------------------------------------------------------------------
\* Transactions

\* A load on the lane, by the words of OnLane.
LEMMA LiveIsOnLane ==
    /\ \A l : l \in LiveLoads <=> l \in Loads /\ OnLane(l)
    /\ \A l : l \in LiveLoads' <=> l \in Loads /\ OnLane(l)'
BY DEF LiveLoads, OnLane

\* BeginReload keeps the types.
LEMMA BeginReloadTypes ==
    ASSUME BuildOK, NEW state \in {"LOADING", "RELOADING", "FAILED"}, BeginReload(state),
           parsed' = parsed
    PROVE  /\ BuildOK' /\ cached' \in Revision \cup {NoRevision} /\ generation' \in Nat
           /\ baseline' = NoRevision /\ cached' = NoRevision /\ build' = state
<1>1. /\ build' = state /\ generation' = generation + 1 /\ pendingSwitch' = FALSE
      /\ baseline' = NoRevision /\ measured' = NoRevision /\ cached' = NoRevision
  BY DEF BeginReload
<1>2. generation' \in Nat
  BY <1>1 DEF BuildOK
<1>3. build' \in {"NO_BUILD", "LOADING", "RELOADING", "READY", "FAILED"}
  BY <1>1
<1> QED
  BY <1>1, <1>2, <1>3 DEF BuildOK

\* A transaction with a new load on the lane: it owns the build, and no other load does.
LEMMA OwnerStep ==
    ASSUME ItemInv, NEW state \in {"LOADING", "RELOADING"}, BeginReload(state),
           NEW n \in Loads, OnLane(n)', job'[n].generation = generation',
           \A l \in Loads : l # n /\ OnLane(l)' => OnLane(l) /\ job'[l] = job[l]
    PROVE  JobInv' /\ LoadInv'
<1>1. /\ JobOK /\ generation \in Nat /\ generation' = generation + 1 /\ JobInv
      /\ build' = state
  BY TypeByPart DEF ItemInv, BuildOK, BeginReload
<1>2. \A l \in Loads : l # n /\ OnLane(l)' =>
          job'[l].generation \in Nat /\ job'[l].generation <= generation
  BY <1>1, LiveIsOnLane DEF JobInv, JobOK, JobRow
<1>3. /\ \A l \in Loads : OnLane(l)' => job'[l].generation <= generation'
      /\ \A l \in Loads : OnLane(l)' /\ Current(l)' => l = n
      /\ Current(n)'
  <2>1. \A l \in Loads : l # n /\ OnLane(l)' =>
            job'[l].generation <= generation' /\ job'[l].generation # generation'
    BY <1>1, <1>2
  <2>2. generation' <= generation'
    BY <1>1
  <2> QED
    BY <2>1, <2>2 DEF Current
<1>4. JobInv'
  BY <1>3, LiveIsOnLane DEF JobInv
<1>5. Loading'
  BY <1>1 DEF Loading
<1>6. LoadInv'
  BY <1>3, <1>5, LiveIsOnLane
     DEF LoadInv, LoadingHasOwner, HeldCheckHasRelease, SettledBuildIsFinal
<1> QED
  BY <1>4, <1>6

\* A transaction that submits a load to the lane as it is.
LEMMA NewLoadStep ==
    ASSUME ItemInv, NEW state \in {"LOADING", "RELOADING"}, BeginReload(state),
           NEW entry \in JobRow, entry.generation = generation', SubmitBaselineJob(entry),
           engineUp', ~recoveryReload', recoveryAttempted' = recoveryAttempted,
           parsed' = parsed
    PROVE  /\ SchedInv' /\ BuildOK' /\ JobOK' /\ cached' \in Revision \cup {NoRevision}
           /\ Dispatch /\ EngineInv' /\ JobInv' /\ BaselineInv' /\ LoadInv'
           /\ \A c \in Checks : OnLane(c)' => OnLane(c)
<1>1. SchedInv /\ BuildOK /\ JobOK /\ EngineInv
  BY TypeByPart DEF ItemInv
<1>2. /\ SchedInv' /\ JobOK' /\ Dispatch
      /\ \A c \in Checks : OnLane(c)' => OnLane(c)
  BY <1>1, SubmitLoadEffect
<1>3. PICK n \in Loads :
         /\ OnLane(n)' /\ job'[n] = entry
         /\ \A l \in Loads : l # n /\ OnLane(l)' => OnLane(l) /\ job'[l] = job[l]
  BY <1>1, SubmitLoadEffect
<1>4. JobInv' /\ LoadInv'
  BY <1>3, OwnerStep
<1>5. /\ BuildOK' /\ cached' \in Revision \cup {NoRevision}
      /\ baseline' = NoRevision /\ cached' = NoRevision /\ build' = state
  BY <1>1, BeginReloadTypes
<1>6. EngineInv'
  BY <1>1, <1>2, <1>5 DEF EngineInv
<1>7. BaselineInv'
  BY <1>5 DEF BaselineInv
<1> QED
  BY <1>2, <1>4, <1>5, <1>6, <1>7

\* A transaction that fails at once: nothing on the lane owns the build any more.
LEMMA FailedReloadStep ==
    ASSUME ItemInv, BeginReload("FAILED"), deferred' = None, UNCHANGED <<schedVars, job>>,
           engineUp', ~recoveryReload', recoveryAttempted' = recoveryAttempted,
           parsed' = parsed
    PROVE  /\ SchedInv' /\ BuildOK' /\ JobOK' /\ cached' \in Revision \cup {NoRevision}
           /\ EngineInv' /\ JobInv' /\ BaselineInv' /\ LoadInv'
<1>1. /\ SchedInv /\ BuildOK /\ JobOK /\ generation \in Nat /\ generation' = generation + 1
      /\ EngineInv /\ JobInv
  BY TypeByPart DEF ItemInv, BuildOK, BeginReload
<1>2. SchedInv' /\ JobOK' /\ \A r : OnLane(r)' = OnLane(r)
  BY <1>1 DEF schedVars, SchedInv, SchedTypeOK, IdleLaneHasNoQueue, PreemptionIsRequested,
       OnlyAnalysisIsAskedToYield, AtMostOneQueuedOfEachPreemptingKind, JobOK, OnLane
<1>3. /\ BuildOK' /\ cached' \in Revision \cup {NoRevision}
      /\ baseline' = NoRevision /\ cached' = NoRevision /\ build' = "FAILED"
  BY <1>1, BeginReloadTypes
<1>4. \A l \in Loads : OnLane(l) =>
          /\ job'[l].generation <= generation' /\ job'[l].generation # generation'
  <2>1. \A l \in Loads : OnLane(l) =>
            job[l].generation \in Nat /\ job[l].generation <= generation
    BY <1>1, LiveIsOnLane DEF JobInv, JobOK, JobRow
  <2> QED
    BY <1>1, <2>1
<1>5. JobInv' /\ \A l \in LiveLoads' : ~Current(l)'
  BY <1>2, <1>4, LiveIsOnLane DEF JobInv, Current
<1>6. LoadInv'
  BY <1>3, <1>5
     DEF LoadInv, LoadingHasOwner, HeldCheckHasRelease, SettledBuildIsFinal, Loading
<1>7. EngineInv'
  BY <1>1, <1>2, <1>3 DEF EngineInv
<1>8. BaselineInv'
  BY <1>3 DEF BaselineInv
<1> QED
  BY <1>2, <1>3, <1>5, <1>6, <1>7, <1>8

\* What the handlers of the GUI thread keep of the build and the lane.
BuildKept ==
    /\ SchedInv' /\ BuildOK' /\ JobOK' /\ cached' \in Revision \cup {NoRevision}
    /\ EngineInv' /\ JobInv' /\ BaselineInv' /\ LoadInv'

\* A handler that leaves build and lane alone but for a switch it notes, and strands no check
\* that is held.
LEMMA NotedSwitchStep ==
    ASSUME ItemInv, HeldCheckHasRelease', pendingSwitch' \in BOOLEAN,
           UNCHANGED <<build, generation, baseline, measured, parsed, cached, laneVars,
                       engineVars>>
    PROVE  BuildKept /\ \A r : OnLane(r)' = OnLane(r)
<1>1. /\ SchedInv /\ BuildOK /\ JobOK /\ cached \in Revision \cup {NoRevision}
      /\ EngineInv /\ JobInv /\ BaselineInv /\ LoadInv
  BY TypeByPart DEF ItemInv, CheckOK
<1>2. UNCHANGED <<build, generation, baseline, measured, parsed, cached>>
  OBVIOUS
<1>3. UNCHANGED <<active, waiting, yield_requested, job>>
  BY DEF laneVars, schedVars
<1>4. UNCHANGED <<engineUp, recoveryReload, recoveryAttempted, stranded>>
  BY DEF engineVars
<1>5. SchedInv'
  BY <1>1, <1>3 DEF SchedInv, SchedTypeOK, IdleLaneHasNoQueue, PreemptionIsRequested,
       OnlyAnalysisIsAskedToYield, AtMostOneQueuedOfEachPreemptingKind
<1>6. BuildOK' /\ JobOK' /\ BaselineInv' /\ cached' \in Revision \cup {NoRevision}
  BY <1>1, <1>2, <1>3 DEF BuildOK, JobOK, BaselineInv
<1>7. \A r : OnLane(r)' = OnLane(r)
  BY <1>3 DEF OnLane
<1>8. EngineInv'
  BY <1>1, <1>2, <1>3, <1>4 DEF EngineInv, OnLane
<1>9. JobInv'
  BY <1>1, <1>2, <1>3 DEF JobInv, LiveLoads, Current
<1>10. LoadInv'
  BY <1>1, <1>2, <1>3, <1>4
     DEF LoadInv, LoadingHasOwner, HeldCheckHasRelease, SettledBuildIsFinal, Loading, LiveLoads,
         Current
<1> QED
  BY <1>5, <1>6, <1>7, <1>8, <1>9, <1>10 DEF BuildKept

LEMMA SameBuildStep ==
    ASSUME ItemInv, UNCHANGED <<buildVars, cached, laneVars, engineVars>>,
           HeldCheckHasRelease'
    PROVE  BuildKept /\ \A r : OnLane(r)' = OnLane(r)
<1>1. pendingSwitch' \in BOOLEAN
  BY TypeByPart DEF ItemInv, BuildOK, buildVars
<1> QED
  BY <1>1, NotedSwitchStep DEF buildVars

\* The held check is rejected or kept; no check becomes uncopied.
LEMMA RejectDeferredEffect ==
    ASSUME NEW phases \in [Checks -> Phase], NEW held \in Checks \cup {None},
           RejectDeferred(phases, held)
    PROVE  /\ deferred' = None /\ phase' \in [Checks -> Phase]
           /\ \A c \in Checks : phase'[c] = "none" => phases[c] = "none"
BY DEF RejectDeferred, Phase, Terminal

\* A request to load, in whatever state the controller is.
LEMMA LoadBuildAsyncStep ==
    ASSUME ItemInv, NEW phases \in [Checks -> Phase], NEW held \in Checks \cup {None},
           held # None => Loading \/ build = "READY" \/ (build = "FAILED" /\ held = stranded),
           LoadBuildAsync(phases, held), UNCHANGED engineVars
    PROVE  /\ BuildKept /\ Dispatch
           /\ deferred' \in {held, None} /\ phase' \in [Checks -> Phase]
           /\ \A c \in Checks : phase'[c] = "none" => phases[c] = "none"
           /\ \A c \in Checks : OnLane(c)' => OnLane(c)
<1>1. /\ SchedInv /\ BuildOK /\ JobOK /\ EngineInv /\ EngineOK /\ EnvOK /\ BaselineInv /\ LoadInv
      /\ parsed' = parsed
      /\ UNCHANGED <<engineUp, recoveryReload, recoveryAttempted, stranded>>
  BY TypeByPart DEF ItemInv, engineVars, LoadBuildAsync
<1>2. UNCHANGED <<laneVars, reportVars>> => Dispatch /\ UNCHANGED <<schedVars, job>>
  BY DEF Dispatch, laneVars, schedVars, reportVars
<1>3. RejectDeferred(phases, held) =>
         /\ deferred' = None /\ phase' \in [Checks -> Phase]
         /\ \A c \in Checks : phase'[c] = "none" => phases[c] = "none"
  BY RejectDeferredEffect
<1>4. ASSUME ~engineUp, recoveryReload, phase' = phases, deferred' = held,
             UNCHANGED <<build, generation, baseline, measured, pendingSwitch,
                         cached, laneVars, reportVars>>
      PROVE  BuildKept /\ \A c \in Checks : OnLane(c)' => OnLane(c)
  <2>1. UNCHANGED <<buildVars, cached, laneVars, engineVars>>
    BY <1>1, <1>4 DEF buildVars, engineVars
  <2>2. Loading'
    BY <1>1, <1>4 DEF EngineInv, Loading
  <2>3. HeldCheckHasRelease'
    BY <2>2 DEF HeldCheckHasRelease
  <2> QED
    BY <2>1, <2>3, SameBuildStep
<1>5. ASSUME ~engineUp, ~recoveryReload, build' = "FAILED", baseline' = NoRevision,
             measured' = NoRevision, deferred' = None,
             UNCHANGED <<generation, pendingSwitch, cached, laneVars, reportVars>>
      PROVE  BuildKept /\ \A c \in Checks : OnLane(c)' => OnLane(c)
  <2>1. build = "FAILED" /\ baseline = NoRevision
    BY <1>1, <1>5 DEF EngineInv
  <2>2. BuildOK' /\ BaselineInv' /\ cached' \in Revision \cup {NoRevision}
    BY <1>1, <1>5, <2>1 DEF BuildOK, BaselineInv
  <2>3. /\ UNCHANGED <<active, waiting, yield_requested, job>>
        /\ \A r : OnLane(r)' = OnLane(r)
    BY <1>5 DEF laneVars, schedVars, OnLane
  <2>4. SchedInv' /\ JobOK' /\ JobInv'
    BY <1>1, <1>5, <2>3 DEF SchedInv, SchedTypeOK, IdleLaneHasNoQueue, PreemptionIsRequested,
         OnlyAnalysisIsAskedToYield, AtMostOneQueuedOfEachPreemptingKind, JobOK, JobInv,
         LiveLoads, Current, ItemInv
  <2>5. EngineInv'
    BY <1>1, <1>5, <2>3 DEF EngineInv, OnLane
  <2>6. LoadInv'
    BY <1>1, <1>5, <2>1, <2>3
       DEF LoadInv, LoadingHasOwner, HeldCheckHasRelease, SettledBuildIsFinal, Loading, LiveLoads,
           Current
  <2> QED
    BY <2>2, <2>3, <2>4, <2>5, <2>6 DEF BuildKept
<1>6. ASSUME deferred' = None,
             UNCHANGED <<build, generation, baseline, measured, pendingSwitch,
                         cached, laneVars, reportVars>>
      PROVE  BuildKept /\ \A c \in Checks : OnLane(c)' => OnLane(c)
  <2>1. UNCHANGED <<buildVars, cached, laneVars, engineVars>>
    BY <1>1, <1>6 DEF buildVars, engineVars
  <2>2. HeldCheckHasRelease'
    BY <1>6 DEF HeldCheckHasRelease
  <2> QED
    BY <2>1, <2>2, SameBuildStep
<1>7. ASSUME engineUp, BeginReload("FAILED"), deferred' = None, UNCHANGED <<laneVars, reportVars>>
      PROVE  BuildKept /\ \A c \in Checks : OnLane(c)' => OnLane(c)
  <2>1. engineUp' /\ ~recoveryReload' /\ UNCHANGED <<schedVars, job>>
    BY <1>1, <1>2, <1>7 DEF EngineInv
  <2>2. \A r : OnLane(r)' = OnLane(r)
    BY <2>1 DEF schedVars, OnLane
  <2> QED
    BY <1>1, <1>7, <2>1, <2>2, FailedReloadStep DEF BuildKept
<1>8. ASSUME engineUp, disk # Missing,
             BeginReload(IF build \in {"READY", "RELOADING"} THEN "RELOADING" ELSE "LOADING"),
             SubmitBaselineJob(LoadJob(disk, IF SameBuild THEN parsed ELSE NoRevision))
      PROVE  BuildKept /\ Dispatch /\ \A c \in Checks : OnLane(c)' => OnLane(c)
  <2>1. PICK state \in {"LOADING", "RELOADING"} : BeginReload(state)
    BY <1>8
  <2>2. PICK restore \in Revision \cup {NoRevision} : SubmitBaselineJob(LoadJob(disk, restore))
    <3>1. (IF SameBuild THEN parsed ELSE NoRevision) \in Revision \cup {NoRevision}
      BY <1>1 DEF BuildOK
    <3> QED
      BY <1>8, <3>1
  <2>3. generation' \in Nat
    BY <1>1, <2>1, BeginReloadTypes
  <2>4. LoadJob(disk, restore) \in JobRow /\ LoadJob(disk, restore).generation = generation'
    BY <1>1, <1>8, <2>3 DEF LoadJob, JobRow, EnvOK
  <2>5. engineUp' /\ ~recoveryReload'
    BY <1>1, <1>8 DEF EngineInv
  <2> QED
    BY <1>1, <2>1, <2>2, <2>4, <2>5, NewLoadStep DEF BuildKept
<1> QED
  <2>1. CASE ~engineUp /\ recoveryReload
    <3>1. CASE phase' = phases /\ deferred' = held
      BY <1>2, <1>4, <2>1, <3>1 DEF LoadBuildAsync
    <3> QED
      BY <2>1, <3>1 DEF LoadBuildAsync
  <2>2. CASE ~engineUp /\ ~recoveryReload
    BY <1>2, <1>3, <1>5, <2>2 DEF LoadBuildAsync
  <2>3. CASE engineUp
    BY <1>2, <1>3, <1>6, <1>7, <1>8, <2>3 DEF LoadBuildAsync
  <2> QED
    BY <2>1, <2>2, <2>3

-----------------------------------------------------------------------------
\* Parts of the invariant that most actions leave alone

LEMMA Assemble ==
    ASSUME BuildKept, EnvOK', CheckOK', EngineOK', ReportOK', PobOK', ReportInv', FileInv',
           CopiedInv', EvaluatedInv', CheckNeverUsesOlderBuild'
    PROVE  ItemInv'
<1>1. TypeOK'
  BY TypeByPartNext DEF BuildKept, SchedInv
<1> QED
  BY <1>1 DEF BuildKept, ItemInv

LEMMA Parts ==
    ASSUME ItemInv
    PROVE  /\ SchedInv /\ EnvOK /\ BuildOK /\ CheckOK /\ EngineOK /\ ReportOK /\ PobOK /\ JobOK
           /\ EngineInv /\ JobInv /\ BaselineInv /\ LoadInv /\ ReportInv /\ FileInv /\ CopiedInv
           /\ EvaluatedInv /\ CheckNeverUsesOlderBuild
BY TypeByPart DEF ItemInv

\* No check becomes uncopied, and none takes the lane or is held but was before.
LEMMA CopiedFrame ==
    ASSUME ItemInv, painted' = painted, deferred' \in {deferred, None},
           \A c \in Checks : phase'[c] = "none" => phase[c] = "none",
           \A c \in Checks : OnLane(c)' => OnLane(c)
    PROVE  CopiedInv'
BY Ids DEF ItemInv, CopiedInv

\* Nothing is painted, and only a check that was not copied before gets a revision seen.
LEMMA PaintedFrame ==
    ASSUME ItemInv, painted' = painted,
           \A c \in Checks : seen'[c] = seen[c] \/ phase[c] = "none"
    PROVE  CheckNeverUsesOlderBuild'
<1>1. painted.check \in Checks \cup {None}
  BY Parts DEF CheckOK, PaintedRow
<1>2. painted.check # None => seen'[painted.check] = seen[painted.check]
  BY <1>1 DEF ItemInv, CopiedInv
<1> QED
  BY <1>2 DEF ItemInv, CheckNeverUsesOlderBuild

\* The file does not move and nobody looks at it.
LEMMA EnvFrame ==
    ASSUME ItemInv, UNCHANGED <<disk, bad, saves, crashes>>, userLoads' \in 0..MaxUserLoads
    PROVE  EnvOK' /\ (seen' = seen => FileInv')
BY Parts DEF EnvOK, FileInv

\* Nobody is held anew, and no build is settled.
LEMMA HeldFrame ==
    ASSUME ItemInv, deferred' = deferred, build' = build, UNCHANGED engineVars
    PROVE  HeldCheckHasRelease'
BY Parts DEF LoadInv, HeldCheckHasRelease, Loading, engineVars

-----------------------------------------------------------------------------
\* Environment, watchdog and worker thread

LEMMA EnvironmentStep == ASSUME ItemInv, Environment PROVE ItemInv'
<1>1. UNCHANGED <<buildVars, checkVars, engineVars, reportVars, loaded, laneVars>>
  BY DEF Environment, Save, RemoveFile, Crash, pobVars
<1>2. /\ UNCHANGED <<latest, phase, ticket, deferred, cached, seen, painted, step, result>>
      /\ UNCHANGED <<active, engineUp, recoveryReload, recoveryAttempted, stranded>>
  BY <1>1 DEF checkVars, reportVars, laneVars, schedVars, engineVars
<1>3. BuildKept /\ \A r : OnLane(r)' = OnLane(r)
  BY <1>1, <1>2, HeldFrame, SameBuildStep DEF buildVars
<1>4. CheckOK' /\ EngineOK' /\ ReportOK' /\ ReportInv' /\ EvaluatedInv'
  BY <1>2, Parts DEF CheckOK, EngineOK, ReportOK, ReportInv, EvaluatedInv
<1>5. CopiedInv' /\ CheckNeverUsesOlderBuild'
  BY <1>2, <1>3, CopiedFrame, PaintedFrame
<1>6. EnvOK' /\ FileInv' /\ PobOK'
  <2>1. EnvOK /\ PobOK /\ CheckOK /\ FileInv /\ saves \in Nat /\ loaded' = loaded /\ MaxSaves \in Nat
    BY <1>1, Parts, RevisionAssumption DEF EnvOK
  <2>2. CASE Save
    <3>1. saves' = saves + 1 /\ saves' \in 0..MaxSaves /\ disk' = saves' /\ bad' \subseteq Revision
      BY <2>1, <2>2 DEF Save, EnvOK, Revision
    <3>2. ASSUME NEW c \in Checks, seen[c] \in Revision PROVE seen[c] <= saves'
      <4>1. seen[c] \in Nat /\ seen[c] <= saves
        BY <2>1, <3>2, Revisions DEF FileInv
      <4> QED
        BY <2>1, <3>1, <4>1
    <3> QED
      BY <1>2, <2>1, <2>2, <3>1, <3>2 DEF Save, EnvOK, PobOK, FileInv, pobVars, Revision
  <2>3. CASE RemoveFile
    BY <1>2, <2>1, <2>3, Revisions DEF RemoveFile, EnvOK, PobOK, FileInv, pobVars
  <2>4. CASE Crash
    <3>1. /\ crashes' = crashes + 1 /\ crashes < MaxCrashes /\ crashes \in Nat
          /\ alive' = FALSE /\ UNCHANGED <<disk, bad, saves, userLoads>>
      BY <2>1, <2>4, RevisionAssumption DEF Crash, EnvOK
    <3>2. crashes' \in 0..MaxCrashes
      BY <3>1, RevisionAssumption
    <3>3. EnvOK' /\ FileInv'
      BY <1>2, <2>1, <3>1, <3>2 DEF EnvOK, FileInv
    <3> QED
      BY <2>1, <3>1, <3>3 DEF PobOK
  <2> QED
    BY <2>2, <2>3, <2>4 DEF Environment
<1> QED
  BY <1>3, <1>4, <1>5, <1>6, Assemble

LEMMA WatchdogStep == ASSUME ItemInv, NEW c \in Checks, Watchdog(c) PROVE ItemInv'
<1>1. /\ phase' = [phase EXCEPT ![c] = "error"]
      /\ UNCHANGED <<latest, ticket, deferred, cached, seen, painted, envVars, buildVars,
                     engineVars, reportVars, pobVars, laneVars>>
  BY DEF Watchdog
<1>2. /\ UNCHANGED <<step, result, alive, loaded, disk, bad, saves, userLoads, crashes>>
      /\ UNCHANGED <<active, engineUp, recoveryReload, recoveryAttempted, stranded>>
  BY <1>1 DEF envVars, reportVars, pobVars, laneVars, schedVars, engineVars
<1>3. BuildKept /\ \A r : OnLane(r)' = OnLane(r)
  BY <1>1, HeldFrame, SameBuildStep DEF buildVars
<1>4. phase' \in [Checks -> Phase] /\ \A d \in Checks : phase'[d] = "none" => phase[d] = "none"
  BY <1>1, Parts DEF CheckOK, Phase, Terminal
<1>5. CheckOK' /\ EngineOK' /\ ReportOK' /\ ReportInv' /\ EvaluatedInv' /\ PobOK'
  BY <1>1, <1>2, <1>4, Parts DEF CheckOK, EngineOK, ReportOK, ReportInv, EvaluatedInv, PobOK
<1>6. CopiedInv' /\ CheckNeverUsesOlderBuild'
  BY <1>1, <1>3, <1>4, CopiedFrame, PaintedFrame
<1>7. EnvOK' /\ FileInv'
  BY <1>1, <1>2, Parts DEF EnvOK, FileInv
<1> QED
  BY <1>3, <1>5, <1>6, <1>7, Assemble

\* Results the worker thread makes.
LEMMA Results ==
    /\ NoResult \in ResultRow
    /\ \A r \in ResultRow, o \in {"ok", "restored", "error", "unhealthy"} :
          [r EXCEPT !.outcome = o] \in ResultRow /\ [r EXCEPT !.outcome = o].outcome = o
    /\ Failure \in {"error", "unhealthy"}
    /\ NoResult.outcome = "none" /\ NoResult.revision = NoRevision
BY DEF NoResult, ResultRow, Failure

\* The build of the file, when the engine can ensure it.
LEMMA EnsureEffect ==
    ASSUME EnvOK, PobOK, EnsureSucceeds
    PROVE  loaded' \in Revision /\ (disk # Missing => loaded' = disk)
BY Revisions DEF EnsureSucceeds, CanEnsure, Ensured, Unmoved, EnvOK

LEMMA WorkerStep == ASSUME ItemInv, Worker PROVE ItemInv'
<1>0. WorkerOnly
  BY DEF Worker, WorkerLoads, WorkerRestores, WorkerSwitches, WorkerCaptures, WorkerEvaluates
<1>1. /\ UNCHANGED <<buildVars, checkVars, engineVars, laneVars>>
      /\ UNCHANGED <<latest, phase, ticket, deferred, cached, seen, painted, alive>>
      /\ UNCHANGED <<disk, bad, saves, userLoads, crashes>>
      /\ UNCHANGED <<active, job, engineUp, recoveryReload, recoveryAttempted, stranded>>
  BY <1>0 DEF WorkerOnly, checkVars, laneVars, schedVars, engineVars, envVars
<1>2. BuildKept /\ \A r : OnLane(r)' = OnLane(r)
  BY <1>1, HeldFrame, SameBuildStep DEF buildVars
<1>3. CheckOK' /\ EngineOK' /\ EnvOK' /\ FileInv'
  BY <1>1, Parts DEF CheckOK, EngineOK, EnvOK, FileInv
<1>4. CopiedInv' /\ CheckNeverUsesOlderBuild'
  BY <1>1, <1>2, CopiedFrame, PaintedFrame
<1>5. /\ EnvOK /\ PobOK /\ ReportOK /\ JobOK /\ ReportInv /\ FileInv /\ CheckOK
      /\ \A l \in Loads : job[l] \in JobRow
  BY Parts DEF JobOK
<1>6. PobOK' /\ ReportOK' /\ ReportInv' /\ EvaluatedInv'
  <2>1. CASE WorkerLoads
    <3>1. active \in Loads /\ active \notin Checks /\ loaded' \in Revision \cup {NoRevision}
      BY <1>5, <2>1, Ids DEF WorkerLoads, LoadAccepted, LoadRejected, JobRow
    <3>2. \/ step' = "capture" /\ result' = [NoResult EXCEPT !.outcome = "ok"]
          \/ \E o \in {"error", "unhealthy"} :
                result' = [NoResult EXCEPT !.outcome = o] /\ step' \in {"restore", "done"}
      BY <2>1, Results DEF WorkerLoads
    <3>3. /\ result' \in ResultRow /\ step' \in {"capture", "restore", "done"}
          /\ step' # "capture" => result'.outcome \in {"error", "unhealthy"}
      <4>1. CASE step' = "capture" /\ result' = [NoResult EXCEPT !.outcome = "ok"]
        BY <4>1, Results
      <4>2. ASSUME NEW o \in {"error", "unhealthy"}, result' = [NoResult EXCEPT !.outcome = o],
                   step' \in {"restore", "done"}
            PROVE  result' \in ResultRow /\ result'.outcome \in {"error", "unhealthy"}
        BY <4>2, Results
      <4> QED
        BY <3>2, <4>1, <4>2
    <3> QED
      BY <1>1, <1>5, <3>1, <3>3 DEF PobOK, ReportOK, ReportInv, EvaluatedInv
  <2>2. CASE WorkerRestores
    <3>1. active \in Loads /\ active \notin Checks /\ loaded' \in Revision \cup {NoRevision}
      BY <1>5, <2>2, Ids DEF WorkerRestores, LoadAccepted, LoadRejected, JobRow, ReportInv
    <3>2. \/ step' = "capture" /\ result' = [NoResult EXCEPT !.outcome = "restored"]
          \/ /\ result' = result /\ result.outcome \in {"error", "unhealthy"}
             /\ step' = "done"
      BY <1>5, <2>2 DEF WorkerRestores, ReportInv
    <3>3. /\ result' \in ResultRow /\ step' \in {"capture", "done"}
          /\ step' # "capture" => result'.outcome \in {"error", "unhealthy"}
      BY <1>5, <3>2, Results DEF ReportOK
    <3> QED
      BY <1>1, <1>5, <3>1, <3>3 DEF PobOK, ReportOK, ReportInv, EvaluatedInv
  <2>3. CASE WorkerSwitches
    <3>1. active \in Loads /\ active \notin Checks /\ loaded' = loaded
      BY <2>3, Ids DEF WorkerSwitches
    <3>2. \/ step' = "capture" /\ result' = [NoResult EXCEPT !.outcome = "ok"]
          \/ \E o \in {"error", "unhealthy"} :
                step' = "done" /\ result' = [result EXCEPT !.outcome = o]
      BY <2>3, Results DEF WorkerSwitches, Report
    <3>3. /\ result' \in ResultRow /\ step' \in {"capture", "done"}
          /\ step' # "capture" => result'.outcome \in {"error", "unhealthy"}
      <4>1. CASE step' = "capture" /\ result' = [NoResult EXCEPT !.outcome = "ok"]
        BY <4>1, Results
      <4>2. ASSUME NEW o \in {"error", "unhealthy"}, result' = [result EXCEPT !.outcome = o]
            PROVE  result' \in ResultRow /\ result'.outcome \in {"error", "unhealthy"}
        BY <1>5, <4>2, Results DEF ReportOK
      <4> QED
        BY <3>2, <4>1, <4>2
    <3> QED
      BY <1>1, <1>5, <3>1, <3>3 DEF PobOK, ReportOK, ReportInv, EvaluatedInv
  <2>4. CASE WorkerCaptures
    <3>1. active \in Loads /\ active \notin Checks /\ step' = "done"
      BY <1>5, <2>4, Ids DEF WorkerCaptures, ReportInv, Report
    <3>2. CASE EnsureSucceeds /\ result' = [result EXCEPT !.measured = loaded, !.revision = loaded']
      <4>1. loaded' \in Revision
        BY <1>5, <3>2, EnsureEffect
      <4>2. result' \in ResultRow /\ result'.revision = loaded'
        BY <1>5, <3>2, <4>1 DEF ReportOK, ResultRow, PobOK
      <4> QED
        BY <1>1, <1>5, <3>1, <4>1, <4>2 DEF PobOK, ReportOK, ReportInv, EvaluatedInv
    <3>3. CASE EnsureFails /\ Report(Failure)
      <4>1. loaded' \in Revision \cup {NoRevision}
        BY <1>5, <3>3 DEF EnsureFails, LoadRejected, PobOK
      <4>2. PICK o \in {"error", "unhealthy"} : result' = [result EXCEPT !.outcome = o]
        BY <3>3, Results DEF Report
      <4>3. result' \in ResultRow /\ result'.outcome \in {"error", "unhealthy"}
        BY <1>5, <4>2, Results DEF ReportOK
      <4> QED
        BY <1>1, <1>5, <3>1, <4>1, <4>3 DEF PobOK, ReportOK, ReportInv, EvaluatedInv
    <3> QED
      BY <2>4, <3>2, <3>3 DEF WorkerCaptures
  <2>5. CASE WorkerEvaluates
    <3>1. active \in Checks /\ active \notin Loads /\ step' = "done"
      BY <2>5, Ids DEF WorkerEvaluates, Report
    <3>2. CASE EnsureSucceeds /\ result' = [NoResult EXCEPT !.outcome = "ok", !.revision = loaded',
                                                            !.kept = (disk = Missing)]
      <4>1. loaded' \in Revision /\ (disk # Missing => loaded' = disk)
        BY <1>5, <3>2, EnsureEffect
      <4>2. result' \in ResultRow /\ result'.revision = loaded' /\ (result'.kept <=> disk = Missing)
        BY <3>2, <4>1 DEF NoResult, ResultRow
      <4>3. disk # Missing /\ seen[active] \in Revision => loaded' >= seen[active]
        BY <1>5, <3>1, <4>1, Revisions DEF FileInv, EnvOK
      <4> QED
        BY <1>1, <1>5, <3>1, <4>1, <4>2, <4>3 DEF PobOK, ReportOK, ReportInv, EvaluatedInv
    <3>3. CASE /\ loaded' \in Revision \cup {NoRevision}
               /\ \E o \in {"error", "unhealthy"} : Report(o)
      <4>0. PICK o \in {"error", "unhealthy"} : result' = [result EXCEPT !.outcome = o]
        BY <3>3 DEF Report
      <4>1. result' \in ResultRow /\ result'.outcome \in {"error", "unhealthy"}
        BY <1>5, <4>0, Results DEF ReportOK
      <4> QED
        BY <1>1, <1>5, <3>1, <3>3, <4>1 DEF PobOK, ReportOK, ReportInv, EvaluatedInv
    <3>4. EnsureSucceeds => loaded' \in Revision
      BY <1>5, EnsureEffect
    <3>5. EnsureFails => loaded' \in Revision \cup {NoRevision}
      BY <1>5 DEF EnsureFails, LoadRejected, PobOK
    <3> QED
      BY <2>5, <3>2, <3>3, <3>4, <3>5, Results DEF WorkerEvaluates
  <2> QED
    BY <2>1, <2>2, <2>3, <2>4, <2>5 DEF Worker
<1> QED
  BY <1>2, <1>3, <1>4, <1>6, Assemble

-----------------------------------------------------------------------------
\* The user

LEMMA UserLoadsEffect ==
    ASSUME ItemInv, UserLoads PROVE EnvOK' /\ (seen' = seen => FileInv')
<1>1. userLoads' \in 0..MaxUserLoads
  BY Parts, RevisionAssumption DEF UserLoads, EnvOK
<1> QED
  BY <1>1, EnvFrame DEF UserLoads

LEMMA LoadBuildStep == ASSUME ItemInv, LoadBuild PROVE ItemInv'
<1>1. /\ UserLoads /\ LoadBuildAsync(phase, deferred) /\ UNCHANGED engineVars
      /\ UNCHANGED <<latest, ticket, seen, painted, alive, loaded>>
      /\ UNCHANGED <<engineUp, recoveryReload, recoveryAttempted, stranded>>
  BY DEF LoadBuild, engineVars, pobVars
<1>2. /\ phase \in [Checks -> Phase] /\ deferred \in Checks \cup {None}
      /\ deferred # None => Loading \/ (build = "FAILED" /\ deferred = stranded)
  BY Parts DEF CheckOK, LoadInv, HeldCheckHasRelease
<1>3. /\ BuildKept /\ Dispatch
      /\ deferred' \in {deferred, None} /\ phase' \in [Checks -> Phase]
      /\ \A c \in Checks : phase'[c] = "none" => phase[c] = "none"
      /\ \A c \in Checks : OnLane(c)' => OnLane(c)
  BY <1>1, <1>2, LoadBuildAsyncStep
<1>4. EnvOK' /\ FileInv'
  BY <1>1, UserLoadsEffect
<1>5. CheckOK' /\ EngineOK' /\ PobOK'
  BY <1>1, <1>2, <1>3, Parts DEF CheckOK, EngineOK, PobOK, BuildKept
<1>6. ReportOK' /\ ReportInv' /\ EvaluatedInv'
  BY <1>1, <1>3, Parts, DispatchKeepsReport
<1>7. CopiedInv' /\ CheckNeverUsesOlderBuild'
  BY <1>1, <1>3, CopiedFrame, PaintedFrame
<1> QED
  BY <1>3, <1>4, <1>5, <1>6, <1>7, Assemble

LEMMA SetActiveStep == ASSUME ItemInv, SetActive PROVE ItemInv'
<1>1. /\ UserLoads /\ engineUp /\ UNCHANGED engineVars
      /\ UNCHANGED <<parsed, latest, phase, ticket, deferred, seen, painted, alive, loaded>>
      /\ UNCHANGED <<engineUp, recoveryReload, recoveryAttempted, stranded>>
  BY DEF SetActive, engineVars, pobVars
<1>2. /\ BuildKept /\ Dispatch
      /\ \A c \in Checks : OnLane(c)' => OnLane(c)
  <2>1. CASE /\ pendingSwitch' = TRUE
             /\ UNCHANGED <<build, generation, baseline, measured, cached, laneVars, reportVars>>
    <3>1. Dispatch
      BY <2>1 DEF Dispatch, laneVars, schedVars, reportVars
    <3>2. BuildKept /\ \A r : OnLane(r)' = OnLane(r)
      BY <1>1, <2>1, HeldFrame, NotedSwitchStep
    <3> QED
      BY <3>1, <3>2
  <2>2. CASE BeginReload("RELOADING") /\ SubmitBaselineJob(SwitchJob)
    <3>1. generation' \in Nat
      BY <1>1, <2>2, Parts, BeginReloadTypes
    <3>2. SwitchJob \in JobRow /\ SwitchJob.generation = generation'
      BY <3>1 DEF SwitchJob, NoJob, JobRow
    <3>3. engineUp' /\ ~recoveryReload'
      BY <1>1, Parts DEF EngineInv
    <3> QED
      BY <1>1, <2>2, <3>2, <3>3, NewLoadStep DEF BuildKept
  <2> QED
    BY <2>1, <2>2 DEF SetActive
<1>3. EnvOK' /\ FileInv'
  BY <1>1, UserLoadsEffect
<1>4. CheckOK' /\ EngineOK' /\ PobOK'
  BY <1>1, <1>2, Parts DEF CheckOK, EngineOK, PobOK, BuildKept
<1>5. ReportOK' /\ ReportInv' /\ EvaluatedInv'
  BY <1>1, <1>2, Parts, DispatchKeepsReport
<1>6. CopiedInv' /\ CheckNeverUsesOlderBuild'
  BY <1>1, <1>2, CopiedFrame, PaintedFrame
<1> QED
  BY <1>2, <1>3, <1>4, <1>5, <1>6, Assemble

\* What copying item c does whatever becomes of it.
LEMMA CopiedEffect ==
    ASSUME ItemInv, NEW c \in Checks, Copied(c)
    PROVE  /\ EnvOK' /\ EngineOK' /\ PobOK' /\ FileInv' /\ UNCHANGED engineVars
           /\ latest' = c /\ phase[c] = "none" /\ ~OnLane(c) /\ c # deferred
           /\ seen' \in [Checks -> Revision \cup {NoRevision, Missing}] /\ seen'[c] = disk
           /\ \A d \in Checks : seen'[d] = seen[d] \/ phase[d] = "none"
           /\ active \in Checks => seen'[active] = seen[active]
<1>1. /\ phase[c] = "none" /\ latest' = c /\ seen' = [seen EXCEPT ![c] = disk]
      /\ UNCHANGED engineVars
      /\ UNCHANGED <<disk, bad, saves, userLoads, crashes, alive, loaded>>
      /\ UNCHANGED <<engineUp, recoveryReload, recoveryAttempted, stranded>>
  BY DEF Copied, envVars, engineVars, pobVars
<1>2. ~OnLane(c) /\ c # deferred
  BY <1>1, Parts DEF CopiedInv
<1>3. /\ seen' \in [Checks -> Revision \cup {NoRevision, Missing}] /\ seen'[c] = disk
      /\ \A d \in Checks : d # c => seen'[d] = seen[d]
  BY <1>1, Parts DEF CheckOK, EnvOK
<1>4. EnvOK' /\ EngineOK' /\ PobOK'
  BY <1>1, Parts DEF EnvOK, EngineOK, PobOK
<1>5. FileInv'
  <2>1. disk \in Revision => disk <= saves
    BY Parts, Revisions DEF FileInv, EnvOK
  <2> QED
    BY <1>1, <1>3, <2>1, Parts DEF FileInv
<1> QED
  BY <1>1, <1>2, <1>3, <1>4, <1>5 DEF OnLane

LEMMA CopyRefusedStep == ASSUME ItemInv, NEW c \in Checks, CopyRefused(c) PROVE ItemInv'
<1>1. /\ Copied(c) /\ phase' = [phase EXCEPT ![c] = "error"]
      /\ UNCHANGED <<ticket, deferred, cached, painted, buildVars, laneVars, reportVars>>
  BY DEF CopyRefused
<1>2. /\ EnvOK' /\ EngineOK' /\ PobOK' /\ FileInv' /\ UNCHANGED engineVars
      /\ latest' = c
      /\ seen' \in [Checks -> Revision \cup {NoRevision, Missing}]
      /\ \A d \in Checks : seen'[d] = seen[d] \/ phase[d] = "none"
      /\ active \in Checks => seen'[active] = seen[active]
  BY <1>1, CopiedEffect
<1>3. BuildKept /\ \A r : OnLane(r)' = OnLane(r)
  BY <1>1, <1>2, HeldFrame, SameBuildStep DEF buildVars
<1>4. phase' \in [Checks -> Phase] /\ \A d \in Checks : phase'[d] = "none" => phase[d] = "none"
  BY <1>1, Parts DEF CheckOK, Phase, Terminal
<1>5. CheckOK'
  BY <1>1, <1>2, <1>4, Parts DEF CheckOK
<1>6. Dispatch
  BY <1>1 DEF Dispatch, laneVars, schedVars, reportVars
<1>7. ReportOK' /\ ReportInv' /\ EvaluatedInv'
  BY <1>2, <1>6, Parts, DispatchKeepsReport
<1>8. CopiedInv' /\ CheckNeverUsesOlderBuild'
  BY <1>1, <1>2, <1>3, <1>4, CopiedFrame, PaintedFrame
<1> QED
  BY <1>2, <1>3, <1>5, <1>7, <1>8, Assemble

LEMMA CopyDeferredStep == ASSUME ItemInv, NEW c \in Checks, CopyDeferred(c) PROVE ItemInv'
<1> DEFINE phases == Superseding(deferred, c)
<1>1. /\ Copied(c) /\ build \notin {"NO_BUILD", "FAILED"}
      /\ ticket' = [ticket EXCEPT ![c] = generation] /\ painted' = painted
  BY DEF CopyDeferred
<1>2. /\ EnvOK' /\ EngineOK' /\ PobOK' /\ FileInv' /\ UNCHANGED engineVars
      /\ latest' = c
      /\ seen' \in [Checks -> Revision \cup {NoRevision, Missing}]
      /\ \A d \in Checks : seen'[d] = seen[d] \/ phase[d] = "none"
      /\ active \in Checks => seen'[active] = seen[active]
  BY <1>1, CopiedEffect
<1>3. /\ phases \in [Checks -> Phase]
      /\ \A d \in Checks : phases[d] = "none" => d # c /\ phase[d] = "none"
  BY Parts DEF Superseding, Phase, Terminal, CheckOK
<1>4. /\ BuildKept /\ Dispatch
      /\ deferred' \in {c, None} /\ phase' \in [Checks -> Phase]
      /\ \A d \in Checks : phase'[d] = "none" => phases[d] = "none"
      /\ \A d \in Checks : OnLane(d)' => OnLane(d)
  <2>1. CASE DiskChanged /\ ~Loading
    <3>1. build = "READY"
      BY <1>1, <2>1, Parts DEF BuildOK, Loading
    <3>2. LoadBuildAsync(phases, c)
      BY <2>1 DEF CopyDeferred
    <3> QED
      BY <1>2, <1>3, <3>1, <3>2, LoadBuildAsyncStep
  <2>2. CASE ~(DiskChanged /\ ~Loading)
    <3>1. /\ Loading /\ deferred' = c /\ phase' = phases
          /\ UNCHANGED <<buildVars, cached, laneVars, reportVars>>
      BY <2>2 DEF CopyDeferred
    <3>2. Dispatch
      BY <3>1 DEF Dispatch, laneVars, schedVars, reportVars
    <3>3. HeldCheckHasRelease'
      BY <3>1 DEF HeldCheckHasRelease, Loading, buildVars
    <3> QED
      BY <1>2, <1>3, <3>1, <3>2, <3>3, SameBuildStep
  <2> QED
    BY <2>1, <2>2
<1>5. CheckOK'
  <2>1. ticket' \in [Checks -> Nat]
    BY <1>1, Parts DEF CheckOK, BuildOK
  <2> QED
    BY <1>1, <1>2, <1>4, <2>1, Parts DEF CheckOK, BuildKept
<1>6. ReportOK' /\ ReportInv' /\ EvaluatedInv'
  BY <1>2, <1>4, Parts, DispatchKeepsReport
<1>7. CopiedInv'
  BY <1>1, <1>3, <1>4, Parts, Ids DEF CopiedInv
<1>8. CheckNeverUsesOlderBuild'
  BY <1>1, <1>2, PaintedFrame
<1> QED
  BY <1>2, <1>4, <1>5, <1>6, <1>7, <1>8, Assemble

\* A check is submitted beside a settled build.
LEMMA SubmitCheckEffect ==
    ASSUME ItemInv, NEW c \in Checks, ~OnLane(c), build = "READY", submit(c, waiting),
           UNCHANGED <<buildVars, cached, job, engineVars, deferred>>
    PROVE  BuildKept /\ \A d \in Checks : OnLane(d)' => OnLane(d) \/ d = c
<1>1. /\ SchedInv /\ BuildOK /\ JobOK /\ cached \in Revision \cup {NoRevision}
      /\ EngineInv /\ JobInv /\ BaselineInv /\ LoadInv
  BY Parts DEF CheckOK
<1>2. /\ UNCHANGED <<build, generation, baseline, measured, parsed, pendingSwitch, cached>>
      /\ UNCHANGED <<job, deferred, engineUp, recoveryReload, recoveryAttempted, stranded>>
  BY DEF buildVars, engineVars
<1>3. SchedInv'
  BY <1>1, Ids, SubmitKeepsSchedInv DEF OnLane
<1>4. \A r : OnLane(r)' => OnLane(r) \/ r = c
  BY DEF submit, QueueAfterSubmit, OnLane
<1>5. \A l \in LiveLoads' : l \in LiveLoads
  BY <1>4, LiveIsOnLane, Ids
<1>6. BuildOK' /\ JobOK' /\ BaselineInv' /\ cached' \in Revision \cup {NoRevision}
  BY <1>1, <1>2 DEF BuildOK, JobOK, BaselineInv
<1>7. EngineInv'
  BY <1>1, <1>2 DEF EngineInv
<1>8. JobInv'
  BY <1>1, <1>2, <1>5 DEF JobInv, Current
<1>9. LoadInv'
  BY <1>1, <1>2, <1>5
     DEF LoadInv, LoadingHasOwner, HeldCheckHasRelease, SettledBuildIsFinal, Loading, Current
<1> QED
  BY <1>3, <1>4, <1>6, <1>7, <1>8, <1>9 DEF BuildKept

LEMMA CopyAcceptedStep == ASSUME ItemInv, NEW c \in Checks, CopyAccepted(c) PROVE ItemInv'
<1>1. /\ Copied(c) /\ build \notin {"NO_BUILD", "FAILED"} /\ ~DiskChanged /\ ~Loading
      /\ ticket' = [ticket EXCEPT ![c] = generation]
      /\ UNCHANGED <<deferred, cached, buildVars>>
  BY DEF CopyAccepted
<1>2. /\ EnvOK' /\ EngineOK' /\ PobOK' /\ FileInv' /\ UNCHANGED engineVars
      /\ latest' = c /\ phase[c] = "none" /\ ~OnLane(c) /\ c # deferred
      /\ seen' \in [Checks -> Revision \cup {NoRevision, Missing}] /\ seen'[c] = disk
      /\ \A d \in Checks : seen'[d] = seen[d] \/ phase[d] = "none"
      /\ active \in Checks => seen'[active] = seen[active]
  BY <1>1, CopiedEffect
<1>3. build = "READY" /\ disk = baseline /\ baseline # NoRevision
  BY <1>1, Parts DEF BuildOK, Loading, DiskChanged, LoadInv, SettledBuildIsFinal
<1>4. PICK end \in {"error", "painted", "pending"} : phase' = [phase EXCEPT ![c] = end]
  BY DEF CopyAccepted
<1>5. /\ phase' \in [Checks -> Phase] /\ phase'[c] # "none"
      /\ \A d \in Checks : phase'[d] = "none" => d # c /\ phase[d] = "none"
  BY <1>4, Parts DEF CheckOK, Phase, Terminal
<1>6. ticket' \in [Checks -> Nat]
  BY <1>1, Parts DEF CheckOK, BuildOK
<1>7. CASE submit(c, waiting) /\ Dispatch /\ UNCHANGED <<painted, job>>
  <2>1. BuildKept /\ \A d \in Checks : OnLane(d)' => OnLane(d) \/ d = c
    BY <1>1, <1>2, <1>3, <1>7, SubmitCheckEffect
  <2>2. CheckOK'
    BY <1>1, <1>2, <1>5, <1>6, <1>7, Parts DEF CheckOK
  <2>3. ReportOK' /\ ReportInv' /\ EvaluatedInv'
    BY <1>2, <1>7, Parts, DispatchKeepsReport
  <2>4. CopiedInv'
    BY <1>1, <1>5, <1>7, <2>1, Parts DEF CopiedInv
  <2>5. CheckNeverUsesOlderBuild'
    BY <1>2, <1>7, PaintedFrame
  <2> QED
    BY <1>2, <2>1, <2>2, <2>3, <2>4, <2>5, Assemble
<1>8. CASE UNCHANGED <<laneVars, reportVars>>
  <2>1. BuildKept /\ \A r : OnLane(r)' = OnLane(r)
    BY <1>1, <1>2, <1>8, HeldFrame, SameBuildStep DEF buildVars
  <2>2. Dispatch
    BY <1>8 DEF Dispatch, laneVars, schedVars, reportVars
  <2>3. ReportOK' /\ ReportInv' /\ EvaluatedInv'
    BY <1>2, <2>2, Parts, DispatchKeepsReport
  <2>4. \/ painted' = painted
        \/ painted' = [check |-> c, revision |-> cached, kept |-> FALSE] /\ cached # NoRevision
    BY DEF CopyAccepted
  <2>5. CheckOK'
    <3>1. painted' \in PaintedRow
      <4>1. painted \in PaintedRow /\ cached \in Revision \cup {NoRevision}
        BY Parts DEF CheckOK
      <4>2. [check |-> c, revision |-> cached, kept |-> FALSE] \in PaintedRow
        BY <4>1 DEF PaintedRow
      <4> QED
        BY <2>4, <4>1, <4>2
    <3> QED
      BY <1>1, <1>2, <1>5, <1>6, <3>1, Parts DEF CheckOK
  <2>6. CopiedInv'
    BY <1>1, <1>5, <2>1, <2>4, Parts DEF CopiedInv
  <2>7. CheckNeverUsesOlderBuild'
    <3>1. CASE painted' = painted
      BY <1>2, <3>1, PaintedFrame
    <3>2. CASE painted' = [check |-> c, revision |-> cached, kept |-> FALSE] /\ cached # NoRevision
      <4>1. cached = disk /\ seen'[c] = disk
        BY <1>2, <1>3, <3>2, Parts DEF BaselineInv
      <4>2. disk \in Revision => disk \in Nat /\ disk >= disk
        BY Revisions
      <4> QED
        BY <3>2, <4>1, <4>2 DEF CheckNeverUsesOlderBuild
    <3> QED
      BY <2>4, <3>1, <3>2
  <2> QED
    BY <1>2, <2>1, <2>3, <2>5, <2>6, <2>7, Assemble
<1> QED
  BY <1>7, <1>8 DEF CopyAccepted

-----------------------------------------------------------------------------
\* A check is back

LEMMA OnWorkerFinishedStep ==
    ASSUME ItemInv, NEW c \in Checks, OnWorkerFinished(c) PROVE ItemInv'
<1>1. /\ active = c /\ step = "done" /\ Dispatch
      /\ UNCHANGED <<disk, bad, saves, userLoads, crashes>>
      /\ UNCHANGED <<parsed, latest, ticket, deferred, seen>>
      /\ IF Reached(c) = "painted"
         THEN painted' = [check |-> c, revision |-> result.revision, kept |-> result.kept]
         ELSE UNCHANGED painted
  BY DEF OnWorkerFinished, envVars
<1>2. /\ SchedInv /\ active \in Requests /\ active \notin waiting /\ waiting \in SUBSET Requests
      /\ \A x, y \in waiting : Kind[x] = Kind[y] => x = y
      /\ OnLane(c) /\ c # None /\ c \notin Loads
  BY <1>1, Parts, Ids
     DEF SchedInv, SchedTypeOK, AtMostOneQueuedOfEachPreemptingKind, OnLane
<1>3. /\ Reached(c) \in {"superseded", "error", "painted"}
      /\ Reached(c) = "painted" =>
            result.outcome = "ok" /\ result.revision = baseline /\ result.revision \in Revision
  BY <1>1, Parts DEF Reached, ReportInv
<1>4. painted' \in PaintedRow /\ (painted' = painted \/ painted'.check = c)
  BY <1>1, Parts DEF CheckOK, PaintedRow, ReportOK, ResultRow
<1>5. CheckNeverUsesOlderBuild'
  <2>1. CASE painted' = painted
    BY <1>1, <2>1, PaintedFrame
  <2>2. CASE painted' # painted
    <3>1. painted' = [check |-> c, revision |-> result.revision, kept |-> result.kept]
          /\ result.outcome = "ok"
      BY <1>1, <1>3, <2>2
    <3>2. ~result.kept /\ seen[c] \in Revision => result.revision >= seen[c]
      BY <1>1, <3>1, Parts DEF EvaluatedInv
    <3> QED
      BY <1>1, <3>1, <3>2 DEF CheckNeverUsesOlderBuild
  <2> QED
    BY <2>1, <2>2
<1>6. ReportOK' /\ ReportInv' /\ EvaluatedInv' /\ EnvOK' /\ FileInv'
  BY <1>1, Parts, DispatchKeepsReport DEF EnvOK, FileInv
<1>7. CASE result.outcome # "unhealthy"
  <2>1. /\ phase' = [phase EXCEPT ![c] = Reached(c)]
        /\ cached' = IF Reached(c) = "painted" THEN result.revision ELSE cached
        /\ complete(c, waiting) /\ job' = job
        /\ UNCHANGED <<build, generation, baseline, measured, pendingSwitch>>
        /\ UNCHANGED <<engineUp, recoveryReload, recoveryAttempted, stranded, alive,
                     loaded>>
    BY <1>7 DEF OnWorkerFinished, engineVars, pobVars
  <2>2. /\ SchedInv'
        /\ \A r : OnLane(r)' => (r = None \/ r \in waiting)
        /\ \A r \in waiting : OnLane(r)'
    BY <1>1, <1>2, <2>1, CompletionEffect
  <2>3. \A l \in Loads : OnLane(l)' <=> OnLane(l)
    BY <1>1, <1>2, <2>2, Ids DEF OnLane
  <2>4. \A l : l \in LiveLoads' <=> l \in LiveLoads
    BY <2>3, LiveIsOnLane
  <2>5. /\ phase' \in [Checks -> Phase] /\ phase'[c] # "none"
        /\ \A d \in Checks : phase'[d] = "none" => d # c /\ phase[d] = "none"
    BY <1>3, <2>1, Parts DEF CheckOK, Phase, Terminal
  <2>6. cached' \in Revision \cup {NoRevision} /\ cached' \in {NoRevision, baseline}
    BY <1>3, <2>1, Parts DEF CheckOK, BaselineInv
  <2>7. CheckOK' /\ EngineOK' /\ PobOK'
    BY <1>1, <1>4, <2>1, <2>5, <2>6, Parts DEF CheckOK, EngineOK, PobOK
  <2>8. BuildOK' /\ JobOK' /\ BaselineInv'
    BY <1>1, <2>1, <2>6, Parts DEF BuildOK, JobOK, BaselineInv
  <2>9. JobInv' /\ LoadInv'
    BY <1>1, <2>1, <2>4, Parts
       DEF JobInv, LoadInv, LoadingHasOwner, HeldCheckHasRelease, SettledBuildIsFinal, Loading,
           Current
  <2>10. EngineInv'
    BY <1>2, <2>1, Parts, Ids DEF EngineInv, OnLane
  <2>11. CopiedInv'
    BY <1>1, <1>4, <2>2, <2>5, Parts, Ids DEF CopiedInv, OnLane
  <2> QED
    BY <1>5, <1>6, <2>2, <2>6, <2>7, <2>8, <2>9, <2>10, <2>11, Assemble DEF BuildKept
<1>8. CASE result.outcome = "unhealthy"
  <2>1. /\ phase' = [d \in Checks |-> CASE d = c -> Reached(c)
                                        [] d # c /\ d \in waiting -> "error"
                                        [] OTHER -> phase[d]]
        /\ complete(c, {}) /\ JobsWith(None, NoJob) /\ AttemptRecovery
    BY <1>8 DEF OnWorkerFinished
  <2>2. ~recoveryAttempted
    BY <1>2, Parts DEF EngineInv
  <2>3. /\ recoveryAttempted' = TRUE /\ engineUp' \in BOOLEAN /\ recoveryReload' \in BOOLEAN
        /\ engineUp' => ~recoveryReload'
        /\ ~engineUp' => /\ recoveryReload' => build' = "RELOADING"
                         /\ ~recoveryReload' => build' = "FAILED"
                         /\ baseline' = NoRevision
        /\ alive' \in BOOLEAN /\ loaded' \in Revision \cup {NoRevision}
        /\ stranded' \in Checks \cup {None}
        /\ \/ build' = "RELOADING" /\ ~engineUp' /\ recoveryReload'
           \/ build' = "FAILED" /\ stranded' = deferred
    <3>1. CASE /\ BeginReload("RELOADING")
               /\ engineUp' = FALSE /\ recoveryReload' = TRUE /\ recoveryAttempted' = TRUE
               /\ alive' = FALSE /\ loaded' = NoRevision /\ UNCHANGED stranded
      <4>1. build' = "RELOADING" /\ baseline' = NoRevision
        BY <3>1 DEF BeginReload
      <4> QED
        BY <3>1, <4>1, Parts DEF EngineOK
    <3>2. CASE RecoveryRaises
      <4>1. /\ build' = "FAILED" /\ recoveryAttempted' = TRUE /\ stranded' = deferred
            /\ recoveryReload' = recoveryReload
        BY <3>2 DEF RecoveryRaises
      <4>2. engineUp /\ ~recoveryReload /\ recoveryReload = FALSE
        BY <1>1, <1>2, Parts DEF EngineInv, EngineOK
      <4>3. \/ engineUp' = engineUp /\ alive' = alive /\ loaded' = loaded
            \/ /\ baseline' = NoRevision
               /\ engineUp' = FALSE /\ alive' = FALSE /\ loaded' = NoRevision
        BY <3>2 DEF RecoveryRaises, BeginReload, pobVars
      <4> QED
        BY <4>1, <4>2, <4>3, Parts DEF EngineOK, PobOK, CheckOK
    <3> QED
      BY <2>1, <2>2, <3>1, <3>2 DEF AttemptRecovery
  <2>4. BuildOK' /\ BaselineInv' /\ cached' \in Revision \cup {NoRevision}
    <3>1. \/ \E state \in {"RELOADING", "FAILED"} : BeginReload(state)
          \/ /\ build' = "FAILED"
             /\ UNCHANGED <<generation, baseline, measured, cached, pendingSwitch>>
      BY <2>1, <2>2 DEF AttemptRecovery, RecoveryRaises
    <3>2. ASSUME NEW state \in {"RELOADING", "FAILED"}, BeginReload(state)
          PROVE  BuildOK' /\ BaselineInv' /\ cached' \in Revision \cup {NoRevision}
      <4>1. /\ BuildOK' /\ cached' \in Revision \cup {NoRevision}
            /\ baseline' = NoRevision /\ cached' = NoRevision
        BY <1>1, <3>2, Parts, BeginReloadTypes
      <4> QED
        BY <4>1 DEF BaselineInv
    <3>3. CASE /\ build' = "FAILED"
               /\ UNCHANGED <<generation, baseline, measured, cached, pendingSwitch>>
      BY <1>1, <3>3, Parts DEF BuildOK, BaselineInv, CheckOK
    <3> QED
      BY <3>1, <3>2, <3>3
  <2>5. /\ SchedInv' /\ active' = None /\ waiting' = {}
        /\ \A r : OnLane(r)' => r = None
    <3>1. complete(active, {}) /\ {} \in SUBSET Requests
      BY <1>1, <2>1
    <3>2. active' = None /\ waiting' = {}
      BY <3>1 DEF complete
    <3> QED
      BY <1>2, <3>1, <3>2, CompletionEffect DEF OnLane
  <2>6. JobOK'
    <3>1. NoJob \in JobRow
      BY DEF NoJob, JobRow
    <3> QED
      BY <2>1, <3>1, Parts, JobsEffect
  <2>7. LiveLoads' = {}
    BY <2>5, Ids DEF LiveLoads
  <2>8. JobInv' /\ LoadInv'
    BY <1>1, <2>3, <2>7 DEF JobInv, LoadInv, LoadingHasOwner, HeldCheckHasRelease,
         SettledBuildIsFinal, Loading
  <2>9. EngineInv'
    BY <2>3, <2>5, Ids DEF EngineInv
  <2>10. /\ phase' \in [Checks -> Phase] /\ phase'[c] # "none"
         /\ \A d \in Checks : phase'[d] = "none" => d # c /\ phase[d] = "none"
    BY <1>3, <2>1, Parts DEF CheckOK, Phase, Terminal
  <2>11. CheckOK'
    BY <1>1, <1>4, <2>4, <2>10, Parts DEF CheckOK
  <2>12. EngineOK' /\ PobOK'
    BY <2>3 DEF EngineOK, PobOK
  <2>13. CopiedInv'
    BY <1>1, <1>4, <2>5, <2>10, Parts, Ids DEF CopiedInv
  <2> QED
    BY <1>5, <1>6, <2>4, <2>5, <2>6, <2>8, <2>9, <2>11, <2>12, <2>13, Assemble DEF BuildKept
<1> QED
  BY <1>7, <1>8

-----------------------------------------------------------------------------
\* A load is back

\* The load leaves the lane, from a queue with the same loads.
LEMMA LoadLeaves ==
    ASSUME ItemInv, NEW l \in Loads, LoadIsBack(l),
           NEW queue \in SUBSET (waiting \cup Checks),
           \A x, y \in queue : Kind[x] = Kind[y] => x = y,
           complete(l, queue), JobsWith(None, NoJob), generation' = generation
    PROVE  /\ SchedInv' /\ JobOK' /\ JobInv'
           /\ Current(l) => \A m \in LiveLoads' : ~Current(m)'
           /\ \A r : OnLane(r)' => (r = None \/ r \in queue)
           /\ \A m \in Loads \cap queue : m # l /\ m \in LiveLoads' /\ Current(m)' = Current(m)
<1>1. /\ SchedInv /\ JobOK /\ JobInv /\ active = l /\ active \in Requests
      /\ active \notin waiting /\ waiting \in SUBSET Requests /\ active \notin Checks
  BY Parts, Ids DEF SchedInv, SchedTypeOK, LoadIsBack
<1>2. queue \in SUBSET Requests /\ active \notin queue
  BY <1>1, Ids
<1>3. /\ SchedInv'
      /\ \A r : OnLane(r)' => (r = None \/ r \in queue)
      /\ \A r \in queue : OnLane(r)'
  BY <1>1, <1>2, CompletionEffect
<1>4. JobOK' /\ \A m \in Loads : OnLane(m)' => job'[m] = job[m]
  <2>1. NoJob \in JobRow
    BY DEF NoJob, JobRow
  <2> QED
    BY <1>1, <2>1, JobsEffect, Ids
<1>5. \A m \in LiveLoads' : m # l /\ m \in LiveLoads /\ job'[m] = job[m] /\ Current(m)' = Current(m)
  <2>1. \A m \in LiveLoads' : m \in Loads /\ OnLane(m)' /\ m \in queue /\ m # None /\ m \notin Checks
    BY <1>3, LiveIsOnLane, Ids
  <2>2. \A m \in LiveLoads' : m # l /\ m \in LiveLoads
    BY <1>1, <1>2, <2>1 DEF LiveLoads
  <2> QED
    BY <1>4, <2>1, <2>2 DEF Current
<1>6. JobInv'
  BY <1>1, <1>5 DEF JobInv
<1>7. Current(l) => \A m \in LiveLoads' : ~Current(m)'
  BY <1>1, <1>5 DEF JobInv, LiveLoads
<1>8. \A m \in Loads \cap queue : m # l /\ m \in LiveLoads' /\ Current(m)' = Current(m)
  BY <1>1, <1>2, <1>3, <1>5, LiveIsOnLane
<1> QED
  BY <1>3, <1>4, <1>6, <1>7, <1>8

\* The queue of the lane has at most one check and one load.
LEMMA QueueIsSmall ==
    ASSUME ItemInv
    PROVE  waiting \in SUBSET (waiting \cup Checks) /\ \A x, y \in waiting : Kind[x] = Kind[y] => x = y
BY Parts, Ids DEF SchedInv, SchedTypeOK, AtMostOneQueuedOfEachPreemptingKind

LEMMA OnStaleBaselineStep == ASSUME ItemInv, NEW l \in Loads, OnStaleBaseline(l) PROVE ItemInv'
<1>1. /\ LoadIsBack(l) /\ ~Current(l) /\ active = l
      /\ complete(l, waiting) /\ Dispatch /\ JobsWith(None, NoJob)
      /\ UNCHANGED <<build, generation, baseline, measured, parsed, pendingSwitch>>
      /\ UNCHANGED <<latest, phase, ticket, deferred, cached, seen, painted>>
      /\ UNCHANGED <<engineUp, recoveryReload, recoveryAttempted, stranded, alive,
                     loaded>>
      /\ UNCHANGED <<disk, bad, saves, userLoads, crashes>>
  BY DEF OnStaleBaseline, LoadIsBack, envVars, buildVars, checkVars, engineVars, pobVars
<1>2. /\ SchedInv' /\ JobOK' /\ JobInv'
      /\ \A r : OnLane(r)' => (r = None \/ r \in waiting)
      /\ \A m \in Loads \cap waiting : m # l /\ m \in LiveLoads' /\ Current(m)' = Current(m)
  BY <1>1, QueueIsSmall, LoadLeaves
<1>3. /\ EnvOK' /\ FileInv' /\ CheckOK' /\ EngineOK' /\ PobOK' /\ BuildOK' /\ BaselineInv'
      /\ cached' \in Revision \cup {NoRevision}
  BY <1>1, Parts DEF EnvOK, FileInv, CheckOK, EngineOK, PobOK, BuildOK, BaselineInv
<1>4. LoadInv'
  <2>1. \A m \in LiveLoads : Current(m) => m \in Loads \cap waiting
    BY <1>1 DEF LiveLoads
  <2>2. \A m \in LiveLoads' : m \in Loads \cap waiting
    BY <1>2, LiveIsOnLane, Ids
  <2> QED
    BY <1>1, <1>2, <2>1, <2>2, Parts
       DEF LoadInv, LoadingHasOwner, HeldCheckHasRelease, SettledBuildIsFinal, Loading, LiveLoads
<1>5. EngineInv' /\ \A c \in Checks : OnLane(c)' => OnLane(c)
  <2>1. \A c \in Checks : OnLane(c)' => OnLane(c)
    BY <1>2, Ids DEF OnLane
  <2>2. engineUp
    BY <1>1, Parts, Ids DEF EngineInv
  <2> QED
    BY <1>1, <2>1, <2>2, Parts DEF EngineInv
<1>6. ReportOK' /\ ReportInv' /\ EvaluatedInv'
  BY <1>1, Parts, DispatchKeepsReport
<1>7. CopiedInv' /\ CheckNeverUsesOlderBuild'
  BY <1>1, <1>5, CopiedFrame, PaintedFrame
<1> QED
  BY <1>2, <1>3, <1>4, <1>5, <1>6, <1>7, Assemble DEF BuildKept

\* A load that settles the build as failed: the held check is rejected.
LEMMA OnBaselineFailedStep == ASSUME ItemInv, NEW l \in Loads, OnBaselineFailed(l) PROVE ItemInv'
<1>1. /\ LoadIsBack(l) /\ Current(l) /\ active = l
      /\ build' = "FAILED" /\ RejectDeferred(phase, deferred)
      /\ complete(l, waiting) /\ Dispatch /\ JobsWith(None, NoJob)
      /\ UNCHANGED <<generation, baseline, measured, parsed, pendingSwitch>>
      /\ UNCHANGED <<latest, ticket, cached, seen, painted>>
      /\ UNCHANGED <<engineUp, recoveryReload, recoveryAttempted, stranded, alive,
                     loaded>>
      /\ UNCHANGED <<disk, bad, saves, userLoads, crashes>>
  BY DEF OnBaselineFailed, LoadIsBack, envVars, engineVars, pobVars
<1>2. /\ SchedInv' /\ JobOK' /\ JobInv'
      /\ \A m \in LiveLoads' : ~Current(m)'
      /\ \A r : OnLane(r)' => (r = None \/ r \in waiting)
  BY <1>1, QueueIsSmall, LoadLeaves
<1>3. /\ deferred' = None /\ phase' \in [Checks -> Phase]
      /\ \A c \in Checks : phase'[c] = "none" => phase[c] = "none"
  BY <1>1, Parts, RejectDeferredEffect DEF CheckOK
<1>4. build # "READY" /\ baseline = NoRevision /\ engineUp
  <2>1. Loading /\ engineUp
    BY <1>1, Parts, Ids, LiveIsOnLane DEF LoadInv, SettledBuildIsFinal, EngineInv, OnLane
  <2> QED
    BY <2>1, Parts DEF Loading, BaselineInv
<1>5. /\ EnvOK' /\ FileInv' /\ CheckOK' /\ EngineOK' /\ PobOK' /\ BuildOK' /\ BaselineInv'
      /\ cached' \in Revision \cup {NoRevision}
  BY <1>1, <1>3, <1>4, Parts
     DEF EnvOK, FileInv, CheckOK, EngineOK, PobOK, BuildOK, BaselineInv
<1>6. LoadInv'
  BY <1>1, <1>2, <1>3
     DEF LoadInv, LoadingHasOwner, HeldCheckHasRelease, SettledBuildIsFinal, Loading
<1>7. EngineInv' /\ \A c \in Checks : OnLane(c)' => OnLane(c)
  <2>1. \A c \in Checks : OnLane(c)' => OnLane(c)
    BY <1>2, Ids DEF OnLane
  <2> QED
    BY <1>1, <1>4, <2>1, Parts DEF EngineInv
<1>8. ReportOK' /\ ReportInv' /\ EvaluatedInv'
  BY <1>1, Parts, DispatchKeepsReport
<1>9. CopiedInv' /\ CheckNeverUsesOlderBuild'
  BY <1>1, <1>3, <1>7, CopiedFrame, PaintedFrame
<1> QED
  BY <1>2, <1>5, <1>6, <1>7, <1>8, <1>9, Assemble DEF BuildKept

\* What a capture gives: the revision of the baseline is the one remembered.
LEMMA ApplyCaptureEffect ==
    ASSUME ItemInv, step = "done", result.outcome \in {"ok", "restored"}, ApplyCapture
    PROVE  /\ result.revision \in Revision /\ result.revision # NoRevision
           /\ result.measured \in Revision \cup {NoRevision}
           /\ parsed' = result.revision /\ recoveryAttempted' = FALSE
           /\ UNCHANGED <<engineUp, recoveryReload, stranded>> /\ EngineOK'
<1>1. parsed' = result.revision /\ recoveryAttempted' = FALSE /\ UNCHANGED <<engineUp, recoveryReload, stranded>>
  BY DEF ApplyCapture
<1>2. EngineOK'
  BY <1>1, Parts DEF EngineOK
<1>3. result.revision \in Revision /\ result.measured \in Revision \cup {NoRevision}
  BY Parts DEF ReportInv, ReportOK, ResultRow
<1> QED
  BY <1>1, <1>2, <1>3, Revisions

\* The current load settles the build: who owns it, and what is on the lane besides.
LEMMA CurrentLoadEffect ==
    ASSUME ItemInv, NEW l \in Loads, LoadIsBack(l), Current(l)
    PROVE  /\ active = l /\ step = "done" /\ Loading /\ engineUp /\ ~recoveryReload
           /\ baseline = NoRevision /\ cached = NoRevision
<1>1. active = l /\ step = "done" /\ OnLane(l) /\ active # None
  BY Ids DEF LoadIsBack, OnLane
<1>2. Loading
  BY <1>1, Parts, LiveIsOnLane DEF LoadInv, SettledBuildIsFinal
<1>3. engineUp /\ ~recoveryReload
  BY <1>1, Parts DEF EngineInv
<1> QED
  BY <1>1, <1>2, <1>3, Parts DEF Loading, BaselineInv

LEMMA OnBaselineRestoredStep ==
    ASSUME ItemInv, NEW l \in Loads, OnBaselineRestored(l) PROVE ItemInv'
<1>1. /\ LoadIsBack(l) /\ Current(l) /\ result.outcome = "restored" /\ ApplyCapture
      /\ build' = "READY" /\ baseline' = result.revision /\ measured' = result.measured
      /\ RejectDeferred(phase, deferred)
      /\ complete(l, waiting) /\ Dispatch /\ JobsWith(None, NoJob)
      /\ UNCHANGED <<generation, pendingSwitch>>
      /\ UNCHANGED <<latest, ticket, cached, seen, painted>>
      /\ UNCHANGED <<alive, loaded>>
      /\ UNCHANGED <<disk, bad, saves, userLoads, crashes>>
  BY DEF OnBaselineRestored, envVars, pobVars
<1>2. /\ SchedInv' /\ JobOK' /\ JobInv'
      /\ \A m \in LiveLoads' : ~Current(m)'
      /\ \A r : OnLane(r)' => (r = None \/ r \in waiting)
  BY <1>1, QueueIsSmall, LoadLeaves
<1>3. /\ deferred' = None /\ phase' \in [Checks -> Phase]
      /\ \A c \in Checks : phase'[c] = "none" => phase[c] = "none"
  BY <1>1, Parts, RejectDeferredEffect DEF CheckOK
<1>4. /\ active = l /\ step = "done" /\ engineUp /\ ~recoveryReload /\ cached = NoRevision
  BY <1>1, CurrentLoadEffect
<1>5. /\ result.revision \in Revision /\ result.revision # NoRevision
      /\ result.measured \in Revision \cup {NoRevision}
      /\ parsed' = result.revision /\ recoveryAttempted' = FALSE
      /\ UNCHANGED <<engineUp, recoveryReload, stranded>> /\ EngineOK'
  BY <1>1, <1>4, ApplyCaptureEffect
<1>6. BuildOK' /\ BaselineInv' /\ cached' \in Revision \cup {NoRevision}
  BY <1>1, <1>4, <1>5, Parts DEF BuildOK, BaselineInv
<1>7. EnvOK' /\ FileInv' /\ CheckOK' /\ PobOK'
  BY <1>1, <1>3, Parts DEF EnvOK, FileInv, CheckOK, PobOK
<1>8. LoadInv'
  BY <1>1, <1>2, <1>3, <1>5
     DEF LoadInv, LoadingHasOwner, HeldCheckHasRelease, SettledBuildIsFinal, Loading
<1>9. EngineInv' /\ \A c \in Checks : OnLane(c)' => OnLane(c)
  <2>1. \A c \in Checks : OnLane(c)' => OnLane(c)
    BY <1>2, Ids DEF OnLane
  <2> QED
    BY <1>4, <1>5, <2>1 DEF EngineInv
<1>10. ReportOK' /\ ReportInv' /\ EvaluatedInv'
  BY <1>1, Parts, DispatchKeepsReport
<1>11. CopiedInv' /\ CheckNeverUsesOlderBuild'
  BY <1>1, <1>3, <1>9, CopiedFrame, PaintedFrame
<1> QED
  BY <1>2, <1>5, <1>6, <1>7, <1>8, <1>9, <1>10, <1>11, Assemble DEF BuildKept

\* A request that joins a small queue leaves it small.
LEMMA JoinedQueueIsSmall ==
    ASSUME NEW queue \in SUBSET Requests, NEW r \in Requests,
           \A x, y \in queue : Kind[x] = Kind[y] => x = y
    PROVE  /\ QueueAfterSubmit(r, queue) \in SUBSET Requests /\ r \in QueueAfterSubmit(r, queue)
           /\ QueueAfterSubmit(r, queue) \subseteq queue \cup {r}
           /\ \A x, y \in QueueAfterSubmit(r, queue) : Kind[x] = Kind[y] => x = y
BY Ids DEF QueueAfterSubmit, Superseded

LEMMA OnBaselineReadyStep == ASSUME ItemInv, NEW l \in Loads, OnBaselineReady(l) PROVE ItemInv'
<1>1. /\ LoadIsBack(l) /\ Current(l) /\ result.outcome = "ok" /\ ApplyCapture
      /\ deferred' = None /\ Dispatch
      /\ UNCHANGED <<latest, seen, painted>>
      /\ UNCHANGED <<alive, loaded>>
      /\ UNCHANGED <<disk, bad, saves, userLoads, crashes>>
  BY DEF OnBaselineReady, envVars, pobVars
<1>2. /\ active = l /\ step = "done" /\ engineUp /\ ~recoveryReload /\ cached = NoRevision
  BY <1>1, CurrentLoadEffect
<1>3. /\ result.revision \in Revision /\ result.revision # NoRevision
      /\ result.measured \in Revision \cup {NoRevision}
      /\ parsed' = result.revision /\ recoveryAttempted' = FALSE
      /\ UNCHANGED <<engineUp, recoveryReload, stranded>> /\ EngineOK'
  BY <1>1, <1>2, ApplyCaptureEffect
<1>4. PICK prepared \in (IF deferred = None THEN {FALSE} ELSE BOOLEAN) :
          LET queue == IF prepared THEN QueueAfterSubmit(deferred, waiting) ELSE waiting IN
          /\ IF deferred = None THEN UNCHANGED <<ticket, phase>> ELSE
             /\ ticket' = [ticket EXCEPT ![deferred] = generation]
             /\ phase' = IF prepared THEN phase ELSE
                   [phase EXCEPT ![deferred] =
                       IF latest = deferred THEN "error" ELSE "superseded"]
          /\ \/ /\ build' = "READY"
                /\ baseline' = result.revision /\ measured' = result.measured
                /\ pendingSwitch' = FALSE
                /\ UNCHANGED <<generation, cached>>
                /\ complete(l, queue) /\ JobsWith(None, NoJob)
             \/ /\ pendingSwitch
                /\ BeginReload("RELOADING")
                /\ complete(l, QueueAfterSubmit(NextLoad, queue))
                /\ JobsWith(NextLoad, SwitchJob)
  BY DEF OnBaselineReady
<1> DEFINE queue == IF prepared THEN QueueAfterSubmit(deferred, waiting) ELSE waiting
<1>5. /\ deferred \in Checks \cup {None} /\ phase \in [Checks -> Phase]
      /\ ticket \in [Checks -> Nat] /\ generation \in Nat
      /\ prepared \in BOOLEAN /\ (prepared => deferred \in Checks)
  BY <1>4, Parts DEF CheckOK, BuildOK
<1>6. /\ queue \in SUBSET (waiting \cup Checks) /\ queue \subseteq waiting \cup {deferred}
      /\ \A x, y \in queue : Kind[x] = Kind[y] => x = y
      /\ queue \in SUBSET Requests /\ active \notin queue
  <2>1. waiting \in SUBSET Requests /\ active \notin waiting /\ active \notin Checks
    BY <1>1, <1>2, Parts, Ids DEF SchedInv, SchedTypeOK
  <2>2. CASE prepared
    BY <1>2, <1>5, <2>1, <2>2, QueueIsSmall, JoinedQueueIsSmall, Ids
  <2>3. CASE ~prepared
    BY <2>1, <2>3, QueueIsSmall
  <2> QED
    BY <2>2, <2>3
<1>7. /\ ticket' \in [Checks -> Nat] /\ phase' \in [Checks -> Phase]
      /\ \A c \in Checks : phase'[c] = "none" => phase[c] = "none"
  <2>1. CASE deferred = None
    BY <1>4, <1>5, <2>1
  <2>2. CASE deferred # None
    <3>1. ticket' = [ticket EXCEPT ![deferred] = generation]
      BY <1>4, <2>2
    <3>2. \/ phase' = phase
          \/ \E end \in {"error", "superseded"} : phase' = [phase EXCEPT ![deferred] = end]
      BY <1>4, <2>2
    <3> QED
      BY <1>5, <2>2, <3>1, <3>2 DEF Phase, Terminal
  <2> QED
    BY <2>1, <2>2
<1>8. EnvOK' /\ FileInv' /\ PobOK' /\ ReportOK' /\ ReportInv' /\ EvaluatedInv'
  BY <1>1, Parts, DispatchKeepsReport DEF EnvOK, FileInv, PobOK
<1>9. CheckNeverUsesOlderBuild'
  BY <1>1, PaintedFrame
<1>10. CASE /\ build' = "READY" /\ pendingSwitch' = FALSE
            /\ baseline' = result.revision /\ measured' = result.measured
            /\ UNCHANGED <<generation, cached>>
            /\ complete(l, queue) /\ JobsWith(None, NoJob)
  <2>1. /\ SchedInv' /\ JobOK' /\ JobInv'
        /\ \A m \in LiveLoads' : ~Current(m)'
        /\ \A r : OnLane(r)' => (r = None \/ r \in queue)
    BY <1>1, <1>6, <1>10, LoadLeaves
  <2>2. BuildOK' /\ BaselineInv' /\ cached' \in Revision \cup {NoRevision}
    BY <1>2, <1>3, <1>10, Parts DEF BuildOK, BaselineInv
  <2>3. LoadInv'
    BY <1>1, <1>3, <1>10, <2>1
       DEF LoadInv, LoadingHasOwner, HeldCheckHasRelease, SettledBuildIsFinal, Loading
  <2>4. EngineInv'
    BY <1>2, <1>3 DEF EngineInv
  <2>5. CheckOK'
    BY <1>1, <1>7, <2>2, Parts DEF CheckOK
  <2>6. CopiedInv'
    BY <1>1, <1>6, <1>7, <2>1, Parts, Ids DEF CopiedInv, OnLane
  <2> QED
    BY <1>3, <1>8, <1>9, <2>1, <2>2, <2>3, <2>4, <2>5, <2>6, Assemble DEF BuildKept
<1>11. CASE /\ BeginReload("RELOADING")
            /\ complete(l, QueueAfterSubmit(NextLoad, queue))
            /\ JobsWith(NextLoad, SwitchJob)
  <2>0. PICK n \in Loads : n = NextLoad /\ ~OnLane(n)
    BY Parts, NextLoadIsFree
  <2> DEFINE longer == QueueAfterSubmit(n, queue)
  <2>1. /\ longer \in SUBSET Requests /\ n \in longer /\ longer \subseteq queue \cup {n}
        /\ \A x, y \in longer : Kind[x] = Kind[y] => x = y
        /\ active \notin longer /\ complete(active, longer) /\ active \in Requests
    BY <1>2, <1>6, <1>11, <2>0, JoinedQueueIsSmall, Ids DEF OnLane
  <2> HIDE DEF longer
  <2>2. /\ SchedInv'
        /\ \A r : OnLane(r)' => (r = None \/ r \in longer)
        /\ \A r \in longer : OnLane(r)'
    BY <2>1, Parts, CompletionEffect
  <2>3. /\ BuildOK' /\ cached' \in Revision \cup {NoRevision} /\ generation' \in Nat
        /\ baseline' = NoRevision /\ cached' = NoRevision /\ build' = "RELOADING"
    <3>1. /\ build' = "RELOADING" /\ generation' = generation + 1 /\ pendingSwitch' = FALSE
          /\ baseline' = NoRevision /\ measured' = NoRevision /\ cached' = NoRevision
      BY <1>11 DEF BeginReload
    <3>2. generation' \in Nat /\ parsed' \in Revision \cup {NoRevision}
      BY <1>3, <1>5, <3>1
    <3>3. build' \in {"NO_BUILD", "LOADING", "RELOADING", "READY", "FAILED"}
      BY <3>1
    <3> QED
      BY <3>1, <3>2, <3>3 DEF BuildOK
  <2>4. SwitchJob \in JobRow /\ SwitchJob.generation = generation'
    BY <2>3 DEF SwitchJob, NoJob, JobRow
  <2>5. /\ JobOK' /\ job'[n] = SwitchJob
        /\ \A m \in Loads : m # n /\ OnLane(m)' => job'[m] = job[m]
    BY <1>11, <2>0, <2>4, Parts, JobsEffect
  <2>6. \A m \in Loads : m # n /\ OnLane(m)' => OnLane(m) /\ job'[m] = job[m]
    BY <1>6, <2>1, <2>2, <2>5, Ids DEF OnLane
  <2>7. OnLane(n)' /\ job'[n].generation = generation'
    BY <2>1, <2>2, <2>4, <2>5
  <2>8. JobInv' /\ LoadInv'
    BY <1>11, <2>6, <2>7, OwnerStep
  <2>9. EngineInv'
    BY <1>2, <1>3 DEF EngineInv
  <2>10. BaselineInv'
    BY <2>3 DEF BaselineInv
  <2>11. CheckOK'
    BY <1>1, <1>7, <2>3, Parts DEF CheckOK
  <2>12. CopiedInv'
    BY <1>1, <1>6, <1>7, <2>1, <2>2, Parts, Ids DEF CopiedInv, OnLane
  <2> QED
    BY <1>3, <1>8, <1>9, <2>2, <2>3, <2>5, <2>8, <2>9, <2>10, <2>11, <2>12, Assemble DEF BuildKept
<1> QED
  BY <1>4, <1>10, <1>11

-----------------------------------------------------------------------------
\* The replacement worker

LEMMA EngineBootsStep == ASSUME ItemInv, EngineBoots PROVE ItemInv'
<1>1. /\ ~engineUp /\ recoveryReload /\ engineUp' = TRUE /\ recoveryReload' = FALSE
      /\ alive' = TRUE
      /\ UNCHANGED <<parsed, latest, ticket, seen, painted, recoveryAttempted, stranded,
                     loaded>>
      /\ UNCHANGED <<disk, bad, saves, userLoads, crashes>>
  BY DEF EngineBoots, envVars
<1>2. EnvOK' /\ FileInv' /\ EngineOK' /\ PobOK'
  BY <1>1, Parts DEF EnvOK, FileInv, EngineOK, PobOK
<1>3. /\ BuildKept /\ Dispatch
      /\ deferred' \in {deferred, None} /\ phase' \in [Checks -> Phase]
      /\ \A c \in Checks : phase'[c] = "none" => phase[c] = "none"
      /\ \A c \in Checks : OnLane(c)' => OnLane(c)
  <2>1. CASE BeginReload("FAILED") /\ RejectDeferred(phase, deferred) /\ UNCHANGED <<laneVars, reportVars>>
    <3>1. /\ deferred' = None /\ phase' \in [Checks -> Phase]
          /\ \A c \in Checks : phase'[c] = "none" => phase[c] = "none"
      BY <2>1, Parts, RejectDeferredEffect DEF CheckOK
    <3>2. Dispatch /\ UNCHANGED <<schedVars, job>> /\ \A r : OnLane(r)' = OnLane(r)
      BY <2>1 DEF Dispatch, laneVars, schedVars, reportVars, OnLane
    <3> QED
      BY <1>1, <2>1, <3>1, <3>2, FailedReloadStep DEF BuildKept
  <2>2. CASE /\ disk # Missing /\ BeginReload("RELOADING")
             /\ SubmitBaselineJob(LoadJob(disk, NoRevision)) /\ UNCHANGED <<phase, deferred>>
    <3>1. generation' \in Nat
      BY <1>1, <2>2, Parts, BeginReloadTypes
    <3>2. LoadJob(disk, NoRevision) \in JobRow /\ LoadJob(disk, NoRevision).generation = generation'
      BY <2>2, <3>1, Parts DEF LoadJob, JobRow, EnvOK
    <3>3. phase' \in [Checks -> Phase]
      BY <2>2, Parts DEF CheckOK
    <3> QED
      BY <1>1, <2>2, <3>2, <3>3, NewLoadStep DEF BuildKept
  <2> QED
    BY <2>1, <2>2 DEF EngineBoots
<1>4. CheckOK'
  BY <1>1, <1>3, Parts DEF CheckOK, BuildKept
<1>5. ReportOK' /\ ReportInv' /\ EvaluatedInv'
  BY <1>1, <1>3, Parts, DispatchKeepsReport
<1>6. CopiedInv' /\ CheckNeverUsesOlderBuild'
  BY <1>1, <1>3, CopiedFrame, PaintedFrame
<1> QED
  BY <1>2, <1>3, <1>4, <1>5, <1>6, Assemble

LEMMA EngineFailsToBootStep == ASSUME ItemInv, EngineFailsToBoot PROVE ItemInv'
<1>1. /\ ~engineUp /\ recoveryReload /\ recoveryReload' = FALSE /\ build' = "FAILED"
      /\ RejectDeferred(phase, deferred)
      /\ UNCHANGED <<generation, baseline, measured, parsed, pendingSwitch, engineUp>>
      /\ UNCHANGED <<latest, ticket, cached, seen, painted, recoveryAttempted, stranded, alive,
                     loaded>>
      /\ UNCHANGED <<disk, bad, saves, userLoads, crashes>>
      /\ UNCHANGED <<active, waiting, yield_requested, job, step, result>>
  BY DEF EngineFailsToBoot, envVars, pobVars, laneVars, schedVars, reportVars
<1>2. /\ deferred' = None /\ phase' \in [Checks -> Phase]
      /\ \A c \in Checks : phase'[c] = "none" => phase[c] = "none"
  BY <1>1, Parts, RejectDeferredEffect DEF CheckOK
<1>3. active = None /\ waiting = {} /\ baseline = NoRevision
  BY <1>1, Parts DEF EngineInv
<1>4. SchedInv' /\ \A r : OnLane(r)' = OnLane(r)
  BY <1>1, Parts DEF SchedInv, SchedTypeOK, IdleLaneHasNoQueue, PreemptionIsRequested,
     OnlyAnalysisIsAskedToYield, AtMostOneQueuedOfEachPreemptingKind, OnLane
<1>5. /\ EnvOK' /\ FileInv' /\ CheckOK' /\ PobOK' /\ BuildOK' /\ BaselineInv'
      /\ JobOK' /\ ReportOK' /\ cached' \in Revision \cup {NoRevision}
  BY <1>1, <1>2, <1>3, Parts
     DEF EnvOK, FileInv, CheckOK, PobOK, BuildOK, BaselineInv, JobOK, ReportOK
<1>6. EngineOK'
  BY <1>1, Parts DEF EngineOK
<1>7. LiveLoads' = {}
  BY <1>1, <1>3, Ids DEF LiveLoads
<1>8. JobInv' /\ LoadInv'
  BY <1>1, <1>2, <1>7
     DEF JobInv, LoadInv, LoadingHasOwner, HeldCheckHasRelease, SettledBuildIsFinal, Loading
<1>9. EngineInv'
  BY <1>1, <1>3, <1>4, Parts DEF EngineInv
<1>10. ReportInv' /\ EvaluatedInv'
  BY <1>1, Parts DEF ReportInv, EvaluatedInv
<1>11. CopiedInv' /\ CheckNeverUsesOlderBuild'
  BY <1>1, <1>2, <1>4, CopiedFrame, PaintedFrame
<1> QED
  BY <1>4, <1>5, <1>6, <1>8, <1>9, <1>10, <1>11, Assemble DEF BuildKept

-----------------------------------------------------------------------------
\* The invariant

LEMMA InitItemInv == Init => ItemInv
<1> SUFFICES ASSUME Init PROVE ItemInv
  OBVIOUS
<1>1. /\ active = None /\ waiting = {} /\ yield_requested = FALSE
      /\ disk = 0 /\ bad \in {{}, {0}} /\ saves = 0 /\ userLoads = 0 /\ crashes = 0
      /\ build = "NO_BUILD" /\ generation = 0 /\ pendingSwitch = FALSE
      /\ baseline = NoRevision /\ measured = NoRevision /\ parsed = NoRevision
      /\ latest = None /\ deferred = None /\ cached = NoRevision
      /\ phase = [c \in Checks |-> "none"] /\ ticket = [c \in Checks |-> 0]
      /\ engineUp = TRUE /\ recoveryReload = FALSE /\ recoveryAttempted = FALSE
      /\ stranded = None /\ job = [l \in Loads |-> NoJob] /\ step = "idle" /\ result = NoResult
      /\ alive = TRUE /\ loaded = NoRevision
      /\ seen = [c \in Checks |-> NoRevision]
      /\ painted = [check |-> None, revision |-> NoRevision, kept |-> FALSE]
  BY DEF Init, SchedInit
<1>2. SchedInv
  BY <1>1, NoneAssumption DEF SchedInv, SchedTypeOK, IdleLaneHasNoQueue, PreemptionIsRequested,
     OnlyAnalysisIsAskedToYield, AtMostOneQueuedOfEachPreemptingKind
<1>3. EnvOK /\ BuildOK /\ PobOK /\ EngineOK /\ ReportOK /\ JobOK
  <2>1. EnvOK
    BY <1>1, RevisionAssumption DEF EnvOK, Revision
  <2>2. BuildOK
    BY <1>1 DEF BuildOK
  <2>3. PobOK /\ EngineOK
    BY <1>1 DEF PobOK, EngineOK
  <2>4. ReportOK
    BY <1>1, Results DEF ReportOK
  <2>5. NoJob \in JobRow
    BY DEF NoJob, JobRow
  <2>6. JobOK
    BY <1>1, <2>5 DEF JobOK
  <2> QED
    BY <2>1, <2>2, <2>3, <2>4, <2>6
<1>4. CheckOK
  <2>1. painted \in PaintedRow
    BY <1>1 DEF PaintedRow
  <2>2. phase \in [Checks -> Phase]
    BY <1>1 DEF Phase
  <2> QED
    BY <1>1, <2>1, <2>2 DEF CheckOK
<1>5. LiveLoads = {} /\ \A c \in Checks : ~OnLane(c)
  BY <1>1, Ids DEF LiveLoads, OnLane
<1>6. EngineInv /\ JobInv /\ BaselineInv /\ LoadInv /\ ReportInv
  BY <1>1, <1>5 DEF EngineInv, JobInv, BaselineInv, LoadInv, LoadingHasOwner,
     HeldCheckHasRelease, SettledBuildIsFinal, Loading, ReportInv
<1>7. FileInv
  BY <1>1, Revisions DEF FileInv
<1>8. CopiedInv /\ EvaluatedInv /\ CheckNeverUsesOlderBuild
  BY <1>1, <1>5, Ids DEF CopiedInv, EvaluatedInv, CheckNeverUsesOlderBuild
<1> QED
  BY <1>2, <1>3, <1>4, <1>6, <1>7, <1>8, TypeByPart DEF ItemInv, SchedInv

LEMMA StutterStep == ASSUME ItemInv, UNCHANGED vars PROVE ItemInv'
<1>1. /\ UNCHANGED <<buildVars, cached, laneVars, engineVars>>
      /\ UNCHANGED <<latest, phase, ticket, deferred, cached, seen, painted, step, result>>
      /\ UNCHANGED <<disk, bad, saves, userLoads, crashes, alive, loaded>>
      /\ UNCHANGED <<active, engineUp, recoveryReload, recoveryAttempted, stranded>>
  BY DEF vars, envVars, checkVars, engineVars, reportVars, pobVars, laneVars, schedVars
<1>2. BuildKept /\ \A r : OnLane(r)' = OnLane(r)
  BY <1>1, HeldFrame, SameBuildStep DEF buildVars
<1>3. /\ CheckOK' /\ EngineOK' /\ ReportOK' /\ ReportInv' /\ EvaluatedInv'
      /\ EnvOK' /\ FileInv' /\ PobOK'
  BY <1>1, Parts DEF CheckOK, EngineOK, ReportOK, ReportInv, EvaluatedInv, EnvOK, FileInv, PobOK
<1>4. CopiedInv' /\ CheckNeverUsesOlderBuild'
  BY <1>1, <1>2, CopiedFrame, PaintedFrame
<1> QED
  BY <1>2, <1>3, <1>4, Assemble

LEMMA NextItemInv == ItemInv /\ [Next]_vars => ItemInv'
<1> SUFFICES ASSUME ItemInv, [Next]_vars PROVE ItemInv'
  OBVIOUS
<1>1. CASE User
  <2>1. CASE LoadBuild \/ SetActive
    BY <2>1, LoadBuildStep, SetActiveStep
  <2>2. ASSUME NEW c \in Checks, CopyRefused(c) \/ CopyDeferred(c) \/ CopyAccepted(c)
        PROVE  ItemInv'
    BY <2>2, CopyRefusedStep, CopyDeferredStep, CopyAcceptedStep
  <2> QED
    BY <1>1, <2>1, <2>2 DEF User
<1>2. CASE Handlers
  <2>1. ASSUME NEW c \in Checks, OnWorkerFinished(c) PROVE ItemInv'
    BY <2>1, OnWorkerFinishedStep
  <2>2. ASSUME NEW l \in Loads,
               \/ OnStaleBaseline(l) \/ OnBaselineFailed(l)
               \/ OnBaselineRestored(l) \/ OnBaselineReady(l)
        PROVE  ItemInv'
    BY <2>2, OnStaleBaselineStep, OnBaselineFailedStep, OnBaselineRestoredStep,
       OnBaselineReadyStep
  <2>3. CASE EngineBoots \/ EngineFailsToBoot
    BY <2>3, EngineBootsStep, EngineFailsToBootStep
  <2> QED
    BY <1>2, <2>1, <2>2, <2>3 DEF Handlers
<1>3. CASE Timer
  BY <1>3, WatchdogStep DEF Timer
<1> QED
  BY <1>1, <1>2, <1>3, EnvironmentStep, WorkerStep, StutterStep DEF Next

-----------------------------------------------------------------------------

\* Type correctness of checks, loads, lane and engine.
THEOREM TypeCorrect == Spec => []TypeOK
<1>1. ItemInv => TypeOK
  BY DEF ItemInv
<1> QED
  BY <1>1, InitItemInv, NextItemInv, PTL DEF Spec

\* No Item Check is answered from a build older than the file was when the item
\* was copied, however many saves, loads, restores and crashes come between.
THEOREM NeverOlderBuild == Spec => []CheckNeverUsesOlderBuild
<1>1. ItemInv => CheckNeverUsesOlderBuild
  BY DEF ItemInv
<1> QED
  BY <1>1, InitItemInv, NextItemInv, PTL DEF Spec

\* A build shown as loading always has somebody who will settle it.
THEOREM LoadingIsOwned == Spec => []LoadingHasOwner
<1>1. ItemInv => LoadingHasOwner
  BY DEF ItemInv, LoadInv
<1> QED
  BY <1>1, InitItemInv, NextItemInv, PTL DEF Spec

\* A held check never outlives the load it waits for.
THEOREM HeldIsReleased == Spec => []HeldCheckHasRelease
<1>1. ItemInv => HeldCheckHasRelease
  BY DEF ItemInv, LoadInv
<1> QED
  BY <1>1, InitItemInv, NextItemInv, PTL DEF Spec

\* A settled build is not changed by a load that is still on the lane, and is
\* described by the revision the next check compares the file with.
THEOREM SettledStays == Spec => []SettledBuildIsFinal
<1>1. ItemInv => SettledBuildIsFinal
  BY DEF ItemInv, LoadInv
<1> QED
  BY <1>1, InitItemInv, NextItemInv, PTL DEF Spec

\* What is running stays the same until its own handler completes it.
LEMMA ActiveStays ==
    ASSUME ItemInv, Next, NEW c \in Checks, active = c, active' # c
    PROVE  OnWorkerFinished(c)
<1>1. active # None /\ active \notin Loads /\ engineUp
  BY Parts, Ids DEF EngineInv
<1>2. ASSUME NEW r, NEW queue, submit(r, queue) PROVE FALSE
  BY <1>1, <1>2 DEF submit
<1>3. ~UNCHANGED laneVars /\ ~UNCHANGED active
  BY DEF laneVars, schedVars
<1>4. ASSUME NEW entry, SubmitBaselineJob(entry) PROVE FALSE
  BY <1>2, <1>4 DEF SubmitBaselineJob
<1>5. ASSUME NEW phases, NEW held, LoadBuildAsync(phases, held) PROVE FALSE
  BY <1>3, <1>4, <1>5 DEF LoadBuildAsync
<1>6. ~Environment /\ ~Worker /\ ~Timer
  BY <1>3 DEF Environment, Save, RemoveFile, Crash, Worker, WorkerLoads, WorkerRestores,
     WorkerSwitches, WorkerCaptures, WorkerEvaluates, WorkerOnly, Timer, Watchdog
<1>7. ~User
  <2>1. ~LoadBuild /\ ~SetActive
    BY <1>3, <1>4, <1>5 DEF LoadBuild, SetActive
  <2>2. ASSUME NEW d \in Checks PROVE ~CopyRefused(d) /\ ~CopyDeferred(d) /\ ~CopyAccepted(d)
    BY <1>2, <1>3, <1>5 DEF CopyRefused, CopyDeferred, CopyAccepted
  <2> QED
    BY <2>1, <2>2 DEF User
<1>8. \A l \in Loads : ~LoadIsBack(l)
  BY <1>1 DEF LoadIsBack
<1>9. \A l \in Loads : /\ ~OnStaleBaseline(l) /\ ~OnBaselineFailed(l)
                       /\ ~OnBaselineRestored(l) /\ ~OnBaselineReady(l)
  BY <1>8 DEF OnStaleBaseline, OnBaselineFailed, OnBaselineRestored, OnBaselineReady
<1>10. ~EngineBoots /\ ~EngineFailsToBoot
  BY <1>1 DEF EngineBoots, EngineFailsToBoot
<1>11. \E d \in Checks : OnWorkerFinished(d)
  BY <1>6, <1>7, <1>9, <1>10 DEF Next, Handlers
<1> QED
  BY <1>11 DEF OnWorkerFinished

\* A check that finds the process dead has it replaced, every time that does not itself
\* raise.
THEOREM DeadIsReplaced == Spec => DeadProcessIsReplaced
<1>1. ItemInv /\ [Next]_vars =>
        [\A c \in Checks : (active = c /\ step = "done" /\ result.outcome = "unhealthy"
                              /\ active' # c)
             => recoveryReload' \/ (~recoveryAttempted /\ RecoveryRaises)]_vars
  <2> SUFFICES ASSUME ItemInv, Next, NEW c \in Checks, active = c, active' # c,
                      result.outcome = "unhealthy"
               PROVE  recoveryReload' \/ (~recoveryAttempted /\ RecoveryRaises)
    BY DEF vars, laneVars, schedVars
  <2>1. OnWorkerFinished(c)
    BY ActiveStays
  <2>2. ~recoveryAttempted
    BY Parts DEF EngineInv, OnLane
  <2>3. AttemptRecovery
    BY <2>1 DEF OnWorkerFinished
  <2>4. recoveryReload' = TRUE \/ (~recoveryAttempted /\ RecoveryRaises)
    BY <2>2, <2>3 DEF AttemptRecovery
  <2> QED
    BY <2>4
<1> QED
  BY <1>1, InitItemInv, NextItemInv, PTL DEF Spec, DeadProcessIsReplaced

\* Only the newest copied item is painted: by its own copy from the cache, or by a result
\* whose check is still the latest.
LEMMA PaintedIsNewest == ASSUME ItemInv, Next, painted' # painted PROVE painted'.check = latest'
<1>1. ASSUME NEW c \in Checks, CopyAccepted(c) PROVE painted'.check = latest'
  <2>1. painted' = [check |-> c, revision |-> cached, kept |-> FALSE] /\ latest' = c
    BY <1>1 DEF CopyAccepted, Copied
  <2> QED
    BY <2>1
<1>2. ASSUME NEW c \in Checks, OnWorkerFinished(c) PROVE painted'.check = latest'
  <2>1. Reached(c) = "painted" /\ latest' = latest
        /\ painted' = [check |-> c, revision |-> result.revision, kept |-> result.kept]
    BY <1>2 DEF OnWorkerFinished
  <2>2. latest = c
    BY <2>1 DEF Reached
  <2> QED
    BY <2>1, <2>2
<1>3. (\E c \in Checks : CopyAccepted(c)) \/ (\E c \in Checks : OnWorkerFinished(c))
  <2>1. ~Environment /\ ~Worker /\ ~Timer
    BY DEF Environment, Save, RemoveFile, Crash, Worker, WorkerLoads, WorkerRestores,
       WorkerSwitches, WorkerCaptures, WorkerEvaluates, WorkerOnly, Timer, Watchdog, checkVars
  <2>2. ~LoadBuild /\ ~SetActive /\ ~EngineBoots /\ ~EngineFailsToBoot
    BY DEF LoadBuild, SetActive, EngineBoots, EngineFailsToBoot
  <2>3. \A c \in Checks : ~CopyRefused(c) /\ ~CopyDeferred(c)
    BY DEF CopyRefused, CopyDeferred
  <2>4. \A l \in Loads : /\ ~OnStaleBaseline(l) /\ ~OnBaselineFailed(l)
                         /\ ~OnBaselineRestored(l) /\ ~OnBaselineReady(l)
    BY DEF OnStaleBaseline, OnBaselineFailed, OnBaselineRestored, OnBaselineReady, checkVars
  <2> QED
    BY <2>1, <2>2, <2>3, <2>4 DEF Next, User, Handlers
<1> QED
  BY <1>1, <1>2, <1>3

=============================================================================
