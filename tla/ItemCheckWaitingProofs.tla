----------------------- MODULE ItemCheckWaitingProofs -----------------------
(***************************************************************************)
(* Nothing waits in ItemCheck without somebody whose step is next, and     *)
(* what was painted or superseded stays so, for any number of checks,      *)
(* loads, saves, user actions and crashes.                                 *)
(***************************************************************************)
EXTENDS ItemCheckProofs

\* The newest copied item, not answered yet.
Unanswered(c) == latest = c /\ phase[c] = "pending"

\* A phase that nothing overtakes.
Settled(c) == phase[c] \in {"painted", "superseded"}

\* The worker thread is idle with the lane, what it reports has an outcome, and every
\* load on the lane has its entry in _baseline_jobs.
WorkInv ==
    /\ active = None <=> step = "idle"
    /\ step \in {"capture", "done"} => result.outcome # "none"
    /\ \A l \in Loads : OnLane(l) => job[l].kind # "none"

\* The unanswered check is on the lane or held, and no other is held beside it; a check
\* is not held and on the lane at once, and a settled one is neither.
AskedInv ==
    /\ \A c \in Checks : Unanswered(c) => OnLane(c) \/ deferred = c
    /\ \A c \in Checks : deferred # None /\ Unanswered(c) => deferred = c
    /\ deferred # None => ~OnLane(deferred)
    /\ \A c \in Checks : Settled(c) => ~OnLane(c) /\ deferred # c

\* No step takes a settled phase back.
SettledKept == \A c \in Checks : Settled(c) => phase'[c] = phase[c]

AnswerInv == WorkInv /\ AskedInv

LEMMA InitAnswerInv == Init => AnswerInv
BY NoneAssumption, Ids
   DEF Init, SchedInit, AnswerInv, WorkInv, AskedInv, Unanswered, Settled, OnLane, NoResult

-----------------------------------------------------------------------------
\* The worker thread and the jobs

\* A hand-over gives the worker thread the request that now has the lane.
LEMMA DispatchKeepsWork ==
    ASSUME WorkInv, Dispatch, \A l \in Loads : OnLane(l)' => job'[l].kind # "none"
    PROVE  WorkInv'
BY DEF WorkInv, Dispatch, NoResult

\* Nothing of the lane, the worker thread or its report moves.
LEMMA WorkFrame ==
    ASSUME WorkInv, UNCHANGED <<laneVars, reportVars>>
    PROVE  WorkInv' /\ \A r : OnLane(r)' <=> OnLane(r)
BY DEF WorkInv, OnLane, laneVars, schedVars, reportVars

\* A submitted load moves no check.
LEMMA SubmittedLoadStep ==
    ASSUME ItemInv, WorkInv, NEW entry \in JobRow, entry.kind # "none", SubmitBaselineJob(entry)
    PROVE  WorkInv' /\ \A c \in Checks : OnLane(c)' <=> OnLane(c)
<1>1. NextLoad \in Loads /\ submit(NextLoad, waiting) /\ Dispatch
  BY Parts, NextLoadIsFree DEF SubmitBaselineJob
<1>2. \A c \in Checks : OnLane(c)' <=> OnLane(c)
  <2>1. \A c \in Checks : c # NextLoad /\ Kind[c] # Kind[NextLoad] /\ c # None
    BY <1>1, Ids
  <2> QED
    BY <1>1, <2>1 DEF submit, QueueAfterSubmit, Superseded, OnLane
<1>3. PICK n \in Loads :
          /\ OnLane(n)' /\ job'[n] = entry
          /\ \A l \in Loads : l # n /\ OnLane(l)' => OnLane(l) /\ job'[l] = job[l]
  BY Parts, SubmitLoadEffect
<1>4. \A l \in Loads : OnLane(l)' => job'[l].kind # "none"
  BY <1>3 DEF WorkInv
<1> QED
  BY <1>1, <1>2, <1>4, DispatchKeepsWork

\* A load that is back leaves the lane and moves no check.
LEMMA LeavingLoadStep ==
    ASSUME ItemInv, WorkInv, NEW l \in Loads, LoadIsBack(l), generation' = generation,
           complete(l, waiting), Dispatch, JobsWith(None, NoJob)
    PROVE  WorkInv' /\ \A c \in Checks : OnLane(c)' <=> OnLane(c)
<1>1. /\ SchedInv /\ active = l /\ active \in Requests /\ active \notin waiting
      /\ waiting \in SUBSET Requests /\ JobOK
  BY Parts, Ids DEF SchedInv, SchedTypeOK, LoadIsBack
<1>2. /\ \A r : OnLane(r)' => (r = None \/ r \in waiting)
      /\ \A r \in waiting : OnLane(r)'
  BY <1>1, QueueIsSmall, CompletionEffect
<1>3. \A m \in Loads : OnLane(m)' => OnLane(m) /\ job'[m] = job[m]
  <2>1. NoJob \in JobRow
    BY DEF NoJob, JobRow
  <2> QED
    BY <1>1, <1>2, <2>1, JobsEffect, Ids DEF OnLane
<1>4. \A c \in Checks : OnLane(c)' <=> OnLane(c)
  BY <1>1, <1>2, Ids DEF OnLane
<1> QED
  BY <1>3, <1>4, DispatchKeepsWork DEF WorkInv

-----------------------------------------------------------------------------
\* The checks

\* Checks stay where they are on the lane and in the holder; unanswered or held ones may
\* get an error, and the held one does when it is dropped.
LEMMA AskedFrame ==
    ASSUME AskedInv, latest' = latest, deferred' \in {deferred, None},
           \A c \in Checks : OnLane(c)' <=> OnLane(c),
           \A c \in Checks : \/ phase'[c] = phase[c]
                             \/ phase'[c] = "error" /\ (phase[c] = "pending" \/ c = deferred),
           \A c \in Checks : deferred = c /\ deferred' # c => phase'[c] # "pending",
           deferred \in Checks \cup {None}
    PROVE  AskedInv' /\ SettledKept
<1>1. SettledKept
  BY DEF SettledKept, Settled, AskedInv
<1>2. \A c \in Checks : Unanswered(c)' => Unanswered(c)
  BY DEF Unanswered
<1>3. \A c \in Checks : Settled(c)' => Settled(c)
  BY DEF Settled
<1>4. \A c \in Checks : Unanswered(c)' => OnLane(c)' \/ deferred' = c
  <2> SUFFICES ASSUME NEW c \in Checks, Unanswered(c)' PROVE OnLane(c)' \/ deferred' = c
    OBVIOUS
  <2>1. Unanswered(c) /\ phase'[c] = "pending"
    BY <1>2 DEF Unanswered
  <2> QED
    BY <2>1 DEF AskedInv
<1>5. /\ \A c \in Checks : deferred' # None /\ Unanswered(c)' => deferred' = c
      /\ deferred' # None => ~OnLane(deferred)'
  BY <1>2 DEF AskedInv, OnLane
<1>6. \A c \in Checks : Settled(c)' => ~OnLane(c)' /\ deferred' # c
  BY <1>3, Ids DEF AskedInv
<1> QED
  BY <1>1, <1>4, <1>5, <1>6 DEF AskedInv, OnLane

\* Nothing of the checks moves.
LEMMA QuietStep ==
    ASSUME ItemInv, AskedInv, UNCHANGED <<latest, phase, deferred>>,
           \A c \in Checks : OnLane(c)' <=> OnLane(c)
    PROVE  AskedInv' /\ SettledKept
<1>1. deferred \in Checks \cup {None}
  BY Parts DEF CheckOK
<1> QED
  BY <1>1, AskedFrame

\* The held check is rejected.
LEMMA RejectionStep ==
    ASSUME ItemInv, AskedInv, latest' = latest, RejectDeferred(phase, deferred),
           \A c \in Checks : OnLane(c)' <=> OnLane(c)
    PROVE  AskedInv' /\ SettledKept
<1>1. deferred \in Checks \cup {None} /\ deferred' = None /\ phase \in [Checks -> Phase]
  BY Parts DEF CheckOK, RejectDeferred
<1>2. \A c \in Checks : \/ phase'[c] = phase[c]
                        \/ phase'[c] = "error" /\ c = deferred
  BY <1>1 DEF RejectDeferred
<1>3. \A c \in Checks : deferred = c => phase'[c] = "error"
  BY <1>1, Ids DEF RejectDeferred
<1> QED
  BY <1>1, <1>2, <1>3, AskedFrame

\* A request to load moves no check on the lane; the held one stays held or is rejected.
LEMMA LoadBuildAsyncMovesNoCheck ==
    ASSUME ItemInv, WorkInv, NEW phases, NEW held, LoadBuildAsync(phases, held)
    PROVE  /\ WorkInv' /\ \A c \in Checks : OnLane(c)' <=> OnLane(c)
           /\ \/ phase' = phases /\ deferred' = held
              \/ RejectDeferred(phases, held)
<1>1. CASE UNCHANGED <<laneVars, reportVars>>
  BY <1>1, WorkFrame DEF LoadBuildAsync
<1>2. CASE /\ engineUp /\ disk # Missing /\ phase' = phases /\ deferred' = held
           /\ BeginReload(IF build \in {"READY", "RELOADING"} THEN "RELOADING" ELSE "LOADING")
           /\ SubmitBaselineJob(LoadJob(disk, IF SameBuild THEN parsed ELSE NoRevision))
  <2> DEFINE restore == IF SameBuild THEN parsed ELSE NoRevision
  <2>1. restore \in Revision \cup {NoRevision} /\ disk \in Revision
    BY <1>2, Parts DEF BuildOK, EnvOK
  <2>2. generation' \in Nat
    BY <1>2, Parts DEF BuildOK, BeginReload
  <2> HIDE DEF restore
  <2>3. LoadJob(disk, restore) \in JobRow /\ LoadJob(disk, restore).kind # "none"
    BY <2>1, <2>2 DEF LoadJob, JobRow
  <2>4. SubmitBaselineJob(LoadJob(disk, restore))
    BY <1>2 DEF restore
  <2> QED
    BY <1>2, <2>3, <2>4, SubmittedLoadStep
<1> QED
  BY <1>1, <1>2 DEF LoadBuildAsync

-----------------------------------------------------------------------------
\* Environment, timer and worker thread

LEMMA EnvironmentAnswer ==
    ASSUME ItemInv, AnswerInv, Environment PROVE AnswerInv' /\ SettledKept
<1>1. UNCHANGED <<latest, phase, deferred, laneVars, reportVars>>
  BY DEF Environment, Save, RemoveFile, Crash, checkVars
<1>2. WorkInv' /\ \A r : OnLane(r)' <=> OnLane(r)
  BY <1>1, WorkFrame DEF AnswerInv
<1> QED
  BY <1>1, <1>2, QuietStep DEF AnswerInv

LEMMA WatchdogAnswer ==
    ASSUME ItemInv, AnswerInv, NEW c \in Checks, Watchdog(c) PROVE AnswerInv' /\ SettledKept
<1>1. /\ phase[c] = "pending" /\ phase' = [phase EXCEPT ![c] = "error"]
      /\ UNCHANGED <<latest, deferred, laneVars, reportVars>>
  BY DEF Watchdog
<1>2. WorkInv' /\ \A r : OnLane(r)' <=> OnLane(r)
  BY <1>1, WorkFrame DEF AnswerInv
<1>3. /\ deferred \in Checks \cup {None}
      /\ \A d \in Checks : \/ phase'[d] = phase[d]
                           \/ phase'[d] = "error" /\ phase[d] = "pending"
  BY <1>1, Parts DEF CheckOK
<1> QED
  BY <1>1, <1>2, <1>3, AskedFrame DEF AnswerInv

LEMMA WorkerAnswer ==
    ASSUME ItemInv, AnswerInv, Worker PROVE AnswerInv' /\ SettledKept
<1>1. UNCHANGED <<latest, phase, deferred, active, waiting, job>>
  BY DEF Worker, WorkerLoads, WorkerRestores, WorkerSwitches, WorkerCaptures, WorkerEvaluates,
     WorkerOnly, checkVars, laneVars, schedVars
<1>2. \A r : OnLane(r)' <=> OnLane(r)
  BY <1>1 DEF OnLane
<1>3. result \in ResultRow /\ active # None
  <2>1. step # "idle"
    BY DEF Worker, WorkerLoads, WorkerRestores, WorkerSwitches, WorkerCaptures, WorkerEvaluates
  <2> QED
    BY <2>1, Parts DEF ReportOK, AnswerInv, WorkInv
<1>4. step' # "idle" /\ (step' \in {"capture", "done"} => result'.outcome # "none")
  <2>1. Failure # "none"
    BY DEF Failure
  <2>2. ASSUME NEW outcome, outcome # "none", Report(outcome)
        PROVE  step' = "done" /\ result'.outcome # "none"
    BY <1>3, <2>2 DEF Report, ResultRow
  <2>3. ASSUME NEW outcome, outcome # "none", result' = [NoResult EXCEPT !.outcome = outcome]
        PROVE  result'.outcome # "none"
    BY <2>3 DEF NoResult
  <2>4. CASE WorkerLoads
    <3>1. step' \in {"capture", "restore", "done"}
      BY <2>4 DEF WorkerLoads
    <3>2. result'.outcome # "none"
      BY <2>1, <2>3, <2>4 DEF WorkerLoads
    <3> QED
      BY <3>1, <3>2
  <2>5. CASE WorkerRestores
    <3>1. step = "restore" /\ result.outcome # "none"
      BY <2>5, Parts DEF WorkerRestores, ReportInv
    <3> QED
      BY <2>3, <2>5, <3>1 DEF WorkerRestores
  <2>6. CASE WorkerSwitches
    BY <2>1, <2>2, <2>3, <2>6 DEF WorkerSwitches
  <2>7. CASE WorkerCaptures
    <3>1. ASSUME EnsureSucceeds, step' = "done",
                 result' = [result EXCEPT !.measured = loaded, !.revision = loaded']
          PROVE  result'.outcome # "none"
      <4>1. result.outcome # "none"
        BY <2>7 DEF WorkerCaptures, AnswerInv, WorkInv
      <4> QED
        BY <1>3, <3>1, <4>1 DEF ResultRow
    <3> QED
      BY <2>1, <2>2, <2>7, <3>1 DEF WorkerCaptures
  <2>8. CASE WorkerEvaluates
    <3>1. ASSUME result' = [NoResult EXCEPT !.outcome = "ok", !.revision = loaded',
                                            !.kept = (disk = Missing)]
          PROVE  result'.outcome # "none"
      BY <3>1 DEF NoResult
    <3> QED
      BY <2>1, <2>2, <2>8, <3>1 DEF WorkerEvaluates
  <2> QED
    BY <2>4, <2>5, <2>6, <2>7, <2>8 DEF Worker
<1>5. WorkInv'
  BY <1>1, <1>2, <1>3, <1>4 DEF AnswerInv, WorkInv
<1> QED
  BY <1>1, <1>2, <1>5, QuietStep DEF AnswerInv

-----------------------------------------------------------------------------
\* The user

LEMMA UserLoadAnswer ==
    ASSUME ItemInv, AnswerInv, LoadBuild \/ SetActive PROVE AnswerInv' /\ SettledKept
<1>1. latest' = latest
  BY DEF LoadBuild, SetActive
<1>2. CASE LoadBuild
  <2>1. LoadBuildAsync(phase, deferred)
    BY <1>2 DEF LoadBuild
  <2>2. /\ WorkInv' /\ \A c \in Checks : OnLane(c)' <=> OnLane(c)
        /\ \/ phase' = phase /\ deferred' = deferred
           \/ RejectDeferred(phase, deferred)
    BY <2>1, LoadBuildAsyncMovesNoCheck DEF AnswerInv
  <2> QED
    BY <1>1, <2>2, QuietStep, RejectionStep DEF AnswerInv
<1>3. CASE SetActive
  <2>1. UNCHANGED <<phase, deferred>>
    BY <1>3 DEF SetActive
  <2>2. WorkInv' /\ \A c \in Checks : OnLane(c)' <=> OnLane(c)
    <3>1. CASE UNCHANGED <<laneVars, reportVars>>
      BY <3>1, WorkFrame DEF AnswerInv
    <3>2. CASE BeginReload("RELOADING") /\ SubmitBaselineJob(SwitchJob)
      <4>1. generation' \in Nat
        BY <3>2, Parts DEF BuildOK, BeginReload
      <4>2. SwitchJob \in JobRow /\ SwitchJob.kind # "none"
        BY <4>1 DEF SwitchJob, NoJob, JobRow
      <4> QED
        BY <3>2, <4>2, SubmittedLoadStep DEF AnswerInv
    <3> QED
      BY <1>3, <3>1, <3>2 DEF SetActive
  <2> QED
    BY <1>1, <2>1, <2>2, QuietStep DEF AnswerInv
<1> QED
  BY <1>2, <1>3

LEMMA CopyRefusedAnswer ==
    ASSUME ItemInv, AnswerInv, NEW c \in Checks, CopyRefused(c) PROVE AnswerInv' /\ SettledKept
<1>1. /\ latest' = c /\ phase[c] = "none" /\ deferred' = deferred
      /\ phase' = [phase EXCEPT ![c] = "error"]
      /\ UNCHANGED <<laneVars, reportVars>>
  BY DEF CopyRefused, Copied
<1>2. WorkInv' /\ \A r : OnLane(r)' <=> OnLane(r)
  BY <1>1, WorkFrame DEF AnswerInv
<1>3. phase'[c] = "error" /\ \A d \in Checks : d # c => phase'[d] = phase[d]
  BY <1>1, Parts DEF CheckOK
<1>4. \A d \in Checks : ~Unanswered(d)'
  BY <1>1, <1>3 DEF Unanswered
<1>5. \A d \in Checks : Settled(d)' => Settled(d)
  BY <1>3 DEF Settled
<1>6. SettledKept
  BY <1>1, <1>3 DEF SettledKept, Settled
<1> QED
  BY <1>1, <1>2, <1>4, <1>5, <1>6 DEF AnswerInv, AskedInv, OnLane

\* The new check is held, the one held before is superseded; or neither is held any more.
LEMMA CopyDeferredAnswer ==
    ASSUME ItemInv, AnswerInv, NEW c \in Checks, CopyDeferred(c) PROVE AnswerInv' /\ SettledKept
<1>1. latest' = c /\ phase[c] = "none" /\ ~OnLane(c) /\ c # deferred /\ c # None
  BY CopiedEffect, Ids DEF CopyDeferred
<1>2. /\ WorkInv' /\ \A d \in Checks : OnLane(d)' <=> OnLane(d)
      /\ \/ phase' = Superseding(deferred, c) /\ deferred' = c
         \/ RejectDeferred(Superseding(deferred, c), c)
  <2>1. CASE LoadBuildAsync(Superseding(deferred, c), c)
    BY <2>1, LoadBuildAsyncMovesNoCheck DEF AnswerInv
  <2>2. CASE deferred' = c /\ phase' = Superseding(deferred, c) /\ UNCHANGED <<laneVars, reportVars>>
    BY <2>2, WorkFrame DEF AnswerInv
  <2> QED
    BY <2>1, <2>2 DEF CopyDeferred
<1>3. /\ deferred' \in {c, None} /\ (phase'[c] = "pending" => deferred' = c)
      /\ phase'[c] \in {"pending", "error"}
      /\ \A d \in Checks : d # c => phase'[d] = IF d = deferred THEN "superseded" ELSE phase[d]
  <2>1. Superseding(deferred, c)[c] = "pending"
    BY DEF Superseding
  <2>2. \A d \in Checks : d # c => Superseding(deferred, c)[d] =
                                       IF d = deferred THEN "superseded" ELSE phase[d]
    BY DEF Superseding
  <2>3. \A d \in Checks : d \in DOMAIN Superseding(deferred, c)
    BY DEF Superseding
  <2> QED
    BY <1>1, <1>2, <2>1, <2>2, <2>3 DEF RejectDeferred
<1>4. \A d \in Checks : Unanswered(d)' => d = c /\ deferred' = c
  BY <1>1, <1>3 DEF Unanswered
<1>5. \A d \in Checks : Settled(d)' => d # c /\ ~OnLane(d)
  <2> SUFFICES ASSUME NEW d \in Checks, Settled(d)' PROVE d # c /\ ~OnLane(d)
    OBVIOUS
  <2>1. d # c
    BY <1>3 DEF Settled
  <2>2. CASE d = deferred
    BY <2>1, <2>2, Ids DEF AnswerInv, AskedInv
  <2>3. CASE d # deferred
    BY <1>3, <2>1, <2>3 DEF AnswerInv, AskedInv, Settled
  <2> QED
    BY <2>1, <2>2, <2>3
<1>6. SettledKept
  <2> SUFFICES ASSUME NEW d \in Checks, Settled(d) PROVE phase'[d] = phase[d]
    BY DEF SettledKept
  <2>1. d # c /\ d # deferred
    BY <1>1 DEF Settled, AnswerInv, AskedInv
  <2> QED
    BY <1>3, <2>1
<1>7. deferred' # None => ~OnLane(deferred)'
  BY <1>1, <1>2, <1>3 DEF OnLane
<1>8. AskedInv'
  <2>1. \A d \in Checks : Settled(d)' => ~OnLane(d)' /\ deferred' # d
    BY <1>2, <1>3, <1>5, Ids
  <2>2. \A d \in Checks : Unanswered(d)' => OnLane(d)' \/ deferred' = d
    BY <1>4
  <2>3. \A d \in Checks : deferred' # None /\ Unanswered(d)' => deferred' = d
    BY <1>4
  <2> QED
    BY <1>7, <2>1, <2>2, <2>3 DEF AskedInv, OnLane, Unanswered, Settled
<1> QED
  BY <1>2, <1>6, <1>8 DEF AnswerInv

\* The new check is answered at once or joins the lane; nothing is held beside a settled
\* build.
LEMMA CopyAcceptedAnswer ==
    ASSUME ItemInv, AnswerInv, NEW c \in Checks, CopyAccepted(c) PROVE AnswerInv' /\ SettledKept
<1>1. latest' = c /\ phase[c] = "none" /\ ~OnLane(c) /\ c # None
  BY CopiedEffect, Ids DEF CopyAccepted
<1>2. deferred' = None
  <2>1. ~Loading /\ build # "FAILED" /\ deferred' = deferred
    BY DEF CopyAccepted
  <2> QED
    BY <2>1, Parts DEF LoadInv, HeldCheckHasRelease
<1>3. \E reached \in {"error", "painted", "pending"} :
          /\ phase' = [phase EXCEPT ![c] = reached]
          /\ IF reached = "pending" THEN submit(c, waiting) /\ Dispatch /\ job' = job
                                    ELSE UNCHANGED <<laneVars, reportVars>>
  BY DEF CopyAccepted
<1>4. PICK reached \in {"error", "painted", "pending"} :
          /\ phase' = [phase EXCEPT ![c] = reached]
          /\ IF reached = "pending" THEN submit(c, waiting) /\ Dispatch /\ job' = job
                                    ELSE UNCHANGED <<laneVars, reportVars>>
  BY <1>3
<1>5. phase'[c] = reached /\ \A d \in Checks : d # c => phase'[d] = phase[d]
  BY <1>4, Parts DEF CheckOK
<1>6. /\ WorkInv' /\ \A r : OnLane(r)' => OnLane(r) \/ r = c
      /\ reached = "pending" => OnLane(c)'
      /\ reached # "pending" => ~OnLane(c)'
  <2>1. CASE reached = "pending"
    <3>1. submit(c, waiting) /\ Dispatch /\ job' = job
      BY <1>4, <2>1
    <3>2. OnLane(c)' /\ \A r : OnLane(r)' => OnLane(r) \/ r = c
      BY <3>1 DEF submit, QueueAfterSubmit, OnLane
    <3>3. \A l \in Loads : OnLane(l)' => job'[l].kind # "none"
      BY <3>1, <3>2, Ids DEF AnswerInv, WorkInv
    <3> QED
      BY <2>1, <3>1, <3>2, <3>3, DispatchKeepsWork DEF AnswerInv
  <2>2. CASE reached # "pending"
    BY <1>1, <1>4, <2>2, WorkFrame DEF AnswerInv
  <2> QED
    BY <2>1, <2>2
<1>7. \A d \in Checks : Unanswered(d)' => OnLane(d)'
  BY <1>1, <1>5, <1>6 DEF Unanswered
<1>8. \A d \in Checks : Settled(d)' => ~OnLane(d)' /\ deferred' # d
  <2> SUFFICES ASSUME NEW d \in Checks, Settled(d)' PROVE ~OnLane(d)'
    BY <1>2, Ids
  <2>1. CASE d = c
    BY <1>5, <1>6, <2>1 DEF Settled
  <2>2. CASE d # c
    BY <1>5, <1>6, <2>2 DEF Settled, AnswerInv, AskedInv
  <2> QED
    BY <2>1, <2>2
<1>9. SettledKept
  BY <1>1, <1>5 DEF SettledKept, Settled
<1> QED
  BY <1>2, <1>6, <1>7, <1>8, <1>9 DEF AnswerInv, AskedInv

-----------------------------------------------------------------------------
\* A check is back

\* The check is answered and leaves; the queue behind it stays, or with a dead process is
\* answered with an error, and what is held stays held.
LEMMA OnWorkerFinishedAnswer ==
    ASSUME ItemInv, AnswerInv, NEW c \in Checks, OnWorkerFinished(c)
    PROVE  AnswerInv' /\ SettledKept
<1>1. /\ active = c /\ Dispatch /\ UNCHANGED <<latest, deferred>>
      /\ active \in Requests /\ active \notin waiting /\ waiting \in SUBSET Requests /\ SchedInv
      /\ OnLane(c) /\ c # None /\ c \notin Loads /\ None \notin Loads /\ None \notin Checks
  BY Parts, Ids DEF OnWorkerFinished, SchedInv, SchedTypeOK, OnLane
<1>2. Reached(c) \in {"superseded", "error", "painted"}
  BY DEF Reached
<1>3. ~Settled(c) /\ deferred # c
  BY <1>1 DEF AnswerInv, AskedInv
<1>4. CASE result.outcome # "unhealthy"
  <2>1. phase' = [phase EXCEPT ![c] = Reached(c)] /\ complete(c, waiting) /\ job' = job
    BY <1>4 DEF OnWorkerFinished
  <2>2. /\ \A r : OnLane(r)' => (r = None \/ r \in waiting)
        /\ \A r \in waiting : OnLane(r)'
    BY <1>1, <2>1, QueueIsSmall, CompletionEffect
  <2>3. phase'[c] = Reached(c) /\ \A d \in Checks : d # c => phase'[d] = phase[d]
    BY <2>1, Parts DEF CheckOK
  <2>4. /\ \A d \in Checks : OnLane(d)' => d # c /\ OnLane(d)
        /\ \A d \in Checks : d # c /\ OnLane(d) => OnLane(d)'
        /\ \A l \in Loads : OnLane(l)' => OnLane(l)
    BY <1>1, <2>2 DEF OnLane
  <2>5. WorkInv'
    BY <1>1, <2>1, <2>4, DispatchKeepsWork DEF AnswerInv, WorkInv
  <2>6. \A d \in Checks : Unanswered(d)' => d # c /\ Unanswered(d)
    BY <1>1, <1>2, <2>3 DEF Unanswered
  <2>7. \A d \in Checks : Settled(d)' => d = c \/ Settled(d)
    BY <2>3 DEF Settled
  <2>8. SettledKept
    BY <1>3, <2>3 DEF SettledKept
  <2>9. deferred' # None => ~OnLane(deferred)'
    <3>1. deferred \in Checks \cup {None}
      BY Parts DEF CheckOK
    <3>2. deferred # None => ~OnLane(deferred) /\ deferred \in Checks
      BY <3>1 DEF AnswerInv, AskedInv
    <3>3. deferred' = deferred
      BY <1>1
    <3> QED
      BY <2>4, <3>2, <3>3 DEF OnLane
  <2>10. \A d \in Checks : Settled(d)' => ~OnLane(d)' /\ deferred' # d
    BY <1>1, <1>3, <2>4, <2>7 DEF AnswerInv, AskedInv
  <2>11. \A d \in Checks : Unanswered(d)' => OnLane(d)' \/ deferred' = d
    BY <1>1, <2>4, <2>6 DEF AnswerInv, AskedInv
  <2>12. \A d \in Checks : deferred' # None /\ Unanswered(d)' => deferred' = d
    BY <1>1, <2>6 DEF AnswerInv, AskedInv
  <2> QED
    BY <2>5, <2>8, <2>9, <2>10, <2>11, <2>12 DEF AnswerInv, AskedInv, OnLane
<1>5. CASE result.outcome = "unhealthy"
  <2>1. /\ phase' = [d \in Checks |-> CASE d = c -> Reached(c)
                                        [] d # c /\ d \in waiting -> "error"
                                        [] OTHER -> phase[d]]
        /\ complete(c, {})
    BY <1>5 DEF OnWorkerFinished
  <2>2. active' = None /\ waiting' = {} /\ \A r : OnLane(r)' => r = None
    BY <2>1 DEF complete, OnLane
  <2>3. /\ phase'[c] = Reached(c)
        /\ \A d \in Checks : d # c => phase'[d] = IF d \in waiting THEN "error" ELSE phase[d]
    BY <2>1
  <2>4. /\ \A d \in Checks : ~OnLane(d)'
        /\ \A l \in Loads : ~OnLane(l)'
    BY <1>1, <2>2
  <2>5. WorkInv'
    BY <1>1, <2>4, DispatchKeepsWork DEF AnswerInv
  <2>6. \A d \in Checks : Unanswered(d)' => Unanswered(d) /\ d # c /\ d \notin waiting
    BY <1>1, <1>2, <2>3 DEF Unanswered
  <2>7. \A d \in Checks : Unanswered(d)' => deferred' = d
    BY <1>1, <2>6 DEF AnswerInv, AskedInv, OnLane
  <2>8. \A d \in Checks : Settled(d)' => d = c \/ Settled(d)
    BY <2>3 DEF Settled
  <2>9. \A d \in Checks : Settled(d)' => deferred' # d
    BY <1>1, <1>3, <2>8 DEF AnswerInv, AskedInv
  <2>10. SettledKept
    <3> SUFFICES ASSUME NEW d \in Checks, Settled(d) PROVE phase'[d] = phase[d]
      BY DEF SettledKept
    <3>1. d # c /\ d \notin waiting
      BY <1>3 DEF AnswerInv, AskedInv, OnLane
    <3> QED
      BY <2>3, <3>1
  <2>11. deferred' # None => ~OnLane(deferred)'
    BY <2>2 DEF OnLane
  <2> QED
    BY <2>4, <2>5, <2>7, <2>9, <2>10, <2>11 DEF AnswerInv, AskedInv
<1> QED
  BY <1>4, <1>5

-----------------------------------------------------------------------------
\* A load is back

\* It is stale, failed, or restored: it leaves, and the held check stays or is rejected.
LEMMA SettlingAnswer ==
    ASSUME ItemInv, AnswerInv, NEW l \in Loads,
           OnStaleBaseline(l) \/ OnBaselineFailed(l) \/ OnBaselineRestored(l)
    PROVE  AnswerInv' /\ SettledKept
<1>1. /\ LoadIsBack(l) /\ generation' = generation /\ latest' = latest
      /\ complete(l, waiting) /\ Dispatch /\ JobsWith(None, NoJob)
      /\ UNCHANGED <<phase, deferred>> \/ RejectDeferred(phase, deferred)
  BY DEF OnStaleBaseline, OnBaselineFailed, OnBaselineRestored, buildVars, checkVars
<1>2. WorkInv' /\ \A c \in Checks : OnLane(c)' <=> OnLane(c)
  BY <1>1, LeavingLoadStep DEF AnswerInv
<1> QED
  BY <1>1, <1>2, QuietStep, RejectionStep DEF AnswerInv

\* The held check joins the lane or is answered; a switch that was asked for joins too.
LEMMA OnBaselineReadyAnswer ==
    ASSUME ItemInv, AnswerInv, NEW l \in Loads, OnBaselineReady(l) PROVE AnswerInv' /\ SettledKept
<1>1. /\ LoadIsBack(l) /\ deferred' = None /\ Dispatch /\ latest' = latest /\ active = l
  BY DEF OnBaselineReady, LoadIsBack
<1>2. /\ SchedInv /\ active \in Requests /\ active \notin waiting /\ waiting \in SUBSET Requests
      /\ active \notin Checks /\ JobOK /\ deferred \in Checks \cup {None}
      /\ None \notin Checks /\ None \notin Loads
      /\ deferred # None => ~OnLane(deferred)
  BY <1>1, Parts, Ids DEF SchedInv, SchedTypeOK, CheckOK, AnswerInv, AskedInv
<1>3. PICK prepared \in (IF deferred = None THEN {FALSE} ELSE BOOLEAN) :
          LET queue == IF prepared THEN QueueAfterSubmit(deferred, waiting) ELSE waiting IN
          /\ IF deferred = None THEN UNCHANGED <<ticket, phase>> ELSE
             /\ ticket' = [ticket EXCEPT ![deferred] = generation]
             /\ phase' = IF prepared THEN phase ELSE
                   [phase EXCEPT ![deferred] =
                       IF latest = deferred THEN "error" ELSE "superseded"]
          /\ \/ /\ build' = "READY"
                /\ baseline' = result.revision /\ measured' = result.measured
                /\ pendingSwitch' = FALSE
                /\ UNCHANGED <<generation, cached>>
                /\ complete(l, queue) /\ JobsWith(None, NoJob)
             \/ /\ pendingSwitch
                /\ BeginReload("RELOADING")
                /\ complete(l, QueueAfterSubmit(NextLoad, queue))
                /\ JobsWith(NextLoad, SwitchJob)
  BY DEF OnBaselineReady
<1> DEFINE queue == IF prepared THEN QueueAfterSubmit(deferred, waiting) ELSE waiting
<1>4. prepared => deferred \in Checks
  BY <1>2, <1>3
<1>5. /\ queue \in SUBSET Requests /\ active \notin queue /\ queue \subseteq waiting \cup {deferred}
      /\ \A x, y \in queue : Kind[x] = Kind[y] => x = y
      /\ prepared => deferred \in queue
      /\ ~prepared => queue = waiting
  <2>1. CASE prepared
    BY <1>2, <1>4, <2>1, QueueIsSmall, JoinedQueueIsSmall, Ids
  <2>2. CASE ~prepared
    BY <1>2, <2>2, QueueIsSmall
  <2> QED
    BY <2>1, <2>2
<1> HIDE DEF queue
<1>6. /\ \A c \in Checks : c # deferred => phase'[c] = phase[c]
      /\ prepared => phase' = phase
      /\ deferred \in Checks /\ ~prepared => phase'[deferred] \in {"error", "superseded"}
  <2>1. CASE deferred = None
    BY <1>2, <1>3, <2>1
  <2>2. CASE deferred # None
    <3>1. phase' = IF prepared THEN phase ELSE
                   [phase EXCEPT ![deferred] =
                       IF latest = deferred THEN "error" ELSE "superseded"]
      BY <1>3, <2>2
    <3>2. phase \in [Checks -> Phase]
      BY Parts DEF CheckOK
    <3> QED
      BY <1>2, <2>2, <3>1, <3>2
  <2> QED
    BY <2>1, <2>2
\* The checks on the lane are those of the queue, and the jobs of the loads are known.
<1>7. /\ \A c \in Checks : OnLane(c)' <=> c \in queue
      /\ \A m \in Loads : OnLane(m)' => job'[m].kind # "none"
  <2>1. CASE complete(l, queue) /\ JobsWith(None, NoJob)
    <3>1. /\ \A r : OnLane(r)' => (r = None \/ r \in queue)
          /\ \A r \in queue : OnLane(r)'
      BY <1>1, <1>2, <1>5, <2>1, CompletionEffect
    <3>2. NoJob \in JobRow
      BY DEF NoJob, JobRow
    <3>3. \A m \in Loads : OnLane(m)' => job'[m] = job[m]
      BY <1>2, <2>1, <3>2, JobsEffect
    <3>4. \A m \in Loads : OnLane(m)' => OnLane(m)
      BY <1>2, <1>5, <3>1, Ids DEF OnLane
    <3> QED
      BY <1>2, <3>1, <3>3, <3>4 DEF AnswerInv, WorkInv
  <2>2. CASE /\ BeginReload("RELOADING")
             /\ complete(l, QueueAfterSubmit(NextLoad, queue))
             /\ JobsWith(NextLoad, SwitchJob)
    <3>1. PICK n \in Loads : n = NextLoad /\ ~OnLane(n)
      BY Parts, NextLoadIsFree
    <3> DEFINE longer == QueueAfterSubmit(n, queue)
    <3>2. /\ longer \in SUBSET Requests /\ n \in longer /\ longer \subseteq queue \cup {n}
          /\ \A x, y \in longer : Kind[x] = Kind[y] => x = y
          /\ active \notin longer /\ complete(active, longer)
      BY <1>1, <1>2, <1>5, <2>2, <3>1, JoinedQueueIsSmall, Ids DEF OnLane
    <3>3. \A c \in Checks : c \in longer <=> c \in queue
      BY <3>1, Ids DEF QueueAfterSubmit, Superseded
    <3> HIDE DEF longer
    <3>4. /\ \A r : OnLane(r)' => (r = None \/ r \in longer)
          /\ \A r \in longer : OnLane(r)'
      BY <1>2, <3>2, CompletionEffect
    <3>5. generation' \in Nat
      BY <2>2, Parts DEF BuildOK, BeginReload
    <3>6. SwitchJob \in JobRow /\ SwitchJob.kind # "none"
      BY <3>5 DEF SwitchJob, NoJob, JobRow
    <3>7. /\ job'[n] = SwitchJob
          /\ \A m \in Loads : m # n /\ OnLane(m)' => job'[m] = job[m]
      BY <1>2, <2>2, <3>1, <3>6, JobsEffect
    <3>8. \A m \in Loads : m # n /\ OnLane(m)' => OnLane(m)
      BY <1>2, <1>5, <3>2, <3>4, Ids DEF OnLane
    <3>9. \A m \in Loads : OnLane(m)' => job'[m].kind # "none"
      BY <3>6, <3>7, <3>8 DEF AnswerInv, WorkInv
    <3> QED
      BY <1>2, <3>3, <3>4, <3>9
  <2> QED
    BY <1>3, <2>1, <2>2 DEF queue
<1>8. WorkInv'
  BY <1>1, <1>7, DispatchKeepsWork DEF AnswerInv
<1>9. \A c \in Checks : c # deferred => (OnLane(c)' => OnLane(c))
  BY <1>5, <1>7 DEF OnLane
<1>10. \A c \in Checks : Unanswered(c)' => OnLane(c)'
  <2> SUFFICES ASSUME NEW c \in Checks, Unanswered(c)' PROVE c \in queue
    BY <1>7
  <2>1. CASE deferred = None
    <3>1. Unanswered(c) /\ ~prepared
      BY <1>1, <1>2, <1>4, <1>6, <2>1 DEF Unanswered
    <3>2. OnLane(c)
      BY <1>2, <2>1, <3>1 DEF AnswerInv, AskedInv
    <3> QED
      BY <1>2, <1>1, <1>5, <3>1, <3>2 DEF OnLane
  <2>2. CASE deferred # None
    <3>1. c = deferred
      BY <1>1, <1>6, <2>2 DEF Unanswered, AnswerInv, AskedInv
    <3>2. prepared
      BY <1>6, <3>1 DEF Unanswered
    <3> QED
      BY <1>5, <3>1, <3>2
  <2> QED
    BY <2>1, <2>2
<1>11. SettledKept
  <2> SUFFICES ASSUME NEW c \in Checks, Settled(c) PROVE phase'[c] = phase[c]
    BY DEF SettledKept
  <2>1. c # deferred
    BY DEF AnswerInv, AskedInv
  <2> QED
    BY <1>6, <2>1
<1>12. \A c \in Checks : Settled(c)' => ~OnLane(c)'
  <2> SUFFICES ASSUME NEW c \in Checks, Settled(c)' PROVE ~OnLane(c)'
    OBVIOUS
  <2>1. CASE c # deferred
    BY <1>6, <1>9, <2>1 DEF Settled, AnswerInv, AskedInv
  <2>2. CASE c = deferred
    <3>1. ~prepared
      <4>1. ~Settled(c)
        BY <2>2 DEF AnswerInv, AskedInv
      <4> QED
        BY <1>6, <4>1 DEF Settled
    <3>2. c \notin queue
      BY <1>2, <1>5, <2>2, <3>1 DEF OnLane
    <3> QED
      BY <1>7, <3>2
  <2> QED
    BY <2>1, <2>2
<1>13. \A c \in Checks : deferred' # c
  BY <1>1, <1>2
<1> QED
  BY <1>1, <1>8, <1>10, <1>11, <1>12, <1>13 DEF AnswerInv, AskedInv

-----------------------------------------------------------------------------
\* The replacement worker

LEMMA EngineAnswer ==
    ASSUME ItemInv, AnswerInv, EngineBoots \/ EngineFailsToBoot PROVE AnswerInv' /\ SettledKept
<1>1. latest' = latest
  BY DEF EngineBoots, EngineFailsToBoot
<1>2. CASE UNCHANGED <<laneVars, reportVars>> /\ RejectDeferred(phase, deferred)
  BY <1>1, <1>2, WorkFrame, RejectionStep DEF AnswerInv
<1>3. CASE /\ disk # Missing /\ BeginReload("RELOADING")
           /\ SubmitBaselineJob(LoadJob(disk, NoRevision)) /\ UNCHANGED <<phase, deferred>>
  <2>1. generation' \in Nat /\ disk \in Revision
    BY <1>3, Parts DEF BuildOK, BeginReload, EnvOK
  <2>2. LoadJob(disk, NoRevision) \in JobRow /\ LoadJob(disk, NoRevision).kind # "none"
    BY <2>1 DEF LoadJob, JobRow
  <2>3. WorkInv' /\ \A c \in Checks : OnLane(c)' <=> OnLane(c)
    BY <1>3, <2>2, SubmittedLoadStep DEF AnswerInv
  <2> QED
    BY <1>1, <1>3, <2>3, QuietStep DEF AnswerInv
<1> QED
  BY <1>2, <1>3 DEF EngineBoots, EngineFailsToBoot

-----------------------------------------------------------------------------
\* The invariant, and what follows

LEMMA NextAnswer ==
    ASSUME ItemInv, AnswerInv, Next PROVE AnswerInv' /\ SettledKept
<1>1. CASE Environment
  BY <1>1, EnvironmentAnswer
<1>2. CASE User
  BY <1>2, UserLoadAnswer, CopyRefusedAnswer, CopyDeferredAnswer, CopyAcceptedAnswer DEF User
<1>3. CASE Worker
  BY <1>3, WorkerAnswer
<1>4. CASE Handlers
  BY <1>4, OnWorkerFinishedAnswer, SettlingAnswer, OnBaselineReadyAnswer, EngineAnswer DEF Handlers
<1>5. CASE Timer
  BY <1>5, WatchdogAnswer DEF Timer
<1> QED
  BY <1>1, <1>2, <1>3, <1>4, <1>5 DEF Next

LEMMA NextAnswerInv == ItemInv /\ AnswerInv /\ [Next]_vars => AnswerInv'
<1>1. ItemInv /\ AnswerInv /\ Next => AnswerInv'
  BY NextAnswer
<1>2. AnswerInv /\ UNCHANGED vars => AnswerInv'
  <2> SUFFICES ASSUME AnswerInv, UNCHANGED vars PROVE AnswerInv'
    OBVIOUS
  <2>1. UNCHANGED <<latest, phase, deferred, active, waiting, job, step, result>>
    BY DEF vars, checkVars, laneVars, schedVars, reportVars
  <2> QED
    BY <2>1 DEF AnswerInv, WorkInv, AskedInv, Unanswered, Settled, OnLane
<1> QED
  BY <1>1, <1>2

\* The newest unanswered item is on its way, and whatever runs, waits, is held or loads
\* has somebody whose step is next (but a check held when a recovery raised): no order of events of the three actors loses a
\* request, a report or a load (_on_worker_finished, _settle_baseline_job,
\* _on_engine_boot_result and what they call).
THEOREM NothingStranded == Spec => []NothingIsStranded
<1>1. ItemInv /\ AnswerInv => NothingIsStranded
  <2> SUFFICES ASSUME ItemInv, AnswerInv PROVE NothingIsStranded
    OBVIOUS
  <2>1. latest # None /\ phase[latest] = "pending" => latest \in waiting \cup {active, deferred}
    <3>1. latest # None => latest \in Checks
      BY Parts DEF CheckOK
    <3> QED
      BY <3>1 DEF AnswerInv, AskedInv, Unanswered, OnLane
  <2>2. CASE active # None
    <3>1. active \in Checks \cup Loads
      BY <2>2, Parts, IdAssumption DEF SchedInv, SchedTypeOK
    <3>2. step \in {"posted", "restore", "capture", "done"}
      BY <2>2, Parts DEF ReportOK, AnswerInv, WorkInv
    <3>3. active \in Loads => job[active].kind # "none"
      BY DEF AnswerInv, WorkInv, OnLane
    <3>4. step \in {"restore", "capture"} => active \in Loads
      BY Parts DEF ReportInv
    <3>5. step = "done" => result.outcome # "none"
      BY DEF AnswerInv, WorkInv
    <3>6. WorkerIsDue
      BY <2>2, <3>1, <3>2, <3>3, <3>4, <3>5 DEF WorkerIsDue
    <3> QED
      BY <2>1, <3>6 DEF NothingIsStranded
  <2>3. CASE active = None
    <3>1. waiting = {} /\ LiveLoads = {}
      BY <2>3, Parts, Ids DEF SchedInv, IdleLaneHasNoQueue, LiveLoads
    <3>2. deferred \notin {None, stranded} \/ Loading => ~engineUp /\ recoveryReload
      BY <3>1, Parts DEF LoadInv, LoadingHasOwner, HeldCheckHasRelease
    <3> QED
      BY <2>1, <2>3, <3>1, <3>2 DEF NothingIsStranded
  <2> QED
    BY <2>2, <2>3
<1> QED
  BY <1>1, InitItemInv, NextItemInv, InitAnswerInv, NextAnswerInv, PTL DEF Spec

\* Only the newest copied item is painted, by its own copy from the cache or by a result
\* whose check is still the latest; and no later result, discard, supersession or
\* rejection touches a check that was painted or superseded.
THEOREM NewestIsPainted == Spec => OnlyNewestIsPainted
<1>1. ItemInv /\ AnswerInv /\ [Next]_vars =>
        [/\ painted' # painted => painted'.check = latest'
         /\ \A c \in Checks :
               phase[c] \in {"painted", "superseded"} => phase'[c] = phase[c]]_vars
  <2> SUFFICES ASSUME ItemInv, AnswerInv, Next
               PROVE  /\ painted' # painted => painted'.check = latest'
                      /\ SettledKept
    BY DEF SettledKept, Settled
  <2> QED
    BY PaintedIsNewest, NextAnswer
<1> QED
  BY <1>1, InitItemInv, NextItemInv, InitAnswerInv, NextAnswerInv, PTL DEF Spec, OnlyNewestIsPainted

=============================================================================
