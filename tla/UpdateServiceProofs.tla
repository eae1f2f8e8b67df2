------------------------ MODULE UpdateServiceProofs ------------------------
(***************************************************************************)
(* The safety properties of the updater, the launch guard and the update   *)
(* service, for any number of releases, updaters, launches, checks and     *)
(* faults.                                                                 *)
(***************************************************************************)
EXTENDS UpdateService, TLAPS

-----------------------------------------------------------------------------
(* The inductive invariant.                                                 *)

Preparing == {"prepare", "verify", "swap"}
Swapping == {"swapping", "commit"}
Working == {"rewind"} \cup Preparing \cup Swapping

\* The release an undo would bring back, or else the installed one.
Base == IF JournalExists THEN old ELSE installed

\* The updater that swaps works on a verified copy of the release of its job,
\* and the journal exists in the phases that need it.
PhaseInv ==
    /\ pc \in Preparing => ~JournalExists
    /\ pc \in Swapping => JournalExists
    /\ pc \in Preparing \cup Swapping => kind = "install"
    /\ pc \in {"verify", "swap"} \cup Swapping => task.to # 0
    /\ pc \in {"swap"} \cup Swapping => fresh = [of |-> task.to, whole |-> TRUE]
    /\ pc = "commit" => installed = task.to

RootInv == Base # 0

\* An updater that reports has an outcome.
ReportInv == pc \in {"marker", "finish", "release"} => outcome \in Outcome

\* A launch that came to look for the journal keeps an updater waiting.
UseInv == pc \in Working => failedOpen \/ (guard # "journal" /\ app = "down")

\* Nobody replaces the job of the updater that loaded it.
TaskInv == pc \in Working \cup {"wait"} /\ kind = "install" => task = job /\ job # NoJob

BackupInv ==
    /\ pc = "swap" => backup = installed
    /\ JournalExists => backup = old

\* What was verified is newer than what runs, what runs is not older than what
\* an undo brings back, and neither is the job.
VersionInv ==
    ~failedOpen =>
        /\ job # NoJob => job.to >= Base
        /\ app # "down" => running >= Base
        /\ JournalExists => /\ fresh.of # 0 => fresh.of >= old
                            /\ installed # 0 => installed >= old

VerifiedInv ==
    /\ verified # 0 => verified > running
    /\ app = "down" => verified = 0

\* The application runs a version, and nothing else does.
SessionInv == app = "down" <=> running = 0

UpdateInv ==
    /\ TypeOK /\ ReportInv /\ PhaseInv /\ RootInv /\ UseInv /\ TaskInv /\ BackupInv
    /\ VersionInv /\ VerifiedInv /\ SessionInv

-----------------------------------------------------------------------------

\* What the values of the model are.
LEMMA Constants ==
    /\ 0 \in Maybe(Version) /\ Version \subseteq Nat
    /\ \A v \in Maybe(Version) : v # 0 => v \in Version
    /\ NoTree \in Tree /\ NoJob \in Job
    /\ \A v \in Version, b \in BOOLEAN : [of |-> v, whole |-> b] \in Tree
    /\ \A v \in Maybe(Version), b \in BOOLEAN : [to |-> v, restart |-> b] \in Job
    /\ \A t \in Tree : t.of \in Maybe(Version) /\ t.whole \in BOOLEAN
    /\ \A j \in Job : j.to \in Maybe(Version) /\ j.restart \in BOOLEAN
  BY VersionAssumption DEF Version, Maybe, NoTree, Tree, NoJob, Job

\* The invariant holds initially.
LEMMA InitUpdateInv == Init => UpdateInv
<1> SUFFICES ASSUME Init PROVE UpdateInv
  OBVIOUS
<1> USE VersionAssumption DEF Init, UpdaterInit, Version, Maybe
<1>1. 2 \in Version
  OBVIOUS
<1>2. TypeOK
  <2>1. UpdaterTypeOK
    <3>1. starting \in [Kind -> Nat] /\ kind \in Kind
      BY DEF Kind
    <3>2. installed \in Maybe(Version) /\ archives \subseteq Version
      BY <1>1
    <3> QED
      BY <3>1, <3>2, Constants DEF UpdaterTypeOK
  <2>2. ServiceTypeOK
    BY <1>1 DEF ServiceTypeOK, NoDownload, NoPrestage
  <2> QED
    BY <2>1, <2>2 DEF TypeOK
<1>3. PhaseInv /\ RootInv /\ UseInv /\ TaskInv /\ BackupInv
  BY DEF PhaseInv, RootInv, UseInv, TaskInv, BackupInv, Base, JournalExists,
         Working, Preparing, Swapping
<1>4. VersionInv /\ VerifiedInv
  BY DEF VersionInv, VerifiedInv, Base, JournalExists
<1>5. ReportInv /\ SessionInv
  BY DEF ReportInv, SessionInv
<1> QED
  BY <1>2, <1>3, <1>4, <1>5 DEF UpdateInv

\* A Boolean set by hand.
LEMMA DamagedStep == damaged \in BOOLEAN /\ UpdaterStep => damaged' \in BOOLEAN
<1> SUFFICES ASSUME damaged \in BOOLEAN, UpdaterStep PROVE damaged' \in BOOLEAN
  OBVIOUS
<1>0. ASSUME damaged' \in {damaged, FALSE} \/ damaged' \in BOOLEAN
             \/ damaged' = damaged
      PROVE  damaged' \in BOOLEAN
  BY <1>0, Zenon
<1>a. ASSUME UNCHANGED root PROVE damaged' = damaged
  BY <1>a, Zenon DEF root
<1>1. ASSUME NEW k \in Kind, AcquireMutex(k) PROVE UNCHANGED root
  BY <1>1 DEF AcquireMutex
<1>2. CASE LoadJob \/ LoadJournal \/ WaitForInstallProcesses \/ WaitTimeout
  BY <1>0, <1>a, <1>2, Zenon DEF LoadJob, LoadJournal, WaitForInstallProcesses, WaitTimeout
<1>3. CASE RecoverInterruptedInstall
  BY <1>0, <1>a, <1>3, Zenon DEF RecoverInterruptedInstall, Undo, UndoFails, UndoCutShort
<1>4. CASE Prepare \/ Verify \/ PrepareFails \/ BeginSwap \/ EndSwap
  <2>1. damaged' = damaged
    BY <1>4, Zenon DEF Prepare, Verify, PrepareFails, BeginSwap, EndSwap, MoveIn
  <2> QED
    BY <1>0, <2>1, Zenon
<1>5. CASE SwapFails
  BY <1>0, <1>a, <1>5, Zenon DEF SwapFails, Undo, UndoFails, UndoCutShort, FreshRemoved
<1>6. CASE Commit
  BY <1>0, <1>6, Zenon DEF Commit, Unlink
<1>7. CASE ConsumeLaunchRequest \/ WriteResult \/ ReleaseMutex
  BY <1>0, <1>a, <1>7, Zenon DEF ConsumeLaunchRequest, WriteResult, ReleaseMutex
<1>8. ASSUME NEW r \in relaunching, RestartApplication(r) PROVE UNCHANGED root
  BY <1>8 DEF RestartApplication
<1>9. CASE UpdaterKilled
  BY <1>0, <1>a, <1>9, Zenon DEF UpdaterKilled, UndoCutShort
<1> QED
  BY <1>0, <1>a, <1>1, <1>2, <1>3, <1>4, <1>5, <1>6, <1>7, <1>8, <1>9, Zenon DEF UpdaterStep

\* An undo, whole or cut short, keeps the types of what it touches.
LEMMA UndoTypes ==
    ASSUME UpdaterTypeOK, Undo \/ UndoCutShort
    PROVE  /\ installed' \in Maybe(Version) /\ old' \in Maybe(Version)
           /\ fresh' \in Tree /\ journal' \in Nat
<1>1. /\ installed' \in {old, backup, 0} /\ old' \in {0, old}
      /\ fresh' \in {fresh, NoTree} /\ journal' \in {journal, 0}
  BY Zenon DEF Undo, UndoCutShort
<1> QED
  BY <1>1, Constants DEF UpdaterTypeOK

\* The updater keeps the types.
LEMMA UpdaterTypeStep == UpdaterTypeOK /\ ReportInv /\ UpdaterStep => UpdaterTypeOK'
<1> SUFFICES ASSUME UpdaterTypeOK, ReportInv, UpdaterStep PROVE UpdaterTypeOK'
  OBVIOUS
<1>0. damaged' \in BOOLEAN
  BY DamagedStep DEF UpdaterTypeOK
<1> USE Constants DEF UpdaterTypeOK, root, disk, files, holder, updaters, startup
<1>1. ASSUME NEW k \in Kind, AcquireMutex(k) PROVE UpdaterTypeOK'
  BY <1>1 DEF AcquireMutex, Goto
<1>2. CASE LoadJob
  <2>1. pc' \in {"wait", "finish"} /\ task' \in Job /\ outcome' \in Outcome \cup {"none"}
    BY <1>2 DEF LoadJob, Goto, End, Outcome
  <2> QED
    BY <1>2, <2>1 DEF LoadJob
<1>3. CASE LoadJournal
  BY <1>3 DEF LoadJournal, Goto, Leave, Kind
<1>4. CASE WaitForInstallProcesses
  <2>1. failedOpen' \in BOOLEAN
    BY <1>4 DEF WaitForInstallProcesses
  <2>2. faults' \in Nat
    BY <1>4 DEF WaitForInstallProcesses, Fault
  <2> QED
    BY <1>4, <2>1, <2>2 DEF WaitForInstallProcesses, Goto
<1>5. CASE WaitTimeout
  BY <1>5 DEF WaitTimeout, End, Goto, Outcome
<1>6. CASE RecoverInterruptedInstall
  <2>1. CASE ~JournalExists
    BY <1>0, <1>6, <2>1 DEF RecoverInterruptedInstall, Goto, Leave, Kind
  <2>2. CASE JournalExists
    <3>1. /\ installed' \in Maybe(Version) /\ old' \in Maybe(Version)
          /\ fresh' \in Tree /\ journal' \in Nat /\ faults' \in Nat
      <4>1. \/ Undo /\ UNCHANGED faults
            \/ UndoCutShort /\ Fault
            \/ UNCHANGED <<root, journal, faults>>
        BY <1>6, <2>2 DEF RecoverInterruptedInstall, UndoFails
      <4> QED
        BY <4>1, UndoTypes DEF Fault
    <3>2. /\ pc' \in {"prepare", "marker", "finish"}
          /\ outcome' \in Outcome \cup {"none"}
      BY <1>6, <2>2 DEF RecoverInterruptedInstall, End, Goto, Outcome
    <3>3. UNCHANGED <<kind, task, wants>>
      BY <1>6, <2>2 DEF RecoverInterruptedInstall
    <3> QED
      BY <1>0, <1>6, <3>1, <3>2, <3>3 DEF RecoverInterruptedInstall
  <2> QED
    BY <2>1, <2>2
<1>7. CASE Prepare
  BY <1>0, <1>7 DEF Prepare, Goto, End, Outcome
<1>8. CASE Verify
  BY <1>0, <1>8 DEF Verify, Goto, End, Outcome
<1>9. CASE PrepareFails
  BY <1>0, <1>9 DEF PrepareFails, End, Goto, Outcome, Fault
<1>10. CASE BeginSwap
  BY <1>0, <1>10 DEF BeginSwap, Goto
<1>11. CASE EndSwap
  BY <1>0, <1>11 DEF EndSwap, MoveIn, Goto
<1>12. CASE SwapFails
  <2>1. /\ installed' \in Maybe(Version) /\ old' \in Maybe(Version)
        /\ fresh' \in Tree /\ journal' \in Nat /\ faults' \in Nat
    <3>1. Fault /\ (Undo \/ UndoCutShort \/ FreshRemoved \/ UNCHANGED <<root, journal>>)
      BY <1>12 DEF SwapFails, UndoFails
    <3> QED
      BY <3>1, UndoTypes DEF Fault, FreshRemoved
  <2>2. pc' = "marker" /\ outcome' \in Outcome
    BY <1>12 DEF SwapFails, End, Goto, Outcome
  <2> QED
    BY <1>0, <1>12, <2>1, <2>2 DEF SwapFails
<1>13. CASE Commit
  BY <1>0, <1>13 DEF Commit, Unlink, End, Goto, Outcome
<1>14. CASE ConsumeLaunchRequest
  <2>1. wants' \in BOOLEAN
    BY <1>14 DEF ConsumeLaunchRequest, DecideRelaunch
  <2> QED
    BY <1>14, <2>1 DEF ConsumeLaunchRequest, Goto
<1>15. CASE WriteResult
  <2>1. outcome \in Outcome => Report \in Result
    BY DEF Report, Result
  <2>2. result' \in Result \cup {NoResult} /\ faults' \in Nat
    BY <1>15, <2>1 DEF WriteResult, Fault, ReportInv
  <2> QED
    BY <1>15, <2>2 DEF WriteResult, Goto
<1>16. CASE ReleaseMutex
  <2>1. Report \in Result
    BY <1>16 DEF ReleaseMutex, ReportInv, Report, Result
  <2>2. relaunching' \subseteq Result
    BY <1>16, <2>1 DEF ReleaseMutex
  <2> QED
    BY <1>16, <2>2 DEF ReleaseMutex, Leave, Goto, Kind
<1>17. ASSUME NEW r \in relaunching, RestartApplication(r) PROVE UpdaterTypeOK'
  <2>1. [r EXCEPT !.outcome = "relaunch_failed"] \in Result
    BY DEF Result, Outcome
  <2>2. result' \in Result \cup {NoResult} /\ faults' \in Nat
    BY <1>17, <2>1 DEF RestartApplication, Fault
  <2>3. guard' \in {"none", "mutex", "mark", "journal", "open"}
    BY <1>17 DEF RestartApplication
  <2> QED
    BY <1>17, <2>2, <2>3 DEF RestartApplication
<1>18. CASE UpdaterKilled
  <2>1. faults' \in Nat /\ installed' \in Maybe(Version)
    BY <1>18, UndoTypes DEF UpdaterKilled, Fault
  <2> QED
    BY <1>0, <1>18, <2>1 DEF UpdaterKilled, UndoCutShort, Leave, Goto, Kind
<1> QED
  BY <1>1, <1>2, <1>3, <1>4, <1>5, <1>6, <1>7, <1>8, <1>9, <1>10, <1>11, <1>12,
     <1>13, <1>14, <1>15, <1>16, <1>17, <1>18 DEF UpdaterStep

\* The launch guard keeps them.
LEMMA GuardTypeStep == UpdaterTypeOK /\ GuardStep => UpdaterTypeOK'
<1> SUFFICES ASSUME UpdaterTypeOK, GuardStep PROVE UpdaterTypeOK'
  OBVIOUS
<1> USE DEF UpdaterTypeOK, GuardUnchanged, root, disk, files, holder, updaters, startup
<1>1. CASE UserLaunches
  BY <1>1 DEF UserLaunches
<1>2. CASE GuardChecksMutex
  BY <1>2 DEF GuardChecksMutex
<1>3. CASE GuardRequestsLaunch
  <2>1. faults' \in Nat
    BY <1>3 DEF GuardRequestsLaunch, Fault
  <2>3. marker' \in BOOLEAN
    BY <1>3 DEF GuardRequestsLaunch
  <2>2. guard' \in {"none", "open"}
    BY <1>3 DEF GuardRequestsLaunch
  <2> QED
    BY <1>3, <2>1, <2>2, <2>3 DEF GuardRequestsLaunch
<1>4. CASE GuardChecksJournal
  <2>1. starting' \in [Kind -> Nat] /\ faults' \in Nat
    BY <1>4 DEF GuardChecksJournal, LaunchUpdater, Kind, Fault
  <2>2. guard' \in {"none", "open"}
    BY <1>4 DEF GuardChecksJournal
  <2> QED
    BY <1>4, <2>1, <2>2 DEF GuardChecksJournal
<1>5. CASE SecondInstanceExits
  BY <1>5 DEF SecondInstanceExits
<1> QED
  BY <1>1, <1>2, <1>3, <1>4, <1>5 DEF GuardStep

\* The service keeps the types of both.
LEMMA ServiceTypeStep == TypeOK /\ ServiceStep => TypeOK'
<1> SUFFICES ASSUME TypeOK, ServiceStep PROVE TypeOK'
  OBVIOUS
<1> USE Constants DEF TypeOK, UpdaterTypeOK, ServiceTypeOK, root, disk, files, holder, updaters,
        startup, updaterVars, serviceVars, sessionVars, checkVars, readyVars,
        downloadVars, prestageVars
<1>0. updaterVars' = updaterVars => UpdaterTypeOK'
  OBVIOUS
<1>1. CASE BeginSession
  <2>1. running' \in Maybe(Version) /\ cleanup' \in {"all", "not_recovery"}
    BY <1>1 DEF BeginSession, Maybe, Tree
  <2>2. /\ guard' = "none" /\ app' = "up" /\ failedOpen' \in BOOLEAN
        /\ result' \in Result \cup {NoResult} /\ seen' \in Nat
    BY <1>1 DEF BeginSession, BecomeApplication, RestoreFailed, Result
  <2> QED
    BY <1>1, <2>1, <2>2 DEF BeginSession, BecomeApplication, GuardUnchanged
<1>2. CASE CleanupAfterLaunch
  <2>1. /\ old' \in Maybe(Version) /\ fresh' \in Tree /\ backup' \in Maybe(Version)
        /\ staging' \in Tree /\ job' \in Job /\ archives' \subseteq Version
    BY <1>2 DEF CleanupAfterLaunch, CleanupFiles
  <2> QED
    BY <1>2, <2>1 DEF CleanupAfterLaunch, CleanupFrame
<1>3. CASE RestoreReady
  <2>1. /\ ready' \in Maybe(Version) /\ record' \in Maybe(Version)
        /\ archives' \subseteq Version /\ verified' \in Maybe(Version)
        /\ available' \in Maybe(Version) /\ prestaged' \in Maybe(Version)
    BY <1>3 DEF RestoreReady
  <2>2. state' \in {"none", "downloading", "ready", "error", "installing"}
    BY <1>3 DEF RestoreReady
  <2>3. prestage' \in [of : Maybe(Version), step : {"none", "clear", "extract"}]
    BY <1>3 DEF RestoreReady, MaybePrestage
  <2>4. UpdaterTypeOK'
    BY <1>3, <2>1 DEF RestoreReady
  <2> QED
    BY <1>3, <2>1, <2>2, <2>3, <2>4 DEF RestoreReady
<1>4. CASE PrestageClears
  <2>1. /\ staging' \in Tree /\ prestaged' \in Maybe(Version)
        /\ prestage' \in [of : Maybe(Version), step : {"none", "clear", "extract"}]
    <3>1. CASE prestage.of \in archives
      <4>1. staging' = [of |-> prestage.of, whole |-> FALSE] /\ prestaged' = prestaged
        BY <1>4, <3>1 DEF PrestageClears
      <4>3. staging' \in Tree
        BY <4>1, <3>1
      <4>2. prestage' \in [of : Maybe(Version), step : {"none", "clear", "extract"}]
        BY <1>4, <3>1 DEF PrestageClears
      <4> QED
        BY <4>1, <4>2, <4>3
    <3>2. CASE prestage.of \notin archives
      BY <1>4, <3>2 DEF PrestageClears, NoPrestage
    <3> QED
      BY <3>1, <3>2
  <2> QED
    BY <1>4, <2>1 DEF PrestageClears
<1>5. CASE PrestageFinishes
  <2>1. staging' \in Tree
    BY <1>5 DEF PrestageFinishes, Tree
  <2>2. prestaged' \in Maybe(Version) /\ faults' \in Nat
    BY <1>5 DEF PrestageFinishes, Fault
  <2>3. prestage' \in [of : Maybe(Version), step : {"none", "clear", "extract"}]
    BY <1>5 DEF PrestageFinishes, NoPrestage
  <2> QED
    BY <1>5, <2>1, <2>2, <2>3 DEF PrestageFinishes
<1>6. CASE StartCheck
  BY <1>6 DEF StartCheck
<1>7. CASE FinishCheckFailed
  <2>1. state' \in {"none", "downloading", "ready", "error", "installing"}
    BY <1>7 DEF FinishCheckFailed
  <2>2. UpdaterTypeOK'
    BY <1>7, <1>0 DEF FinishCheckFailed
  <2>3. ServiceTypeOK'
    BY <1>7, <2>1 DEF FinishCheckFailed
  <2> QED
    BY <2>2, <2>3
<1>8. ASSUME NEW v \in Version, FinishCheckUnverified(v) PROVE TypeOK'
  <2>1. /\ ready' \in Maybe(Version) /\ record' \in Maybe(Version)
        /\ archives' \subseteq Version /\ prestaged' \in Maybe(Version)
    BY <1>8 DEF FinishCheckUnverified, DropReady
  <2>2. UpdaterTypeOK'
    BY <1>8, <2>1 DEF FinishCheckUnverified
  <2> QED
    BY <1>8, <2>1, <2>2 DEF FinishCheckUnverified
<1>9. ASSUME NEW v \in Version, FinishCheck(v) PROVE TypeOK'
  <2>1. /\ ready' \in Maybe(Version) /\ record' \in Maybe(Version)
        /\ archives' \subseteq Version /\ prestaged' \in Maybe(Version)
    BY <1>9 DEF FinishCheck, DropReady
  <2>2. verified' \in Maybe(Version) /\ available' \in Maybe(Version)
    BY <1>9 DEF FinishCheck, Maybe
  <2>3. state' \in {"none", "downloading", "ready", "error", "installing"}
    BY <1>9 DEF FinishCheck
  <2>4. download' \in [of : Maybe(Version), done : BOOLEAN]
    BY <1>9 DEF FinishCheck, Maybe
  <2>5. prestage' \in [of : Maybe(Version), step : {"none", "clear", "extract"}]
    BY <1>9 DEF FinishCheck, MaybePrestage, Maybe
  <2>6. UpdaterTypeOK'
    BY <1>9, <2>1 DEF FinishCheck
  <2> QED
    BY <1>9, <2>1, <2>2, <2>3, <2>4, <2>5, <2>6 DEF FinishCheck
<1>10. CASE UserDownloads
  <2>1. checks' \in Nat
    BY <1>10 DEF UserDownloads
  <2>3. download' \in [of : Maybe(Version), done : BOOLEAN]
    <3>1. \A v \in Maybe(Version) : [of |-> v, done |-> FALSE]
                                    \in [of : Maybe(Version), done : BOOLEAN]
      OBVIOUS
    <3> QED
      BY <1>10, <3>1 DEF UserDownloads
  <2>2. downloadWhenVerified' \in BOOLEAN /\ checking' \in BOOLEAN
    BY <1>10 DEF UserDownloads
  <2> QED
    BY <1>10, <2>1, <2>2, <2>3 DEF UserDownloads
<1>11. CASE PromotePackage
  <2>1. download' \in [of : Maybe(Version), done : BOOLEAN] /\ archives' \subseteq Version
    BY <1>11 DEF PromotePackage
  <2> QED
    BY <1>11, <2>1 DEF PromotePackage
<1>12. CASE FinishDownload
  <2>1. state' \in {"ready", "error"} /\ record' \in Maybe(Version)
    BY <1>12 DEF FinishDownload
  <2>2. prestage' \in [of : Maybe(Version), step : {"none", "clear", "extract"}]
    BY <1>12 DEF FinishDownload, MaybePrestage
  <2> QED
    BY <1>12, <2>1, <2>2 DEF FinishDownload, NoDownload
<1>13. ASSUME NEW restart \in BOOLEAN, NEW step \in {"closing", "exiting"},
              HandOff(restart), app' = step
       PROVE  TypeOK'
  <2>1. verified \in Version
    BY <1>13 DEF HandOff, CanHandOff
  <2>3. job' = [to |-> verified, restart |-> restart]
        /\ staging' \in {staging, [of |-> verified, whole |-> TRUE]}
    BY <1>13 DEF HandOff
  <2>4. staging' \in Tree /\ job' \in Job
    BY <2>1, <2>3
  <2>2. starting' \in [Kind -> Nat]
    BY <1>13 DEF HandOff, LaunchUpdater, Kind
  <2> QED
    BY <1>13, <2>2, <2>4 DEF HandOff
<1>14. CASE UserRestarts
  BY <1>13, <1>14 DEF UserRestarts
<1>15. CASE HandOffFails
  <2>1. verified \in Version /\ faults' \in Nat
    BY <1>15 DEF HandOffFails, CanHandOff, Fault
  <2>2. job' = [to |-> verified, restart |-> TRUE]
        /\ staging' \in {staging, [of |-> verified, whole |-> TRUE]}
    BY <1>15 DEF HandOffFails
  <2>3. staging' \in Tree /\ job' \in Job
    BY <2>1, <2>2
  <2> QED
    BY <1>15, <2>1, <2>3 DEF HandOffFails
<1>16. CASE QuitInstalling
  BY <1>13, <1>16 DEF QuitInstalling
<1>17. CASE ApplicationEnds
  <2>1. UpdaterTypeOK'
    BY <1>17 DEF ApplicationEnds
  <2>2. ServiceTypeOK'
    BY <1>17 DEF ApplicationEnds, NoDownload, NoPrestage
  <2> QED
    BY <2>1, <2>2
<1> QED
  BY <1>1, <1>2, <1>3, <1>4, <1>5, <1>6, <1>7, <1>8, <1>9, <1>10, <1>11, <1>12,
     <1>14, <1>15, <1>16, <1>17 DEF ServiceStep

\* All types are kept.
LEMMA TypeStep == UpdateInv /\ Next => TypeOK'
<1> SUFFICES ASSUME UpdateInv, Next PROVE TypeOK'
  OBVIOUS
<1>1. TypeOK /\ ReportInv
  BY DEF UpdateInv
<1>2. CASE ServiceStep
  BY <1>1, <1>2, ServiceTypeStep
<1>3. CASE (UpdaterStep \/ GuardStep) /\ UNCHANGED serviceVars
  <2>1. UpdaterTypeOK'
    BY <1>1, <1>3, UpdaterTypeStep, GuardTypeStep DEF TypeOK
  <2>2. ServiceTypeOK'
    BY <1>1, <1>3 DEF TypeOK, ServiceTypeOK, serviceVars, sessionVars, checkVars,
                      readyVars, downloadVars, prestageVars
  <2> QED
    BY <2>1, <2>2 DEF TypeOK
<1> QED
  BY <1>2, <1>3 DEF Next

\* What is compared are numbers.
LEMMA Numbers ==
    TypeOK => /\ installed \in Nat /\ old \in Nat /\ running \in Nat /\ verified \in Nat
              /\ record \in Nat /\ job.to \in Nat /\ fresh.of \in Nat
              /\ journal \in Nat /\ swaps \in Nat
<1> SUFFICES ASSUME TypeOK
             PROVE  /\ installed \in Nat /\ old \in Nat /\ running \in Nat
                    /\ verified \in Nat /\ record \in Nat /\ job.to \in Nat
                    /\ fresh.of \in Nat /\ journal \in Nat /\ swaps \in Nat
  OBVIOUS
<1>1. \A v \in Maybe(Version) : v \in Nat
  BY Constants DEF Maybe
<1>2. job.to \in Nat /\ fresh.of \in Nat /\ installed \in Nat /\ old \in Nat
  BY <1>1, Constants DEF TypeOK, UpdaterTypeOK
<1>3. running \in Nat /\ verified \in Nat /\ record \in Nat
  BY <1>1 DEF TypeOK, ServiceTypeOK
<1>4. journal \in Nat /\ swaps \in Nat
  BY DEF TypeOK, UpdaterTypeOK
<1> QED
  BY <1>2, <1>3, <1>4

-----------------------------------------------------------------------------
(* What each of the three leaves alone.                                     *)

\* The service touches neither an updater that holds the mutex, nor what a
\* journal describes, nor the job of a running updater.
ServiceFrame ==
    /\ UNCHANGED <<installed, damaged, journal, pc, kind, task, outcome, wants, marker>>
    /\ UNCHANGED <<old, fresh, backup>> \/ (~JournalExists /\ ~UpdaterActive)
    /\ job' = job \/ ~UpdaterActive

LEMMA ServiceStepFrame == ServiceStep => ServiceFrame
<1> SUFFICES ASSUME ServiceStep PROVE ServiceFrame
  OBVIOUS
<1> USE DEF ServiceFrame, root, disk, files, holder, updaters, startup, updaterVars
<1>1. CASE BeginSession
  BY <1>1 DEF BeginSession, BecomeApplication, GuardUnchanged
<1>2. CASE CleanupAfterLaunch
  BY <1>2 DEF CleanupAfterLaunch, CleanupFrame
<1>3. CASE RestoreReady
  BY <1>3 DEF RestoreReady
<1>4. CASE PrestageClears \/ PrestageFinishes
  BY <1>4 DEF PrestageClears, PrestageFinishes
<1>5. CASE StartCheck \/ FinishCheckFailed
  BY <1>5 DEF StartCheck, FinishCheckFailed
<1>6. ASSUME NEW v \in Version, FinishCheckUnverified(v) \/ FinishCheck(v)
      PROVE  ServiceFrame
  BY <1>6 DEF FinishCheckUnverified, FinishCheck
<1>7. CASE UserDownloads \/ PromotePackage \/ FinishDownload
  BY <1>7 DEF UserDownloads, PromotePackage, FinishDownload
<1>8. CASE UserRestarts
  BY <1>8 DEF UserRestarts, HandOff, CanHandOff
<1>9. CASE HandOffFails
  BY <1>9 DEF HandOffFails, CanHandOff
<1>10. CASE QuitInstalling
  BY <1>10 DEF QuitInstalling, HandOff, CanHandOff
<1>11. CASE ApplicationEnds
  BY <1>11 DEF ApplicationEnds
<1> QED
  BY <1>1, <1>2, <1>3, <1>4, <1>5, <1>6, <1>7, <1>8, <1>9, <1>10, <1>11 DEF ServiceStep

\* The guard touches nothing of an updater, and passes on to the journal only
\* when none holds the mutex.
GuardFrame ==
    /\ UNCHANGED <<root, journal, backup, holder, job, app, failedOpen>>
    /\ guard' = "journal" => guard = "journal" \/ ~UpdaterActive

LEMMA GuardStepFrame == GuardStep => GuardFrame
<1> SUFFICES ASSUME GuardStep PROVE GuardFrame
  OBVIOUS
<1> USE DEF GuardFrame, GuardUnchanged, root, disk, files, holder, updaters, startup
<1>1. CASE UserLaunches
  BY <1>1 DEF UserLaunches
<1>2. CASE GuardChecksMutex
  BY <1>2 DEF GuardChecksMutex
<1>3. CASE GuardRequestsLaunch
  BY <1>3 DEF GuardRequestsLaunch
<1>4. CASE GuardChecksJournal
  BY <1>4 DEF GuardChecksJournal
<1>5. CASE SecondInstanceExits
  BY <1>5 DEF SecondInstanceExits
<1> QED
  BY <1>1, <1>2, <1>3, <1>4, <1>5 DEF GuardStep

\* The updater leaves the job and the application alone; a failed look for
\* processes is noted.
UpdaterFrame ==
    /\ UNCHANGED <<job, app>>
    /\ failedOpen => failedOpen'
    /\ guard' \in {guard, "mutex"}

LEMMA UpdaterStepFrame == UpdaterStep => UpdaterFrame
<1> SUFFICES ASSUME UpdaterStep PROVE UpdaterFrame
  OBVIOUS
<1> USE DEF UpdaterFrame, files, startup
<1>1. ASSUME NEW k \in Kind, AcquireMutex(k) PROVE UpdaterFrame
  BY <1>1 DEF AcquireMutex
<1>2. CASE LoadJob \/ LoadJournal \/ WaitForInstallProcesses \/ WaitTimeout
  BY <1>2 DEF LoadJob, LoadJournal, WaitForInstallProcesses, WaitTimeout
<1>3. CASE RecoverInterruptedInstall \/ Prepare \/ Verify \/ PrepareFails
  BY <1>3 DEF RecoverInterruptedInstall, Prepare, Verify, PrepareFails
<1>4. CASE BeginSwap \/ EndSwap \/ SwapFails \/ Commit
  BY <1>4 DEF BeginSwap, EndSwap, SwapFails, Commit
<1>5. CASE ConsumeLaunchRequest \/ WriteResult \/ ReleaseMutex \/ UpdaterKilled
  BY <1>5 DEF ConsumeLaunchRequest, WriteResult, ReleaseMutex, UpdaterKilled
<1>6. ASSUME NEW r \in relaunching, RestartApplication(r) PROVE UpdaterFrame
  BY <1>6 DEF RestartApplication
<1> QED
  BY <1>1, <1>2, <1>3, <1>4, <1>5, <1>6 DEF UpdaterStep

-----------------------------------------------------------------------------
(* The updater keeps the invariant, one conjunct at a time.                 *)

\* Every way to the report sets an outcome.
LEMMA ReportStep == TypeOK /\ ReportInv /\ UpdaterStep => ReportInv'
<1> SUFFICES ASSUME TypeOK, ReportInv, UpdaterStep PROVE ReportInv'
  OBVIOUS
<1> USE DEF ReportInv, holder, updaters, Goto, End, Outcome
<1>1. ASSUME NEW k \in Kind, AcquireMutex(k) PROVE ReportInv'
  BY <1>1 DEF AcquireMutex
<1>2. CASE LoadJob \/ LoadJournal
  BY <1>2 DEF LoadJob, LoadJournal, Leave
<1>3. CASE WaitForInstallProcesses \/ WaitTimeout
  BY <1>3 DEF WaitForInstallProcesses, WaitTimeout
<1>4. CASE RecoverInterruptedInstall
  BY <1>4 DEF RecoverInterruptedInstall, Leave
<1>5. CASE Prepare \/ Verify \/ PrepareFails
  BY <1>5 DEF Prepare, Verify, PrepareFails
<1>6. CASE BeginSwap \/ EndSwap
  BY <1>6 DEF BeginSwap, EndSwap
<1>7. CASE SwapFails \/ Commit
  BY <1>7 DEF SwapFails, Commit
<1>8. CASE ConsumeLaunchRequest
  BY <1>8 DEF ConsumeLaunchRequest
<1>9. CASE WriteResult
  BY <1>9 DEF WriteResult
<1>10. CASE ReleaseMutex \/ UpdaterKilled
  BY <1>10 DEF ReleaseMutex, UpdaterKilled, Leave
<1>11. ASSUME NEW r \in relaunching, RestartApplication(r) PROVE ReportInv'
  BY <1>11 DEF RestartApplication
<1> QED
  BY <1>1, <1>2, <1>3, <1>4, <1>5, <1>6, <1>7, <1>8, <1>9, <1>10, <1>11 DEF UpdaterStep

\* Prepare starts without a journal, the swap with a whole verified copy.
LEMMA PhaseStep == UpdateInv /\ UpdaterStep => PhaseInv'
<1> SUFFICES ASSUME UpdateInv, UpdaterStep PROVE PhaseInv'
  OBVIOUS
<1> USE DEF PhaseInv, Preparing, Swapping, JournalExists, root, disk, holder, updaters, Goto, End
<1>0. TypeOK /\ PhaseInv
  BY DEF UpdateInv
<1>1. ASSUME NEW k \in Kind, AcquireMutex(k) PROVE PhaseInv'
  BY <1>0, <1>1 DEF AcquireMutex, UpdaterActive
<1>2. CASE LoadJob \/ LoadJournal
  BY <1>0, <1>2 DEF LoadJob, LoadJournal, Leave
<1>3. CASE WaitForInstallProcesses \/ WaitTimeout
  BY <1>0, <1>3 DEF WaitForInstallProcesses, WaitTimeout
<1>4. CASE RecoverInterruptedInstall
  BY <1>0, <1>4 DEF RecoverInterruptedInstall, Leave, Undo
<1>5. CASE Prepare
  BY <1>0, <1>5, Constants DEF Prepare, TypeOK, UpdaterTypeOK, Version
<1>6. CASE Verify
  BY <1>0, <1>6 DEF Verify
<1>7. CASE PrepareFails
  BY <1>0, <1>7 DEF PrepareFails
<1>8. CASE BeginSwap
  BY <1>0, <1>8 DEF BeginSwap, TypeOK, UpdaterTypeOK
<1>9. CASE EndSwap
  BY <1>0, <1>9 DEF EndSwap, MoveIn
<1>10. CASE SwapFails \/ Commit
  BY <1>0, <1>10 DEF SwapFails, Commit
<1>11. CASE ConsumeLaunchRequest \/ WriteResult
  BY <1>0, <1>11 DEF ConsumeLaunchRequest, WriteResult
<1>12. CASE ReleaseMutex \/ UpdaterKilled
  BY <1>0, <1>12 DEF ReleaseMutex, UpdaterKilled, UndoCutShort, Leave
<1>13. ASSUME NEW r \in relaunching, RestartApplication(r) PROVE PhaseInv'
  BY <1>0, <1>13 DEF RestartApplication
<1> QED
  BY <1>1, <1>2, <1>3, <1>4, <1>5, <1>6, <1>7, <1>8, <1>9, <1>10, <1>11, <1>12, <1>13
     DEF UpdaterStep

\* There is always a release to start or to go back to.
LEMMA RootStep == UpdateInv /\ UpdaterStep => RootInv' /\ BackupInv'
<1> SUFFICES ASSUME UpdateInv, UpdaterStep PROVE RootInv' /\ BackupInv'
  OBVIOUS
<1> USE DEF RootInv, BackupInv, Base, JournalExists, root, disk, holder, updaters, Goto, End
<1>0. TypeOK /\ PhaseInv /\ RootInv /\ BackupInv
  BY DEF UpdateInv
<1>1. ASSUME NEW k \in Kind, AcquireMutex(k) PROVE RootInv' /\ BackupInv'
  BY <1>0, <1>1 DEF AcquireMutex
<1>2. CASE LoadJob \/ LoadJournal
  BY <1>0, <1>2 DEF LoadJob, LoadJournal, Leave
<1>3. CASE WaitForInstallProcesses \/ WaitTimeout
  BY <1>0, <1>3 DEF WaitForInstallProcesses, WaitTimeout
<1>4. CASE RecoverInterruptedInstall
  BY <1>0, <1>4 DEF RecoverInterruptedInstall, Leave, Undo, UndoFails, UndoCutShort
<1>5. CASE Prepare \/ Verify \/ PrepareFails
  BY <1>0, <1>5 DEF Prepare, Verify, PrepareFails, PhaseInv, Preparing
<1>6. CASE BeginSwap
  BY <1>0, <1>6 DEF BeginSwap, PhaseInv, Preparing, TypeOK, UpdaterTypeOK
<1>7. CASE EndSwap
  BY <1>0, <1>7 DEF EndSwap, MoveIn, PhaseInv, Swapping
<1>8. CASE SwapFails
  BY <1>0, <1>8 DEF SwapFails, Undo, UndoFails, UndoCutShort, FreshRemoved, PhaseInv, Swapping
<1>9. CASE Commit
  BY <1>0, <1>9 DEF Commit, Unlink, PhaseInv, Swapping
<1>11. CASE ConsumeLaunchRequest \/ WriteResult
  BY <1>0, <1>11 DEF ConsumeLaunchRequest, WriteResult
<1>12. CASE ReleaseMutex \/ UpdaterKilled
  BY <1>0, <1>12 DEF ReleaseMutex, UpdaterKilled, UndoCutShort, Leave
<1>13. ASSUME NEW r \in relaunching, RestartApplication(r) PROVE RootInv' /\ BackupInv'
  BY <1>0, <1>13 DEF RestartApplication
<1> QED
  BY <1>1, <1>2, <1>3, <1>4, <1>5, <1>6, <1>7, <1>8, <1>9, <1>11, <1>12, <1>13
     DEF UpdaterStep

\* Only the wait leads to work, and only when nothing runs.
LEMMA UseStep == UpdateInv /\ UpdaterStep => UseInv' /\ TaskInv'
<1> SUFFICES ASSUME UpdateInv, UpdaterStep PROVE UseInv' /\ TaskInv'
  OBVIOUS
<1> USE DEF UseInv, TaskInv, Working, Preparing, Swapping, UpdaterFrame, holder, updaters,
        Goto, End
<1>0. PhaseInv /\ UseInv /\ TaskInv /\ UpdaterFrame
  BY UpdaterStepFrame DEF UpdateInv
<1>1. ASSUME NEW k \in Kind, AcquireMutex(k) PROVE UseInv' /\ TaskInv'
  BY <1>0, <1>1 DEF AcquireMutex, UpdaterActive
<1>2. CASE LoadJob \/ LoadJournal
  BY <1>0, <1>2 DEF LoadJob, LoadJournal, Leave
<1>3. CASE WaitForInstallProcesses
  BY <1>0, <1>3 DEF WaitForInstallProcesses, ProcessesRunning, startup
<1>4. CASE WaitTimeout
  BY <1>0, <1>4 DEF WaitTimeout
<1>5. CASE RecoverInterruptedInstall
  BY <1>0, <1>5 DEF RecoverInterruptedInstall, Leave
<1>6. CASE Prepare \/ Verify \/ PrepareFails
  BY <1>0, <1>6 DEF Prepare, Verify, PrepareFails
<1>7. CASE BeginSwap \/ EndSwap
  BY <1>0, <1>7 DEF BeginSwap, EndSwap
<1>8. CASE SwapFails \/ Commit
  BY <1>0, <1>8 DEF SwapFails, Commit
<1>9. CASE ConsumeLaunchRequest \/ WriteResult
  BY <1>0, <1>9 DEF ConsumeLaunchRequest, WriteResult
<1>10. CASE ReleaseMutex \/ UpdaterKilled
  BY <1>0, <1>10 DEF ReleaseMutex, UpdaterKilled, Leave
<1>11. ASSUME NEW r \in relaunching, RestartApplication(r) PROVE UseInv' /\ TaskInv'
  BY <1>0, <1>11 DEF RestartApplication
<1> QED
  BY <1>1, <1>2, <1>3, <1>4, <1>5, <1>6, <1>7, <1>8, <1>9, <1>10, <1>11 DEF UpdaterStep

\* An undo brings back what it promised, and a commit installs the job, which
\* is not older.
LEMMA VersionStep == UpdateInv /\ UpdaterStep /\ running' = running => VersionInv'
<1> SUFFICES ASSUME UpdateInv, UpdaterStep, running' = running, ~failedOpen'
             PROVE  VersionInv'
  BY UpdaterStepFrame DEF UpdaterFrame, VersionInv
<1> USE DEF VersionInv, Base, JournalExists, UpdaterFrame, root, disk, holder, updaters
<1>0. PhaseInv /\ RootInv /\ BackupInv /\ VersionInv /\ UpdaterFrame
  BY UpdaterStepFrame DEF UpdateInv
<1>a. /\ installed \in Nat /\ old \in Nat /\ running \in Nat
      /\ job.to \in Nat /\ journal \in Nat /\ swaps \in Nat
  BY Numbers DEF UpdateInv
<1>b. pc \in Preparing \cup Swapping => task = job /\ job # NoJob
  BY <1>0 DEF UpdateInv, TaskInv, PhaseInv, Working
<1>1. ASSUME NEW k \in Kind, AcquireMutex(k) PROVE VersionInv'
  BY <1>0, <1>1 DEF AcquireMutex
<1>2. CASE LoadJob \/ LoadJournal
  BY <1>0, <1>2 DEF LoadJob, LoadJournal
<1>3. CASE WaitForInstallProcesses \/ WaitTimeout
  BY <1>0, <1>3 DEF WaitForInstallProcesses, WaitTimeout
<1>4. ASSUME Undo, JournalExists, old # 0 PROVE VersionInv'
  BY <1>0, <1>4 DEF Undo, BackupInv
<1>5. ASSUME UndoFails, JournalExists PROVE VersionInv'
  BY <1>0, <1>5 DEF UndoFails, UndoCutShort
<1>6. CASE RecoverInterruptedInstall
  BY <1>0, <1>4, <1>5, <1>6 DEF RecoverInterruptedInstall, RootInv
<1>7. CASE Prepare \/ Verify \/ PrepareFails
  BY <1>0, <1>7 DEF Prepare, Verify, PrepareFails, PhaseInv, Preparing
<1>8. CASE BeginSwap
  BY <1>0, <1>a, <1>b, <1>8 DEF BeginSwap, PhaseInv, Preparing
<1>9. CASE EndSwap
  BY <1>0, <1>a, <1>b, <1>9 DEF EndSwap, MoveIn, PhaseInv, Swapping
<1>10. CASE SwapFails
  <2>1. ASSUME FreshRemoved, JournalExists, UNCHANGED job PROVE VersionInv'
    BY <1>0, <2>1 DEF FreshRemoved, NoTree
  <2> QED
    BY <1>0, <1>4, <1>5, <1>10, <2>1 DEF SwapFails, PhaseInv, Swapping, RootInv
<1>11. CASE Commit
  <2>1. app = "down"
    BY <1>0, <1>11 DEF Commit, UpdateInv, UseInv, Working, Swapping
  <2>2. installed = job.to
    BY <1>0, <1>b, <1>11 DEF Commit, PhaseInv, Swapping
  <2> QED
    BY <1>0, <1>a, <1>11, <2>1, <2>2 DEF Commit, Unlink
<1>12. CASE ConsumeLaunchRequest \/ WriteResult
  BY <1>0, <1>12 DEF ConsumeLaunchRequest, WriteResult
<1>13. CASE ReleaseMutex \/ UpdaterKilled
  BY <1>0, <1>13 DEF ReleaseMutex, UpdaterKilled, UndoCutShort
<1>14. ASSUME NEW r \in relaunching, RestartApplication(r) PROVE VersionInv'
  BY <1>0, <1>14 DEF RestartApplication
<1> QED
  BY <1>1, <1>2, <1>3, <1>6, <1>7, <1>8, <1>9, <1>10, <1>11, <1>12, <1>13, <1>14
     DEF UpdaterStep

-----------------------------------------------------------------------------
(* The service and the guard keep it.                                       *)

\* Everything but the versions follows from what they leave alone.
LEMMA FrameStep ==
    ASSUME UpdateInv, ServiceStep \/ GuardStep
    PROVE  /\ ReportInv' /\ PhaseInv' /\ RootInv' /\ TaskInv' /\ BackupInv'
<1> USE DEF root, holder, Base, JournalExists, UpdaterActive
<1>0. /\ ReportInv /\ PhaseInv /\ RootInv /\ TaskInv /\ BackupInv
  BY DEF UpdateInv
<1>1. CASE ServiceStep
  <2>1. ServiceFrame
    BY <1>1, ServiceStepFrame
  <2>2. ReportInv'
    BY <1>0, <2>1 DEF ServiceFrame, ReportInv
  <2>3. PhaseInv' /\ RootInv'
    BY <1>0, <2>1 DEF ServiceFrame, PhaseInv, RootInv, Preparing, Swapping
  <2>4. TaskInv' /\ BackupInv'
    BY <1>0, <2>1 DEF ServiceFrame, TaskInv, BackupInv, Working, Preparing, Swapping
  <2> QED
    BY <2>2, <2>3, <2>4
<1>2. CASE GuardStep
  <2>1. GuardFrame
    BY <1>2, GuardStepFrame
  <2>2. ReportInv'
    BY <1>0, <2>1 DEF GuardFrame, ReportInv
  <2>3. PhaseInv' /\ RootInv'
    BY <1>0, <2>1 DEF GuardFrame, PhaseInv, RootInv
  <2>4. TaskInv' /\ BackupInv'
    BY <1>0, <2>1 DEF GuardFrame, TaskInv, BackupInv
  <2> QED
    BY <2>2, <2>3, <2>4
<1> QED
  BY <1>1, <1>2

\* An application that starts at work's side has passed a failed guard.
LEMMA ServiceUseStep == UpdateInv /\ (ServiceStep \/ GuardStep) => UseInv'
<1> SUFFICES ASSUME UpdateInv, ServiceStep \/ GuardStep PROVE UseInv'
  OBVIOUS
<1> USE DEF UseInv, holder, updaterVars, updaters, startup
<1>0. UseInv
  BY DEF UpdateInv
<1>1. CASE GuardStep
  BY <1>0, <1>1, GuardStepFrame DEF GuardFrame, UpdaterActive, Working, Preparing, Swapping
<1>2. CASE BeginSession
  BY <1>0, <1>2 DEF BeginSession, BecomeApplication, PastGuard, GuardUnchanged
<1>3. CASE UserRestarts \/ QuitInstalling
  BY <1>3 DEF UserRestarts, QuitInstalling, HandOff, CanHandOff, UpdaterActive, Working,
              Preparing, Swapping, Responsive
<1>4. CASE ApplicationEnds
  BY <1>0, <1>4 DEF ApplicationEnds
<1>5. CASE CleanupAfterLaunch \/ RestoreReady \/ PrestageClears \/ PrestageFinishes
  BY <1>0, <1>5 DEF CleanupAfterLaunch, CleanupFrame, RestoreReady, PrestageClears, PrestageFinishes
<1>6. CASE StartCheck \/ FinishCheckFailed \/ UserDownloads
  BY <1>0, <1>6 DEF StartCheck, FinishCheckFailed, UserDownloads
<1>7. ASSUME NEW v \in Version, FinishCheckUnverified(v) \/ FinishCheck(v)
      PROVE  UseInv'
  BY <1>0, <1>7 DEF FinishCheckUnverified, FinishCheck
<1>8. CASE PromotePackage \/ FinishDownload \/ HandOffFails
  BY <1>0, <1>8 DEF PromotePackage, FinishDownload, HandOffFails
<1> QED
  BY <1>1, <1>2, <1>3, <1>4, <1>5, <1>6, <1>7, <1>8 DEF ServiceStep

\* What is verified is newer than what runs, as a check or the ready record
\* was compared with it.
LEMMA VerifiedStep == UpdateInv /\ Next => VerifiedInv'
<1> SUFFICES ASSUME UpdateInv, Next PROVE VerifiedInv'
  OBVIOUS
<1> USE DEF VerifiedInv, serviceVars, sessionVars, checkVars, updaterVars, startup, Responsive
<1>0. VerifiedInv
  BY DEF UpdateInv
<1>1. CASE (UpdaterStep \/ GuardStep) /\ UNCHANGED serviceVars
  BY <1>0, <1>1, UpdaterStepFrame, GuardStepFrame DEF UpdaterFrame, GuardFrame
<1>2. CASE BeginSession
  BY <1>0, <1>2 DEF BeginSession, BecomeApplication
<1>3. CASE CleanupAfterLaunch
  BY <1>0, <1>3 DEF CleanupAfterLaunch, CleanupFrame
<1>4. CASE RestoreReady
  BY <1>0, <1>4 DEF RestoreReady
<1>5. CASE PrestageClears \/ PrestageFinishes
  BY <1>0, <1>5 DEF PrestageClears, PrestageFinishes
<1>6. CASE StartCheck \/ FinishCheckFailed
  BY <1>0, <1>6 DEF StartCheck, FinishCheckFailed
<1>7. ASSUME NEW v \in Version, FinishCheckUnverified(v) PROVE VerifiedInv'
  BY <1>0, <1>7 DEF FinishCheckUnverified
<1>8. ASSUME NEW v \in Version, FinishCheck(v) PROVE VerifiedInv'
  BY <1>0, <1>8 DEF FinishCheck
<1>9. CASE UserDownloads \/ PromotePackage \/ FinishDownload
  BY <1>0, <1>9 DEF UserDownloads, PromotePackage, FinishDownload
<1>10. CASE UserRestarts \/ QuitInstalling
  BY <1>0, <1>10 DEF UserRestarts, QuitInstalling, HandOff
<1>11. CASE HandOffFails
  BY <1>0, <1>11 DEF HandOffFails
<1>12. CASE ApplicationEnds
  BY <1>12 DEF ApplicationEnds
<1> QED
  BY <1>1, <1>2, <1>3, <1>4, <1>5, <1>6, <1>7, <1>8, <1>9, <1>10, <1>11, <1>12
     DEF Next, ServiceStep

\* The job is what was verified, and so newer than what runs.
LEMMA ServiceVersionStep == UpdateInv /\ ServiceStep => VersionInv'
<1> SUFFICES ASSUME UpdateInv, ServiceStep PROVE VersionInv'
  OBVIOUS
<1> USE Numbers DEF VersionInv, Base, JournalExists, root, disk, files, startup, updaterVars,
        serviceVars, sessionVars
<1>0. TypeOK /\ RootInv /\ VersionInv /\ VerifiedInv
  BY DEF UpdateInv
<1>1. CASE BeginSession
  <2>1. /\ UNCHANGED <<installed, old, fresh, journal, job>>
        /\ ~failedOpen' => ~failedOpen
    BY <1>1 DEF BeginSession, BecomeApplication, GuardUnchanged
  <2>2. running' \in IF installed = 0 THEN {old, fresh.of} \ {0} ELSE {installed}
    BY <1>1 DEF BeginSession
  <2> QED
    BY <1>0, <2>1, <2>2 DEF RootInv
<1>2. CASE CleanupAfterLaunch
  <2>1. UNCHANGED <<installed, journal, failedOpen, running, app>>
    BY <1>2 DEF CleanupAfterLaunch, CleanupFrame
  <2>2. UNCHANGED <<old, fresh, job>> \/ (~JournalExists /\ job' = NoJob)
    BY <1>2 DEF CleanupAfterLaunch, CleanupFiles
  <2> QED
    BY <1>0, <2>1, <2>2
<1>3. CASE RestoreReady \/ PrestageClears \/ PrestageFinishes
  BY <1>0, <1>3 DEF RestoreReady, PrestageClears, PrestageFinishes
<1>4. CASE StartCheck \/ FinishCheckFailed \/ UserDownloads
  BY <1>0, <1>4 DEF StartCheck, FinishCheckFailed, UserDownloads
<1>5. ASSUME NEW v \in Version, FinishCheckUnverified(v) \/ FinishCheck(v)
      PROVE  VersionInv'
  BY <1>0, <1>5 DEF FinishCheckUnverified, FinishCheck
<1>6. CASE PromotePackage \/ FinishDownload
  BY <1>0, <1>6 DEF PromotePackage, FinishDownload
<1>7. CASE UserRestarts \/ QuitInstalling \/ HandOffFails
  <2>1. /\ UNCHANGED <<installed, old, fresh, journal, failedOpen, running>>
        /\ app # "down" /\ verified \in archives
    BY <1>7 DEF UserRestarts, QuitInstalling, HandOffFails, HandOff, CanHandOff, Responsive
  <2>2. job'.to = verified
    BY <1>7 DEF UserRestarts, QuitInstalling, HandOffFails, HandOff
  <2>3. verified > running
    BY <1>0, <2>1, VersionAssumption DEF VerifiedInv, TypeOK, UpdaterTypeOK, Version
  <2> QED
    BY <1>0, <2>1, <2>2, <2>3
<1>8. CASE ApplicationEnds
  BY <1>0, <1>8 DEF ApplicationEnds
<1> QED
  BY <1>1, <1>2, <1>3, <1>4, <1>5, <1>6, <1>7, <1>8 DEF ServiceStep

\* An application starts as a version, and its end is the end of the version.
LEMMA SessionStep == UpdateInv /\ Next => SessionInv'
<1> SUFFICES ASSUME UpdateInv, Next PROVE SessionInv'
  OBVIOUS
<1> USE DEF SessionInv, serviceVars, sessionVars, updaterVars, startup, Responsive
<1>0. SessionInv
  BY DEF UpdateInv
<1>1. CASE (UpdaterStep \/ GuardStep) /\ UNCHANGED serviceVars
  BY <1>0, <1>1, UpdaterStepFrame, GuardStepFrame DEF UpdaterFrame, GuardFrame
<1>2. CASE BeginSession
  BY <1>2 DEF BeginSession, BecomeApplication
<1>3. CASE CleanupAfterLaunch
  BY <1>0, <1>3 DEF CleanupAfterLaunch, CleanupFrame
<1>4. CASE RestoreReady \/ PrestageClears \/ PrestageFinishes
  BY <1>0, <1>4 DEF RestoreReady, PrestageClears, PrestageFinishes
<1>5. CASE StartCheck \/ FinishCheckFailed \/ UserDownloads
  BY <1>0, <1>5 DEF StartCheck, FinishCheckFailed, UserDownloads
<1>6. ASSUME NEW v \in Version, FinishCheckUnverified(v) \/ FinishCheck(v)
      PROVE  SessionInv'
  BY <1>0, <1>6 DEF FinishCheckUnverified, FinishCheck
<1>7. CASE PromotePackage \/ FinishDownload \/ HandOffFails
  BY <1>0, <1>7 DEF PromotePackage, FinishDownload, HandOffFails
<1>8. CASE UserRestarts \/ QuitInstalling
  BY <1>0, <1>8 DEF UserRestarts, QuitInstalling, HandOff
<1>9. CASE ApplicationEnds
  BY <1>9 DEF ApplicationEnds
<1> QED
  BY <1>1, <1>2, <1>3, <1>4, <1>5, <1>6, <1>7, <1>8, <1>9 DEF Next, ServiceStep

\* One step keeps the invariant.
LEMMA UpdateStep == UpdateInv /\ [Next]_vars => UpdateInv'
<1> SUFFICES ASSUME UpdateInv, [Next]_vars PROVE UpdateInv'
  OBVIOUS
<1>1. CASE UNCHANGED vars
  BY <1>1 DEF vars, updaterVars, serviceVars, sessionVars, checkVars, readyVars,
     downloadVars, prestageVars, root, disk, files, holder, updaters, startup, UpdateInv,
     TypeOK, UpdaterTypeOK, ServiceTypeOK, ReportInv, PhaseInv, RootInv, UseInv, TaskInv,
     BackupInv, VersionInv, VerifiedInv, SessionInv, Base, JournalExists
<1>2. CASE UpdaterStep /\ UNCHANGED serviceVars
  <2>1. running' = running
    BY <1>2 DEF serviceVars, sessionVars
  <2> QED
    BY <1>2, <2>1, TypeStep, ReportStep, PhaseStep, RootStep, UseStep, VersionStep,
       VerifiedStep, SessionStep DEF Next, UpdateInv
<1>3. CASE GuardStep /\ UNCHANGED serviceVars
  <2>1. VersionInv'
    BY <1>3, GuardStepFrame DEF UpdateInv, GuardFrame, VersionInv, Base, JournalExists, root,
                                serviceVars, sessionVars
  <2> QED
    BY <1>3, <2>1, TypeStep, FrameStep, ServiceUseStep, VerifiedStep, SessionStep
       DEF Next, UpdateInv
<1>4. CASE ServiceStep
  BY <1>4, TypeStep, FrameStep, ServiceUseStep, VerifiedStep, ServiceVersionStep, SessionStep
     DEF Next, UpdateInv
<1> QED
  BY <1>1, <1>2, <1>3, <1>4 DEF Next

LEMMA AlwaysUpdateInv == Spec => []UpdateInv
<1>1. Init => UpdateInv
  BY InitUpdateInv
<1>2. UpdateInv /\ [Next]_vars => UpdateInv'
  BY UpdateStep
<1> QED
  BY <1>1, <1>2, PTL DEF Spec

-----------------------------------------------------------------------------
(* The theorems.                                                            *)

\* Every variable keeps its type.
THEOREM TypeCorrect == Spec => []TypeOK
<1>1. UpdateInv => TypeOK
  BY DEF UpdateInv
<1> QED
  BY <1>1, AlwaysUpdateInv, PTL

\* No updater works on an install the application runs from, unless the launch
\* guard or the look for processes failed: the wait, the mutex and the guard exclude each other.
THEOREM NeverInUse == Spec => []InstallNotInUse
<1>1. UpdateInv => InstallNotInUse
  BY DEF UpdateInv, UseInv, InstallNotInUse, Working, Preparing, Swapping
<1> QED
  BY <1>1, AlwaysUpdateInv, PTL

\* Whatever is staged or cleaned away meanwhile, without a journal there is a
\* complete release.
THEOREM AlwaysComplete == Spec => []InstalledIsComplete
<1>1. UpdateInv => InstalledIsComplete
  BY DEF UpdateInv, RootInv, Base, InstalledIsComplete
<1> QED
  BY <1>1, AlwaysUpdateInv, PTL

\* Nothing removes the moved-aside release while a journal exists.
THEOREM AlwaysUndoable == Spec => []JournalCanBeUndone
<1>1. UpdateInv => JournalCanBeUndone
  BY DEF UpdateInv, RootInv, Base, JournalCanBeUndone
<1> QED
  BY <1>1, AlwaysUpdateInv, PTL

\* However many updaters, jobs and interrupted updates there are, a release is
\* not replaced by an older one.
THEOREM NeverOlder == Spec => []NeverInstallsOlder
<1>1. UpdateInv => NeverInstallsOlder
  BY DEF UpdateInv, NeverInstallsOlder, PhaseInv, TaskInv, VersionInv, Base, Working,
         Preparing, Swapping
<1> QED
  BY <1>1, AlwaysUpdateInv, PTL

-----------------------------------------------------------------------------
(* The update is atomic.                                                    *)

\* What an updater does to the release: it begins the swap to the release of
\* its job, completes it, or undoes it, each while it may work.
ReleaseStep ==
    \/ UNCHANGED <<Base, JournalExists>>
    \/ /\ pc \in Working /\ (~JournalExists)' # ~JournalExists
       /\ \/ (~JournalExists)' /\ Base' = Base
          \/ ~JournalExists /\ Base' = Base /\ job # NoJob /\ job.to # 0
          \/ (~JournalExists)' /\ Base' = job.to /\ job # NoJob /\ job.to # 0

\* Only four of its steps touch the release.
LEMMA UpdaterReleaseStep == UpdateInv /\ UpdaterStep => ReleaseStep
<1> SUFFICES ASSUME UpdateInv, UpdaterStep PROVE ReleaseStep
  OBVIOUS
<1> USE DEF ReleaseStep, Base, JournalExists, Working, Preparing, Swapping, root, disk
<1>0. PhaseInv /\ RootInv /\ BackupInv /\ TaskInv
  BY DEF UpdateInv
<1>a. journal \in Nat /\ swaps \in Nat
  BY Numbers DEF UpdateInv
<1>1. ASSUME NEW k \in Kind, AcquireMutex(k) PROVE ReleaseStep
  BY <1>1 DEF AcquireMutex
<1>2. CASE LoadJob \/ LoadJournal \/ WaitForInstallProcesses \/ WaitTimeout
  BY <1>2 DEF LoadJob, LoadJournal, WaitForInstallProcesses, WaitTimeout
<1>3. ASSUME pc \in Working, JournalExists, old # 0, Undo PROVE ReleaseStep
  BY <1>0, <1>3 DEF Undo, BackupInv
<1>4. ASSUME JournalExists, UndoCutShort PROVE ReleaseStep
  BY <1>4 DEF UndoCutShort
<1>5. CASE RecoverInterruptedInstall
  BY <1>3, <1>4, <1>5 DEF RecoverInterruptedInstall, UndoFails
<1>6. CASE Prepare \/ Verify \/ PrepareFails
  BY <1>0, <1>6 DEF Prepare, Verify, PrepareFails, PhaseInv
<1>7. CASE BeginSwap
  BY <1>0, <1>a, <1>7 DEF BeginSwap, PhaseInv, TaskInv
<1>8. CASE EndSwap
  BY <1>0, <1>8 DEF EndSwap, MoveIn, PhaseInv
<1>9. CASE SwapFails
  <2>1. pc = "swapping" => JournalExists /\ old # 0
    BY <1>0 DEF PhaseInv, RootInv
  <2> QED
    BY <1>3, <1>4, <1>9, <2>1 DEF SwapFails, UndoFails, FreshRemoved
<1>10. CASE Commit
  BY <1>0, <1>10 DEF Commit, Unlink, PhaseInv, TaskInv
<1>11. CASE ConsumeLaunchRequest \/ WriteResult \/ ReleaseMutex
  BY <1>11 DEF ConsumeLaunchRequest, WriteResult, ReleaseMutex
<1>12. CASE UpdaterKilled
  BY <1>4, <1>12 DEF UpdaterKilled
<1>13. ASSUME NEW r \in relaunching, RestartApplication(r) PROVE ReleaseStep
  BY <1>13 DEF RestartApplication
<1> QED
  BY <1>1, <1>2, <1>5, <1>6, <1>7, <1>8, <1>9, <1>10, <1>11, <1>12, <1>13 DEF UpdaterStep

\* A look for processes that fails shows; nothing else an updater does can let
\* it overlap with a process.
LEMMA OverlookStep ==
    UpdaterStep => \/ failedOpen' = failedOpen
                   \/ WaitForInstallProcesses /\ failedOpen' = TRUE
<1> SUFFICES ASSUME UpdaterStep, ~WaitForInstallProcesses PROVE failedOpen' = failedOpen
  BY Zenon DEF WaitForInstallProcesses
<1> USE DEF startup
<1>1. ASSUME NEW k \in Kind, AcquireMutex(k) PROVE failedOpen' = failedOpen
  BY <1>1 DEF AcquireMutex
<1>2. CASE LoadJob \/ LoadJournal \/ WaitTimeout
  BY <1>2 DEF LoadJob, LoadJournal, WaitTimeout
<1>3. CASE RecoverInterruptedInstall \/ Prepare \/ Verify \/ PrepareFails
  BY <1>3 DEF RecoverInterruptedInstall, Prepare, Verify, PrepareFails
<1>4. CASE BeginSwap \/ EndSwap \/ SwapFails \/ Commit
  BY <1>4 DEF BeginSwap, EndSwap, SwapFails, Commit
<1>5. CASE ConsumeLaunchRequest \/ WriteResult \/ ReleaseMutex \/ UpdaterKilled
  BY <1>5 DEF ConsumeLaunchRequest, WriteResult, ReleaseMutex, UpdaterKilled
<1>6. ASSUME NEW r \in relaunching, RestartApplication(r) PROVE failedOpen' = failedOpen
  BY <1>6 DEF RestartApplication
<1> QED
  BY <1>1, <1>2, <1>3, <1>4, <1>5, <1>6 DEF UpdaterStep

\* An updater overlooks a process, or begins, completes or undoes a replacement.
LEMMA UpdaterRefines ==
    UpdateInv /\ UpdaterStep /\ running' = running => [Atomic!Next]_(Atomic!vars)
<1> SUFFICES ASSUME UpdateInv, UpdaterStep, running' = running
             PROVE  [Atomic!Next]_(Atomic!vars)
  OBVIOUS
<1> USE DEF Base
<1>1. ReleaseStep /\ UNCHANGED <<job, running>>
  BY UpdaterReleaseStep, UpdaterStepFrame DEF UpdaterFrame
<1>2. pc \in Working => running = 0 \/ failedOpen
  BY DEF UpdateInv, UseInv, SessionInv
<1>3. job # NoJob => job.to >= Base \/ failedOpen
  BY DEF UpdateInv, VersionInv
<1>4. CASE failedOpen' = failedOpen
  BY <1>1, <1>2, <1>3, <1>4 DEF ReleaseStep, Atomic!Next, Atomic!Begin, Atomic!Undo,
     Atomic!Complete, Atomic!NotInUse, Atomic!vars
<1>5. CASE WaitForInstallProcesses /\ failedOpen' = TRUE
  <2>1. UNCHANGED <<installed, old, journal>>
    BY <1>5 DEF WaitForInstallProcesses, root, disk
  <2> QED
    BY <1>1, <1>5, <2>1 DEF JournalExists, Atomic!Next, Atomic!Overlook
<1> QED
  BY <1>4, <1>5, OverlookStep

\* A session starts and stops a release, and hands over a newer one.
LEMMA ServiceRefines == UpdateInv /\ UpdateInv' /\ ServiceStep => [Atomic!Next]_(Atomic!vars)
<1> SUFFICES ASSUME UpdateInv, UpdateInv', ServiceStep PROVE [Atomic!Next]_(Atomic!vars)
  OBVIOUS
<1> USE DEF Base, JournalExists, Atomic!Next, Atomic!vars, root, disk, files, startup,
        updaterVars, serviceVars, sessionVars
<1>0. TypeOK /\ RootInv /\ VersionInv /\ VerifiedInv /\ SessionInv
  BY DEF UpdateInv
<1>1. CASE BeginSession
  <2>1. /\ UNCHANGED <<installed, old, fresh, journal, job>>
        /\ running = 0 /\ failedOpen' \in {failedOpen, TRUE}
    BY <1>0, <1>1 DEF BeginSession, BecomeApplication, GuardUnchanged, SessionInv, TypeOK,
                      UpdaterTypeOK
  <2>2. running' \in IF installed = 0 THEN {old, fresh.of} \ {0} ELSE {installed}
    BY <1>1 DEF BeginSession
  <2>3. running' \in Maybe(Version) /\ running' \in Nat /\ Base \in Nat
    <3>1. running' \in Maybe(Version) /\ TypeOK /\ Base \in Nat
      BY Numbers DEF UpdateInv, TypeOK, ServiceTypeOK
    <3> QED
      BY <3>1, Constants DEF Maybe
  <2>4. app' = "up"
    BY <1>1 DEF BeginSession, BecomeApplication
  <2>5. running' \in Atomic!Version
    BY <2>3, <2>4 DEF UpdateInv, SessionInv, Maybe, Version, Atomic!Version
  <2>6. running' = Base \/ JournalExists
    BY <1>0, <2>2 DEF RootInv
  <2>7. ~failedOpen' => running' >= Base
    BY <2>1, <2>4 DEF UpdateInv, VersionInv
  <2>8. running' = Base \/ (JournalExists /\ (running' > Base \/ failedOpen'))
    BY <2>3, <2>6, <2>7
  <2>9. Atomic!Start
    BY <2>1, <2>5, <2>8 DEF Atomic!Start
  <2> QED
    BY <2>9
<1>2. CASE CleanupAfterLaunch
  <2>1. UNCHANGED <<installed, journal, failedOpen, running>> /\ running # 0
    BY <1>0, <1>2 DEF CleanupAfterLaunch, CleanupFrame, SessionInv, Responsive
  <2>2. UNCHANGED <<old, job>> \/ (~JournalExists /\ job' = NoJob)
    BY <1>2 DEF CleanupAfterLaunch, CleanupFiles
  <2> QED
    BY <2>1, <2>2 DEF Atomic!Withdraw, NoJob
<1>3. CASE RestoreReady \/ PrestageClears \/ PrestageFinishes
  BY <1>3 DEF RestoreReady, PrestageClears, PrestageFinishes
<1>4. CASE StartCheck \/ FinishCheckFailed \/ UserDownloads
  BY <1>4 DEF StartCheck, FinishCheckFailed, UserDownloads
<1>5. ASSUME NEW v \in Version, FinishCheckUnverified(v) \/ FinishCheck(v)
      PROVE  [Atomic!Next]_(Atomic!vars)
  BY <1>5 DEF FinishCheckUnverified, FinishCheck
<1>6. CASE PromotePackage \/ FinishDownload
  BY <1>6 DEF PromotePackage, FinishDownload
<1>7. CASE UserRestarts \/ QuitInstalling \/ HandOffFails
  <2>1. /\ UNCHANGED <<installed, old, journal, failedOpen, running>>
        /\ app # "down" /\ verified \in archives
    BY <1>7 DEF UserRestarts, QuitInstalling, HandOffFails, HandOff, CanHandOff, Responsive
  <2>2. job'.to = verified
    BY <1>7 DEF UserRestarts, QuitInstalling, HandOffFails, HandOff
  <2>3. verified \in Version /\ verified > running /\ running # 0
    BY <1>0, <2>1, VersionAssumption DEF VerifiedInv, SessionInv, TypeOK, UpdaterTypeOK, Version
  <2> QED
    BY <2>1, <2>2, <2>3 DEF Atomic!HandOver, Atomic!Version, Version
<1>8. CASE ApplicationEnds
  BY <1>0, <1>8 DEF ApplicationEnds, SessionInv, Atomic!Stop
<1> QED
  BY <1>1, <1>2, <1>3, <1>4, <1>5, <1>6, <1>7, <1>8 DEF ServiceStep

\* The updaters, the launch guard and the update service implement an atomic
\* update, for any number of releases, updaters, launches, checks and faults.
THEOREM UpdateIsAtomic == Spec => ImplementsAtomicUpdate
<1>1. Init => Atomic!Init
  BY DEF Init, UpdaterInit, NoJob, JournalExists, Atomic!Init
<1>2. ASSUME UpdateInv, UpdateInv', [Next]_vars PROVE [Atomic!Next]_(Atomic!vars)
  <2>1. CASE UNCHANGED vars
    BY <2>1 DEF vars, updaterVars, serviceVars, sessionVars, root, disk, files, startup,
                JournalExists, Atomic!vars
  <2>2. CASE UpdaterStep /\ UNCHANGED serviceVars
    BY <1>2, <2>2, UpdaterRefines DEF serviceVars, sessionVars
  <2>3. CASE GuardStep /\ UNCHANGED serviceVars
    BY <2>3, GuardStepFrame DEF GuardFrame, serviceVars, sessionVars, root, JournalExists,
                                Atomic!vars
  <2>4. CASE ServiceStep
    BY <1>2, <2>4, ServiceRefines
  <2> QED
    BY <1>2, <2>1, <2>2, <2>3, <2>4 DEF Next
<1> QED
  BY <1>1, <1>2, AlwaysUpdateInv, PTL DEF Spec, ImplementsAtomicUpdate, Atomic!Spec
-----------------------------------------------------------------------------
(* What is done to the install while a journal exists.                      *)

\* An updater that neither swaps nor undoes leaves the install alone and does
\* not come to the commit.
LEMMA UpdaterUnderJournal == UpdateInv /\ UpdaterStep /\ JournalExists => UnderJournal
<1> SUFFICES ASSUME UpdateInv, UpdaterStep, JournalExists PROVE UnderJournal
  OBVIOUS
<1>0. PhaseInv /\ old # 0
  BY DEF UpdateInv, RootInv, Base
<1>a. ASSUME UNCHANGED <<root, journal>>, pc' # "commit" \/ pc' = pc PROVE UnderJournal
  BY <1>a DEF UnderJournal
<1>b. ASSUME pc \in {"rewind", "swapping"}, pc' # "commit", Undo \/ UndoCutShort
      PROVE  UnderJournal
  BY <1>0, <1>b DEF UnderJournal
<1> USE DEF disk, holder, Leave, Goto, End
<1>1. ASSUME NEW k \in Kind, AcquireMutex(k) PROVE UnderJournal
  <2>1. UNCHANGED <<root, journal>> /\ (pc' = "load" \/ pc' = pc)
    BY <1>1 DEF AcquireMutex
  <2> QED
    BY <1>a, <2>1
<1>2. CASE LoadJob \/ LoadJournal \/ WaitForInstallProcesses \/ WaitTimeout
  <2>1. UNCHANGED <<root, journal>> /\ pc' # "commit"
    BY <1>2 DEF LoadJob, LoadJournal, WaitForInstallProcesses, WaitTimeout
  <2> QED
    BY <1>a, <2>1
<1>3. CASE RecoverInterruptedInstall
  <2>1. pc = "rewind" /\ pc' # "commit"
    BY <1>3 DEF RecoverInterruptedInstall
  <2>2. UNCHANGED <<root, journal>> \/ Undo \/ UndoCutShort
    BY <1>3 DEF RecoverInterruptedInstall, UndoFails
  <2> QED
    BY <1>a, <1>b, <2>1, <2>2
<1>4. CASE Prepare \/ Verify \/ PrepareFails \/ BeginSwap
  BY <1>0, <1>4 DEF Prepare, Verify, PrepareFails, BeginSwap, PhaseInv, Preparing
<1>5. CASE EndSwap
  BY <1>5 DEF EndSwap, UnderJournal
<1>6. CASE SwapFails
  <2>1. pc' = "marker"
    BY <1>6 DEF SwapFails
  <2>2. \/ UNCHANGED <<root, journal>>
        \/ pc = "swapping" /\ (Undo \/ UndoCutShort \/ FreshRemoved)
    BY <1>6 DEF SwapFails, UndoFails
  <2>3. pc = "swapping" /\ FreshRemoved => UnderJournal
    BY <2>1 DEF UnderJournal
  <2> QED
    BY <1>a, <1>b, <2>1, <2>2, <2>3
<1>7. CASE Commit
  <2>1. installed = fresh.of /\ fresh.whole
    BY <1>0, <1>7 DEF Commit, PhaseInv, Swapping
  <2> QED
    BY <1>7, <2>1 DEF Commit, UnderJournal
<1>8. CASE ConsumeLaunchRequest \/ WriteResult \/ ReleaseMutex
  <2>1. UNCHANGED <<root, journal>> /\ pc' # "commit"
    BY <1>8 DEF ConsumeLaunchRequest, WriteResult, ReleaseMutex
  <2> QED
    BY <1>a, <2>1
<1>9. ASSUME NEW r \in relaunching, RestartApplication(r) PROVE UnderJournal
  <2>1. UNCHANGED <<root, journal>> /\ pc' = pc
    BY <1>9 DEF RestartApplication
  <2> QED
    BY <1>a, <2>1
<1>10. CASE UpdaterKilled
  <2>1. pc' # "commit"
    BY <1>10 DEF UpdaterKilled
  <2>2. \/ UNCHANGED <<root, journal>>
        \/ pc \in {"rewind", "swapping"} /\ UndoCutShort
    BY <1>10 DEF UpdaterKilled
  <2> QED
    BY <1>a, <1>b, <2>1, <2>2
<1> QED
  BY <1>1, <1>2, <1>3, <1>4, <1>5, <1>6, <1>7, <1>8, <1>9, <1>10 DEF UpdaterStep

\* However many updaters, launches and cleanups interleave, what happens to an
\* install under a journal is what the transaction's own steps do.
THEOREM UnderJournalOnlySwaps == Spec => OnlySwapsUnderJournal
<1>1. ASSUME UpdateInv, [Next]_vars, JournalExists PROVE UnderJournal \/ UNCHANGED vars
  <2>1. CASE UpdaterStep
    BY <1>1, <2>1, UpdaterUnderJournal
  <2>2. CASE GuardStep
    BY <2>2, GuardStepFrame DEF GuardFrame, holder, UnderJournal
  <2>3. CASE ServiceStep
    <3>1. UNCHANGED <<installed, damaged, journal, pc, old, fresh>>
      BY <1>1, <2>3, ServiceStepFrame DEF ServiceFrame
    <3> QED
      BY <3>1 DEF UnderJournal, root
  <2> QED
    BY <1>1, <2>1, <2>2, <2>3 DEF Next
<1> QED
  BY <1>1, AlwaysUpdateInv, PTL DEF Spec, OnlySwapsUnderJournal
=============================================================================
