------------------------- MODULE InstallTransaction -------------------------
(***************************************************************************)
(* updater/transaction.py and updater/install.py: the journaled swap of    *)
(* the top-level entries of the install directory, its rollback, the       *)
(* fall-back to the backup copy, and crash recovery.                       *)
(*                                                                         *)
(* Entries are numbered in journal order: sorted names, ExileLens.exe      *)
(* last.  For each entry the disk holds a content in the install root      *)
(* (target), in .update-old, in .update-new and in the backup directory.   *)
(* A content is the number of the update job that brought it (0: the       *)
(* installed release), Absent, or Torn: a tree or file that a removal or a *)
(* copy left incomplete.  Renames are atomic; removals and copies are not. *)
(*                                                                         *)
(* One action per disk operation.  Every one of them can raise (a sharing  *)
(* violation that outlasts the retries, a full disk), and the updater      *)
(* process can be killed at any point; its local state (pc, caller, todo)  *)
(* is then lost and the disk stays.                                        *)
(***************************************************************************)
EXTENDS Naturals, FiniteSets

CONSTANTS
    NumEntries,     \* number of top-level names
    Internal,       \* the entry _internal
    Absent, Torn,   \* contents that are no release
    MaxJobs,        \* bound: update jobs
    MaxFaults       \* bound: raised errors and crashes

Entry == 1..NumEntries
Exe == NumEntries           \* ExileLens.exe is sorted last
Version == 0..MaxJobs
Content == Version \cup {Absent, Torn}

ASSUME EntryAssumption == NumEntries \in Nat \ {0} /\ Internal \in 1..NumEntries
ASSUME ContentAssumption == Absent \notin Nat /\ Torn \notin Nat /\ Absent # Torn
ASSUME BoundAssumption == MaxJobs \in Nat /\ MaxFaults \in Nat

VARIABLES
    target, old, new, backup,   \* the four directories, entry by entry
    oldDir,                     \* .update-old exists
    entries, hadOld,            \* journal.json; no journal: entries = {}
    pc, caller, todo,           \* the updater process, while it runs
    outcome,                    \* the last outcome it returned
    jobs, faults,               \* counters for the bounds
    snap,                       \* history: target when the journal was written
    cut                         \* history: entries a backup restore destroyed
                                \* in place and did not bring back

disk == <<target, old, new, backup, oldDir, entries, hadOld>>
proc == <<pc, caller, todo, outcome>>
vars == <<disk, proc, jobs, faults, snap, cut>>

Exists(c) == c # Absent
Nothing == [e \in Entry |-> Absent]
JournalExists == entries # {}

\* The entry a loop over the journal (forwards, or reversed) is at.
IsFirst(e) == e \in todo /\ \A f \in todo : e <= f
IsLast(e) == e \in todo /\ \A f \in todo : f <= e

\* layout.looks_like_install_root, and the release in it is startable.
Startable == target[Exe] \in Version /\ target[Internal] \in Version

Init ==
    /\ \E present \in SUBSET Entry :
          /\ {Exe, Internal} \subseteq present
          /\ target = [e \in Entry |-> IF e \in present THEN 0 ELSE Absent]
    /\ old = Nothing /\ new = Nothing /\ backup = Nothing /\ oldDir = FALSE
    /\ entries = {} /\ hadOld = {}
    /\ pc = "idle" /\ caller = "none" /\ todo = {} /\ outcome = "none"
    /\ jobs = 0 /\ faults = 0
    /\ snap = target /\ cut = {}

\* The process returns an outcome (run_update_job, run_recovery).
Return(result) ==
    pc' = "idle" /\ caller' = "none" /\ todo' = {} /\ outcome' = result

Fault == faults < MaxFaults /\ faults' = faults + 1

-----------------------------------------------------------------------------
\* Starting the updater

\* Mutant: a job does not look for an interrupted install first.
StartJobWithoutRecovery ==
    /\ pc = "idle" /\ Startable /\ jobs < MaxJobs
    /\ jobs' = jobs + 1 /\ caller' = "job" /\ pc' = "prepare"
    /\ UNCHANGED <<disk, todo, outcome, faults, snap, cut>>

\* run_update_job: the app hands over a job and exits; recovery goes first.
StartJob ==
    /\ pc = "idle" /\ Startable /\ jobs < MaxJobs
    /\ jobs' = jobs + 1
    /\ caller' = "job"
    /\ pc' = IF JournalExists THEN "recover" ELSE "prepare"
    /\ UNCHANGED <<disk, todo, outcome, faults, snap, cut>>

\* run_recovery, from the startup guard or by hand.
StartRecovery ==
    /\ pc = "idle" /\ JournalExists
    /\ caller' = "recovery" /\ pc' = "recover"
    /\ UNCHANGED <<disk, todo, outcome, jobs, faults, snap, cut>>

\* recover_interrupted_install: without .update-old the state is not ours.
Recover ==
    /\ pc = "recover"
    /\ \/ /\ oldDir
          /\ pc' = "rollback" /\ todo' = entries
          /\ UNCHANGED <<caller, outcome>>
       \/ ~oldDir /\ Return("restore_failed")
    /\ UNCHANGED <<disk, jobs, faults, snap, cut>>

-----------------------------------------------------------------------------
\* Prepare and swap

\* prepare, first half: .update-new is rebuilt from the verified package and
\* the previous update's leftovers are removed.
PrepareNew ==
    /\ pc = "prepare"
    /\ \E package \in SUBSET Entry :
          /\ {Exe, Internal} \subseteq package
          /\ new' = [e \in Entry |-> IF e \in package THEN jobs ELSE Absent]
    /\ old' = Nothing /\ oldDir' = FALSE
    /\ pc' = "backup"
    /\ UNCHANGED <<target, backup, entries, hadOld, caller, todo, outcome, jobs,
                   faults, snap, cut>>

Package == {e \in Entry : Exists(new[e])}

\* Mutant: a backup that is there already is kept.
PrepareBackupKeepingOlder ==
    /\ pc = "backup"
    /\ backup' = [e \in Entry |->
                     IF e \in Package /\ ~Exists(backup[e]) THEN target[e] ELSE backup[e]]
    /\ pc' = "journal"
    /\ UNCHANGED <<target, old, new, oldDir, entries, hadOld, caller, todo, outcome,
                   jobs, faults, snap, cut>>

\* prepare, second half: back up what will be replaced.
PrepareBackup ==
    /\ pc = "backup"
    /\ backup' = [e \in Entry |-> IF e \in Package THEN target[e] ELSE Absent]
    /\ pc' = "journal"
    /\ UNCHANGED <<target, old, new, oldDir, entries, hadOld, caller, todo,
                   outcome, jobs, faults, snap, cut>>

\* Mutant: the journal notes an old version for names it does not list.
WriteJournalOfEverything ==
    /\ pc = "journal"
    /\ oldDir' = TRUE
    /\ entries' = Package /\ hadOld' = {e \in Entry : Exists(target[e])}
    /\ pc' = "swap" /\ todo' = Package /\ caller' = "install"
    /\ snap' = target /\ cut' = {}
    /\ UNCHANGED <<target, old, new, backup, outcome, jobs, faults>>

\* swap: .update-old is made, then the journal is written atomically.
WriteJournal ==
    /\ pc = "journal"
    /\ oldDir' = TRUE
    /\ entries' = Package
    /\ hadOld' = {e \in Package : Exists(target[e])}
    /\ pc' = "swap" /\ todo' = Package
    /\ caller' = "install"
    /\ snap' = target /\ cut' = {}
    /\ UNCHANGED <<target, old, new, backup, outcome, jobs, faults>>

\* Anything prepare or write_journal raises: the install is untouched.
PrepareFails ==
    /\ pc \in {"prepare", "backup", "journal"} /\ Fault
    /\ new' \in {new, Nothing}
    /\ \/ UNCHANGED oldDir
       \/ pc = "journal" /\ oldDir' = TRUE
    /\ Return("prepare_failed")
    /\ UNCHANGED <<target, old, backup, entries, hadOld, jobs, snap, cut>>

\* swap, X -> .update-old/X; an entry without an old version has no such step.
SwapOut(e) ==
    /\ pc = "swap" /\ IsFirst(e) /\ e \in hadOld
    /\ old' = [old EXCEPT ![e] = target[e]]
    /\ target' = [target EXCEPT ![e] = Absent]
    /\ pc' = "swapIn"
    /\ UNCHANGED <<new, backup, oldDir, entries, hadOld, caller, todo, outcome,
                   jobs, faults, snap, cut>>

\* swap, .update-new/X -> X.
SwapIn(e) ==
    /\ IsFirst(e)
    /\ pc = "swapIn" \/ (pc = "swap" /\ e \notin hadOld)
    /\ target' = [target EXCEPT ![e] = new[e]]
    /\ new' = [new EXCEPT ![e] = Absent]
    /\ todo' = todo \ {e}
    /\ pc' = "swap"
    /\ UNCHANGED <<old, backup, oldDir, entries, hadOld, caller, outcome, jobs,
                   faults, snap, cut>>

\* A rename that keeps failing: install_job undoes the swap, unless the journal cannot be
\* read: it is taken for one that was never written, and .update-new is removed.
SwapFails ==
    /\ pc \in {"swap", "swapIn"} /\ todo # {} /\ Fault
    /\ \/ pc' = "rollback" /\ todo' = entries /\ UNCHANGED <<new, caller, outcome>>
       \/ new' \in {new, Nothing} /\ Return("prepare_failed")
    /\ UNCHANGED <<target, old, backup, oldDir, entries, hadOld, jobs, snap, cut>>

\* Mutant: the journal is deleted before the last entry is swapped.
CommitEarly ==
    /\ pc = "swap"
    /\ entries' = {} /\ hadOld' = {}
    /\ new' \in {new, Nothing}
    /\ Return("success")
    /\ UNCHANGED <<target, old, backup, oldDir, jobs, faults, snap, cut>>

\* install_job: unlinking the journal is the commit point.
Commit ==
    /\ pc = "swap" /\ todo = {}
    /\ entries' = {} /\ hadOld' = {}
    /\ new' \in {new, Nothing}
    /\ Return("success")
    /\ UNCHANGED <<target, old, backup, oldDir, jobs, faults, snap, cut>>

\* unlink raises; run_update_job reports restore_failed, the journal stays.
UnlinkFails ==
    /\ (pc = "swap" /\ todo = {}) \/ pc = "unlink"
    /\ Fault
    /\ Return("restore_failed")
    /\ UNCHANGED <<disk, jobs, snap, cut>>

-----------------------------------------------------------------------------
\* undo: rollback, then the backup copy if the rollback raised

\* Mutant: what sits at the target is taken for the new version.
HoldsSomething(e) == Exists(target[e])

\* Mutant: entries that did not exist before are overlooked.
HoldsReplacement(e) == Exists(target[e]) /\ Exists(old[e])

\* rollback inspects the disk, last journaled entry first.  What sits at the
\* target is the new version if the old one was moved aside or never existed.
HoldsNewVersion(e) ==
    Exists(target[e]) /\ (Exists(old[e]) \/ e \notin hadOld)

\* It is moved back to .update-new or, if that name is taken, removed.
RollbackClear(e) ==
    /\ pc = "rollback" /\ IsLast(e) /\ HoldsNewVersion(e)
    /\ target' = [target EXCEPT ![e] = Absent]
    /\ new' = IF Exists(new[e]) THEN new
                                   ELSE [new EXCEPT ![e] = target[e]]
    /\ UNCHANGED <<old, backup, oldDir, entries, hadOld, proc, jobs, faults,
                   snap, cut>>

\* .update-old/X -> X.
RollbackPutBack(e) ==
    /\ pc = "rollback" /\ IsLast(e)
    /\ ~Exists(target[e]) /\ Exists(old[e])
    /\ target' = [target EXCEPT ![e] = old[e]]
    /\ old' = [old EXCEPT ![e] = Absent]
    /\ todo' = todo \ {e}
    /\ UNCHANGED <<new, backup, oldDir, entries, hadOld, pc, caller, outcome,
                   jobs, faults, snap, cut>>

\* "Otherwise the old entry was never moved and is still in place."
RollbackSkip(e) ==
    /\ pc = "rollback" /\ IsLast(e)
    /\ ~Exists(old[e]) /\ ~HoldsNewVersion(e)
    /\ todo' = todo \ {e}
    /\ UNCHANGED <<disk, pc, caller, outcome, jobs, faults, snap, cut>>

\* The rollback raised at some entry, maybe half-way through a removal: undo
\* turns to the backup if that is complete and gives up otherwise.
RollbackFails(e) ==
    /\ pc = "rollback" /\ IsLast(e) /\ Fault
    /\ HoldsNewVersion(e) \/ Exists(old[e])
    /\ target' \in {target} \cup
          (IF HoldsNewVersion(e) /\ Exists(new[e])
           THEN {[target EXCEPT ![e] = Torn]} ELSE {})
    /\ \/ /\ \A f \in hadOld : Exists(backup[f])
          /\ pc' = "restore" /\ todo' = entries
          /\ UNCHANGED <<caller, outcome>>
       \/ /\ \E f \in hadOld : ~Exists(backup[f])
          /\ Return("restore_failed")
    /\ UNCHANGED <<old, new, backup, oldDir, entries, hadOld, jobs, snap, cut>>

\* restore_from_backup, first journaled entry first: the entry is removed ...
Destroys(e) == IF e \in hadOld /\ ~Exists(old[e]) THEN {e} ELSE {}

RestoreRemove(e) ==
    /\ pc = "restore" /\ IsFirst(e)
    /\ target' = [target EXCEPT ![e] = Absent]
    /\ cut' = cut \cup Destroys(e)
    /\ \/ e \in hadOld /\ pc' = "copy" /\ UNCHANGED todo
       \/ e \notin hadOld /\ todo' = todo \ {e} /\ UNCHANGED pc
    /\ UNCHANGED <<old, new, backup, oldDir, entries, hadOld, caller, outcome,
                   jobs, faults, snap>>

\* ... and, if there was an old version, copied from the backup.
RestoreCopy(e) ==
    /\ pc = "copy" /\ IsFirst(e)
    /\ target' = [target EXCEPT ![e] = backup[e]]
    /\ cut' = cut \ {e}
    /\ todo' = todo \ {e}
    /\ pc' = "restore"
    /\ UNCHANGED <<old, new, backup, oldDir, entries, hadOld, caller, outcome,
                   jobs, faults, snap>>

\* A removal or a copy of the restore that stops at its start or half-way.
Tear(e) ==
    /\ target' \in {target, [target EXCEPT ![e] = Torn]}
    /\ cut' = IF target' = target THEN cut ELSE cut \cup Destroys(e)

\* undo gives up: restore_failed, the journal stays as evidence.
RestoreFails(e) ==
    /\ pc \in {"restore", "copy"} /\ IsFirst(e) /\ Fault
    /\ Tear(e)
    /\ Return("restore_failed")
    /\ UNCHANGED <<old, new, backup, oldDir, entries, hadOld, jobs, snap>>

UndoDone ==
    /\ pc \in {"rollback", "restore"} /\ todo = {}
    /\ pc' = "unlink"
    /\ UNCHANGED <<disk, caller, todo, outcome, jobs, faults, snap, cut>>

\* undo removes the journal and then, as far as possible, the work directories;
\* a recovery that precedes a job goes on with the job.
UndoUnlink ==
    /\ pc = "unlink"
    /\ entries' = {} /\ hadOld' = {}
    /\ new' \in {new, Nothing}
    /\ \/ UNCHANGED <<old, oldDir>>
       \/ old' = Nothing /\ oldDir' = FALSE
    /\ \/ caller = "install" /\ Return("restored")
       \/ caller = "recovery" /\ Return("recovered")
       \/ /\ caller = "job"
          /\ pc' = "prepare" /\ outcome' = "recovered"
          /\ UNCHANGED <<caller, todo>>
    /\ UNCHANGED <<target, backup, jobs, faults, snap, cut>>

-----------------------------------------------------------------------------
\* Environment

\* The updater is killed, or the power fails, between two disk operations or
\* in the middle of a removal or copy.
Crash ==
    /\ pc # "idle" /\ Fault
    /\ \/ pc \in {"restore", "copy"} /\ \E e \in todo : IsFirst(e) /\ Tear(e)
       \/ /\ pc = "rollback"
          /\ \E e \in todo :
                /\ IsLast(e) /\ HoldsNewVersion(e) /\ Exists(new[e])
                /\ target' = [target EXCEPT ![e] = Torn]
          /\ UNCHANGED cut
       \/ UNCHANGED <<target, cut>>
    /\ Return("none")
    /\ UNCHANGED <<old, new, backup, oldDir, entries, hadOld, jobs, snap>>

\* cleanup_after_launch: the app has started, no journal exists and no updater
\* runs, so the leftovers are removed, each one if nothing keeps it.
CleanupAfterLaunch ==
    /\ pc = "idle" /\ ~JournalExists /\ Startable
    /\ \/ UNCHANGED <<old, oldDir>>
       \/ old' = Nothing /\ oldDir' = FALSE
    /\ new' \in {new, Nothing}
    /\ backup' \in {backup, Nothing}
    /\ UNCHANGED <<target, entries, hadOld, proc, jobs, faults, snap, cut>>

-----------------------------------------------------------------------------

Next ==
    \/ StartJob \/ StartRecovery \/ Recover
    \/ PrepareNew \/ PrepareBackup \/ WriteJournal \/ PrepareFails
    \/ SwapFails \/ Commit \/ UnlinkFails
    \/ \E e \in Entry :
          \/ SwapOut(e) \/ SwapIn(e)
          \/ RollbackClear(e) \/ RollbackPutBack(e) \/ RollbackSkip(e)
          \/ RollbackFails(e)
          \/ RestoreRemove(e) \/ RestoreCopy(e) \/ RestoreFails(e)
    \/ UndoDone \/ UndoUnlink
    \/ Crash \/ CleanupAfterLaunch

Spec == Init /\ [][Next]_vars

-----------------------------------------------------------------------------

Steps == {"idle", "recover", "prepare", "backup", "journal", "swap", "swapIn",
          "rollback", "restore", "copy", "unlink"}
Outcomes == {"none", "success", "restored", "recovered", "prepare_failed",
             "restore_failed"}

\* Type invariant.
TypeOK ==
    /\ target \in [Entry -> Content] /\ old \in [Entry -> Content]
    /\ new \in [Entry -> Content] /\ backup \in [Entry -> Content]
    /\ snap \in [Entry -> Content]
    /\ oldDir \in BOOLEAN
    /\ entries \subseteq Entry /\ hadOld \subseteq entries
    /\ pc \in Steps /\ caller \in {"none", "job", "recovery", "install"}
    /\ todo \subseteq Entry /\ outcome \in Outcomes
    /\ jobs \in 0..MaxJobs /\ faults \in 0..MaxFaults
    /\ cut \subseteq Entry

\* While a journal exists the backup holds the pre-swap version of every entry
\* that had one: the fall-back of undo never finds it incomplete or replaced.
BackupIsIntact ==
    JournalExists =>
        /\ hadOld = {e \in entries : Exists(snap[e])}
        /\ \A e \in hadOld : backup[e] = snap[e]

\* recover_interrupted_install never meets a journal of ours in a state it
\* refuses to touch ("our swap always creates .update-old before the journal").
JournalIsRecognized == JournalExists => oldDir

\* While a journal exists, the pre-swap version of every entry is still on the
\* install volume: moved aside or in place, unless a backup restore was cut
\* short at that entry.  A rollback at any such state can bring it back.
NothingIsLost ==
    JournalExists =>
        \A e \in Entry \ cut :
            \/ e \in hadOld /\ old[e] = snap[e]
            \/ e \notin entries /\ target[e] = snap[e]
            \/ e \in hadOld /\ ~Exists(old[e]) /\ target[e] = snap[e]
            \/ e \in entries \ hadOld /\ ~Exists(snap[e]) /\ ~Exists(old[e])

\* A swap that was undone left every entry as it was before the swap, however
\* many crashes and failed attempts came in between, unless a backup restore
\* was cut short at that entry.
UndoneIsRestored ==
    (outcome \in {"restored", "recovered"} /\ pc \in {"idle", "prepare"}) =>
        \A e \in Entry \ cut : target[e] = snap[e]

\* The journal is deleted by install_job only when every journaled entry is the
\* new version and every other entry is untouched.
CommitsWholePackage ==
    (JournalExists /\ ~JournalExists' /\ outcome' = "success") =>
        /\ target = [e \in Entry |-> IF e \in entries THEN jobs ELSE snap[e]]
        /\ target' = target

CommitIsComplete == [][CommitsWholePackage]_vars

\* updater/transaction.py: "Rollback never trusts progress counters; it inspects
\* the filesystem per entry, so it is idempotent and can resume after the
\* updater itself dies mid-way": an install reported as rolled back is the
\* install that was there before.
RecoveredMeansRestored ==
    (outcome \in {"restored", "recovered"} /\ pc = "idle") => target = snap

-----------------------------------------------------------------------------
\* Abstractly, an update is one atomic step.

Atomic == INSTANCE AtomicInstall WITH
    installed <- IF JournalExists THEN snap ELSE target,
    atRisk <- IF JournalExists THEN cut ELSE {}

\* The transaction implements the atomic update.
ImplementsAtomicInstall == Atomic!Spec

-----------------------------------------------------------------------------
\* UpdaterProcess, with which the app and the launch guard are composed, has the
\* swap in three steps.  To it the release before the swap is 1, the one after it 2,
\* and an install in between, or in the middle of an undo, 0.

SwappedIn == \A e \in entries : target[e] \in Version \ {snap[e]}
PutBack == \A e \in Entry \ cut : target[e] = snap[e]
StepOfSwap ==
    CASE pc = "idle" -> "idle"
      [] pc \in {"swap", "swapIn"} /\ todo # {} -> "swapping"
      [] pc = "swap" /\ todo = {} -> "commit"
      [] OTHER -> "rewind"

Swap == INSTANCE UpdaterProcess WITH
    MaxVersion <- 2, MaxUpdaters <- 1, MaxLaunches <- 0,
    installed <- IF JournalExists THEN (IF SwappedIn THEN 2 ELSE 0)
                                  ELSE (IF PutBack THEN 1 ELSE 2),
    old <- IF oldDir THEN 1 ELSE 0, backup <- 1,
    fresh <- [of |-> IF JournalExists THEN 2 ELSE 0, whole |-> JournalExists],
    damaged <- cut # {},
    journal <- IF JournalExists THEN 1 ELSE 0, swaps <- 1,
    archives <- {}, staging <- 0, job <- 0, marker <- FALSE, result <- 0, seen <- 0,
    starting <- 0, pc <- StepOfSwap, kind <- 0, task <- 0, wants <- FALSE, relaunching <- {},
    guard <- 0, app <- 0, launches <- 0, failedOpen <- FALSE

\* Whatever the transaction does while a journal exists, one disk operation after
\* the other, raising or killed anywhere, is one of the steps UpdaterProcess has for
\* it, and .update-old is there whenever it may be needed.
SwapIsAbstracted == [][JournalExists => oldDir /\ Swap!UnderJournal]_vars

=============================================================================
