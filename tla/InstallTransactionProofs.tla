---------------------- MODULE InstallTransactionProofs ----------------------
(***************************************************************************)
(* Proofs about InstallTransaction, for any number of entries, jobs and    *)
(* faults: type correctness, the safety properties of the journal, and     *)
(* that the transaction implements AtomicInstall.                          *)
(***************************************************************************)
EXTENDS InstallTransaction, TLAPS

-----------------------------------------------------------------------------
(* The inductive invariant, one conjunct per phase of the updater.          *)

Undoing == {"rollback", "restore", "copy", "unlink"}

PhaseInv ==
    /\ todo \subseteq entries
    /\ pc \in {"idle", "prepare", "backup", "journal", "unlink"} => todo = {}
    /\ pc \in {"recover", "swap", "swapIn"} \cup Undoing => JournalExists
    /\ pc \in {"prepare", "backup", "journal"} => ~JournalExists

\* Before the journal is written.
PrepareInv ==
    /\ caller = "job" \/ pc \in {"prepare", "backup", "journal", "swap", "swapIn"}
          => jobs # 0
    /\ pc \in {"backup", "journal"} =>
          /\ \A e \in Entry : old[e] = Absent /\ new[e] \in {jobs, Absent}
          /\ Exists(new[Exe]) /\ Exists(new[Internal])
    /\ pc = "journal" =>
          \A e \in Entry : Exists(new[e]) => backup[e] = target[e]

\* Whatever the phase, while the journal exists.
EntryInv(e) ==
    /\ e \notin entries => target[e] = snap[e]
    /\ e \in entries \ hadOld => snap[e] = Absent /\ old[e] = Absent
    /\ e \in hadOld =>
          /\ snap[e] # Absent /\ backup[e] = snap[e]
          /\ \/ old[e] = snap[e]
             \/ old[e] = Absent /\ (target[e] = snap[e] \/ e \in cut)

JournalInv ==
    JournalExists =>
        /\ oldDir
        /\ cut \subseteq hadOld
        /\ \A e \in Entry : EntryInv(e)

\* The entries the swap has done are new, the others as they were.
Swapped(e) ==
    /\ target[e] = jobs
    /\ e \in hadOld => old[e] = snap[e]

Unswapped(e) ==
    /\ new[e] = jobs
    /\ \/ target[e] = snap[e]
       \/ pc = "swapIn" /\ IsFirst(e)

SwapInv ==
    pc \in {"swap", "swapIn"} =>
        /\ cut = {}
        /\ Exe \in entries /\ Internal \in entries
        /\ \A e \in entries \ todo : Swapped(e)
        /\ \A e \in todo : Unswapped(e)
        /\ pc = "swapIn" => \A e \in todo : IsFirst(e) => e \in hadOld /\ old[e] = snap[e]

UndoInv ==
    /\ pc = "rollback" =>
          \A e \in entries \ todo : target[e] = snap[e] \/ e \in cut
    /\ pc \in {"restore", "copy"} =>
          \A e \in entries \ todo : target[e] = snap[e]
    /\ pc = "copy" => \A e \in todo : IsFirst(e) => e \in hadOld
    /\ pc = "unlink" => \A e \in entries : target[e] = snap[e] \/ e \in cut

InstallInv ==
    /\ TypeOK
    /\ PhaseInv
    /\ PrepareInv
    /\ JournalInv
    /\ SwapInv
    /\ UndoInv
    /\ UndoneIsRestored

-----------------------------------------------------------------------------

\* The invariant holds initially.
LEMMA InitInstallInv == Init => InstallInv
<1> SUFFICES ASSUME Init PROVE InstallInv
  OBVIOUS
<1>1. target \in [Entry -> Content]
  BY BoundAssumption DEF Init, Content, Version
<1>2. Nothing \in [Entry -> Content]
  BY DEF Nothing, Content
<1>3. oldDir \in BOOLEAN
  BY DEF Init
<1>4. jobs \in 0..MaxJobs /\ faults \in 0..MaxFaults
  BY BoundAssumption DEF Init
<1>5. TypeOK
  BY <1>1, <1>2, <1>3, <1>4 DEF Init, TypeOK, Steps, Outcomes
<1> QED
  BY <1>5 DEF Init, InstallInv, PhaseInv, PrepareInv, JournalInv, SwapInv, UndoInv,
              UndoneIsRestored, JournalExists, Undoing

\* The loop over the journal is at one entry.
LEMMA OneFirst ==
    ASSUME NEW e \in Entry, NEW f \in Entry, IsFirst(e), IsFirst(f)
    PROVE  e = f
  BY EntryAssumption DEF IsFirst, Entry

\* One step keeps the types.
LEMMA TypeStep == TypeOK /\ [Next]_vars => TypeOK'
<1> SUFFICES ASSUME TypeOK, [Next]_vars PROVE TypeOK'
  OBVIOUS
<1> USE BoundAssumption DEF TypeOK, Steps, Outcomes, Return, Fault
<1>a. Nothing \in [Entry -> Content]
  BY DEF Nothing, Content
<1>b. Absent \in Content /\ Torn \in Content
  BY DEF Content
<1>1. CASE StartJob
  BY <1>1 DEF StartJob, disk
<1>2. CASE StartRecovery
  BY <1>2 DEF StartRecovery, disk
<1>3. CASE Recover
  BY <1>3 DEF Recover, disk
<1>4. CASE PrepareNew
  <2>1. new' \in [Entry -> Content]
    BY <1>4, <1>b DEF PrepareNew, Content, Version
  <2> QED
    BY <2>1, <1>4, <1>a DEF PrepareNew
<1>5. CASE PrepareBackup
  <2>1. backup' \in [Entry -> Content]
    BY <1>5, <1>b DEF PrepareBackup
  <2> QED
    BY <2>1, <1>5 DEF PrepareBackup
<1>6. CASE WriteJournal
  BY <1>6 DEF WriteJournal, Package
<1>7. CASE PrepareFails
  <2>1. oldDir' \in BOOLEAN
    BY <1>7 DEF PrepareFails
  <2>2. new' \in [Entry -> Content]
    BY <1>7, <1>a DEF PrepareFails
  <2> QED
    BY <2>1, <2>2, <1>7 DEF PrepareFails
<1>8. CASE SwapFails
  <2>1. new' \in [Entry -> Content]
    BY <1>8, <1>a DEF SwapFails
  <2> QED
    BY <2>1, <1>8 DEF SwapFails
<1>9. CASE Commit
  BY <1>9, <1>a DEF Commit
<1>10. CASE UnlinkFails
  BY <1>10 DEF UnlinkFails, disk
<1>11. ASSUME NEW e \in Entry, SwapOut(e) PROVE TypeOK'
  BY <1>11, <1>b DEF SwapOut
<1>12. ASSUME NEW e \in Entry, SwapIn(e) PROVE TypeOK'
  BY <1>12, <1>b DEF SwapIn
<1>13. ASSUME NEW e \in Entry, RollbackClear(e) PROVE TypeOK'
  BY <1>13, <1>b DEF RollbackClear, proc
<1>14. ASSUME NEW e \in Entry, RollbackPutBack(e) PROVE TypeOK'
  BY <1>14, <1>b DEF RollbackPutBack
<1>15. ASSUME NEW e \in Entry, RollbackSkip(e) PROVE TypeOK'
  BY <1>15 DEF RollbackSkip, disk
<1>16. ASSUME NEW e \in Entry, RollbackFails(e) PROVE TypeOK'
  BY <1>16, <1>b DEF RollbackFails
<1>17. ASSUME NEW e \in Entry, RestoreRemove(e) PROVE TypeOK'
  BY <1>17, <1>b DEF RestoreRemove, Destroys
<1>18. ASSUME NEW e \in Entry, RestoreCopy(e) PROVE TypeOK'
  BY <1>18 DEF RestoreCopy
<1>19. ASSUME NEW e \in Entry, RestoreFails(e) PROVE TypeOK'
  BY <1>19, <1>b DEF RestoreFails, Tear, Destroys
<1>20. CASE UndoDone
  BY <1>20 DEF UndoDone, disk
<1>21. CASE UndoUnlink
  <2>1. oldDir' \in BOOLEAN /\ old' \in [Entry -> Content]
    BY <1>21, <1>a DEF UndoUnlink
  <2>2. pc' \in Steps /\ outcome' \in Outcomes
    BY <1>21 DEF UndoUnlink
  <2>3. caller' \in {"none", "job", "recovery", "install"}
    BY <1>21 DEF UndoUnlink
  <2> QED
    BY <2>1, <2>2, <2>3, <1>21, <1>a DEF UndoUnlink
<1>22. CASE Crash
  <2>1. target' \in [Entry -> Content] /\ cut' \subseteq Entry
    BY <1>22, <1>b DEF Crash, Tear, Destroys
  <2> QED
    BY <2>1, <1>22 DEF Crash
<1>23. CASE CleanupAfterLaunch
  BY <1>23, <1>a DEF CleanupAfterLaunch, proc
<1>24. CASE UNCHANGED vars
  BY <1>24 DEF vars, disk, proc
<1> QED
  BY <1>1, <1>2, <1>3, <1>4, <1>5, <1>6, <1>7, <1>8, <1>9, <1>10, <1>11, <1>12,
     <1>13, <1>14, <1>15, <1>16, <1>17, <1>18, <1>19, <1>20, <1>21, <1>22, <1>23,
     <1>24 DEF Next

\* One step keeps what ties the phases to the journal.
LEMMA PhaseStep == InstallInv /\ [Next]_vars => PhaseInv'
<1> SUFFICES ASSUME InstallInv, [Next]_vars PROVE PhaseInv'
  OBVIOUS
<1> USE DEF InstallInv, TypeOK, PhaseInv, Undoing, JournalExists, Return
<1>1. CASE StartJob
  BY <1>1 DEF StartJob, disk
<1>2. CASE StartRecovery
  BY <1>2 DEF StartRecovery, disk
<1>3. CASE Recover
  BY <1>3 DEF Recover, disk
<1>4. CASE PrepareNew
  BY <1>4 DEF PrepareNew
<1>5. CASE PrepareBackup
  BY <1>5 DEF PrepareBackup
<1>6. CASE WriteJournal
  BY <1>6, EntryAssumption DEF WriteJournal, Package, PrepareInv, Exe, Entry
<1>7. CASE PrepareFails
  BY <1>7 DEF PrepareFails
<1>8. CASE SwapFails
  BY <1>8 DEF SwapFails, disk
<1>9. CASE Commit
  BY <1>9 DEF Commit
<1>10. CASE UnlinkFails
  BY <1>10 DEF UnlinkFails, disk
<1>11. ASSUME NEW e \in Entry, SwapOut(e) PROVE PhaseInv'
  BY <1>11 DEF SwapOut
<1>12. ASSUME NEW e \in Entry, SwapIn(e) PROVE PhaseInv'
  BY <1>12 DEF SwapIn
<1>13. ASSUME NEW e \in Entry, RollbackClear(e) PROVE PhaseInv'
  BY <1>13 DEF RollbackClear, proc
<1>14. ASSUME NEW e \in Entry, RollbackPutBack(e) PROVE PhaseInv'
  BY <1>14 DEF RollbackPutBack
<1>15. ASSUME NEW e \in Entry, RollbackSkip(e) PROVE PhaseInv'
  BY <1>15 DEF RollbackSkip, disk
<1>16. ASSUME NEW e \in Entry, RollbackFails(e) PROVE PhaseInv'
  BY <1>16 DEF RollbackFails
<1>17. ASSUME NEW e \in Entry, RestoreRemove(e) PROVE PhaseInv'
  BY <1>17 DEF RestoreRemove
<1>18. ASSUME NEW e \in Entry, RestoreCopy(e) PROVE PhaseInv'
  BY <1>18 DEF RestoreCopy
<1>19. ASSUME NEW e \in Entry, RestoreFails(e) PROVE PhaseInv'
  BY <1>19 DEF RestoreFails
<1>20. CASE UndoDone
  BY <1>20 DEF UndoDone, disk
<1>21. CASE UndoUnlink
  BY <1>21 DEF UndoUnlink
<1>22. CASE Crash
  BY <1>22 DEF Crash
<1>23. CASE CleanupAfterLaunch
  BY <1>23 DEF CleanupAfterLaunch, proc
<1>24. CASE UNCHANGED vars
  BY <1>24 DEF vars, disk, proc
<1> QED
  BY <1>1, <1>2, <1>3, <1>4, <1>5, <1>6, <1>7, <1>8, <1>9, <1>10, <1>11, <1>12,
     <1>13, <1>14, <1>15, <1>16, <1>17, <1>18, <1>19, <1>20, <1>21, <1>22, <1>23,
     <1>24 DEF Next

\* One step keeps the journal's part.
LEMMA JournalStep == InstallInv /\ [Next]_vars => JournalInv'
<1> SUFFICES ASSUME InstallInv, [Next]_vars PROVE JournalInv'
  OBVIOUS
<1> USE DEF InstallInv, TypeOK, PhaseInv, Undoing, JournalExists, Return, Exists,
            JournalInv, EntryInv
<1>1. CASE StartJob
  BY <1>1 DEF StartJob, disk
<1>2. CASE StartRecovery
  BY <1>2 DEF StartRecovery, disk
<1>3. CASE Recover
  BY <1>3 DEF Recover, disk
<1>4. CASE PrepareNew
  BY <1>4 DEF PrepareNew
<1>5. CASE PrepareBackup
  BY <1>5 DEF PrepareBackup
<1>6. CASE WriteJournal
  BY <1>6 DEF WriteJournal, Package, PrepareInv
<1>7. CASE PrepareFails
  BY <1>7 DEF PrepareFails
<1>8. CASE SwapFails
  BY <1>8 DEF SwapFails, disk
<1>9. CASE Commit
  BY <1>9 DEF Commit
<1>10. CASE UnlinkFails
  BY <1>10 DEF UnlinkFails, disk
<1>11. ASSUME NEW e \in Entry, SwapOut(e) PROVE JournalInv'
  <2>1. /\ oldDir' = oldDir /\ entries' = entries /\ hadOld' = hadOld
        /\ backup' = backup /\ snap' = snap /\ entries # {}
    BY <1>11 DEF SwapOut
  <2>2. cut' \subseteq hadOld
    BY <1>11 DEF SwapOut
  <2>3. ASSUME NEW f \in Entry, f # e PROVE EntryInv(f)'
    <3>1. target'[f] = target[f] /\ old'[f] = old[f] /\ (f \in cut' <=> f \in cut)
      BY <1>11, <2>3 DEF SwapOut
    <3> QED
      BY <2>1, <3>1
  <2>4. EntryInv(e)'
    BY <1>11, <2>1 DEF SwapOut, SwapInv, Unswapped, IsFirst
  <2> QED
    BY <2>1, <2>2, <2>3, <2>4
<1>12. ASSUME NEW e \in Entry, SwapIn(e) PROVE JournalInv'
  <2>1. /\ oldDir' = oldDir /\ entries' = entries /\ hadOld' = hadOld
        /\ backup' = backup /\ snap' = snap /\ entries # {}
    BY <1>12 DEF SwapIn
  <2>2. cut' \subseteq hadOld
    BY <1>12 DEF SwapIn
  <2>3. ASSUME NEW f \in Entry, f # e PROVE EntryInv(f)'
    <3>1. target'[f] = target[f] /\ old'[f] = old[f] /\ (f \in cut' <=> f \in cut)
      BY <1>12, <2>3 DEF SwapIn
    <3> QED
      BY <2>1, <3>1
  <2>4. EntryInv(e)'
    BY <1>12, <2>1 DEF SwapIn, SwapInv, IsFirst
  <2> QED
    BY <2>1, <2>2, <2>3, <2>4
<1>13. ASSUME NEW e \in Entry, RollbackClear(e) PROVE JournalInv'
  <2>1. /\ oldDir' = oldDir /\ entries' = entries /\ hadOld' = hadOld
        /\ backup' = backup /\ snap' = snap /\ entries # {}
    BY <1>13 DEF RollbackClear, proc
  <2>2. cut' \subseteq hadOld
    BY <1>13 DEF RollbackClear
  <2>3. ASSUME NEW f \in Entry, f # e PROVE EntryInv(f)'
    <3>1. target'[f] = target[f] /\ old'[f] = old[f] /\ (f \in cut' <=> f \in cut)
      BY <1>13, <2>3 DEF RollbackClear
    <3> QED
      BY <2>1, <3>1
  <2>4. EntryInv(e)'
    BY <1>13, <2>1 DEF RollbackClear, HoldsNewVersion, IsLast
  <2> QED
    BY <2>1, <2>2, <2>3, <2>4
<1>14. ASSUME NEW e \in Entry, RollbackPutBack(e) PROVE JournalInv'
  <2>1. /\ oldDir' = oldDir /\ entries' = entries /\ hadOld' = hadOld
        /\ backup' = backup /\ snap' = snap /\ entries # {}
    BY <1>14 DEF RollbackPutBack
  <2>2. cut' \subseteq hadOld
    BY <1>14 DEF RollbackPutBack
  <2>3. ASSUME NEW f \in Entry, f # e PROVE EntryInv(f)'
    <3>1. target'[f] = target[f] /\ old'[f] = old[f] /\ (f \in cut' <=> f \in cut)
      BY <1>14, <2>3 DEF RollbackPutBack
    <3> QED
      BY <2>1, <3>1
  <2>4. EntryInv(e)'
    BY <1>14, <2>1 DEF RollbackPutBack, IsLast
  <2> QED
    BY <2>1, <2>2, <2>3, <2>4
<1>15. ASSUME NEW e \in Entry, RollbackSkip(e) PROVE JournalInv'
  BY <1>15 DEF RollbackSkip, HoldsNewVersion, disk
<1>16. ASSUME NEW e \in Entry, RollbackFails(e) PROVE JournalInv'
  <2>1. /\ oldDir' = oldDir /\ entries' = entries /\ hadOld' = hadOld
        /\ backup' = backup /\ snap' = snap /\ entries # {}
    BY <1>16 DEF RollbackFails
  <2>2. cut' \subseteq hadOld
    BY <1>16 DEF RollbackFails
  <2>3. ASSUME NEW f \in Entry, f # e PROVE EntryInv(f)'
    <3>1. target'[f] = target[f] /\ old'[f] = old[f] /\ (f \in cut' <=> f \in cut)
      BY <1>16, <2>3 DEF RollbackFails
    <3> QED
      BY <2>1, <3>1
  <2>4. EntryInv(e)'
    BY <1>16, <2>1 DEF RollbackFails, HoldsNewVersion, IsLast
  <2> QED
    BY <2>1, <2>2, <2>3, <2>4
<1>17. ASSUME NEW e \in Entry, RestoreRemove(e) PROVE JournalInv'
  <2>1. /\ oldDir' = oldDir /\ entries' = entries /\ hadOld' = hadOld
        /\ backup' = backup /\ snap' = snap /\ entries # {}
    BY <1>17 DEF RestoreRemove
  <2>2. cut' \subseteq hadOld
    BY <1>17 DEF RestoreRemove, Destroys
  <2>3. ASSUME NEW f \in Entry, f # e PROVE EntryInv(f)'
    <3>1. target'[f] = target[f] /\ old'[f] = old[f] /\ (f \in cut' <=> f \in cut)
      BY <1>17, <2>3 DEF RestoreRemove, Destroys
    <3> QED
      BY <2>1, <3>1
  <2>4. EntryInv(e)'
    BY <1>17, <2>1 DEF RestoreRemove, Destroys, IsFirst
  <2> QED
    BY <2>1, <2>2, <2>3, <2>4
<1>18. ASSUME NEW e \in Entry, RestoreCopy(e) PROVE JournalInv'
  <2>1. /\ oldDir' = oldDir /\ entries' = entries /\ hadOld' = hadOld
        /\ backup' = backup /\ snap' = snap /\ entries # {}
    BY <1>18 DEF RestoreCopy
  <2>2. cut' \subseteq hadOld
    BY <1>18 DEF RestoreCopy
  <2>3. ASSUME NEW f \in Entry, f # e PROVE EntryInv(f)'
    <3>1. target'[f] = target[f] /\ old'[f] = old[f] /\ (f \in cut' <=> f \in cut)
      BY <1>18, <2>3 DEF RestoreCopy
    <3> QED
      BY <2>1, <3>1
  <2>4. EntryInv(e)'
    BY <1>18, <2>1 DEF RestoreCopy, IsFirst
  <2> QED
    BY <2>1, <2>2, <2>3, <2>4
<1>19. ASSUME NEW e \in Entry, RestoreFails(e) PROVE JournalInv'
  <2>1. /\ oldDir' = oldDir /\ entries' = entries /\ hadOld' = hadOld
        /\ backup' = backup /\ snap' = snap /\ entries # {}
    BY <1>19 DEF RestoreFails
  <2>2. cut' \subseteq hadOld
    BY <1>19 DEF RestoreFails, Tear, Destroys
  <2>3. ASSUME NEW f \in Entry, f # e PROVE EntryInv(f)'
    <3>1. target'[f] = target[f] /\ old'[f] = old[f] /\ (f \in cut' <=> f \in cut)
      BY <1>19, <2>3 DEF RestoreFails, Tear, Destroys
    <3> QED
      BY <2>1, <3>1
  <2>4. EntryInv(e)'
    BY <1>19, <2>1 DEF RestoreFails, Tear, Destroys, IsFirst
  <2> QED
    BY <2>1, <2>2, <2>3, <2>4
<1>20. CASE UndoDone
  BY <1>20 DEF UndoDone, disk
<1>21. CASE UndoUnlink
  BY <1>21 DEF UndoUnlink
<1>22. CASE Crash
  BY <1>22 DEF Crash, HoldsNewVersion, Tear, Destroys
<1>23. CASE CleanupAfterLaunch
  BY <1>23 DEF CleanupAfterLaunch, proc
<1>24. CASE UNCHANGED vars
  BY <1>24 DEF vars, disk, proc
<1> QED
  BY <1>1, <1>2, <1>3, <1>4, <1>5, <1>6, <1>7, <1>8, <1>9, <1>10, <1>11, <1>12,
     <1>13, <1>14, <1>15, <1>16, <1>17, <1>18, <1>19, <1>20, <1>21, <1>22, <1>23,
     <1>24 DEF Next

\* One step keeps what holds before the swap.
LEMMA PrepareStep == InstallInv /\ [Next]_vars => PrepareInv'
<1> SUFFICES ASSUME InstallInv, [Next]_vars PROVE PrepareInv'
  OBVIOUS
<1> USE DEF InstallInv, TypeOK, PhaseInv, Undoing, JournalExists, Return, Exists,
            PrepareInv
<1>1. CASE StartJob
  BY <1>1 DEF StartJob, disk
<1>2. CASE StartRecovery
  BY <1>2 DEF StartRecovery, disk
<1>3. CASE Recover
  BY <1>3 DEF Recover, disk
<1>4. CASE PrepareNew
  <2>1. jobs # Absent /\ Exe \in Entry /\ Internal \in Entry
    BY EntryAssumption, ContentAssumption, BoundAssumption DEF Exe, Entry
  <2>2. \A e \in Entry : old'[e] = Absent /\ new'[e] \in {jobs, Absent}
    BY <1>4 DEF PrepareNew, Nothing
  <2>3. new'[Exe] = jobs /\ new'[Internal] = jobs
    BY <1>4, <2>1 DEF PrepareNew
  <2> QED
    BY <1>4, <2>1, <2>2, <2>3 DEF PrepareNew
<1>5. CASE PrepareBackup
  <2>1. \A e \in Entry : new[e] # Absent => backup'[e] = target[e]
    BY <1>5 DEF PrepareBackup, Package
  <2> QED
    BY <1>5, <2>1 DEF PrepareBackup
<1>6. CASE WriteJournal
  BY <1>6 DEF WriteJournal, Package
<1>7. CASE PrepareFails
  BY <1>7 DEF PrepareFails
<1>8. CASE SwapFails
  BY <1>8 DEF SwapFails, disk
<1>9. CASE Commit
  BY <1>9 DEF Commit
<1>10. CASE UnlinkFails
  BY <1>10 DEF UnlinkFails, disk
<1>11. ASSUME NEW e \in Entry, SwapOut(e) PROVE PrepareInv'
  BY <1>11 DEF SwapOut
<1>12. ASSUME NEW e \in Entry, SwapIn(e) PROVE PrepareInv'
  BY <1>12 DEF SwapIn
<1>13. ASSUME NEW e \in Entry, RollbackClear(e) PROVE PrepareInv'
  BY <1>13 DEF RollbackClear, HoldsNewVersion, proc
<1>14. ASSUME NEW e \in Entry, RollbackPutBack(e) PROVE PrepareInv'
  BY <1>14 DEF RollbackPutBack
<1>15. ASSUME NEW e \in Entry, RollbackSkip(e) PROVE PrepareInv'
  BY <1>15 DEF RollbackSkip, HoldsNewVersion, disk
<1>16. ASSUME NEW e \in Entry, RollbackFails(e) PROVE PrepareInv'
  BY <1>16 DEF RollbackFails, HoldsNewVersion
<1>17. ASSUME NEW e \in Entry, RestoreRemove(e) PROVE PrepareInv'
  BY <1>17 DEF RestoreRemove, Destroys
<1>18. ASSUME NEW e \in Entry, RestoreCopy(e) PROVE PrepareInv'
  BY <1>18 DEF RestoreCopy
<1>19. ASSUME NEW e \in Entry, RestoreFails(e) PROVE PrepareInv'
  BY <1>19 DEF RestoreFails, Tear, Destroys
<1>20. CASE UndoDone
  BY <1>20 DEF UndoDone, disk
<1>21. CASE UndoUnlink
  BY <1>21 DEF UndoUnlink
<1>22. CASE Crash
  BY <1>22 DEF Crash, HoldsNewVersion, Tear, Destroys
<1>23. CASE CleanupAfterLaunch
  BY <1>23 DEF CleanupAfterLaunch, proc
<1>24. CASE UNCHANGED vars
  BY <1>24 DEF vars, disk, proc
<1> QED
  BY <1>1, <1>2, <1>3, <1>4, <1>5, <1>6, <1>7, <1>8, <1>9, <1>10, <1>11, <1>12,
     <1>13, <1>14, <1>15, <1>16, <1>17, <1>18, <1>19, <1>20, <1>21, <1>22, <1>23,
     <1>24 DEF Next

\* One step keeps what holds during the swap.
LEMMA SwapStep == InstallInv /\ [Next]_vars => SwapInv'
<1> SUFFICES ASSUME InstallInv, [Next]_vars PROVE SwapInv'
  OBVIOUS
<1> USE DEF InstallInv, TypeOK, PhaseInv, Undoing, JournalExists, Return, Exists,
            PrepareInv, JournalInv, EntryInv, SwapInv, Swapped, Unswapped, IsFirst
<1>1. CASE StartJob
  BY <1>1 DEF StartJob, disk
<1>2. CASE StartRecovery
  BY <1>2 DEF StartRecovery, disk
<1>3. CASE Recover
  BY <1>3 DEF Recover, disk
<1>4. CASE PrepareNew
  BY <1>4 DEF PrepareNew
<1>5. CASE PrepareBackup
  BY <1>5 DEF PrepareBackup
<1>6. CASE WriteJournal
  <2>1. Exe \in Package /\ Internal \in Package
    BY <1>6, EntryAssumption DEF WriteJournal, Package, Exe, Entry
  <2>2. \A e \in Package : new[e] = jobs
    BY <1>6 DEF WriteJournal, Package
  <2> QED
    BY <1>6, <2>1, <2>2 DEF WriteJournal
<1>7. CASE PrepareFails
  BY <1>7 DEF PrepareFails
<1>8. CASE SwapFails
  BY <1>8 DEF SwapFails, disk
<1>9. CASE Commit
  BY <1>9 DEF Commit
<1>10. CASE UnlinkFails
  BY <1>10 DEF UnlinkFails, disk
<1>11. ASSUME NEW e \in Entry, SwapOut(e) PROVE SwapInv'
  <2>1. \A f \in Entry \ {e} : target'[f] = target[f] /\ old'[f] = old[f]
    BY <1>11 DEF SwapOut
  <2>2. old'[e] = snap[e]
    BY <1>11 DEF SwapOut
  <2>3. \A f \in todo : IsFirst(f) => f = e
    BY <1>11, OneFirst DEF SwapOut
  <2> QED
    BY <1>11, <2>1, <2>2, <2>3 DEF SwapOut
<1>12. ASSUME NEW e \in Entry, SwapIn(e) PROVE SwapInv'
  <2>1. \A f \in Entry \ {e} : target'[f] = target[f] /\ new'[f] = new[f]
    BY <1>12 DEF SwapIn
  <2>2. target'[e] = jobs /\ (e \in hadOld => old[e] = snap[e])
    BY <1>12 DEF SwapIn
  <2>3. \A f \in todo : IsFirst(f) => f = e
    BY <1>12, OneFirst DEF SwapIn
  <2> QED
    BY <1>12, <2>1, <2>2, <2>3 DEF SwapIn
<1>13. ASSUME NEW e \in Entry, RollbackClear(e) PROVE SwapInv'
  BY <1>13 DEF RollbackClear, HoldsNewVersion, proc
<1>14. ASSUME NEW e \in Entry, RollbackPutBack(e) PROVE SwapInv'
  BY <1>14 DEF RollbackPutBack
<1>15. ASSUME NEW e \in Entry, RollbackSkip(e) PROVE SwapInv'
  BY <1>15 DEF RollbackSkip, HoldsNewVersion, disk
<1>16. ASSUME NEW e \in Entry, RollbackFails(e) PROVE SwapInv'
  BY <1>16 DEF RollbackFails, HoldsNewVersion
<1>17. ASSUME NEW e \in Entry, RestoreRemove(e) PROVE SwapInv'
  BY <1>17 DEF RestoreRemove, Destroys
<1>18. ASSUME NEW e \in Entry, RestoreCopy(e) PROVE SwapInv'
  BY <1>18 DEF RestoreCopy
<1>19. ASSUME NEW e \in Entry, RestoreFails(e) PROVE SwapInv'
  BY <1>19 DEF RestoreFails, Tear, Destroys
<1>20. CASE UndoDone
  BY <1>20 DEF UndoDone, disk
<1>21. CASE UndoUnlink
  BY <1>21 DEF UndoUnlink
<1>22. CASE Crash
  BY <1>22 DEF Crash, HoldsNewVersion, Tear, Destroys
<1>23. CASE CleanupAfterLaunch
  BY <1>23 DEF CleanupAfterLaunch, proc
<1>24. CASE UNCHANGED vars
  BY <1>24 DEF vars, disk, proc
<1> QED
  BY <1>1, <1>2, <1>3, <1>4, <1>5, <1>6, <1>7, <1>8, <1>9, <1>10, <1>11, <1>12,
     <1>13, <1>14, <1>15, <1>16, <1>17, <1>18, <1>19, <1>20, <1>21, <1>22, <1>23,
     <1>24 DEF Next

\* One step keeps what holds while a swap is undone.
LEMMA UndoStep == InstallInv /\ [Next]_vars => UndoInv'
<1> SUFFICES ASSUME InstallInv, [Next]_vars PROVE UndoInv'
  OBVIOUS
<1> USE DEF InstallInv, TypeOK, PhaseInv, Undoing, JournalExists, Return, Exists,
            JournalInv, EntryInv, UndoInv
<1>1. CASE StartJob
  BY <1>1 DEF StartJob, disk
<1>2. CASE StartRecovery
  BY <1>2 DEF StartRecovery, disk
<1>3. CASE Recover
  BY <1>3 DEF Recover, disk
<1>4. CASE PrepareNew
  BY <1>4 DEF PrepareNew
<1>5. CASE PrepareBackup
  BY <1>5 DEF PrepareBackup
<1>6. CASE WriteJournal
  BY <1>6 DEF WriteJournal, Package
<1>7. CASE PrepareFails
  BY <1>7 DEF PrepareFails
<1>8. CASE SwapFails
  BY <1>8 DEF SwapFails, disk
<1>9. CASE Commit
  BY <1>9 DEF Commit
<1>10. CASE UnlinkFails
  BY <1>10 DEF UnlinkFails, disk
<1>11. ASSUME NEW e \in Entry, SwapOut(e) PROVE UndoInv'
  BY <1>11 DEF SwapOut
<1>12. ASSUME NEW e \in Entry, SwapIn(e) PROVE UndoInv'
  BY <1>12 DEF SwapIn
<1>13. ASSUME NEW e \in Entry, RollbackClear(e) PROVE UndoInv'
  BY <1>13 DEF RollbackClear, HoldsNewVersion, proc, IsLast
<1>14. ASSUME NEW e \in Entry, RollbackPutBack(e) PROVE UndoInv'
  BY <1>14 DEF RollbackPutBack, IsLast
<1>15. ASSUME NEW e \in Entry, RollbackSkip(e) PROVE UndoInv'
  BY <1>15 DEF RollbackSkip, HoldsNewVersion, disk, IsLast
<1>16. ASSUME NEW e \in Entry, RollbackFails(e) PROVE UndoInv'
  BY <1>16 DEF RollbackFails, HoldsNewVersion, IsLast
<1>17. ASSUME NEW e \in Entry, RestoreRemove(e) PROVE UndoInv'
  <2>1. \A f \in Entry \ {e} : target'[f] = target[f]
    BY <1>17 DEF RestoreRemove
  <2>2. target'[e] = Absent
    BY <1>17 DEF RestoreRemove
  <2>3. \A f \in todo : IsFirst(f) => f = e
    BY <1>17, EntryAssumption DEF RestoreRemove, IsFirst, Entry
  <2>4. pc' \in {"restore", "copy"} /\ entries' = entries /\ hadOld' = hadOld
    BY <1>17 DEF RestoreRemove
  <2>5. CASE e \in hadOld
    BY <1>17, <2>1, <2>3, <2>4, <2>5 DEF RestoreRemove, IsFirst
  <2>6. CASE e \notin hadOld
    BY <1>17, <2>1, <2>2, <2>4, <2>6 DEF RestoreRemove
  <2> QED
    BY <2>5, <2>6
<1>18. ASSUME NEW e \in Entry, RestoreCopy(e) PROVE UndoInv'
  BY <1>18 DEF RestoreCopy, IsFirst
<1>19. ASSUME NEW e \in Entry, RestoreFails(e) PROVE UndoInv'
  BY <1>19 DEF RestoreFails, Tear, Destroys
<1>20. CASE UndoDone
  BY <1>20 DEF UndoDone, disk
<1>21. CASE UndoUnlink
  BY <1>21 DEF UndoUnlink
<1>22. CASE Crash
  BY <1>22 DEF Crash, HoldsNewVersion, Tear, Destroys
<1>23. CASE CleanupAfterLaunch
  BY <1>23 DEF CleanupAfterLaunch, proc
<1>24. CASE UNCHANGED vars
  <2>1. /\ target' = target /\ snap' = snap /\ cut' = cut
        /\ pc' = pc /\ entries' = entries /\ hadOld' = hadOld /\ todo' = todo
    BY <1>24 DEF vars, disk, proc
  <2> QED
    BY <2>1 DEF IsFirst
<1> QED
  BY <1>1, <1>2, <1>3, <1>4, <1>5, <1>6, <1>7, <1>8, <1>9, <1>10, <1>11, <1>12,
     <1>13, <1>14, <1>15, <1>16, <1>17, <1>18, <1>19, <1>20, <1>21, <1>22, <1>23,
     <1>24 DEF Next

\* One step keeps what was restored restored.
LEMMA UndoneStep == InstallInv /\ [Next]_vars => UndoneIsRestored'
<1> SUFFICES ASSUME InstallInv, [Next]_vars PROVE UndoneIsRestored'
  OBVIOUS
<1> USE DEF InstallInv, TypeOK, PhaseInv, Undoing, JournalExists, Return, Exists,
            JournalInv, EntryInv, UndoInv, UndoneIsRestored
<1>1. CASE StartJob
  BY <1>1 DEF StartJob, disk
<1>2. CASE StartRecovery
  BY <1>2 DEF StartRecovery, disk
<1>3. CASE Recover
  BY <1>3 DEF Recover, disk
<1>4. CASE PrepareNew
  BY <1>4 DEF PrepareNew
<1>5. CASE PrepareBackup
  BY <1>5 DEF PrepareBackup
<1>6. CASE WriteJournal
  BY <1>6 DEF WriteJournal, Package
<1>7. CASE PrepareFails
  BY <1>7 DEF PrepareFails
<1>8. CASE SwapFails
  BY <1>8 DEF SwapFails, disk
<1>9. CASE Commit
  BY <1>9 DEF Commit
<1>10. CASE UnlinkFails
  BY <1>10 DEF UnlinkFails, disk
<1>11. ASSUME NEW e \in Entry, SwapOut(e) PROVE UndoneIsRestored'
  BY <1>11 DEF SwapOut
<1>12. ASSUME NEW e \in Entry, SwapIn(e) PROVE UndoneIsRestored'
  BY <1>12 DEF SwapIn
<1>13. ASSUME NEW e \in Entry, RollbackClear(e) PROVE UndoneIsRestored'
  BY <1>13 DEF RollbackClear, HoldsNewVersion, proc
<1>14. ASSUME NEW e \in Entry, RollbackPutBack(e) PROVE UndoneIsRestored'
  BY <1>14 DEF RollbackPutBack
<1>15. ASSUME NEW e \in Entry, RollbackSkip(e) PROVE UndoneIsRestored'
  BY <1>15 DEF RollbackSkip, HoldsNewVersion, disk
<1>16. ASSUME NEW e \in Entry, RollbackFails(e) PROVE UndoneIsRestored'
  BY <1>16 DEF RollbackFails, HoldsNewVersion
<1>17. ASSUME NEW e \in Entry, RestoreRemove(e) PROVE UndoneIsRestored'
  BY <1>17 DEF RestoreRemove, Destroys
<1>18. ASSUME NEW e \in Entry, RestoreCopy(e) PROVE UndoneIsRestored'
  BY <1>18 DEF RestoreCopy
<1>19. ASSUME NEW e \in Entry, RestoreFails(e) PROVE UndoneIsRestored'
  BY <1>19 DEF RestoreFails, Tear, Destroys
<1>20. CASE UndoDone
  BY <1>20 DEF UndoDone, disk
<1>21. CASE UndoUnlink
  BY <1>21 DEF UndoUnlink
<1>22. CASE Crash
  BY <1>22 DEF Crash, HoldsNewVersion, Tear, Destroys
<1>23. CASE CleanupAfterLaunch
  BY <1>23 DEF CleanupAfterLaunch, proc
<1>24. CASE UNCHANGED vars
  <2>1. /\ target' = target /\ snap' = snap /\ cut' = cut
        /\ pc' = pc /\ outcome' = outcome
    BY <1>24 DEF vars, disk, proc
  <2> QED
    BY <2>1
<1> QED
  BY <1>1, <1>2, <1>3, <1>4, <1>5, <1>6, <1>7, <1>8, <1>9, <1>10, <1>11, <1>12,
     <1>13, <1>14, <1>15, <1>16, <1>17, <1>18, <1>19, <1>20, <1>21, <1>22, <1>23,
     <1>24 DEF Next

\* The invariant is an invariant.
LEMMA NextInstallInv == Spec => []InstallInv
<1>1. InstallInv /\ [Next]_vars => InstallInv'
  BY TypeStep, PhaseStep, PrepareStep, JournalStep, SwapStep, UndoStep, UndoneStep
     DEF InstallInv
<1> QED
  BY <1>1, InitInstallInv, PTL DEF Spec

-----------------------------------------------------------------------------

\* Type correctness of the update transaction.
THEOREM TypeCorrect == Spec => []TypeOK
<1>1. InstallInv => TypeOK
  BY DEF InstallInv
<1> QED
  BY <1>1, NextInstallInv, PTL

\* prepare and swap never replace a backup that a journal still refers to: undo
\* always finds the pre-swap version of every entry in it.
THEOREM BackupStaysIntact == Spec => []BackupIsIntact
<1>1. InstallInv => BackupIsIntact
  BY DEF InstallInv, TypeOK, JournalInv, EntryInv, BackupIsIntact, Exists
<1> QED
  BY <1>1, NextInstallInv, PTL

\* recover_interrupted_install recognizes every journal that swap wrote.
THEOREM JournalStaysRecognized == Spec => []JournalIsRecognized
<1>1. InstallInv => JournalIsRecognized
  BY DEF InstallInv, JournalInv, JournalIsRecognized
<1> QED
  BY <1>1, NextInstallInv, PTL

\* However the updater dies, the pre-swap version of every entry is still in the
\* install root or in .update-old, unless a backup restore was cut short there.
THEOREM NothingGetsLost == Spec => []NothingIsLost
<1>1. InstallInv => NothingIsLost
  BY DEF InstallInv, TypeOK, JournalInv, EntryInv, NothingIsLost, Exists
<1> QED
  BY <1>1, NextInstallInv, PTL

\* An install reported restored or recovered is the one from before the swap.
THEOREM UndoneStaysRestored == Spec => []UndoneIsRestored
<1>1. InstallInv => UndoneIsRestored
  BY DEF InstallInv
<1> QED
  BY <1>1, NextInstallInv, PTL

-----------------------------------------------------------------------------
(* The life of a journal, seen from outside.                                *)

JournalLife ==
    \/ JournalExists /\ entries' = entries /\ snap' = snap
    \/ ~JournalExists /\ ~JournalExists' /\ target' = target
    \/ WriteJournal
    \/ Commit
    \/ UndoUnlink

\* Only three actions write or remove the journal; without one, no step touches
\* the install.
LEMMA JournalLifecycle == InstallInv /\ [Next]_vars => JournalLife
<1> SUFFICES ASSUME InstallInv, [Next]_vars PROVE JournalLife
  OBVIOUS
<1> USE DEF InstallInv, PhaseInv, Undoing, JournalExists, Return, JournalLife
<1>1. CASE StartJob
  BY <1>1 DEF StartJob, disk
<1>2. CASE StartRecovery
  BY <1>2 DEF StartRecovery, disk
<1>3. CASE Recover
  BY <1>3 DEF Recover, disk
<1>4. CASE PrepareNew
  BY <1>4 DEF PrepareNew
<1>5. CASE PrepareBackup
  BY <1>5 DEF PrepareBackup
<1>6. CASE WriteJournal
  BY <1>6 DEF WriteJournal, Package
<1>7. CASE PrepareFails
  BY <1>7 DEF PrepareFails
<1>8. CASE SwapFails
  BY <1>8 DEF SwapFails, disk
<1>9. CASE Commit
  BY <1>9 DEF Commit
<1>10. CASE UnlinkFails
  BY <1>10 DEF UnlinkFails, disk
<1>11. ASSUME NEW e \in Entry, SwapOut(e) PROVE JournalLife
  BY <1>11 DEF SwapOut
<1>12. ASSUME NEW e \in Entry, SwapIn(e) PROVE JournalLife
  BY <1>12 DEF SwapIn
<1>13. ASSUME NEW e \in Entry, RollbackClear(e) PROVE JournalLife
  BY <1>13 DEF RollbackClear, HoldsNewVersion, proc
<1>14. ASSUME NEW e \in Entry, RollbackPutBack(e) PROVE JournalLife
  BY <1>14 DEF RollbackPutBack
<1>15. ASSUME NEW e \in Entry, RollbackSkip(e) PROVE JournalLife
  BY <1>15 DEF RollbackSkip, HoldsNewVersion, disk
<1>16. ASSUME NEW e \in Entry, RollbackFails(e) PROVE JournalLife
  BY <1>16 DEF RollbackFails, HoldsNewVersion
<1>17. ASSUME NEW e \in Entry, RestoreRemove(e) PROVE JournalLife
  BY <1>17 DEF RestoreRemove, Destroys
<1>18. ASSUME NEW e \in Entry, RestoreCopy(e) PROVE JournalLife
  BY <1>18 DEF RestoreCopy
<1>19. ASSUME NEW e \in Entry, RestoreFails(e) PROVE JournalLife
  BY <1>19 DEF RestoreFails, Tear, Destroys
<1>20. CASE UndoDone
  BY <1>20 DEF UndoDone, disk
<1>21. CASE UndoUnlink
  BY <1>21 DEF UndoUnlink
<1>22. CASE Crash
  BY <1>22 DEF Crash, HoldsNewVersion, Tear, Destroys
<1>23. CASE CleanupAfterLaunch
  BY <1>23 DEF CleanupAfterLaunch, proc
<1>24. CASE UNCHANGED vars
  BY <1>24 DEF vars, disk, proc
<1> QED
  BY <1>1, <1>2, <1>3, <1>4, <1>5, <1>6, <1>7, <1>8, <1>9, <1>10, <1>11, <1>12,
     <1>13, <1>14, <1>15, <1>16, <1>17, <1>18, <1>19, <1>20, <1>21, <1>22, <1>23,
     <1>24 DEF Next

\* The commit point is reached only with the whole package in place.
THEOREM CommitStaysComplete == Spec => CommitIsComplete
<1>1. InstallInv /\ [Next]_vars => CommitsWholePackage
  <2> SUFFICES ASSUME InstallInv, [Next]_vars,
                      JournalExists, ~JournalExists', outcome' = "success"
               PROVE  /\ target = [e \in Entry |->
                                      IF e \in entries THEN jobs ELSE snap[e]]
                      /\ target' = target
    BY DEF CommitsWholePackage
  <2>1. Commit
    BY JournalLifecycle
       DEF JournalLife, JournalExists, WriteJournal, UndoUnlink, Return,
           InstallInv, PhaseInv
  <2>2. \A e \in Entry : target[e] = IF e \in entries THEN jobs ELSE snap[e]
    BY <2>1 DEF Commit, InstallInv, SwapInv, Swapped, JournalInv, EntryInv
  <2>3. target \in [Entry -> Content] /\ target' = target
    BY <2>1 DEF Commit, InstallInv, TypeOK
  <2> QED
    BY <2>2, <2>3
<1> QED
  BY <1>1, NextInstallInv, PTL DEF Spec, CommitIsComplete

-----------------------------------------------------------------------------
(* Refinement: the update is one step of AtomicInstall.                     *)

installed == IF JournalExists THEN snap ELSE target
atRisk == IF JournalExists THEN cut ELSE {}

\* The initial states of the transaction are those of the atomic update.
LEMMA InitRefines == Init => Atomic!Init
<1> SUFFICES ASSUME Init PROVE Atomic!Init
  OBVIOUS
<1>1. ~JournalExists
  BY DEF Init, JournalExists
<1>2. target \in [Entry -> {0, Absent}]
  BY DEF Init
<1> QED
  BY <1>1, <1>2 DEF Atomic!Init, Atomic!Entry, Entry

\* Every step is an atomic one, or changes nothing the abstraction sees.
LEMMA StepRefines ==
    InstallInv /\ InstallInv' /\ [Next]_vars
      => [Atomic!Next]_<<installed, atRisk>>
<1> SUFFICES ASSUME InstallInv, InstallInv', [Next]_vars
             PROVE  Atomic!Next \/ (installed' = installed /\ atRisk' = atRisk)
  OBVIOUS
<1> USE DEF installed, atRisk, JournalExists
<1>1. CASE JournalExists /\ entries' = entries /\ snap' = snap
  BY <1>1 DEF Atomic!Next, Atomic!Expose, Atomic!Entry, Entry, InstallInv, TypeOK
<1>2. CASE ~JournalExists /\ ~JournalExists' /\ target' = target
  BY <1>2
<1>3. CASE WriteJournal
  <2>1. ~JournalExists
    BY <1>3 DEF WriteJournal, InstallInv, PhaseInv
  <2>2. JournalExists'
    BY <1>3 DEF WriteJournal, InstallInv, PhaseInv
  <2> QED
    BY <1>3, <2>1, <2>2 DEF WriteJournal
<1>4. CASE Commit
  <2>1. JournalExists /\ ~JournalExists' /\ cut = {}
    BY <1>4 DEF Commit, InstallInv, PhaseInv, SwapInv
  <2>2. \A e \in Entry : target[e] = IF e \in entries THEN jobs ELSE snap[e]
    BY <1>4 DEF Commit, InstallInv, SwapInv, Swapped, JournalInv, EntryInv
  <2>3. target' = [e \in Entry |-> IF e \in entries THEN jobs ELSE snap[e]]
    BY <1>4, <2>2 DEF Commit, InstallInv, TypeOK
  <2>4. jobs \in Atomic!Version \ {0}
    BY <1>4 DEF Commit, InstallInv, PrepareInv, TypeOK, Atomic!Version
  <2>5. entries \in SUBSET Entry /\ {NumEntries, Internal} \subseteq entries
    BY <1>4 DEF Commit, InstallInv, SwapInv, TypeOK, Exe
  <2>6. Atomic!Upgrade
    BY <2>1, <2>3, <2>4, <2>5 DEF Atomic!Upgrade, Atomic!Entry, Entry
  <2> QED
    BY <2>6 DEF Atomic!Next
<1>5. CASE UndoUnlink
  <2>1. JournalExists /\ ~JournalExists' /\ target' = target
    BY <1>5 DEF UndoUnlink, InstallInv, PhaseInv, Undoing
  <2>2. \A e \in Entry \ cut : target[e] = snap[e]
    BY <1>5, <2>1 DEF UndoUnlink, InstallInv, UndoInv, JournalInv, EntryInv
  <2>3. target \in [Atomic!Entry -> Atomic!Content]
    BY DEF InstallInv, TypeOK, Atomic!Entry, Atomic!Content, Atomic!Version,
           Entry, Content, Version
  <2>4. Atomic!Settle
    BY <2>1, <2>2, <2>3 DEF Atomic!Settle, Atomic!Entry, Entry
  <2> QED
    BY <2>4 DEF Atomic!Next
<1> QED
  BY <1>1, <1>2, <1>3, <1>4, <1>5, JournalLifecycle DEF JournalLife

\* An update, with all its faults, crashes and recoveries, is atomic.
THEOREM ImplementsAtomic == Spec => ImplementsAtomicInstall
  BY InitRefines, StepRefines, NextInstallInv, PTL
     DEF Spec, ImplementsAtomicInstall, Atomic!Spec, installed, atRisk

-----------------------------------------------------------------------------
(* What UpdaterProcess takes from this module.                              *)

\* A job brings what was never installed: nothing in the install, or in the install
\* when the journal was written, is as new as the job that is running.
AgeInv ==
    /\ \A e \in Entry :
          /\ target[e] \in Version => target[e] <= jobs
          /\ snap[e] \in Version => snap[e] <= jobs
          /\ caller = "job" => target[e] # jobs /\ snap[e] # jobs
          /\ pc \in {"swap", "swapIn"} => snap[e] # jobs
    /\ pc \in {"prepare", "backup", "journal"} => caller = "job"
    /\ pc \in {"swap", "swapIn"} => caller = "install"

LEMMA InitAgeInv == Init => AgeInv
  BY ContentAssumption, BoundAssumption DEF Init, AgeInv, Version, Exists

\* One step keeps the ages.
LEMMA AgeStep == InstallInv /\ AgeInv /\ [Next]_vars => AgeInv'
<1> SUFFICES ASSUME InstallInv, AgeInv, [Next]_vars PROVE AgeInv'
  OBVIOUS
<1> USE DEF AgeInv, Return
<1>a. /\ jobs \in Nat /\ Version \subseteq Nat
      /\ Absent \notin Nat /\ Torn \notin Nat
  BY BoundAssumption, ContentAssumption DEF InstallInv, TypeOK, Version
<1>b. target \in [Entry -> Content] /\ snap \in [Entry -> Content]
  BY DEF InstallInv, TypeOK
<1>c. JournalExists => \A e \in hadOld : backup[e] = snap[e] /\ old[e] \in {snap[e], Absent}
  BY DEF InstallInv, TypeOK, JournalInv, EntryInv
<1>d. JournalExists => \A e \in Entry \ hadOld : old[e] = Absent \/ e \notin entries
  BY DEF InstallInv, JournalInv, EntryInv
<1>e. pc \in Undoing \cup {"swap", "swapIn"} => JournalExists /\ todo \subseteq entries
  BY DEF InstallInv, PhaseInv
<1>1. CASE StartJob
  <2>1. /\ target' = target /\ snap' = snap /\ jobs' = jobs + 1
        /\ pc' \notin {"swap", "swapIn"} /\ caller' = "job"
    BY <1>1 DEF StartJob, disk
  <2>2. ASSUME NEW e \in Entry, NEW c \in Content, c \in Version => c <= jobs
        PROVE  (c \in Version => c <= jobs + 1) /\ c # jobs + 1
    BY <2>2, <1>a DEF Content
  <2> QED
    BY <2>1, <2>2, <1>b
<1>2. CASE StartRecovery \/ Recover \/ SwapFails \/ UnlinkFails \/ UndoDone
  BY <1>2 DEF StartRecovery, Recover, SwapFails, UnlinkFails, UndoDone, disk
<1>3. CASE PrepareNew \/ PrepareBackup \/ PrepareFails \/ CleanupAfterLaunch
  BY <1>3 DEF PrepareNew, PrepareBackup, PrepareFails, CleanupAfterLaunch, proc
<1>4. CASE WriteJournal
  BY <1>4 DEF WriteJournal
<1>5. CASE Commit \/ UndoUnlink
  BY <1>5 DEF Commit, UndoUnlink
<1>6. ASSUME NEW e \in Entry, SwapOut(e) PROVE AgeInv'
  BY <1>6, <1>a, <1>b DEF SwapOut
<1>7. ASSUME NEW e \in Entry, SwapIn(e) PROVE AgeInv'
  <2>1. new[e] = jobs /\ caller # "job"
    BY <1>7 DEF SwapIn, IsFirst, InstallInv, SwapInv, Unswapped
  <2> QED
    BY <1>7, <2>1, <1>a, <1>b DEF SwapIn
<1>8. ASSUME NEW e \in Entry, RollbackClear(e) PROVE AgeInv'
  BY <1>8, <1>a, <1>b DEF RollbackClear, proc
<1>9. ASSUME NEW e \in Entry, RollbackPutBack(e) PROVE AgeInv'
  <2>1. e \in entries /\ old[e] = snap[e]
    BY <1>9, <1>c, <1>d, <1>e DEF RollbackPutBack, IsLast, Exists, Undoing
  <2> QED
    BY <1>9, <2>1, <1>b DEF RollbackPutBack
<1>10. ASSUME NEW e \in Entry, RollbackSkip(e) \/ RollbackFails(e) PROVE AgeInv'
  BY <1>10, <1>a, <1>b DEF RollbackSkip, RollbackFails, disk, Version
<1>11. ASSUME NEW e \in Entry, RestoreRemove(e) PROVE AgeInv'
  BY <1>11, <1>a, <1>b DEF RestoreRemove
<1>12. ASSUME NEW e \in Entry, RestoreCopy(e) PROVE AgeInv'
  <2>1. backup[e] = snap[e]
    BY <1>12, <1>c, <1>e DEF RestoreCopy, InstallInv, UndoInv, Undoing, IsFirst
  <2> QED
    BY <1>12, <2>1, <1>b DEF RestoreCopy
<1>13. ASSUME NEW e \in Entry, RestoreFails(e) PROVE AgeInv'
  BY <1>13, <1>a, <1>b DEF RestoreFails, Tear
<1>14. CASE Crash
  BY <1>14, <1>a, <1>b DEF Crash, Tear
<1>15. CASE UNCHANGED vars
  BY <1>15 DEF vars, disk, proc
<1> QED
  BY <1>1, <1>2, <1>3, <1>4, <1>5, <1>6, <1>7, <1>8, <1>9, <1>10, <1>11, <1>12,
     <1>13, <1>14, <1>15 DEF Next

\* Seen from UpdaterProcess: nothing happens ...
LEMMA SwapStutters ==
    ASSUME UNCHANGED <<entries, oldDir, target, snap, cut>>,
           StepOfSwap' = "commit" => StepOfSwap = "commit"
    PROVE  Swap!UnderJournal
BY DEF Swap!UnderJournal, Swap!root, JournalExists, SwappedIn, PutBack

\* ... or the install is in between, and stays undone in part.
LEMMA SwapIsInBetween ==
    ASSUME JournalExists, oldDir, UNCHANGED <<entries, oldDir>>, ~SwappedIn',
           StepOfSwap \in {"rewind", "swapping"}, StepOfSwap' # "commit"
    PROVE  Swap!UnderJournal
<1>1. JournalExists' /\ JournalExists' = JournalExists
  BY DEF JournalExists
<1> QED
  BY <1>1 DEF Swap!UnderJournal, Swap!UndoCutShort

\* An entry that is not the new version leaves the install in between.
LEMMA NotSwappedIn ==
    ASSUME InstallInv, NEW e \in entries', target'[e] \in {snap'[e], Absent, Torn}
    PROVE  ~SwappedIn'
  BY ContentAssumption, BoundAssumption DEF SwappedIn, Version

\* The last rename of the swap, or an earlier one.
LEMMA SwapInIsMoveIn ==
    ASSUME InstallInv, InstallInv', AgeInv', NEW e \in Entry, SwapIn(e)
    PROVE  Swap!UnderJournal
<1>1. /\ JournalExists /\ oldDir /\ cut = {} /\ e \in todo /\ pc' = "swap"
      /\ UNCHANGED <<entries, oldDir, snap, cut>>
  BY DEF SwapIn, IsFirst, InstallInv, PhaseInv, JournalInv, SwapInv
<1>2. StepOfSwap = "swapping"
  BY <1>1 DEF SwapIn, StepOfSwap
<1>3. JournalExists' /\ JournalExists' = JournalExists
  BY <1>1 DEF JournalExists
<1>4. CASE todo' = {}
  <2>1. StepOfSwap' = "commit"
    BY <1>1, <1>4 DEF StepOfSwap
  <2>2. \A f \in entries' : f \in Entry /\ target'[f] = jobs' /\ jobs' # snap'[f]
    BY <1>1, <1>4 DEF InstallInv, TypeOK, SwapInv, Swapped, AgeInv
  <2>3. jobs' \in Version
    BY DEF InstallInv, TypeOK, Version
  <2>4. SwappedIn'
    BY <2>2, <2>3 DEF SwappedIn
  <2>5. Swap!MoveIn
    BY <1>1, <1>3, <2>4 DEF Swap!MoveIn
  <2> QED
    BY <1>2, <2>1, <2>5 DEF Swap!UnderJournal
<1>5. CASE todo' # {}
  <2>1. PICK f \in todo' : target'[f] = snap'[f]
    BY <1>1, <1>5 DEF InstallInv, SwapInv, Unswapped
  <2>2. f \in entries'
    BY <2>1 DEF InstallInv, PhaseInv
  <2>3. ~SwappedIn'
    BY <2>1, <2>2, NotSwappedIn
  <2>4. StepOfSwap' = "swapping"
    BY <1>1, <1>5 DEF StepOfSwap
  <2> QED
    BY <1>1, <1>2, <2>3, <2>4, SwapIsInBetween
<1> QED
  BY <1>4, <1>5

\* The journal is unlinked over a complete swap ...
LEMMA CommitIsUnlink ==
    ASSUME InstallInv, AgeInv, Commit PROVE Swap!UnderJournal
<1>1. /\ JournalExists /\ ~JournalExists' /\ StepOfSwap = "commit" /\ cut = {}
      /\ UNCHANGED <<target, oldDir, snap, cut>>
  BY DEF Commit, InstallInv, PhaseInv, SwapInv, JournalExists, StepOfSwap
<1>2. \A e \in entries : e \in Entry /\ target[e] = jobs /\ jobs # snap[e]
  BY DEF Commit, InstallInv, TypeOK, SwapInv, Swapped, AgeInv
<1>3. jobs \in Version /\ Exe \in entries
  BY DEF Commit, InstallInv, TypeOK, SwapInv, Version
<1>4. SwappedIn /\ ~PutBack'
  BY <1>1, <1>2, <1>3 DEF SwappedIn, PutBack
<1>5. Swap!Unlink
  <2>1. JournalExists' = FALSE /\ JournalExists = TRUE
    BY <1>1 DEF JournalExists
  <2>2. (cut' # {}) = (cut # {})
    BY <1>1
  <2>3. (cut' # {}) \in {cut # {}, FALSE}
    BY <2>2
  <2> QED
    BY <1>1, <1>4, <2>1, <2>3 DEF Swap!Unlink, Swap!NoTree
<1> QED
  BY <1>1, <1>4, <1>5 DEF Swap!UnderJournal

\* ... or after an undo.
LEMMA UndoUnlinkIsUndo ==
    ASSUME InstallInv, UndoUnlink PROVE Swap!UnderJournal
<1>1. /\ JournalExists /\ ~JournalExists' /\ oldDir /\ StepOfSwap = "rewind"
      /\ UNCHANGED <<target, snap, cut>> /\ oldDir' \in {oldDir, FALSE}
      /\ StepOfSwap' # "commit"
  BY DEF UndoUnlink, InstallInv, PhaseInv, JournalInv, JournalExists, StepOfSwap,
         Return, Undoing
<1>2. PutBack'
  BY <1>1 DEF UndoUnlink, PutBack, InstallInv, UndoInv, JournalInv, EntryInv
<1>3. Swap!Undo
  <2>1. JournalExists' = FALSE /\ JournalExists = TRUE
    BY <1>1 DEF JournalExists
  <2>2. (cut' # {}) = (cut # {})
    BY <1>1
  <2>3. (cut' # {}) \in {cut # {}, FALSE}
    BY <2>2
  <2>4. (IF oldDir' THEN 1 ELSE 0) \in {0, IF oldDir THEN 1 ELSE 0}
    BY <1>1
  <2>5. /\ (IF JournalExists THEN (IF SwappedIn THEN 2 ELSE 0)
                             ELSE (IF PutBack THEN 1 ELSE 2))' = 1
        /\ 1 \in {IF oldDir THEN 1 ELSE 0, 1} \ {0}
    BY <1>1, <1>2
  <2>6. /\ (IF JournalExists THEN 1 ELSE 0)' = 0
        /\ (IF JournalExists THEN 2 ELSE 0)' = 0
    BY <1>1
  <2> QED
    BY <2>1, <2>3, <2>4, <2>5, <2>6, Zenon DEF Swap!Undo, Swap!NoTree
<1> QED
  BY <1>1, <1>3 DEF Swap!UnderJournal

\* A disk operation of the undo.
LEMMA UndoIsInBetween ==
    ASSUME InstallInv, NEW e \in entries, UNCHANGED <<entries, oldDir, snap>>,
           pc \in {"rollback", "restore", "copy"},
           pc' \in {"idle", "rollback", "restore", "copy"},
           \/ UNCHANGED <<target, cut>>
           \/ target'[e] \in {snap[e], Absent, Torn}
    PROVE  Swap!UnderJournal
<1>1. /\ JournalExists /\ oldDir /\ StepOfSwap = "rewind" /\ StepOfSwap' # "commit"
  BY DEF InstallInv, PhaseInv, Undoing, JournalInv, StepOfSwap
<1>2. CASE UNCHANGED <<target, cut>>
  BY <1>1, <1>2, SwapStutters
<1>3. CASE target'[e] \in {snap[e], Absent, Torn}
  BY <1>1, <1>3, NotSwappedIn, SwapIsInBetween
<1> QED
  BY <1>2, <1>3

\* The actions that undo.
LEMMA UndoStepsAreAbstracted ==
    ASSUME InstallInv, NEW e \in Entry,
           \/ RollbackClear(e) \/ RollbackPutBack(e) \/ RollbackSkip(e)
           \/ RollbackFails(e) \/ RestoreRemove(e) \/ RestoreCopy(e) \/ RestoreFails(e)
    PROVE  Swap!UnderJournal
<1> USE DEF Return
<1>1. e \in entries /\ e \in todo
  BY DEF RollbackClear, RollbackPutBack, RollbackSkip, RollbackFails, RestoreRemove,
         RestoreCopy, RestoreFails, IsFirst, IsLast, InstallInv, PhaseInv
<1>2. target \in [Entry -> Content]
  BY DEF InstallInv, TypeOK
<1>3. pc \in Undoing => EntryInv(e)
  BY <1>1 DEF InstallInv, PhaseInv, JournalInv, Undoing
<1>4. CASE RollbackClear(e) \/ RollbackSkip(e) \/ RollbackFails(e)
  <2>1. /\ UNCHANGED <<entries, oldDir, snap>> /\ pc = "rollback"
        /\ pc' \in {"idle", "rollback", "restore"}
        /\ UNCHANGED <<target, cut>> \/ target'[e] \in {Absent, Torn}
    BY <1>2, <1>4 DEF RollbackClear, RollbackSkip, RollbackFails, proc, disk
  <2> QED
    BY <1>1, <2>1, UndoIsInBetween
<1>5. CASE RollbackPutBack(e)
  <2>1. /\ UNCHANGED <<entries, oldDir, snap>> /\ pc = "rollback" /\ pc' = pc
        /\ target'[e] = old[e] /\ old[e] = snap[e]
    BY <1>1, <1>2, <1>3, <1>5 DEF RollbackPutBack, EntryInv, Exists, Undoing
  <2> QED
    BY <1>1, <2>1, UndoIsInBetween
<1>6. CASE RestoreRemove(e) \/ RestoreFails(e)
  <2>1. /\ UNCHANGED <<entries, oldDir, snap>> /\ pc \in {"restore", "copy"}
        /\ pc' \in {"idle", "restore", "copy"}
        /\ UNCHANGED <<target, cut>> \/ target'[e] \in {Absent, Torn}
    BY <1>2, <1>6 DEF RestoreRemove, RestoreFails, Tear
  <2> QED
    BY <1>1, <2>1, UndoIsInBetween
<1>7. CASE RestoreCopy(e)
  <2>1. /\ UNCHANGED <<entries, oldDir, snap>> /\ pc = "copy" /\ pc' = "restore"
        /\ target'[e] = backup[e]
    BY <1>2, <1>7 DEF RestoreCopy
  <2>2. backup[e] = snap[e]
    BY <1>1, <1>3, <1>7 DEF RestoreCopy, InstallInv, UndoInv, EntryInv, Undoing
  <2> QED
    BY <1>1, <2>1, <2>2, UndoIsInBetween
<1> QED
  BY <1>4, <1>5, <1>6, <1>7

\* Each step of the transaction under a journal is one UpdaterProcess has for it.
LEMMA StepIsAbstracted ==
    InstallInv /\ AgeInv /\ InstallInv' /\ AgeInv' /\ Next /\ JournalExists
        => Swap!UnderJournal
<1> SUFFICES ASSUME InstallInv, AgeInv, InstallInv', AgeInv', Next, JournalExists
             PROVE  Swap!UnderJournal
  OBVIOUS
<1> USE DEF Return
<1>1. pc \notin {"prepare", "backup", "journal"} /\ oldDir
  BY DEF InstallInv, PhaseInv, JournalInv
<1>2. CASE StartJob \/ StartRecovery \/ Recover \/ SwapFails \/ UnlinkFails \/ UndoDone
  <2>1. UNCHANGED <<entries, oldDir, target, snap, cut>> /\ pc' \notin {"swap", "swapIn"}
    BY <1>2 DEF StartJob, StartRecovery, Recover, SwapFails, UnlinkFails, UndoDone, disk
  <2>2. StepOfSwap' # "commit"
    BY <2>1 DEF StepOfSwap
  <2> QED
    BY <2>1, <2>2, SwapStutters
<1>3. CASE PrepareNew \/ PrepareBackup \/ WriteJournal \/ PrepareFails
            \/ CleanupAfterLaunch
  BY <1>1, <1>3 DEF PrepareNew, PrepareBackup, WriteJournal, PrepareFails,
                    CleanupAfterLaunch
<1>4. ASSUME NEW e \in Entry, SwapOut(e) PROVE Swap!UnderJournal
  <2>1. /\ e \in entries' /\ target'[e] = Absent
        /\ pc = "swap" /\ e \in todo /\ pc' = "swapIn" /\ todo' = todo
        /\ UNCHANGED <<entries, oldDir>>
    BY <1>4 DEF SwapOut, IsFirst, InstallInv, TypeOK, PhaseInv
  <2>2. StepOfSwap = "swapping" /\ StepOfSwap' = "swapping"
    BY <2>1 DEF StepOfSwap
  <2> QED
    BY <1>1, <2>1, <2>2, NotSwappedIn, SwapIsInBetween
<1>5. CASE Crash
  <2>1. UNCHANGED <<entries, oldDir, snap>> /\ pc' = "idle" /\ StepOfSwap' = "idle"
    BY <1>5 DEF Crash, StepOfSwap
  <2>2. CASE UNCHANGED <<target, cut>>
    BY <2>1, <2>2, SwapStutters
  <2>3. CASE ~UNCHANGED <<target, cut>>
    <3>1. PICK e \in todo : /\ pc \in {"rollback", "restore", "copy"}
                            /\ UNCHANGED <<target, cut>> \/ target'[e] = Torn
      BY <1>5, <2>3 DEF Crash, Tear, InstallInv, TypeOK
    <3> QED
      BY <2>1, <3>1, UndoIsInBetween DEF InstallInv, PhaseInv
  <2> QED
    BY <2>2, <2>3
<1> QED
  BY <1>2, <1>3, <1>4, <1>5, SwapInIsMoveIn, CommitIsUnlink, UndoUnlinkIsUndo,
     UndoStepsAreAbstracted DEF Next

\* UpdaterProcess may take the transaction for the few steps it has for it.
THEOREM SwapStaysAbstracted == Spec => SwapIsAbstracted
<1>1. InstallInv /\ AgeInv /\ InstallInv' /\ AgeInv' /\ [Next]_vars
        => [JournalExists => oldDir /\ Swap!UnderJournal]_vars
  BY StepIsAbstracted DEF InstallInv, JournalInv
<1>2. Spec => []AgeInv
  BY InitAgeInv, AgeStep, NextInstallInv, PTL DEF Spec
<1> QED
  BY <1>1, <1>2, NextInstallInv, PTL DEF Spec, SwapIsAbstracted

=============================================================================
