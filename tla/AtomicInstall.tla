---------------------------- MODULE AtomicInstall ----------------------------
(***************************************************************************)
(* What the update transaction promises: an installed release is replaced  *)
(* in one step, entry by entry from one package, or not at all.  The only  *)
(* exception is an entry at risk: one whose installed copy was destroyed   *)
(* by a restore from the backup that did not finish.                       *)
(***************************************************************************)
EXTENDS Naturals

CONSTANTS NumEntries, Internal, Absent, Torn, MaxJobs

VARIABLES
    installed,      \* the content the user has, or will have after recovery
    atRisk          \* entries an unfinished restore has destroyed

Entry == 1..NumEntries
Version == 0..MaxJobs
Content == Version \cup {Absent, Torn}

Init ==
    /\ installed \in [Entry -> {0, Absent}]
    /\ atRisk = {}

\* One package replaces the installed entries of its name, all of them.
Upgrade ==
    /\ \E version \in Version \ {0}, package \in SUBSET Entry :
          /\ {NumEntries, Internal} \subseteq package
          /\ installed' = [e \in Entry |->
                              IF e \in package THEN version ELSE installed[e]]
    /\ atRisk' = {}

\* A restore destroys entries, or brings them back.
Expose ==
    /\ atRisk' \in SUBSET Entry
    /\ UNCHANGED installed

\* The transaction ends: only what was at risk may differ.
Settle ==
    /\ installed' \in [Entry -> Content]
    /\ \A e \in Entry \ atRisk : installed'[e] = installed[e]
    /\ atRisk' = {}

Next == Upgrade \/ Expose \/ Settle

Spec == Init /\ [][Next]_<<installed, atRisk>>

=============================================================================
