---------------------------- MODULE AtomicUpdate ----------------------------
(***************************************************************************)
(* What the update system as a whole promises.  There is one release at a  *)
(* time; a process runs it; a process hands over the job to replace it by  *)
(* a newer one.  A replacement begins and ends while nothing runs, and     *)
(* until it has ended the release is still the one before it.              *)
(*                                                                         *)
(* The one way out is a failure of what keeps the two apart, the guard of  *)
(* a launch or the look for running processes: from then on a process may  *)
(* run beside a replacement, and an older one may hand over a job.         *)
(***************************************************************************)
EXTENDS Naturals

CONSTANT MaxVersion

VARIABLES
    release,        \* what is installed, or will be again after an undo
    interrupted,    \* a replacement has begun and not ended
    job,            \* the release of the job handed over last; 0: none
    running,        \* the release that runs; 0: none
    unguarded       \* what keeps processes and replacements apart has failed

vars == <<release, interrupted, job, running, unguarded>>

Version == 1..MaxVersion

Init ==
    /\ release = 1 /\ interrupted = FALSE
    /\ job = 0 /\ running = 0 /\ unguarded = FALSE

\* A process runs the release; in the middle of a replacement it may run the
\* newer one.
Start ==
    /\ running = 0 /\ running' \in Version
    /\ unguarded' \in {unguarded, TRUE}
    /\ running' = release \/ (interrupted /\ (running' > release \/ unguarded'))
    /\ UNCHANGED <<release, interrupted, job>>

Stop == running # 0 /\ running' = 0 /\ UNCHANGED <<release, interrupted, job, unguarded>>

\* A replacement goes on as if nothing ran.
Overlook == unguarded' = TRUE /\ UNCHANGED <<release, interrupted, job, running>>

HandOver ==
    /\ running # 0
    /\ job' \in Version /\ job' > running
    /\ UNCHANGED <<release, interrupted, running, unguarded>>

Withdraw ==
    /\ running # 0 /\ ~interrupted
    /\ job' = 0 /\ UNCHANGED <<release, interrupted, running, unguarded>>

NotInUse == running = 0 \/ unguarded

Begin ==
    /\ NotInUse /\ ~interrupted
    /\ job # 0 /\ (job >= release \/ unguarded)
    /\ interrupted' = TRUE /\ UNCHANGED <<release, job, running, unguarded>>

Undo ==
    /\ NotInUse /\ interrupted
    /\ interrupted' = FALSE /\ UNCHANGED <<release, job, running, unguarded>>

\* The release is the one of the job.
Complete ==
    /\ NotInUse /\ interrupted
    /\ job # 0 /\ (job >= release \/ unguarded)
    /\ release' = job /\ interrupted' = FALSE
    /\ UNCHANGED <<job, running, unguarded>>

Next == Start \/ Stop \/ Overlook \/ HandOver \/ Withdraw \/ Begin \/ Undo \/ Complete

Spec == Init /\ [][Next]_vars
=============================================================================
