------------------------------ MODULE MCMutex -------------------------------
(***************************************************************************)
(* Instances of the mutex for TLC.                                         *)
(***************************************************************************)
EXTENDS Mutex, TLC

CONSTANTS t1, t2, t3

Symmetry == Permutations(Tasks)
=============================================================================
