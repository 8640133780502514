------------------------------ MODULE MCKernel ------------------------------
(***************************************************************************)
(* Instances of the scheduler for TLC.                                     *)
(***************************************************************************)
EXTENDS Kernel, TLC

CONSTANTS t1, t2, t3

\* Tasks are interchangeable: no operator of Kernel chooses among them.
Symmetry == Permutations(Tasks)
=============================================================================
