------------------------------ MODULE MCQueue -------------------------------
(***************************************************************************)
(* Instances of the queue for TLC.                                         *)
(***************************************************************************)
EXTENDS Queue, TLC

CONSTANTS t1, t2, t3, v1, v2

\* The queue moves values without looking at them.
Symmetry == Permutations(Tasks) \union Permutations(Values)
=============================================================================
