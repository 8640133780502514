---------------------------- MODULE MCSemaphore -----------------------------
(***************************************************************************)
(* Instances of the semaphore for TLC.                                     *)
(***************************************************************************)
EXTENDS Semaphore, TLC

CONSTANTS t1, t2, t3

Symmetry == Permutations(Tasks)

\* As long as the number of ticks fits a Tick, to_ticks is the least number of
\* them that covers the duration.
ASSUME DurationsAreCovered ==
    \A d \in -2 .. 3 * Modulus, num, den \in 1 .. 3 :
       d * num <= (Modulus - 1) * den =>
          LET covering == {n \in 0 .. Modulus : d * num <= n * den}
          IN  to_ticks(d, num, den) = CHOOSE n \in covering : \A m \in covering : n <= m
=============================================================================
