---------------------------- MODULE MCEventGroup ----------------------------
(***************************************************************************)
(* Instances of the event group for TLC.                                   *)
(***************************************************************************)
EXTENDS EventGroup, TLC

CONSTANTS t1, t2, t3, b1, b2

TaskSymmetry == Permutations(Tasks)

\* One waiter that consumes a bit, one that observes any bit, and one that
\* consumes all of them: their conditions overlap.
Waits ==
    {[want |-> {b1}, all |-> FALSE, clear |-> TRUE],
     [want |-> {b1, b2}, all |-> FALSE, clear |-> FALSE],
     [want |-> {b1, b2}, all |-> TRUE, clear |-> TRUE]}

NoWaits == {}
=============================================================================
