------------------------------ MODULE Timeouts ------------------------------
(***************************************************************************)
(* What a timeout promises a task, without lists, deadlines or a counter   *)
(* that wraps: a wait of n ticks is cancelled by an event, or it ends as   *)
(* timed out at the n-th tick after it began, before anything else         *)
(* happens.  A wait of zero ticks lasts until the next tick.               *)
(***************************************************************************)
EXTENDS Integers

CONSTANTS
    Tasks,
    MaxTimeout

VARIABLES
    remaining,   \* ticks until the wait of a task times out, or Off
    timed_out    \* the wait of a task timed out, and the task has not seen it yet

vars == <<remaining, timed_out>>

Off == -1

Init ==
    /\ remaining = [t \in Tasks |-> Off]
    /\ timed_out = [t \in Tasks |-> FALSE]

NoneExpired == \A t \in Tasks : remaining[t] # 0

Arm(t, n) ==
    /\ NoneExpired
    /\ remaining[t] = Off /\ ~timed_out[t]
    /\ remaining' = [remaining EXCEPT ![t] = IF n = 0 THEN 1 ELSE n]
    /\ UNCHANGED timed_out

Cancel(t) ==
    /\ NoneExpired
    /\ remaining[t] # Off
    /\ remaining' = [remaining EXCEPT ![t] = Off]
    /\ UNCHANGED timed_out

Tick ==
    /\ NoneExpired
    /\ remaining' = [t \in Tasks |-> IF remaining[t] = Off THEN Off ELSE remaining[t] - 1]
    /\ UNCHANGED timed_out

Expire(t) ==
    /\ remaining[t] = 0
    /\ remaining' = [remaining EXCEPT ![t] = Off]
    /\ timed_out' = [timed_out EXCEPT ![t] = TRUE]

\* The task goes on and learns that its wait has timed out.
Collect(t) ==
    /\ NoneExpired
    /\ timed_out[t]
    /\ timed_out' = [timed_out EXCEPT ![t] = FALSE]
    /\ UNCHANGED remaining

Next ==
    \/ Tick
    \/ \E t \in Tasks :
          \/ \E n \in 0 .. MaxTimeout : Arm(t, n)
          \/ Cancel(t)
          \/ Expire(t)
          \/ Collect(t)

Spec == Init /\ [][Next]_vars
=============================================================================
