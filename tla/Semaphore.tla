------------------------------ MODULE Semaphore -----------------------------
(***************************************************************************)
(* CountingSemaphore (include/rtos/semaphore.hpp) used by tasks and        *)
(* interrupts of the scheduler of module Kernel.  Its waiters_ is a wait   *)
(* list of the kernel; BinarySemaphore is the instance MaxCount = 1.       *)
(*                                                                         *)
(* "awaiting" and "credit" are history: which tasks are suspended in an    *)
(* acquire, and how many permits have been put in and not been obtained.   *)
(***************************************************************************)
EXTENDS Kernel

CONSTANTS
    Initial,    \* initial value of count_
    MaxCount    \* max_

ASSUME SemaphoreAssumption ==
    /\ IsFiniteSet(Tasks)
    /\ "waiters" \in Lists
    /\ MaxCount \in Nat
    /\ Initial \in 0 .. MaxCount

VARIABLES
    count,      \* count_
    awaiting,   \* the tasks suspended in acquire() or try_acquire_for()
    credit      \* Initial + releases accepted - permits obtained

semVars == <<kernelVars, count, awaiting, credit>>

waiters == wait_lists["waiters"]

SemInit ==
    /\ Init
    /\ count = Initial
    /\ awaiting = {}
    /\ credit = Initial

\* The part that acquire, try_acquire_for and try_acquire share
TakePermit ==
    /\ count > 0
    /\ count' = count - 1
    /\ credit' = credit - 1
    /\ UNCHANGED <<kernelVars, awaiting>>

\* AcquireAwaiter, AcquireForAwaiter: await_suspend
Acquire(timeout) ==
    /\ Executing
    /\ \/ TakePermit
       \/ /\ count = 0
          /\ BlockCurrent("waiters", timeout)
          /\ awaiting' = awaiting \union {current}
          /\ UNCHANGED <<count, credit>>

\* from a task or from code outside all tasks; without a permit it only
\* returns false
TryAcquire ==
    /\ Proceeds /\ (stack = <<>> \/ TopIs("exec"))
    /\ TakePermit

\* Mutant: the permit is counted although a task waits
ReleaseIgnoresWaiters ==
    /\ Interrupts
    /\ count < MaxCount
    /\ count' = count + 1
    /\ credit' = credit + 1
    /\ UNCHANGED <<kernelVars, awaiting>>

\* Mutant: the last waiter is served first
ReleaseToLast ==
    /\ Interrupts
    /\ \/ /\ waiters # <<>>
          /\ WakeWaiter("waiters", waiters[Len(waiters)])
          /\ credit' = credit + 1
          /\ UNCHANGED <<count, awaiting>>
       \/ /\ waiters = <<>> /\ count < MaxCount
          /\ count' = count + 1
          /\ credit' = credit + 1
          /\ UNCHANGED <<kernelVars, awaiting>>

\* release, release_from_isr; at the maximum the permit is dropped
Release ==
    /\ Interrupts
    /\ \/ /\ waiters # <<>>
          /\ WakeWaiter("waiters", Head(waiters))
          /\ credit' = credit + 1
          /\ UNCHANGED <<count, awaiting>>
       \/ /\ waiters = <<>> /\ count < MaxCount
          /\ count' = count + 1
          /\ credit' = credit + 1
          /\ UNCHANGED <<kernelVars, awaiting>>

\* await_resume: got || !timed_out.  A task that was suspended in an acquire
\* has a permit unless its wait timed out.
SemDispatch ==
    /\ Dispatch
    /\ awaiting' = awaiting \ {current'}
    /\ credit' = IF current' \in awaiting /\ ~timed_out[current'] THEN credit - 1 ELSE credit
    /\ UNCHANGED count

SemNext ==
    \/ \E n \in Timeouts : Acquire(n)
    \/ TryAcquire
    \/ Release
    \/ SemDispatch
    \/ Background /\ UNCHANGED <<count, awaiting, credit>>

SemSpec == SemInit /\ [][SemNext]_semVars

-----------------------------------------------------------------------------
(* Properties *)

SemTypeOK ==
    /\ count \in 0 .. MaxCount
    /\ awaiting \subseteq Tasks
    /\ credit \in Int

\* A task never waits while a permit is there, so no release was lost on the
\* way between the check of count_ and the wait.
NoIdlePermit == waiters # <<>> => count = 0

\* The tasks that release() has woken with a permit, not yet resumed
InFlight == {t \in awaiting : state[t] = "Ready" /\ ~timed_out[t]}

\* Every permit is in the counter or on its way to exactly one task: a release
\* that meets a timeout neither loses a permit nor gives it twice.
PermitsConserved == credit = count + Cardinality(InFlight)

\* The inductive invariant: a task is suspended in an acquire as long as it
\* waits, and until it runs again.
AwaitAgree ==
    /\ \A t \in awaiting : Contains(waiters, t) \/ state[t] = "Ready"
    /\ \A t \in Tasks : Contains(waiters, t) => t \in awaiting /\ ~timed_out[t]

SemInv == IInv /\ SemTypeOK /\ AwaitAgree /\ NoIdlePermit /\ PermitsConserved

Permits == INSTANCE FairPermits WITH
    available <- count,
    waiting <- waiters,
    granted <- InFlight,
    expired <- {t \in awaiting : state[t] = "Ready" /\ timed_out[t]}

\* The semaphore keeps the promise of module FairPermits, whatever the
\* priorities of the tasks and the order in which they are resumed: release()
\* serves the waiters in the order in which they came.
IsFair == Permits!Spec

\* A task that asks for a permit is given one, or its wait times out.
Served == \A t \in Tasks : Contains(waiters, t) ~> ~Contains(waiters, t)
=============================================================================
