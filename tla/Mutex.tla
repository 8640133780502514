------------------------------- MODULE Mutex --------------------------------
(***************************************************************************)
(* Mutex (include/rtos/mutex.hpp) used by tasks of the scheduler of module *)
(* Kernel.  owner_ is taken from kernel::current, which nested run_one()   *)
(* calls and the PendSV handler change and restore; unlock() hands the     *)
(* mutex to the first waiter.  Clients obey the contracts: the owner alone *)
(* unlocks, does not lock again and does not finish as owner.              *)
(*                                                                         *)
(* "locking" and "inside" are history: the tasks suspended in lock(), and  *)
(* the tasks whose lock() has returned and who have not called unlock().   *)
(***************************************************************************)
EXTENDS Kernel

ASSUME MutexAssumption == "waiters" \in Lists

VARIABLES
    owner,      \* owner_
    locking,
    inside

mutexVars == <<kernelVars, owner, locking, inside>>

waiters == wait_lists["waiters"]

MutexInit ==
    /\ Init
    /\ owner = NoTask
    /\ locking = {}
    /\ inside = {}

\* LockAwaiter::await_suspend that does not suspend, and try_lock
TakeLock ==
    /\ Executing
    /\ owner = NoTask
    /\ owner' = current
    /\ inside' = inside \union {Top.task}
    /\ UNCHANGED <<kernelVars, locking>>

\* LockAwaiter::await_suspend
Lock ==
    /\ Executing
    /\ \/ TakeLock
       \/ /\ owner # NoTask /\ Top.task \notin inside
          /\ BlockCurrent("waiters", NoTimeout)
          /\ locking' = locking \union {Top.task}
          /\ UNCHANGED <<owner, inside>>

\* try_lock; without success it only returns false
TryLock == TakeLock

\* Mutant: the last one
LastWaiter == waiters[Len(waiters)]

FirstWaiter == Head(waiters)

\* Mutant: the first waiter is woken and the mutex is free for anyone
UnlockWithoutHandOver ==
    /\ Executing
    /\ Top.task \in inside
    /\ inside' = inside \ {Top.task}
    /\ owner' = NoTask
    /\ UNCHANGED locking
    /\ \/ waiters # <<>> /\ WakeWaiter("waiters", FirstWaiter)
       \/ waiters = <<>> /\ UNCHANGED kernelVars

\* unlock, called by the task that is inside
Unlock ==
    /\ Executing
    /\ Top.task \in inside
    /\ inside' = inside \ {Top.task}
    /\ UNCHANGED locking
    /\ \/ /\ waiters # <<>>
          /\ owner' = FirstWaiter
          /\ WakeWaiter("waiters", FirstWaiter)
       \/ /\ waiters = <<>>
          /\ owner' = NoTask
          /\ UNCHANGED kernelVars

\* lock() returns in a task that was suspended in it.
MutexDispatch ==
    /\ Dispatch
    /\ locking' = locking \ {current'}
    /\ inside' = IF current' \in locking THEN inside \union {current'} ELSE inside
    /\ UNCHANGED owner

MutexBackground ==
    /\ Background
    /\ \A t \in inside : state'[t] # "Created"
    /\ UNCHANGED <<owner, locking, inside>>

MutexNext ==
    \/ Lock
    \/ TryLock
    \/ Unlock
    \/ MutexDispatch
    \/ MutexBackground

MutexSpec == MutexInit /\ [][MutexNext]_mutexVars

-----------------------------------------------------------------------------
(* Properties *)

\* Tasks that were handed the mutex and have not been resumed yet
Chosen == {t \in locking : state[t] = "Ready"}

\* At most one task is between lock() and unlock(), however tasks are
\* preempted or nested in its section; and owner_ always is the task that is
\* inside or the one that was chosen to be next, a task that is alive; so the
\* contract of unlock(), that current is the owner, holds for the task inside.
MutualExclusion ==
    /\ Cardinality(inside \union Chosen) <= 1
    /\ owner # NoTask => owner \in inside \union Chosen /\ state[owner] # "Created"
    /\ owner = NoTask => inside \union Chosen = {} /\ waiters = <<>>
    /\ Executing /\ Top.task \in inside => owner = current

MutexTypeOK ==
    /\ owner \in Tasks \union {NoTask}
    /\ locking \subseteq Tasks
    /\ inside \subseteq Tasks

\* owner_ is the one task that is inside or chosen, when there is one.
OwnerAgree ==
    /\ inside \union Chosen = IF owner = NoTask THEN {} ELSE {owner}
    /\ owner = NoTask => waiters = <<>>

\* The tasks in lock() are in the wait list, without a timeout, or chosen.
LockAgree ==
    /\ \A t \in locking : Contains(waiters, t) \/ state[t] = "Ready"
    /\ \A t \in Tasks : Contains(waiters, t) => t \in locking /\ ~Contains(delay_list, t)
    /\ \A t \in inside : state[t] # "Created"

\* The inductive invariant
MutexInv == IInv /\ MutexTypeOK /\ OwnerAgree /\ LockAgree

Permit == INSTANCE FairPermits WITH
    Initial <- 1,
    MaxCount <- 1,
    available <- IF owner = NoTask THEN 1 ELSE 0,
    waiting <- waiters,
    granted <- Chosen,
    expired <- {}

\* The mutex keeps the promise of module FairPermits with a single permit:
\* unlock() hands it over in the order of the requests and nobody wedges in
\* before the chosen task runs.
HandsOver == Permit!Spec
=============================================================================
