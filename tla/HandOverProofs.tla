--------------------------- MODULE HandOverProofs ---------------------------
(***************************************************************************)
(* The primitives that hand over directly to the one they wake: the mutex  *)
(* its ownership, the queue its values.  For any number of tasks and       *)
(* priorities, on every port, however tasks nest and preempt each other,   *)
(* one task at a time is inside the mutex; the queue implements module     *)
(* Channel for any capacity and strands nobody.                            *)
(***************************************************************************)
EXTENDS Mutex, Queue, KernelProofs, FiniteSetTheorems

-----------------------------------------------------------------------------
(* The mutex.  MutexInv ties owner_ to the tasks that are inside or chosen,  *)
(* and the wait list to the tasks in lock(); it needs the invariant of the   *)
(* scheduler, because owner_ is taken from "current".                        *)

\* The task that executes is neither chosen nor in lock().
LEMMA ExecutingIsFree ==
    ASSUME MutexInv, Executing
    PROVE  /\ current \in Tasks /\ Top.task = current /\ state[current] = "Running"
           /\ current \notin locking /\ current # NoTask
<1>1. current \in Tasks /\ Top.task = current /\ state[current] = "Running"
  BY Executes DEF MutexInv, IInv, CpuAgree, CurrentExecutes
<1>2. ~Contains(waiters, current)
  BY <1>1, Waiting, MutexAssumption DEF MutexInv, IInv, waiters
<1> QED BY <1>1, <1>2, KernelAssumption DEF MutexInv, LockAgree

\* Steps of the mutex that leave the scheduler alone
LEMMA SchedulerAlone ==
    ASSUME IInv, UNCHANGED kernelVars
    PROVE  IInv' /\ UNCHANGED <<waiters, state, delay_list>>
  BY StutterStep DEF waiters, kernelVars, lists

\* lock() of a free mutex, and try_lock()
LEMMA TakeLockStep ==
    ASSUME MutexInv, TakeLock
    PROVE  MutexInv'
<1>1. /\ owner = NoTask /\ owner' = current /\ inside' = inside \union {current}
      /\ UNCHANGED <<kernelVars, locking>>
      /\ current \in Tasks /\ state[current] = "Running" /\ current # NoTask
  BY ExecutingIsFree DEF TakeLock
<1>2. IInv' /\ UNCHANGED <<waiters, state, delay_list>>
  BY <1>1, SchedulerAlone DEF MutexInv
<1>3. Chosen' = Chosen
  BY <1>1, <1>2 DEF Chosen
<1>4. MutexTypeOK'
  BY <1>1 DEF MutexInv, MutexTypeOK
<1>5. OwnerAgree'
  BY <1>1, <1>3 DEF MutexInv, OwnerAgree
<1>6. LockAgree'
  BY <1>1, <1>2 DEF MutexInv, LockAgree
<1> QED BY <1>2, <1>4, <1>5, <1>6 DEF MutexInv

\* lock() of a mutex that is owned
LEMMA LockBlocks ==
    ASSUME MutexInv, Executing, owner # NoTask, BlockCurrent("waiters", NoTimeout),
           locking' = locking \union {current}, UNCHANGED <<owner, inside>>
    PROVE  MutexInv'
<1>1. /\ state' = [state EXCEPT ![current] = "Blocked"]
      /\ \A u \in Tasks : Contains(waiters', u) <=> (Contains(waiters, u) \/ u = current)
      /\ UNCHANGED delay_list
  BY BlockJoinsList, MutexAssumption DEF MutexInv, waiters
<1>2. /\ current \in Tasks /\ state[current] = "Running" /\ current \notin locking
  BY ExecutingIsFree
<1>3. IInv'
  BY BlockStep, MutexAssumption DEF MutexInv, Block, Timeouts
<1>4. Chosen' = Chosen
  BY <1>1, <1>2 DEF Chosen, MutexInv, MutexTypeOK, IInv, TypeOK
<1>5. MutexTypeOK'
  BY <1>2 DEF MutexInv, MutexTypeOK
<1>6. OwnerAgree'
  BY <1>4 DEF MutexInv, OwnerAgree
<1>7. ~Contains(delay_list, current)
  BY <1>2 DEF MutexInv, IInv, BlockedAgree
<1>8. LockAgree'
  BY <1>1, <1>2, <1>7 DEF MutexInv, LockAgree, MutexTypeOK, IInv, TypeOK
<1> QED BY <1>3, <1>5, <1>6, <1>8 DEF MutexInv

\* unlock() hands the mutex to the first waiter.
LEMMA UnlockHandsOver ==
    ASSUME MutexInv, Executing, current \in inside, waiters # <<>>,
           WakeWaiter("waiters", FirstWaiter), owner' = FirstWaiter,
           inside' = inside \ {current}, UNCHANGED locking
    PROVE  MutexInv'
<1> DEFINE t == FirstWaiter
<1>1. t \in Tasks /\ Contains(waiters, t) /\ t # NoTask
  BY HeadWaits, MutexAssumption, KernelAssumption DEF MutexInv, IInv, waiters, FirstWaiter
<1>2. /\ state[t] = "Blocked" /\ state' = [state EXCEPT ![t] = "Ready"]
      /\ \A u \in Tasks : Contains(waiters', u) <=> (Contains(waiters, u) /\ u # t)
      /\ \A u \in Tasks : Contains(delay_list', u) => Contains(delay_list, u)
  BY <1>1, WakeLeavesList, MutexAssumption DEF MutexInv, waiters
<1>3. IInv'
  BY <1>1, WakeWaiterStep, MutexAssumption DEF MutexInv
<1>4. owner' = t
  OBVIOUS
<1> HIDE DEF t
<1>5. state[current] = "Running" /\ current \notin locking
  BY ExecutingIsFree
<1>6. t \in locking
  BY <1>1 DEF MutexInv, LockAgree
<1>7. inside = {current} /\ Chosen = {}
  BY <1>5 DEF MutexInv, OwnerAgree, Chosen
<1>8. Chosen' = {t} /\ inside' = {}
  BY <1>2, <1>6, <1>7 DEF Chosen, MutexInv, MutexTypeOK, IInv, TypeOK
<1>9. MutexTypeOK'
  BY <1>1, <1>4, <1>8 DEF MutexInv, MutexTypeOK
<1>10. OwnerAgree'
  BY <1>1, <1>4, <1>8 DEF OwnerAgree
<1>11. LockAgree'
  BY <1>1, <1>2, <1>8 DEF MutexInv, LockAgree, MutexTypeOK, IInv, TypeOK
<1> QED BY <1>3, <1>9, <1>10, <1>11 DEF MutexInv

\* unlock() without a waiter
LEMMA UnlockFrees ==
    ASSUME MutexInv, Executing, current \in inside, waiters = <<>>, owner' = NoTask,
           inside' = inside \ {current}, UNCHANGED <<kernelVars, locking>>
    PROVE  MutexInv'
<1>1. IInv' /\ UNCHANGED <<waiters, state, delay_list>>
  BY SchedulerAlone DEF MutexInv
<1>2. state[current] = "Running"
  BY ExecutingIsFree
<1>3. inside = {current} /\ Chosen = {}
  BY <1>2 DEF MutexInv, OwnerAgree, Chosen
<1>4. inside' = {} /\ Chosen' = {}
  BY <1>1, <1>3 DEF Chosen
<1> QED BY <1>1, <1>4 DEF MutexInv, MutexTypeOK, OwnerAgree, LockAgree

\* The chosen task goes on in lock() and is inside.
LEMMA DispatchEnters ==
    ASSUME MutexInv, MutexDispatch
    PROVE  MutexInv'
<1> DEFINE t == current'
<1>1. /\ t \in Tasks /\ state[t] = "Ready"
      /\ state' = [state EXCEPT ![t] = "Running"]
      /\ UNCHANGED <<waiters, delay_list>>
  BY DispatchRuns DEF MutexInv, MutexDispatch, waiters
<1>2. /\ locking' = locking \ {t} /\ owner' = owner
      /\ inside' = IF t \in locking THEN inside \union {t} ELSE inside
  BY DEF MutexDispatch
<1>3. IInv'
  BY NextIInv DEF MutexInv, MutexDispatch, Next
<1> HIDE DEF t
<1>4. ~Contains(waiters, t)
  BY <1>1, Waiting, MutexAssumption DEF MutexInv, IInv, waiters
<1>5. Chosen' = Chosen \ {t} /\ (t \in locking <=> t \in Chosen)
  BY <1>1, <1>2 DEF Chosen, MutexInv, MutexTypeOK, IInv, TypeOK
<1>6. inside' \union Chosen' = inside \union Chosen
  <2>1. CASE t \in locking
    BY <1>2, <1>5, <2>1
  <2>2. CASE t \notin locking
    BY <1>2, <1>5, <2>2
  <2> QED BY <2>1, <2>2
<1>7. MutexTypeOK'
  BY <1>1, <1>2 DEF MutexInv, MutexTypeOK
<1>8. OwnerAgree'
  BY <1>1, <1>2, <1>6 DEF MutexInv, OwnerAgree
<1>9. LockAgree'
  BY <1>1, <1>2, <1>4 DEF MutexInv, LockAgree, MutexTypeOK, IInv, TypeOK
<1> QED BY <1>3, <1>7, <1>8, <1>9 DEF MutexInv

\* Timeouts, preemption and whatever other tasks do let nobody in or out.
LEMMA BackgroundKeepsOwner ==
    ASSUME MutexInv, MutexBackground
    PROVE  MutexInv'
<1>1. /\ Background /\ UNCHANGED <<owner, locking, inside>>
      /\ \A t \in inside : state'[t] # "Created"
  BY DEF MutexBackground
<1>2. ASSUME NEW u \in Tasks
      PROVE  /\ state[u] = "Ready" => state'[u] = "Ready"
             /\ Contains(waiters', u) <=> (Contains(waiters, u) /\ state'[u] = "Blocked")
  BY <1>1, <1>2, BackgroundKeepsWaits, MutexAssumption DEF MutexInv, waiters
<1>3. ASSUME NEW u \in Tasks, Contains(waiters, u)
      PROVE  state[u] = "Blocked" /\ state'[u] = "Blocked" /\ ~Contains(delay_list', u)
  <2>1. state[u] = "Blocked"
    BY <1>3, Waiting, MutexAssumption DEF MutexInv, IInv, waiters
  <2>2. ~Contains(delay_list, u)
    BY <1>3 DEF MutexInv, LockAgree
  <2> QED BY <1>1, <2>1, <2>2, BackgroundEndsNoUntimedWait DEF MutexInv
<1>4. IInv'
  BY <1>1, NextIInv DEF MutexInv, Next
<1>5. \A u \in locking : (state'[u] = "Ready") <=> (state[u] = "Ready")
  BY <1>2, <1>3 DEF MutexInv, LockAgree, MutexTypeOK
<1>6. Chosen' = Chosen
  BY <1>1, <1>5 DEF Chosen
<1>7. waiters = <<>> => waiters' = <<>>
  BY <1>1, EmptyStaysEmpty, MutexAssumption DEF MutexInv, IInv, waiters
<1>8. MutexTypeOK'
  BY <1>1 DEF MutexInv, MutexTypeOK
<1>9. OwnerAgree'
  BY <1>1, <1>6, <1>7 DEF MutexInv, OwnerAgree
<1>10. LockAgree'
  BY <1>1, <1>2, <1>3 DEF MutexInv, LockAgree, MutexTypeOK
<1> QED BY <1>4, <1>8, <1>9, <1>10 DEF MutexInv

-----------------------------------------------------------------------------
\* A mutex that nobody has used yet is free.
LEMMA MutexInitInv == MutexInit => MutexInv
<1> SUFFICES ASSUME MutexInit PROVE MutexInv
  OBVIOUS
<1>1. waiters = <<>> /\ Chosen = {} /\ owner = NoTask /\ inside = {} /\ locking = {}
  BY MutexAssumption DEF MutexInit, Init, waiters, Chosen
<1>2. \A u : ~Contains(<<>>, u)
  BY DEF Contains
<1>3. IInv
  BY InitIInv DEF MutexInit
<1> QED BY <1>1, <1>2, <1>3 DEF MutexInv, MutexTypeOK, OwnerAgree, LockAgree

\* Every step keeps the invariant.
LEMMA MutexNextInv == MutexInv /\ [MutexNext]_mutexVars => MutexInv'
<1> SUFFICES ASSUME MutexInv, [MutexNext]_mutexVars PROVE MutexInv'
  OBVIOUS
<1>1. CASE Lock
  <2>1. Executing /\ Top.task = current
    BY <1>1, ExecutingIsFree DEF Lock
  <2> QED BY <1>1, <2>1, TakeLockStep, LockBlocks DEF Lock
<1>2. CASE TryLock
  BY <1>2, TakeLockStep DEF TryLock
<1>3. CASE Unlock
  <2>1. Executing /\ Top.task = current
    BY <1>3, ExecutingIsFree DEF Unlock
  <2> QED BY <1>3, <2>1, UnlockHandsOver, UnlockFrees DEF Unlock
<1>4. CASE MutexDispatch
  BY <1>4, DispatchEnters
<1>5. CASE MutexBackground
  BY <1>5, BackgroundKeepsOwner
<1>6. CASE UNCHANGED mutexVars
  <2>1. UNCHANGED <<kernelVars, owner, locking, inside>>
    BY <1>6 DEF mutexVars
  <2>2. IInv' /\ UNCHANGED <<waiters, state, delay_list>>
    BY <2>1, SchedulerAlone DEF MutexInv
  <2>3. Chosen' = Chosen
    BY <2>1, <2>2 DEF Chosen
  <2> QED BY <2>1, <2>2, <2>3 DEF MutexInv, MutexTypeOK, OwnerAgree, LockAgree
<1> QED BY <1>1, <1>2, <1>3, <1>4, <1>5, <1>6 DEF MutexNext

\* The lists, the machine stack and owner_ agree in every behaviour.
THEOREM MutexInvariance == MutexSpec => []MutexInv
  BY MutexInitInv, MutexNextInv, PTL DEF MutexSpec

\* At most one task is inside, or chosen to be next; the task inside is the
\* owner, so that the contract of unlock() holds for it.
THEOREM OneInside == MutexSpec => []MutualExclusion
<1>1. MutexInv => MutualExclusion
  <2> SUFFICES ASSUME MutexInv PROVE MutualExclusion
    OBVIOUS
  <2>1. Cardinality({}) = 0 /\ Cardinality({owner}) = 1
    BY FS_EmptySet, FS_Singleton
  <2>2. Cardinality(inside \union Chosen) <= 1
    <3>1. inside \union Chosen = {} \/ inside \union Chosen = {owner}
      BY DEF MutexInv, OwnerAgree
    <3>2. Cardinality(inside \union Chosen) \in {0, 1}
      BY <2>1, <3>1, Zenon
    <3> QED BY <3>2
  <2>3. owner # NoTask => owner \in inside \union Chosen /\ state[owner] # "Created"
    BY DEF MutexInv, OwnerAgree, LockAgree, Chosen
  <2>4. owner = NoTask => inside \union Chosen = {} /\ waiters = <<>>
    BY DEF MutexInv, OwnerAgree
  <2>5. Executing /\ Top.task \in inside => owner = current
    BY ExecutingIsFree DEF MutexInv, OwnerAgree
  <2> QED BY <2>2, <2>3, <2>4, <2>5 DEF MutualExclusion
<1> QED BY <1>1, MutexInvariance, PTL

-----------------------------------------------------------------------------
(* Hand-over: the refinement of module FairPermits, with one permit *)

\* A step that moves neither the mutex nor a waiting task
LEMMA HandOverStutter ==
    ASSUME UNCHANGED <<owner, waiters>>, Chosen' = Chosen
    PROVE  UNCHANGED Permit!vars
  BY DEF Permit!vars

\* A mutex is taken only when nobody waits for it.
LEMMA TakeLockHandsOver ==
    ASSUME MutexInv, TakeLock
    PROVE  Permit!Next
<1>1. owner = NoTask /\ owner' # NoTask /\ UNCHANGED <<waiters, Chosen>>
  BY ExecutingIsFree DEF TakeLock, Chosen, waiters, kernelVars, lists
<1>2. waiters = <<>>
  BY <1>1 DEF MutexInv, OwnerAgree
<1>3. Permit!Take
  BY <1>1, <1>2 DEF Permit!Take
<1> QED BY <1>3 DEF Permit!Next

\* The executing task is last in the wait list.
LEMMA LockWaits ==
    ASSUME MutexInv, Executing, owner # NoTask, BlockCurrent("waiters", NoTimeout),
           locking' = locking \union {current}, UNCHANGED <<owner, inside>>
    PROVE  Permit!Next
<1>1. PICK t \in Tasks : t = current /\ state[t] = "Running" /\ t \notin locking
  BY ExecutingIsFree
<1>2. /\ state' = [state EXCEPT ![t] = "Blocked"] /\ waiters' = Append(waiters, t)
      /\ locking' = locking \union {t}
  BY <1>1, MutexAssumption DEF BlockCurrent, waiters, MutexInv, IInv, TypeOK
<1>3. Chosen' = Chosen /\ t \notin Chosen
  BY <1>1, <1>2 DEF Chosen, MutexInv, MutexTypeOK, IInv, TypeOK
<1>4. ~Contains(waiters, t)
  BY <1>1, Waiting, MutexAssumption DEF MutexInv, IInv, waiters
<1>5. Permit!Wait(t)
  BY <1>2, <1>3, <1>4 DEF Permit!Wait, Contains, Permit!Contains
<1> QED BY <1>5 DEF Permit!Next

\* unlock() chooses the first in the wait list, or frees the mutex.
LEMMA UnlockGrants ==
    ASSUME MutexInv, Unlock
    PROVE  Permit!Next
<1>1. owner # NoTask
  BY ExecutingIsFree DEF Unlock, MutexInv, OwnerAgree
<1>2. CASE waiters # <<>>
  <2>1. PICK t \in Tasks : t = Head(waiters) /\ Contains(waiters, t)
    BY <1>2, HeadWaits, MutexAssumption DEF MutexInv, IInv, waiters
  <2>2. owner' = t /\ WakeWaiter("waiters", t) /\ UNCHANGED locking
    BY <1>2, <2>1 DEF Unlock, FirstWaiter
  <2>3. state' = [state EXCEPT ![t] = "Ready"]
    BY <2>2, WakeLeavesList, MutexAssumption DEF MutexInv
  <2>4. waiters' = Tail(waiters)
    <3>1. waiters \in Seq(Tasks) /\ NoRepeat(waiters)
      BY MutexAssumption DEF MutexInv, IInv, TypeOK, BlockedAgree, waiters
    <3>2. waiters' = Unlink(waiters, Head(waiters))
      BY <2>1, <2>2, MutexAssumption DEF WakeWaiter, Wake, waiters
    <3> QED BY <1>2, <3>1, <3>2, UnlinkHead
  <2>5. t \in locking
    BY <2>1 DEF MutexInv, LockAgree
  <2>6. Chosen' = Chosen \union {t}
    BY <2>2, <2>3, <2>5 DEF Chosen, MutexInv, MutexTypeOK, IInv, TypeOK
  <2>7. owner' # NoTask
    BY <2>2, KernelAssumption
  <2>8. Permit!Grant
    BY <1>1, <1>2, <2>1, <2>4, <2>6, <2>7 DEF Permit!Grant
  <2> QED BY <2>8 DEF Permit!Next
<1>3. CASE waiters = <<>>
  <2>1. owner' = NoTask /\ UNCHANGED <<waiters, Chosen>>
    BY <1>3 DEF Unlock, Chosen, waiters, kernelVars, lists
  <2>2. Permit!Keep
    BY <1>1, <1>3, <2>1 DEF Permit!Keep
  <2> QED BY <2>2 DEF Permit!Next
<1> QED BY <1>2, <1>3

\* The chosen task notices when it goes on.
LEMMA DispatchHandsOver ==
    ASSUME MutexInv, MutexDispatch
    PROVE  [Permit!Next]_(Permit!vars)
<1>1. /\ current' \in Tasks /\ state[current'] = "Ready"
      /\ state' = [state EXCEPT ![current'] = "Running"]
      /\ UNCHANGED waiters
  BY DispatchRuns DEF MutexInv, MutexDispatch, waiters
<1>2. PICK t \in Tasks : t = current'
  BY <1>1
<1>3. /\ state' = [state EXCEPT ![t] = "Running"]
      /\ locking' = locking \ {t} /\ UNCHANGED owner
  BY <1>1, <1>2 DEF MutexDispatch
<1>4. Chosen' = Chosen \ {t}
  BY <1>3 DEF Chosen, MutexInv, MutexTypeOK, IInv, TypeOK
<1>5. CASE t \in Chosen
  <2>1. Permit!Notice(t)
    BY <1>1, <1>3, <1>4, <1>5 DEF Permit!Notice
  <2> QED BY <2>1 DEF Permit!Next
<1>6. CASE t \notin Chosen
  BY <1>1, <1>3, <1>4, <1>6, HandOverStutter
<1> QED BY <1>5, <1>6

\* Nothing else concerns a task in lock(): it has no timeout.
LEMMA BackgroundHandsOver ==
    ASSUME MutexInv, MutexInv', MutexBackground
    PROVE  UNCHANGED Permit!vars
<1>1. ASSUME NEW u \in Tasks
      PROVE  /\ state[u] = "Ready" => state'[u] = "Ready"
             /\ Contains(waiters', u) <=> (Contains(waiters, u) /\ state'[u] = "Blocked")
  BY <1>1, BackgroundKeepsWaits, MutexAssumption DEF MutexInv, MutexBackground, waiters
<1>2. waiters' = waiters
  <2>1. CASE TickWake
    <3>1. /\ Head(delay_list) \in Tasks /\ Contains(delay_list, Head(delay_list))
      BY <2>1, PopFrontProperties DEF TickWake, MutexInv, IInv, TypeOK, TickLoop
    <3>2. ~Contains(waiters, Head(delay_list))
      BY <3>1 DEF MutexInv, LockAgree
    <3>3. waiters' = Unlink(waiters, Head(delay_list))
      BY <2>1, MutexAssumption DEF TickWake, Wake, waiters
    <3> QED BY <3>2, <3>3 DEF Unlink
  <2>2. CASE ~TickWake
    BY <2>2 DEF MutexBackground, Background, waiters, Start, PendSV, ScanEmpty, Return, Sleep,
                Yield, Finish, TickIsr, lists
  <2> QED BY <2>1, <2>2
<1>3. \A u \in locking : u \in Tasks /\ (Contains(waiters, u) \/ state[u] = "Ready")
  BY DEF MutexInv, LockAgree, MutexTypeOK
<1>4. \A u \in Tasks : Contains(waiters, u) => state[u] # "Ready" /\ state'[u] # "Ready"
  <2>1. \A u \in Tasks : Contains(waiters, u) => state[u] = "Blocked"
    BY Waiting, MutexAssumption DEF MutexInv, IInv, waiters
  <2> QED BY <1>1, <1>2, <2>1
<1>5. locking' = locking /\ owner' = owner
  BY DEF MutexBackground
<1>6. Chosen' = Chosen
  BY <1>1, <1>3, <1>4, <1>5 DEF Chosen
<1> QED BY <1>2, <1>5, <1>6, HandOverStutter

\* Every step of the mutex is a step of module FairPermits, or none there.
LEMMA MutexNextHandsOver ==
    MutexInv /\ MutexInv' /\ [MutexNext]_mutexVars => [Permit!Next]_(Permit!vars)
<1> SUFFICES ASSUME MutexInv, MutexInv', [MutexNext]_mutexVars
             PROVE  [Permit!Next]_(Permit!vars)
  OBVIOUS
<1>1. CASE TakeLock
  BY <1>1, TakeLockHandsOver
<1>2. CASE Lock
  <2>1. CASE ~TakeLock
    <3>1. Top.task = current
      BY <1>2, ExecutingIsFree DEF Lock
    <3> QED BY <1>2, <2>1, <3>1, LockWaits DEF Lock
  <2> QED BY <1>1, <2>1
<1>3. CASE Unlock
  BY <1>3, UnlockGrants
<1>4. CASE MutexDispatch
  BY <1>4, DispatchHandsOver
<1>5. CASE MutexBackground
  BY <1>5, BackgroundHandsOver
<1>6. CASE UNCHANGED mutexVars
  <2>1. UNCHANGED <<owner, waiters, Chosen>>
    BY <1>6 DEF mutexVars, waiters, kernelVars, lists, Chosen
  <2> QED BY <2>1, HandOverStutter
<1> QED BY <1>1, <1>2, <1>3, <1>4, <1>5, <1>6 DEF MutexNext, TryLock

\* unlock() hands the mutex over in the order of the requests, and nobody takes
\* it before the chosen task runs, for any number of tasks and priorities.
THEOREM HandOverIsFair == MutexSpec => HandsOver
<1>1. MutexInit => Permit!Init
  <2> SUFFICES ASSUME MutexInit PROVE Permit!Init
    OBVIOUS
  <2>1. waiters = <<>> /\ Chosen = {} /\ owner = NoTask
    BY MutexAssumption DEF MutexInit, Init, waiters, Chosen
  <2> QED BY <2>1 DEF Permit!Init
<1> QED BY <1>1, MutexNextHandsOver, MutexInvariance, PTL DEF MutexSpec, HandsOver, Permit!Spec

-----------------------------------------------------------------------------
(* The queue *)

\* Every step of the queue is a step of the scheduler, or leaves the scheduler
\* alone.
LEMMA StepsOfKernel ==
    ASSUME IInv, [QueueNext]_queueVars
    PROVE  [Next]_kernelVars
<1>1. ASSUME NEW v \in Values, DeliverOrPush(v) PROVE [Next]_kernelVars
  <2>1. CASE UNCHANGED kernelVars
    BY <2>1
  <2>2. CASE receivers # <<>> /\ WakeWaiter("receivers", Head(receivers))
    <3>1. Head(receivers) \in Tasks
      BY <2>2, HeadWaits, QueueAssumption DEF IInv, receivers
    <3> QED BY <2>2, <3>1, QueueAssumption DEF Next
  <2> QED BY <1>1, <2>1, <2>2 DEF DeliverOrPush
<1>2. ASSUME PopAndRefill PROVE [Next]_kernelVars
  <2>1. CASE UNCHANGED kernelVars
    BY <2>1
  <2>2. CASE senders # <<>> /\ WakeWaiter("senders", FirstSender)
    <3>1. FirstSender \in Tasks
      BY <2>2, HeadWaits, QueueAssumption DEF IInv, senders, FirstSender
    <3> QED BY <2>2, <3>1, QueueAssumption DEF Next
  <2> QED BY <1>2, <2>1, <2>2 DEF PopAndRefill
<1>3. ASSUME NEW l \in Lists, NEW n \in Timeouts, Executing, BlockCurrent(l, n)
      PROVE  [Next]_kernelVars
  BY <1>3 DEF Next, Block
<1>4. ASSUME NEW v \in Values, NEW n \in Timeouts, Send(v, n) PROVE [Next]_kernelVars
  BY <1>1, <1>3, <1>4, QueueAssumption DEF Send
<1>5. ASSUME NEW n \in Timeouts, Receive(n) PROVE [Next]_kernelVars
  BY <1>2, <1>3, <1>5, QueueAssumption DEF Receive
<1>6. ASSUME NEW v \in Values, TrySend(v) PROVE [Next]_kernelVars
  BY <1>1, <1>6 DEF TrySend
<1>7. CASE TryReceive
  BY <1>2, <1>7 DEF TryReceive
<1>8. CASE QueueDispatch \/ Background
  BY <1>8 DEF QueueDispatch, Next
<1>9. CASE UNCHANGED queueVars
  BY <1>9 DEF queueVars
<1> QED BY <1>4, <1>5, <1>6, <1>7, <1>8, <1>9 DEF QueueNext

-----------------------------------------------------------------------------
(* The ring of slots *)

\* The slot k places after slot h
LEMMA SlotAfter ==
    ASSUME NEW h \in 0 .. N - 1, NEW k \in 0 .. N
    PROVE  (h + k) % N = IF h + k < N THEN h + k ELSE h + k - N
<1>1. N \in Nat \ {0}
  BY QueueAssumption
<1>2. CASE h + k < N
  BY <1>1, <1>2
<1>3. CASE h + k >= N
  <2>1. h + k - N \in 0 .. N - 1 /\ h + k = 1 * N + (h + k - N)
    BY <1>1, <1>3
  <2> QED BY <1>1, <1>3, <2>1
<1> QED BY <1>1, <1>2, <1>3

LEMMA SlotInRange ==
    ASSUME NEW h \in 0 .. N - 1, NEW k \in 0 .. N
    PROVE  (h + k) % N \in 0 .. N - 1
  BY SlotAfter, QueueAssumption

\* How many places slot i is after slot h
Place(i, h) == IF i >= h THEN i - h ELSE i - h + N

LEMMA PlaceOfSlot ==
    ASSUME NEW h \in 0 .. N - 1, NEW i \in 0 .. N - 1
    PROVE  /\ Place(i, h) \in 0 .. N - 1
           /\ \A k \in 0 .. N - 1 : i = (h + k) % N <=> k = Place(i, h)
<1>1. N \in Nat \ {0}
  BY QueueAssumption
<1>2. Place(i, h) \in 0 .. N - 1
  BY <1>1 DEF Place
<1>3. ASSUME NEW k \in 0 .. N - 1
      PROVE  i = (h + k) % N <=> k = Place(i, h)
  <2>1. (h + k) % N = IF h + k < N THEN h + k ELSE h + k - N
    BY <1>1, SlotAfter
  <2> QED BY <1>1, <2>1 DEF Place
<1> QED BY <1>2, <1>3

\* The slots in use are the first c places.
LEMMA SlotsInUse ==
    ASSUME NEW h \in 0 .. N - 1, NEW c \in 0 .. N, NEW i \in 0 .. N - 1
    PROVE  (\E k \in 0 .. c - 1 : i = (h + k) % N) <=> Place(i, h) < c
<1>1. N \in Nat \ {0}
  BY QueueAssumption
<1>2. /\ Place(i, h) \in 0 .. N - 1
      /\ \A k \in 0 .. N - 1 : i = (h + k) % N <=> k = Place(i, h)
  BY PlaceOfSlot
<1>3. \A k \in 0 .. c - 1 : k \in 0 .. N - 1
  BY <1>1
<1>4. Place(i, h) < c <=> Place(i, h) \in 0 .. c - 1
  BY <1>1, <1>2
<1> HIDE DEF Place
<1> QED BY <1>2, <1>3, <1>4, Zenon

\* pop_slot_locked: the head moves on one place.
LEMMA HeadMovesOn ==
    ASSUME NEW h \in 0 .. N - 1
    PROVE  /\ (h + 1) % N \in 0 .. N - 1
           /\ \A i \in 0 .. N - 1 :
                 Place(i, (h + 1) % N) = IF i = h THEN N - 1 ELSE Place(i, h) - 1
<1>1. N \in Nat \ {0}
  BY QueueAssumption
<1>2. (h + 1) % N = IF h + 1 < N THEN h + 1 ELSE h + 1 - N
  BY <1>1, SlotAfter
<1> QED BY <1>1, <1>2 DEF Place

\* The first free slot is count places after the head.
LEMMA FirstFree ==
    ASSUME NEW h \in 0 .. N - 1, NEW c \in 0 .. N - 1
    PROVE  /\ (h + c) % N \in 0 .. N - 1
           /\ \A i \in 0 .. N - 1 : Place(i, h) = c <=> i = (h + c) % N
<1>1. N \in Nat \ {0}
  BY QueueAssumption
<1>2. (h + c) % N = IF h + c < N THEN h + c ELSE h + c - N
  BY <1>1, SlotAfter
<1> QED BY <1>1, <1>2 DEF Place

\* StorageAgrees in terms of places
SlotsAgree == \A i \in 0 .. N - 1 : (buf[i] # NoValue) <=> Place(i, head) < count

AwaitersAgree ==
    /\ \A t \in Tasks : t \in receiving => ((payload[t] # NoValue) <=> Handed(t))
    /\ \A t \in Tasks : Contains(senders, t) => payload[t] # NoValue

LEMMA StorageByPlace ==
    ASSUME QueueTypeOK
    PROVE  StorageAgrees <=> SlotsAgree /\ AwaitersAgree
<1>1. head \in 0 .. N - 1 /\ count \in 0 .. N
  BY DEF QueueTypeOK
<1>2. \A i \in 0 .. N - 1 :
         (\E k \in 0 .. count - 1 : i = (head + k) % N) <=> Place(i, head) < count
  BY <1>1, SlotsInUse
<1> QED BY <1>2 DEF StorageAgrees, SlotsAgree, AwaitersAgree

LEMMA StorageByPlaceNext ==
    ASSUME QueueTypeOK'
    PROVE  StorageAgrees' <=> SlotsAgree' /\ AwaitersAgree'
<1>1. head' \in 0 .. N - 1 /\ count' \in 0 .. N
  BY DEF QueueTypeOK
<1>2. \A i \in 0 .. N - 1 :
         (\E k \in 0 .. count' - 1 : i = (head' + k) % N) <=> Place(i, head') < count'
  BY <1>1, SlotsInUse
<1>3. StorageAgrees' <=> (SlotsAgree /\ AwaitersAgree)'
  BY <1>2 DEF StorageAgrees, SlotsAgree, AwaitersAgree, Place
<1> QED BY <1>3

\* A blocked sender is not in receive(): it has one WaitNode.
LEMMA SendersDoNotReceive ==
    ASSUME QueueInv, NEW t \in Tasks, Contains(senders, t)
    PROVE  /\ t \notin receiving /\ ~Contains(receivers, t)
           /\ state[t] = "Blocked" /\ payload[t] \in Values
<1>1. state[t] = "Blocked"
  BY Waiting, QueueAssumption DEF QueueInv, IInv, senders
<1>2. ~Contains(receivers, t)
  BY QueueAssumption DEF QueueInv, IInv, BlockedAgree, receivers, senders
<1>3. t \notin receiving
  BY <1>1, <1>2 DEF QueueInv, ReceiveAgree
<1>4. payload[t] \in Values
  BY DEF QueueInv, StorageAgrees, QueueTypeOK
<1> QED BY <1>1, <1>2, <1>3, <1>4

LEMMA WaitListTypes ==
    ASSUME IInv
    PROVE  /\ receivers \in Seq(Tasks) /\ NoRepeat(receivers)
           /\ senders \in Seq(Tasks) /\ NoRepeat(senders)
BY QueueAssumption DEF IInv, TypeOK, BlockedAgree, receivers, senders

-----------------------------------------------------------------------------
(* What each operation does to the invariant *)

\* A value goes into the first free slot.
LEMMA PushStep ==
    ASSUME QueueInv, NEW v \in Values, receivers = <<>>, count < N,
           buf' = [buf EXCEPT ![(head + count) % N] = v], count' = count + 1,
           UNCHANGED <<kernelVars, head, payload, receiving>>
    PROVE  QueueInv'
<1>1. UNCHANGED <<receivers, senders, state, timed_out>>
  BY DEF receivers, senders, kernelVars, lists, nodes
<1>2. IInv'
  BY StutterStep DEF QueueInv
<1>3. /\ buf \in [0 .. N - 1 -> Values \union {NoValue}]
      /\ head \in 0 .. N - 1 /\ count \in 0 .. N - 1 /\ N \in Nat \ {0} /\ v # NoValue
  BY QueueAssumption DEF QueueInv, QueueTypeOK
<1>4. /\ (head + count) % N \in 0 .. N - 1
      /\ \A i \in 0 .. N - 1 : Place(i, head) = count <=> i = (head + count) % N
  BY <1>3, FirstFree
<1>5. QueueTypeOK'
  BY <1>3, <1>4 DEF QueueInv, QueueTypeOK
<1>6. ReceiveAgree'
  BY <1>1 DEF QueueInv, ReceiveAgree
<1>7. NobodyStranded'
  BY <1>1, <1>3 DEF QueueInv, NobodyStranded
<1>8. SlotsAgree /\ AwaitersAgree
  BY StorageByPlace DEF QueueInv
<1>9. SlotsAgree'
  <2>1. ASSUME NEW i \in 0 .. N - 1
        PROVE  (buf'[i] # NoValue) <=> Place(i, head) < count + 1
    <3>1. buf'[i] = IF i = (head + count) % N THEN v ELSE buf[i]
      BY <1>3
    <3>2. Place(i, head) \in 0 .. N - 1
      BY <1>3, PlaceOfSlot
    <3>3. (buf[i] # NoValue) <=> Place(i, head) < count
      BY <1>8 DEF SlotsAgree
    <3> QED BY <1>3, <1>4, <3>1, <3>2, <3>3
  <2> QED BY <2>1 DEF SlotsAgree, Place
<1>10. AwaitersAgree'
  BY <1>1, <1>8 DEF AwaitersAgree, Handed
<1>11. StorageAgrees'
  BY <1>5, <1>9, <1>10, StorageByPlaceNext
<1> QED BY <1>2, <1>5, <1>6, <1>7, <1>11 DEF QueueInv

\* The value goes to the first receiver.
LEMMA HandStep ==
    ASSUME QueueInv, NEW v \in Values, receivers # <<>>,
           payload' = [payload EXCEPT ![Head(receivers)] = v],
           WakeWaiter("receivers", Head(receivers)),
           UNCHANGED <<buf, head, count, receiving>>
    PROVE  QueueInv'
<1>1. PICK t \in Tasks : t = Head(receivers) /\ Contains(receivers, t)
  BY HeadWaits, QueueAssumption DEF QueueInv, IInv, receivers
<1>2. /\ state[t] = "Blocked"
      /\ state' = [state EXCEPT ![t] = "Ready"]
      /\ timed_out' = [timed_out EXCEPT ![t] = FALSE]
      /\ \A u \in Tasks : Contains(receivers', u) <=> (Contains(receivers, u) /\ u # t)
  BY <1>1, WakeLeavesList, QueueAssumption DEF QueueInv, receivers
<1>3. senders = <<>> /\ senders' = <<>> /\ count = 0
  <2>1. senders' = Unlink(senders, t)
    BY <1>1, QueueAssumption DEF WakeWaiter, Wake, senders
  <2>2. senders = <<>> /\ count = 0
    BY DEF QueueInv, NobodyStranded
  <2> QED BY <2>1, <2>2 DEF Unlink, Contains
<1>4. IInv'
  BY <1>1, WakeWaiterStep, QueueAssumption DEF QueueInv
<1>5. payload' = [payload EXCEPT ![t] = v] /\ v # NoValue
  BY <1>1, QueueAssumption
<1>6. QueueTypeOK'
  BY <1>5 DEF QueueInv, QueueTypeOK
<1>7. ReceiveAgree'
  BY <1>1, <1>2, <1>5 DEF QueueInv, ReceiveAgree, QueueTypeOK, IInv, TypeOK
<1>8. NobodyStranded'
  BY <1>3 DEF NobodyStranded
<1>9. SlotsAgree /\ AwaitersAgree
  BY StorageByPlace DEF QueueInv
<1>10. SlotsAgree'
  BY <1>9 DEF SlotsAgree, Place
<1>11. AwaitersAgree'
  <2>1. \A u \in Tasks : ~Contains(senders', u)
    BY <1>3 DEF Contains
  <2>2. ASSUME NEW u \in Tasks, u \in receiving
        PROVE  (payload'[u] # NoValue) <=> Handed(u)'
    <3>1. CASE u = t
      BY <1>1, <1>2, <1>5, <2>2, <3>1 DEF Handed, QueueInv, QueueTypeOK, IInv, TypeOK
    <3>2. CASE u # t
      BY <1>2, <1>5, <1>9, <2>2, <3>2
         DEF AwaitersAgree, Handed, QueueInv, QueueTypeOK, IInv, TypeOK
    <3> QED BY <3>1, <3>2
  <2> QED BY <2>1, <2>2 DEF AwaitersAgree
<1>12. StorageAgrees'
  BY <1>6, <1>10, <1>11, StorageByPlaceNext
<1> QED BY <1>4, <1>6, <1>7, <1>8, <1>12 DEF QueueInv

\* A value is taken, with no sender blocked: the slot is free again.
LEMMA PopStep ==
    ASSUME QueueInv, count > 0, senders = <<>>, head' = (head + 1) % N,
           buf' = [buf EXCEPT ![head] = NoValue], count' = count - 1,
           UNCHANGED <<kernelVars, payload, receiving>>
    PROVE  QueueInv'
<1>1. UNCHANGED <<receivers, senders, state, timed_out>>
  BY DEF receivers, senders, kernelVars, lists, nodes
<1>2. IInv'
  BY StutterStep DEF QueueInv
<1>3. /\ buf \in [0 .. N - 1 -> Values \union {NoValue}]
      /\ head \in 0 .. N - 1 /\ count \in 1 .. N /\ N \in Nat \ {0}
  BY QueueAssumption DEF QueueInv, QueueTypeOK
<1>4. /\ (head + 1) % N \in 0 .. N - 1
      /\ \A i \in 0 .. N - 1 :
            Place(i, (head + 1) % N) = IF i = head THEN N - 1 ELSE Place(i, head) - 1
  BY <1>3, HeadMovesOn
<1>5. QueueTypeOK'
  BY <1>3, <1>4 DEF QueueInv, QueueTypeOK
<1>6. ReceiveAgree'
  BY <1>1 DEF QueueInv, ReceiveAgree
<1>7. NobodyStranded'
  BY <1>1, <1>3 DEF QueueInv, NobodyStranded
<1>8. SlotsAgree /\ AwaitersAgree
  BY StorageByPlace DEF QueueInv
<1>9. SlotsAgree'
  <2>1. ASSUME NEW i \in 0 .. N - 1
        PROVE  (buf'[i] # NoValue) <=> Place(i, (head + 1) % N) < count - 1
    <3>1. buf'[i] = IF i = head THEN NoValue ELSE buf[i]
      BY <1>3
    <3>2. Place(i, head) \in 0 .. N - 1
      BY <1>3, PlaceOfSlot
    <3>3. (buf[i] # NoValue) <=> Place(i, head) < count
      BY <1>8 DEF SlotsAgree
    <3> QED BY <1>3, <1>4, <3>1, <3>2, <3>3
  <2> QED BY <2>1 DEF SlotsAgree, Place
<1>10. AwaitersAgree'
  BY <1>1, <1>8 DEF AwaitersAgree, Handed
<1>11. StorageAgrees'
  BY <1>5, <1>9, <1>10, StorageByPlaceNext
<1> QED BY <1>2, <1>5, <1>6, <1>7, <1>11 DEF QueueInv

\* In a full buffer the freed slot and the first free one are the same.
LEMMA RefilledSlot ==
    ASSUME QueueInv, senders # <<>>
    PROVE  count = N /\ (head + count) % N = head
<1>1. N \in Nat \ {0} /\ head \in 0 .. N - 1 /\ count = N
  BY QueueAssumption DEF QueueInv, QueueTypeOK, NobodyStranded
<1>2. (head + N) % N = IF head + N < N THEN head + N ELSE head + N - N
  BY <1>1, SlotAfter
<1> QED BY <1>1, <1>2

\* A value is taken, and the first blocked sender's value takes its slot.
LEMMA RefillStep ==
    ASSUME QueueInv, count > 0, senders # <<>>, head' = (head + 1) % N,
           buf' = [buf EXCEPT ![head] = NoValue,
                              ![(head + count) % N] = payload[FirstSender]],
           payload' = [payload EXCEPT ![FirstSender] = NoValue],
           WakeWaiter("senders", FirstSender),
           UNCHANGED <<count, receiving>>
    PROVE  QueueInv'
<1>1. PICK t \in Tasks : t = FirstSender /\ Contains(senders, t)
  BY HeadWaits, QueueAssumption DEF QueueInv, IInv, senders, FirstSender
<1>2. /\ state[t] = "Blocked"
      /\ state' = [state EXCEPT ![t] = "Ready"]
      /\ timed_out' = [timed_out EXCEPT ![t] = FALSE]
      /\ \A u \in Tasks : Contains(senders', u) <=> (Contains(senders, u) /\ u # t)
  BY <1>1, WakeLeavesList, QueueAssumption DEF QueueInv, senders
<1>3. t \notin receiving /\ payload[t] \in Values /\ payload[t] # NoValue
  BY <1>1, SendersDoNotReceive, QueueAssumption
<1>4. count = N /\ (head + count) % N = head
  BY RefilledSlot
<1>5. receivers = <<>> /\ receivers' = <<>>
  <2>1. receivers' = Unlink(receivers, t)
    BY <1>1, QueueAssumption DEF WakeWaiter, Wake, receivers
  <2>2. receivers = <<>>
    BY DEF QueueInv, NobodyStranded
  <2> QED BY <2>1, <2>2 DEF Unlink, Contains
<1>6. \A u : ~Contains(<<>>, u)
  BY DEF Contains
<1>7. IInv'
  BY <1>1, WakeWaiterStep, QueueAssumption DEF QueueInv
<1>8. /\ head \in 0 .. N - 1 /\ N \in Nat \ {0} /\ count' = N
      /\ buf \in [0 .. N - 1 -> Values \union {NoValue}]
      /\ buf' = [buf EXCEPT ![head] = payload[t]]
      /\ payload' = [payload EXCEPT ![t] = NoValue]
  BY <1>1, <1>4, QueueAssumption DEF QueueInv, QueueTypeOK
<1>9. /\ head' \in 0 .. N - 1
      /\ \A i \in 0 .. N - 1 :
            Place(i, head') = IF i = head THEN N - 1 ELSE Place(i, head) - 1
  BY <1>8, HeadMovesOn
<1>10. QueueTypeOK'
  BY <1>3, <1>4, <1>8, <1>9 DEF QueueInv, QueueTypeOK
<1>11. ReceiveAgree'
  BY <1>2, <1>3, <1>5, <1>6, <1>8 DEF QueueInv, ReceiveAgree, QueueTypeOK, IInv, TypeOK
<1>12. NobodyStranded'
  BY <1>5, <1>8 DEF NobodyStranded
<1>13. SlotsAgree /\ AwaitersAgree
  BY StorageByPlace DEF QueueInv
<1>14. SlotsAgree'
  <2>1. ASSUME NEW i \in 0 .. N - 1
        PROVE  (buf'[i] # NoValue) <=> Place(i, head') < count'
    <3>1. buf'[i] = IF i = head THEN payload[t] ELSE buf[i]
      BY <1>8
    <3>2. Place(i, head) \in 0 .. N - 1
      BY <1>8, PlaceOfSlot
    <3>3. (buf[i] # NoValue) <=> Place(i, head) < count
      BY <1>13 DEF SlotsAgree
    <3> QED BY <1>3, <1>4, <1>8, <1>9, <3>1, <3>2, <3>3
  <2> QED BY <2>1 DEF SlotsAgree, Place
<1>15. AwaitersAgree'
  BY <1>2, <1>3, <1>8, <1>13 DEF AwaitersAgree, Handed, QueueInv, QueueTypeOK, IInv, TypeOK
<1>16. StorageAgrees'
  BY <1>10, <1>14, <1>15, StorageByPlaceNext
<1> QED BY <1>7, <1>10, <1>11, <1>12, <1>16 DEF QueueInv

\* A sender joins its wait list with its value while the buffer is full.
LEMMA SendBlocks ==
    ASSUME QueueInv, NEW v \in Values, NEW n \in Timeouts, Executing,
           receivers = <<>>, count = N,
           payload' = [payload EXCEPT ![current] = v], BlockCurrent("senders", n),
           UNCHANGED <<buf, head, count, receiving>>
    PROVE  QueueInv'
<1>1. PICK t \in Tasks : t = current /\ state[t] = "Running"
  BY Executes DEF QueueInv
<1>2. /\ state' = [state EXCEPT ![t] = "Blocked"]
      /\ timed_out' = [timed_out EXCEPT ![t] = FALSE]
      /\ \A u \in Tasks : Contains(senders', u) <=> (Contains(senders, u) \/ u = t)
  BY <1>1, BlockJoinsList, QueueAssumption DEF QueueInv, senders
<1>3. receivers' = <<>>
  BY QueueAssumption DEF BlockCurrent, receivers, QueueInv, IInv, TypeOK
<1>4. \A u : ~Contains(<<>>, u)
  BY DEF Contains
<1>5. t \notin receiving
  BY <1>1, <1>4 DEF QueueInv, ReceiveAgree
<1>6. payload' = [payload EXCEPT ![t] = v] /\ v # NoValue
  BY <1>1, QueueAssumption
<1>7. IInv'
  BY BlockStep, QueueAssumption DEF QueueInv, Block
<1>8. QueueTypeOK'
  BY <1>6 DEF QueueInv, QueueTypeOK
<1>9. ReceiveAgree'
  BY <1>2, <1>3, <1>4, <1>5, <1>6 DEF QueueInv, ReceiveAgree, QueueTypeOK, IInv, TypeOK
<1>10. NobodyStranded'
  BY <1>3 DEF NobodyStranded
<1>11. SlotsAgree /\ AwaitersAgree
  BY StorageByPlace DEF QueueInv
<1>12. SlotsAgree'
  BY <1>11 DEF SlotsAgree, Place
<1>13. AwaitersAgree'
  BY <1>2, <1>5, <1>6, <1>11 DEF AwaitersAgree, Handed, QueueInv, QueueTypeOK, IInv, TypeOK
<1>14. StorageAgrees'
  BY <1>8, <1>12, <1>13, StorageByPlaceNext
<1> QED BY <1>7, <1>8, <1>9, <1>10, <1>14 DEF QueueInv

\* A receiver joins its wait list, with empty storage, while the buffer is empty.
LEMMA ReceiveBlocks ==
    ASSUME QueueInv, NEW n \in Timeouts, Executing, count = 0,
           BlockCurrent("receivers", n), receiving' = receiving \union {current},
           UNCHANGED <<buf, head, count, payload>>
    PROVE  QueueInv'
<1>1. PICK t \in Tasks : t = current /\ state[t] = "Running"
  BY Executes DEF QueueInv
<1>2. /\ state' = [state EXCEPT ![t] = "Blocked"]
      /\ timed_out' = [timed_out EXCEPT ![t] = FALSE]
      /\ \A u \in Tasks : Contains(receivers', u) <=> (Contains(receivers, u) \/ u = t)
  BY <1>1, BlockJoinsList, QueueAssumption DEF QueueInv, receivers
<1>3. senders = <<>> /\ senders' = <<>>
  <2>1. senders = <<>>
    BY QueueAssumption DEF QueueInv, NobodyStranded
  <2> QED BY <2>1, QueueAssumption DEF BlockCurrent, senders, QueueInv, IInv, TypeOK
<1>4. \A u : ~Contains(<<>>, u)
  BY DEF Contains
<1>5. payload[t] = NoValue /\ receiving' = receiving \union {t}
  BY <1>1 DEF QueueInv, ReceiveAgree
<1>6. IInv'
  BY BlockStep, QueueAssumption DEF QueueInv, Block
<1>7. QueueTypeOK'
  BY <1>5 DEF QueueInv, QueueTypeOK
<1>8. ReceiveAgree'
  BY <1>2, <1>5 DEF QueueInv, ReceiveAgree, QueueTypeOK, IInv, TypeOK
<1>9. NobodyStranded'
  BY <1>3 DEF NobodyStranded
<1>10. SlotsAgree /\ AwaitersAgree
  BY StorageByPlace DEF QueueInv
<1>11. SlotsAgree'
  BY <1>10 DEF SlotsAgree, Place
<1>12. AwaitersAgree'
  BY <1>1, <1>2, <1>3, <1>4, <1>5, <1>10
     DEF AwaitersAgree, Handed, QueueInv, QueueTypeOK, IInv, TypeOK
<1>13. StorageAgrees'
  BY <1>7, <1>11, <1>12, StorageByPlaceNext
<1> QED BY <1>6, <1>7, <1>8, <1>9, <1>13 DEF QueueInv

\* The task that goes on takes its value with it, or its awaiter is destroyed
\* with the value it still holds.
LEMMA DispatchStep ==
    ASSUME QueueInv, QueueDispatch
    PROVE  QueueInv'
<1>1. PICK t \in Tasks : t = current'
  BY DispatchRuns DEF QueueInv, QueueDispatch
<1>2. /\ state[t] = "Ready"
      /\ state' = [state EXCEPT ![t] = "Running"]
      /\ timed_out' = [timed_out EXCEPT ![t] = FALSE]
      /\ UNCHANGED <<receivers, senders>>
  BY <1>1, DispatchRuns DEF QueueInv, QueueDispatch, receivers, senders
<1>3. /\ receiving' = receiving \ {t}
      /\ payload' = [payload EXCEPT ![t] = NoValue]
      /\ UNCHANGED <<buf, head, count>>
  BY <1>1 DEF QueueDispatch
<1>4. IInv'
  BY NextIInv DEF QueueInv, QueueDispatch, Next
<1>5. ~Contains(receivers, t) /\ ~Contains(senders, t)
  BY <1>2, Waiting, QueueAssumption DEF QueueInv, IInv, receivers, senders
<1>6. QueueTypeOK'
  BY <1>3 DEF QueueInv, QueueTypeOK
<1>7. ReceiveAgree'
  BY <1>2, <1>3, <1>5 DEF QueueInv, ReceiveAgree, QueueTypeOK, IInv, TypeOK
<1>8. NobodyStranded'
  BY <1>2, <1>3 DEF QueueInv, NobodyStranded
<1>9. SlotsAgree /\ AwaitersAgree
  BY StorageByPlace DEF QueueInv
<1>10. SlotsAgree'
  BY <1>3, <1>9 DEF SlotsAgree, Place
<1>11. AwaitersAgree'
  BY <1>2, <1>3, <1>5, <1>9 DEF AwaitersAgree, Handed, QueueInv, QueueTypeOK, IInv, TypeOK
<1>12. StorageAgrees'
  BY <1>6, <1>10, <1>11, StorageByPlaceNext
<1> QED BY <1>4, <1>6, <1>7, <1>8, <1>12 DEF QueueInv

\* No step without the queue hands or moves a value; a timeout takes its task
\* out of the list.
LEMMA BackgroundMovesNoValue ==
    ASSUME QueueInv, Background, UNCHANGED <<buf, head, count, payload, receiving>>
    PROVE  QueueInv'
<1>1. ASSUME NEW u \in Tasks
      PROVE  /\ state[u] = "Ready" => state'[u] = "Ready" /\ timed_out'[u] = timed_out[u]
             /\ state[u] = "Blocked" =>
                   \/ state'[u] = "Blocked" /\ timed_out'[u] = timed_out[u]
                   \/ state'[u] = "Ready" /\ timed_out'[u]
             /\ Contains(receivers', u) <=> (Contains(receivers, u) /\ state'[u] = "Blocked")
             /\ Contains(senders', u) <=> (Contains(senders, u) /\ state'[u] = "Blocked")
  BY <1>1, BackgroundKeepsWaits, QueueAssumption DEF QueueInv, receivers, senders
<1>2. \A u \in Tasks : Contains(receivers, u) \/ Contains(senders, u) => state[u] = "Blocked"
  BY Waiting, QueueAssumption DEF QueueInv, IInv, receivers, senders
<1>3. \A u \in Tasks : state'[u] = "Running" => state[u] = "Running"
  BY BackgroundStartsNobody DEF QueueInv
<1>4. IInv'
  BY NextIInv DEF QueueInv, Next
<1>5. QueueTypeOK'
  BY DEF QueueInv, QueueTypeOK
<1>6. ReceiveAgree'
  BY <1>1, <1>2, <1>3 DEF QueueInv, ReceiveAgree, QueueTypeOK
<1>7. NobodyStranded'
  <2>1. /\ receivers = <<>> => receivers' = <<>>
        /\ senders = <<>> => senders' = <<>>
    BY EmptyStaysEmpty, QueueAssumption DEF QueueInv, IInv, receivers, senders
  <2> QED BY <2>1 DEF QueueInv, NobodyStranded
<1>8. SlotsAgree /\ AwaitersAgree
  BY StorageByPlace DEF QueueInv
<1>9. SlotsAgree'
  BY <1>8 DEF SlotsAgree, Place
<1>10. AwaitersAgree'
  <2>1. \A u \in Tasks : u \in receiving => (Handed(u)' <=> Handed(u))
    BY <1>1, <1>2 DEF Handed, QueueInv, ReceiveAgree
  <2>2. \A u \in Tasks : Contains(senders', u) => Contains(senders, u)
    BY <1>1
  <2> QED BY <1>8, <2>1, <2>2 DEF AwaitersAgree
<1>11. StorageAgrees'
  BY <1>5, <1>9, <1>10, StorageByPlaceNext
<1> QED BY <1>4, <1>5, <1>6, <1>7, <1>11 DEF QueueInv

-----------------------------------------------------------------------------
\* At first the buffer is empty.
LEMMA QueueInitInv == QueueInit => QueueInv
<1> SUFFICES ASSUME QueueInit PROVE QueueInv
  OBVIOUS
<1>1. receivers = <<>> /\ senders = <<>> /\ N \in Nat \ {0}
  BY QueueAssumption DEF QueueInit, Init, receivers, senders
<1>2. \A u : ~Contains(<<>>, u)
  BY DEF Contains
<1>3. IInv
  BY InitIInv DEF QueueInit
<1>4. QueueTypeOK
  BY <1>1 DEF QueueInit, QueueTypeOK
<1>5. ReceiveAgree /\ NobodyStranded
  BY <1>1, <1>2 DEF QueueInit, ReceiveAgree, NobodyStranded
<1>6. SlotsAgree
  <2>1. ASSUME NEW i \in 0 .. N - 1 PROVE ~(Place(i, 0) < 0)
    BY <1>1, PlaceOfSlot
  <2> QED BY <2>1 DEF QueueInit, SlotsAgree
<1>7. AwaitersAgree
  BY <1>1, <1>2 DEF QueueInit, AwaitersAgree
<1> QED BY <1>3, <1>4, <1>5, <1>6, <1>7, StorageByPlace DEF QueueInv

\* Every step keeps the invariant.
LEMMA QueueNextInv == QueueInv /\ [QueueNext]_queueVars => QueueInv'
<1> SUFFICES ASSUME QueueInv, [QueueNext]_queueVars PROVE QueueInv'
  OBVIOUS
<1>1. ASSUME NEW v \in Values, DeliverOrPush(v) PROVE QueueInv'
  BY <1>1, HandStep, PushStep DEF DeliverOrPush
<1>2. ASSUME PopAndRefill PROVE QueueInv'
  BY <1>2, PopStep, RefillStep DEF PopAndRefill
<1>3. ASSUME NEW v \in Values, NEW n \in Timeouts, Send(v, n) PROVE QueueInv'
  BY <1>1, <1>3, SendBlocks DEF Send
<1>4. ASSUME NEW n \in Timeouts, Receive(n) PROVE QueueInv'
  BY <1>2, <1>4, ReceiveBlocks DEF Receive
<1>5. ASSUME NEW v \in Values, TrySend(v) PROVE QueueInv'
  BY <1>1, <1>5 DEF TrySend
<1>6. CASE TryReceive
  BY <1>2, <1>6 DEF TryReceive
<1>7. CASE QueueDispatch
  BY <1>7, DispatchStep
<1>8. CASE Background /\ UNCHANGED <<buf, head, count, payload, receiving>>
  BY <1>8, BackgroundMovesNoValue
<1>9. CASE UNCHANGED queueVars
  <2>1. UNCHANGED <<receivers, senders, state, timed_out, buf, head, count, payload, receiving>>
    BY <1>9 DEF queueVars, receivers, senders, kernelVars, lists, nodes
  <2>2. IInv'
    BY <1>9, StutterStep DEF QueueInv, queueVars
  <2> QED BY <2>1, <2>2 DEF QueueInv, QueueTypeOK, ReceiveAgree, NobodyStranded,
                            StorageAgrees, Handed
<1> QED BY <1>3, <1>4, <1>5, <1>6, <1>7, <1>8, <1>9 DEF QueueNext

\* The buffer, the wait lists and the awaiters agree in every behaviour.
THEOREM QueueInvariance == QueueSpec => []QueueInv
  BY QueueInitInv, QueueNextInv, PTL DEF QueueSpec

\* The queue runs on the scheduler as module Kernel describes it.
THEOREM RunsOnKernel == QueueSpec => Spec
<1>1. QueueInit => Init
  BY DEF QueueInit
<1>2. QueueInv => IInv
  BY DEF QueueInv
<1> QED BY <1>1, <1>2, StepsOfKernel, QueueInvariance, PTL DEF QueueSpec, Spec

\* The ring buffer stays within its bounds, whatever its capacity.
THEOREM BufferInBounds == QueueSpec => []QueueTypeOK
<1>1. QueueInv => QueueTypeOK
  BY DEF QueueInv
<1> QED BY <1>1, QueueInvariance, PTL

\* No receiver waits while there is a value and no sender while there is room.
THEOREM NobodyIsStranded == QueueSpec => []NobodyStranded
<1>1. QueueInv => NobodyStranded
  BY DEF QueueInv
<1> QED BY <1>1, QueueInvariance, PTL

\* No storage is read that holds no object, and none is overwritten or left
\* behind with one.
THEOREM StorageIsSound == QueueSpec => []StorageAgrees
<1>1. QueueInv => StorageAgrees
  BY DEF QueueInv
<1> QED BY <1>1, QueueInvariance, PTL

-----------------------------------------------------------------------------
(* The refinement of module Channel: its sequences in terms of the ring and *)
(* the lists                                                                *)

\* The values stored and offered
ItemsTyped ==
    /\ Stored \in Seq(Values) /\ Len(Stored) = count
    /\ \A k \in 1 .. count : Stored[k] = buf[(head + k - 1) % N]
    /\ Offered \in Seq(Values) /\ Len(Offered) = Len(senders)
    /\ \A k \in 1 .. Len(senders) : Offered[k] = payload[senders[k]]

LEMMA ItemTypes == QueueInv => ItemsTyped
<1> SUFFICES ASSUME QueueInv PROVE ItemsTyped
  OBVIOUS
<1>1. /\ N \in Nat \ {0} /\ head \in 0 .. N - 1 /\ count \in 0 .. N
      /\ buf \in [0 .. N - 1 -> Values \union {NoValue}]
  BY QueueAssumption DEF QueueInv, QueueTypeOK
<1>2. ASSUME NEW k \in 1 .. count PROVE buf[(head + k - 1) % N] \in Values
  <2>1. k - 1 \in 0 .. count - 1 /\ k - 1 \in 0 .. N /\ head + (k - 1) = head + k - 1
    BY <1>1
  <2>2. (head + (k - 1)) % N \in 0 .. N - 1
    BY <1>1, <2>1, SlotInRange
  <2>3. buf[(head + (k - 1)) % N] # NoValue
    BY <2>1, <2>2 DEF QueueInv, StorageAgrees
  <2> QED BY <1>1, <2>1, <2>2, <2>3
<1>3. Stored \in Seq(Values) /\ Len(Stored) = count
  BY <1>1, <1>2, IsASeq DEF Stored
<1>4. Len(senders) \in Nat /\ \A k \in 1 .. Len(senders) : senders[k] \in Tasks
  BY WaitListTypes, LenProperties, ElementOfSeq DEF QueueInv
<1>5. ASSUME NEW k \in 1 .. Len(senders) PROVE payload[senders[k]] \in Values
  BY <1>4, SendersDoNotReceive DEF Contains
<1>6. Offered \in Seq(Values) /\ Len(Offered) = Len(senders)
  BY <1>4, <1>5, IsASeq DEF Offered
<1> QED BY <1>3, <1>6 DEF ItemsTyped, Stored, Offered

LEMMA ItemTypesNext == QueueInv' => ItemsTyped'
  BY ItemTypes, PTL

\* The slot after the next one
LEMMA NextSlot ==
    ASSUME NEW h \in 0 .. N - 1, NEW k \in 0 .. N - 1
    PROVE  (((h + 1) % N) + k) % N = (h + (k + 1)) % N
<1>1. N \in Nat \ {0} /\ 1 \in 0 .. N /\ k + 1 \in 0 .. N /\ k \in 0 .. N
  BY QueueAssumption
<1>2. (h + 1) % N = IF h + 1 < N THEN h + 1 ELSE h + 1 - N
  BY <1>1, SlotAfter
<1>3. (h + 1) % N \in 0 .. N - 1
  BY <1>1, <1>2
<1>4. (((h + 1) % N) + k) % N = IF ((h + 1) % N) + k < N THEN ((h + 1) % N) + k ELSE ((h + 1) % N) + k - N
  BY <1>1, <1>3, SlotAfter
<1>5. (h + (k + 1)) % N = IF h + (k + 1) < N THEN h + (k + 1) ELSE h + (k + 1) - N
  BY <1>1, SlotAfter
<1> QED BY <1>1, <1>2, <1>4, <1>5

\* Different places are different slots.
LEMMA SlotsDiffer ==
    ASSUME NEW h \in 0 .. N - 1, NEW j \in 0 .. N - 1, NEW k \in 0 .. N - 1,
           (h + j) % N = (h + k) % N
    PROVE  j = k
<1>1. N \in Nat \ {0} /\ j \in 0 .. N /\ k \in 0 .. N
  BY QueueAssumption
<1>2. (h + j) % N = IF h + j < N THEN h + j ELSE h + j - N
  BY <1>1, SlotAfter
<1>3. (h + k) % N = IF h + k < N THEN h + k ELSE h + k - N
  BY <1>1, SlotAfter
<1> QED BY <1>1, <1>2, <1>3

LEMMA StoredPush ==
    ASSUME QueueInv, QueueInv', NEW v \in Values, count < N,
           buf' = [buf EXCEPT ![(head + count) % N] = v], count' = count + 1, head' = head
    PROVE  Stored' = Append(Stored, v)
<1>1. /\ N \in Nat \ {0} /\ head \in 0 .. N - 1 /\ count \in 0 .. N - 1
      /\ buf \in [0 .. N - 1 -> Values \union {NoValue}]
  BY QueueAssumption DEF QueueInv, QueueTypeOK
<1>2. /\ Stored \in Seq(Values) /\ Len(Stored) = count
      /\ \A k \in 1 .. count : Stored[k] = buf[(head + k - 1) % N]
  BY ItemTypes DEF ItemsTyped
<1>3. /\ Stored' \in Seq(Values) /\ Len(Stored') = count + 1
      /\ \A k \in 1 .. count + 1 : Stored'[k] = buf'[(head + k - 1) % N]
  BY ItemTypesNext DEF ItemsTyped
<1> DEFINE a == Append(Stored, v)
<1>4. /\ a \in Seq(Values) /\ Len(a) = count + 1
      /\ \A k \in 1 .. count : a[k] = Stored[k]
      /\ a[count + 1] = v
  BY <1>2, AppendProperties
<1> HIDE DEF a
<1>5. ASSUME NEW k \in 1 .. count + 1 PROVE Stored'[k] = a[k]
  <2>1. k - 1 \in 0 .. N - 1 /\ k - 1 \in 0 .. N /\ head + k - 1 = head + (k - 1)
    BY <1>1
  <2>2. (head + (k - 1)) % N \in 0 .. N - 1
    BY <1>1, <2>1, SlotInRange
  <2>3. buf'[(head + (k - 1)) % N] = IF (head + (k - 1)) % N = (head + count) % N
                                     THEN v ELSE buf[(head + (k - 1)) % N]
    BY <1>1, <2>2
  <2>4. CASE k = count + 1
    BY <1>1, <1>3, <1>4, <2>1, <2>3, <2>4
  <2>5. CASE k # count + 1
    <3>1. k \in 1 .. count /\ k - 1 # count
      BY <1>1, <2>5
    <3>2. (head + (k - 1)) % N # (head + count) % N
      BY <1>1, <2>1, <3>1, SlotsDiffer
    <3> QED BY <1>2, <1>3, <1>4, <2>1, <2>3, <3>1, <3>2
  <2> QED BY <2>4, <2>5
<1>6. Stored' = a
  BY <1>3, <1>4, <1>5, SeqEqual
<1> QED BY <1>6 DEF a

\* The values behind the one that is taken move up.
LEMMA SlotsMoveUp ==
    ASSUME QueueInv, NEW k \in 1 .. count - 1, head' = (head + 1) % N
    PROVE  /\ (head' + k - 1) % N = (head + (k + 1) - 1) % N
           /\ (head' + k - 1) % N # head
           /\ (head' + k - 1) % N \in 0 .. N - 1
<1>1. /\ N \in Nat \ {0} /\ head \in 0 .. N - 1 /\ count \in 0 .. N
  BY QueueAssumption DEF QueueInv, QueueTypeOK
<1>2. /\ k - 1 \in 0 .. N - 1 /\ head' + k - 1 = ((head + 1) % N) + (k - 1)
      /\ head + (k + 1) - 1 = head + ((k - 1) + 1)
  <2>1. (head + 1) % N \in 0 .. N - 1
    BY <1>1, SlotInRange
  <2> QED BY <1>1, <2>1
<1>3. (((head + 1) % N) + (k - 1)) % N = (head + ((k - 1) + 1)) % N
  BY <1>1, <1>2, NextSlot
<1>4. k \in 0 .. N - 1 /\ 0 \in 0 .. N - 1 /\ k # 0 /\ (k - 1) + 1 = k /\ k \in 0 .. N
  BY <1>1
<1>5. (head + 0) % N = head
  <2>1. 0 \in 0 .. N
    BY <1>1
  <2>2. (head + 0) % N = IF head + 0 < N THEN head + 0 ELSE head + 0 - N
    BY <1>1, <2>1, SlotAfter
  <2> QED BY <1>1, <2>2
<1>6. (head + k) % N # (head + 0) % N
  BY <1>1, <1>4, SlotsDiffer
<1>7. (head + k) % N \in 0 .. N - 1
  BY <1>1, <1>4, SlotInRange
<1> QED BY <1>2, <1>3, <1>4, <1>5, <1>6, <1>7

LEMMA StoredPop ==
    ASSUME QueueInv, QueueInv', count > 0, head' = (head + 1) % N,
           buf' = [buf EXCEPT ![head] = NoValue], count' = count - 1
    PROVE  Stored # <<>> /\ Stored' = Tail(Stored)
<1>1. /\ N \in Nat \ {0} /\ head \in 0 .. N - 1 /\ count \in 1 .. N
      /\ buf \in [0 .. N - 1 -> Values \union {NoValue}]
  BY QueueAssumption DEF QueueInv, QueueTypeOK
<1>2. /\ Stored \in Seq(Values) /\ Len(Stored) = count
      /\ \A k \in 1 .. count : Stored[k] = buf[(head + k - 1) % N]
  BY ItemTypes DEF ItemsTyped
<1>3. /\ Stored' \in Seq(Values) /\ Len(Stored') = count - 1
      /\ \A k \in 1 .. count - 1 : Stored'[k] = buf'[(head' + k - 1) % N]
  BY ItemTypesNext DEF ItemsTyped
<1>4. Stored # <<>>
  BY <1>1, <1>2, EmptySeq
<1>5. /\ Tail(Stored) \in Seq(Values) /\ Len(Tail(Stored)) = count - 1
      /\ \A k \in 1 .. count - 1 : Tail(Stored)[k] = Stored[k + 1]
  BY <1>2, <1>4, HeadTailProperties
<1>6. ASSUME NEW k \in 1 .. count - 1 PROVE Stored'[k] = Tail(Stored)[k]
  <2>1. /\ (head' + k - 1) % N = (head + (k + 1) - 1) % N
        /\ (head' + k - 1) % N # head
        /\ (head' + k - 1) % N \in 0 .. N - 1
    BY SlotsMoveUp
  <2>2. k + 1 \in 1 .. count
    BY <1>1
  <2>3. buf'[(head' + k - 1) % N] = buf[(head' + k - 1) % N]
    BY <1>1, <2>1
  <2>4. Stored[k + 1] = buf[(head + (k + 1) - 1) % N]
    BY <1>2, <2>2
  <2> QED BY <1>3, <1>5, <2>1, <2>3, <2>4
<1>7. Stored' = Tail(Stored)
  BY <1>3, <1>5, <1>6, SeqEqual
<1> QED BY <1>4, <1>7

LEMMA StoredRefill ==
    ASSUME QueueInv, QueueInv', senders # <<>>, head' = (head + 1) % N,
           buf' = [buf EXCEPT ![head] = NoValue,
                              ![(head + count) % N] = payload[FirstSender]],
           count' = count
    PROVE  Stored # <<>> /\ Stored' = Append(Tail(Stored), payload[FirstSender])
<1> DEFINE v == payload[FirstSender]
<1>1. /\ N \in Nat \ {0} /\ head \in 0 .. N - 1 /\ count = N
      /\ buf \in [0 .. N - 1 -> Values \union {NoValue}]
      /\ (head + count) % N = head
  BY RefilledSlot, QueueAssumption DEF QueueInv, QueueTypeOK
<1>2. buf' = [buf EXCEPT ![head] = v] /\ v \in Values
  <2>1. FirstSender \in Tasks /\ Contains(senders, FirstSender)
    BY HeadWaits, QueueAssumption DEF QueueInv, IInv, senders, FirstSender
  <2> QED BY <1>1, <2>1, SendersDoNotReceive
<1> HIDE DEF v
<1>3. /\ Stored \in Seq(Values) /\ Len(Stored) = N
      /\ \A k \in 1 .. N : Stored[k] = buf[(head + k - 1) % N]
  BY <1>1, ItemTypes DEF ItemsTyped
<1>4. /\ Stored' \in Seq(Values) /\ Len(Stored') = N
      /\ \A k \in 1 .. N : Stored'[k] = buf'[(head' + k - 1) % N]
  BY <1>1, ItemTypesNext DEF ItemsTyped
<1>5. Stored # <<>>
  BY <1>1, <1>3, EmptySeq
<1>6. /\ Tail(Stored) \in Seq(Values) /\ Len(Tail(Stored)) = N - 1
      /\ \A k \in 1 .. N - 1 : Tail(Stored)[k] = Stored[k + 1]
  BY <1>3, <1>5, HeadTailProperties
<1> DEFINE a == Append(Tail(Stored), v)
<1>7. /\ a \in Seq(Values) /\ Len(a) = N
      /\ \A k \in 1 .. N - 1 : a[k] = Tail(Stored)[k]
      /\ a[N] = v
  <2>1. /\ a \in Seq(Values) /\ Len(a) = (N - 1) + 1
        /\ \A k \in 1 .. N - 1 : a[k] = Tail(Stored)[k]
        /\ a[(N - 1) + 1] = v
    BY <1>2, <1>6, AppendProperties
  <2>2. (N - 1) + 1 = N
    BY <1>1
  <2> QED BY <2>1, <2>2
<1> HIDE DEF a
<1>8. ASSUME NEW k \in 1 .. N - 1 PROVE Stored'[k] = a[k]
  <2>1. /\ (head' + k - 1) % N = (head + (k + 1) - 1) % N
        /\ (head' + k - 1) % N # head
        /\ (head' + k - 1) % N \in 0 .. N - 1
    BY <1>1, SlotsMoveUp
  <2>2. k + 1 \in 1 .. N /\ k \in 1 .. N
    BY <1>1
  <2>3. buf'[(head' + k - 1) % N] = buf[(head' + k - 1) % N]
    BY <1>1, <1>2, <2>1
  <2>4. Stored[k + 1] = buf[(head + (k + 1) - 1) % N]
    BY <1>3, <2>2
  <2> QED BY <1>4, <1>6, <1>7, <2>1, <2>2, <2>3, <2>4
<1>9. Stored'[N] = a[N]
  <2>1. N - 1 \in 0 .. N - 1 /\ (N - 1) + 1 = N /\ N \in 1 .. N
    BY <1>1
  <2>2. (head + 1) % N \in 0 .. N - 1
    BY <1>1, SlotInRange
  <2>3. head' + N - 1 = ((head + 1) % N) + (N - 1)
    BY <1>1, <2>2
  <2>4. (((head + 1) % N) + (N - 1)) % N = (head + ((N - 1) + 1)) % N
    BY <1>1, <2>1, NextSlot
  <2>5. (head' + N - 1) % N = head
    BY <1>1, <2>1, <2>3, <2>4
  <2> QED BY <1>1, <1>2, <1>4, <1>7, <2>1, <2>5
<1>10. ASSUME NEW k \in 1 .. N PROVE Stored'[k] = a[k]
  <2>1. k = N \/ k \in 1 .. N - 1
    BY <1>1
  <2> QED BY <1>8, <1>9, <2>1, Zenon
<1>11. Stored' = a
  BY <1>4, <1>7, <1>10, SeqEqual
<1> QED BY <1>5, <1>11 DEF a, v

-----------------------------------------------------------------------------
(* Every step is a step of module Channel, or none there. *)

LEMMA NothingOffered == QueueInv => (senders = <<>> => Items = Stored)
<1> SUFFICES ASSUME QueueInv, senders = <<>> PROVE Items = Stored
  OBVIOUS
<1>1. Offered = <<>>
  BY ItemTypes, EmptySeq DEF ItemsTyped
<1> QED BY <1>1, ItemTypes, ConcatEmptySeq DEF ItemsTyped, Items

LEMMA NothingOfferedNext == QueueInv' => (senders = <<>> => Items = Stored)'
  BY NothingOffered, PTL

LEMMA PushIsOffer ==
    ASSUME QueueInv, QueueInv', NEW v \in Values, receivers = <<>>, count < N,
           buf' = [buf EXCEPT ![(head + count) % N] = v], count' = count + 1,
           UNCHANGED <<kernelVars, head, payload, receiving>>
    PROVE  Chan!Next
<1>1. UNCHANGED <<receivers, senders, state, timed_out, payload, receiving>>
  BY DEF receivers, senders, kernelVars, lists, nodes
<1>2. senders = <<>> /\ senders' = <<>>
  BY <1>1 DEF QueueInv, NobodyStranded, QueueTypeOK
<1>3. Stored' = Append(Stored, v)
  BY StoredPush
<1>4. Items = Stored /\ Items' = Stored'
  BY <1>2, NothingOffered, NothingOfferedNext
<1>5. Delivered' = Delivered
  BY <1>1 DEF Delivered, Handed
<1>6. Chan!Offer(v)
  BY <1>1, <1>3, <1>4, <1>5 DEF Chan!Offer
<1> QED BY <1>6 DEF Chan!Next

LEMMA SendBlocksIsOffer ==
    ASSUME QueueInv, QueueInv', NEW v \in Values, NEW n \in Timeouts, Executing,
           receivers = <<>>, count = N,
           payload' = [payload EXCEPT ![current] = v], BlockCurrent("senders", n),
           UNCHANGED <<buf, head, count, receiving>>
    PROVE  Chan!Next
<1>1. PICK t \in Tasks : t = current /\ state[t] = "Running"
  BY Executes DEF QueueInv
<1>2. /\ state' = [state EXCEPT ![t] = "Blocked"]
      /\ timed_out' = [timed_out EXCEPT ![t] = FALSE]
      /\ senders' = Append(senders, t) /\ receivers' = receivers
      /\ payload' = [payload EXCEPT ![t] = v]
  BY <1>1, QueueAssumption DEF BlockCurrent, senders, receivers, QueueInv, IInv, TypeOK
<1>3. t \notin receiving /\ ~Contains(senders, t)
  <2>1. ~Contains(senders, t)
    BY <1>1, Waiting, QueueAssumption DEF QueueInv, IInv, senders
  <2>2. \A u : ~Contains(<<>>, u)
    BY DEF Contains
  <2> QED BY <1>1, <2>1, <2>2 DEF QueueInv, ReceiveAgree
<1>4. senders \in Seq(Tasks) /\ Len(senders) \in Nat
  BY WaitListTypes, LenProperties DEF QueueInv
<1>5. /\ Len(senders') = Len(senders) + 1
      /\ \A k \in 1 .. Len(senders) : senders'[k] = senders[k]
      /\ senders'[Len(senders) + 1] = t
  BY <1>2, <1>4, AppendProperties
<1>6. Stored' = Stored
  BY DEF Stored
<1>7. /\ Offered \in Seq(Values) /\ Len(Offered) = Len(senders)
      /\ \A k \in 1 .. Len(senders) : Offered[k] = payload[senders[k]]
      /\ Stored \in Seq(Values)
  BY ItemTypes DEF ItemsTyped
<1>8. /\ Offered' \in Seq(Values) /\ Len(Offered') = Len(senders')
      /\ \A k \in 1 .. Len(senders') : Offered'[k] = payload'[senders'[k]]
  BY ItemTypesNext DEF ItemsTyped
<1> DEFINE a == Append(Offered, v)
<1>9. /\ a \in Seq(Values) /\ Len(a) = Len(senders) + 1
      /\ \A k \in 1 .. Len(senders) : a[k] = Offered[k]
      /\ a[Len(senders) + 1] = v
  BY <1>7, AppendProperties
<1> HIDE DEF a
<1>10. Offered' = a
  <2>1. ASSUME NEW k \in 1 .. Len(senders) PROVE Offered'[k] = a[k]
    <3>1. senders[k] \in Tasks /\ senders[k] # t
      BY <1>3, <1>4, ElementOfSeq DEF Contains
    <3>2. payload'[senders[k]] = payload[senders[k]]
      BY <1>2, <3>1 DEF QueueInv, QueueTypeOK
    <3>3. k \in 1 .. Len(senders')
      BY <1>4, <1>5
    <3> QED BY <1>5, <1>7, <1>8, <1>9, <3>2, <3>3
  <2>2. Offered'[Len(senders) + 1] = a[Len(senders) + 1]
    <3>1. Len(senders) + 1 \in 1 .. Len(senders')
      BY <1>4, <1>5
    <3>2. payload'[t] = v
      BY <1>2 DEF QueueInv, QueueTypeOK
    <3> QED BY <1>5, <1>8, <1>9, <3>1, <3>2
  <2>3. ASSUME NEW k \in 1 .. Len(Offered') PROVE Offered'[k] = a[k]
    <3>1. k \in 1 .. Len(senders) \/ k = Len(senders) + 1
      BY <1>4, <1>5, <1>8
    <3> QED BY <2>1, <2>2, <3>1, Zenon
  <2> QED BY <1>5, <1>8, <1>9, <2>3, SeqEqual
<1>11. Items' = Append(Items, v)
  BY <1>6, <1>7, <1>10, AppendToSecond DEF a, Items
<1>12. Delivered' = Delivered
  <2>1. ASSUME NEW u \in Tasks
        PROVE  (Handed(u)' <=> Handed(u)) /\ (Handed(u) => payload'[u] = payload[u])
    BY <1>1, <1>2, <1>3 DEF Handed, QueueInv, QueueTypeOK, IInv, TypeOK
  <2> QED BY <2>1 DEF Delivered
<1>13. Chan!Offer(v)
  BY <1>2, <1>11, <1>12 DEF Chan!Offer
<1> QED BY <1>13 DEF Chan!Next

LEMMA HandIsHand ==
    ASSUME QueueInv, QueueInv', NEW v \in Values, receivers # <<>>,
           payload' = [payload EXCEPT ![Head(receivers)] = v],
           WakeWaiter("receivers", Head(receivers)),
           UNCHANGED <<buf, head, count, receiving>>
    PROVE  Chan!Next
<1>1. PICK t \in Tasks : t = Head(receivers) /\ Contains(receivers, t)
  BY HeadWaits, QueueAssumption DEF QueueInv, IInv, receivers
<1>2. /\ state[t] = "Blocked"
      /\ state' = [state EXCEPT ![t] = "Ready"]
      /\ timed_out' = [timed_out EXCEPT ![t] = FALSE]
      /\ payload' = [payload EXCEPT ![t] = v]
  BY <1>1, WakeLeavesList, QueueAssumption DEF QueueInv, receivers
<1>3. receivers' = Tail(receivers)
  <2>1. receivers' = Unlink(receivers, Head(receivers))
    BY QueueAssumption DEF WakeWaiter, Wake, receivers
  <2> QED BY <2>1, WaitListTypes, UnlinkHead DEF QueueInv
<1>4. senders = <<>> /\ senders' = <<>>
  <2>1. senders' = Unlink(senders, t)
    BY <1>1, QueueAssumption DEF WakeWaiter, Wake, senders
  <2>2. senders = <<>>
    BY DEF QueueInv, NobodyStranded
  <2> QED BY <2>1, <2>2 DEF Unlink, Contains
<1>5. Stored' = Stored
  BY DEF Stored
<1>6. Items' = Items
  BY <1>4, <1>5, NothingOffered, NothingOfferedNext
<1>7. t \in receiving
  BY <1>1 DEF QueueInv, ReceiveAgree
<1>8. Delivered' = [Delivered EXCEPT ![t] = v]
  <2>1. ASSUME NEW u \in Tasks
        PROVE  /\ u # t => (Handed(u)' <=> Handed(u)) /\ payload'[u] = payload[u]
               /\ u = t => Handed(u)' /\ payload'[u] = v
    BY <1>2, <1>7 DEF Handed, QueueInv, QueueTypeOK, IInv, TypeOK
  <2> QED BY <2>1 DEF Delivered
<1>9. Chan!Hand(v)
  BY <1>1, <1>3, <1>6, <1>8 DEF Chan!Hand
<1> QED BY <1>9 DEF Chan!Next

LEMMA PopIsReceive ==
    ASSUME QueueInv, QueueInv', count > 0, senders = <<>>, head' = (head + 1) % N,
           buf' = [buf EXCEPT ![head] = NoValue], count' = count - 1,
           UNCHANGED <<kernelVars, payload, receiving>>
    PROVE  Chan!Next
<1>1. UNCHANGED <<receivers, senders, state, timed_out, payload, receiving>>
  BY DEF receivers, senders, kernelVars, lists, nodes
<1>2. Stored # <<>> /\ Stored' = Tail(Stored)
  BY StoredPop
<1>3. Items = Stored /\ Items' = Stored'
  BY <1>1, NothingOffered, NothingOfferedNext
<1>4. Delivered' = Delivered
  BY <1>1 DEF Delivered, Handed
<1>5. Chan!Receive
  BY <1>1, <1>2, <1>3, <1>4 DEF Chan!Receive
<1> QED BY <1>5 DEF Chan!Next

\* The first blocked sender's value is accepted when the oldest one is taken.
LEMMA RefillIsReceive ==
    ASSUME QueueInv, QueueInv', count > 0, senders # <<>>, head' = (head + 1) % N,
           buf' = [buf EXCEPT ![head] = NoValue,
                              ![(head + count) % N] = payload[FirstSender]],
           payload' = [payload EXCEPT ![FirstSender] = NoValue],
           WakeWaiter("senders", FirstSender),
           UNCHANGED <<count, receiving>>
    PROVE  Chan!Next
<1>1. PICK t \in Tasks : t = FirstSender /\ Contains(senders, t)
  BY HeadWaits, QueueAssumption DEF QueueInv, IInv, senders, FirstSender
<1>2. /\ state[t] = "Blocked"
      /\ state' = [state EXCEPT ![t] = "Ready"]
      /\ timed_out' = [timed_out EXCEPT ![t] = FALSE]
      /\ payload' = [payload EXCEPT ![t] = NoValue]
  BY <1>1, WakeLeavesList, QueueAssumption DEF QueueInv, senders
<1>3. t \notin receiving
  BY <1>1, SendersDoNotReceive
<1>4. receivers' = receivers
  <2>1. receivers' = Unlink(receivers, t)
    BY <1>1, QueueAssumption DEF WakeWaiter, Wake, receivers
  <2>2. receivers = <<>>
    BY DEF QueueInv, NobodyStranded
  <2> QED BY <2>1, <2>2 DEF Unlink, Contains
<1>5. senders \in Seq(Tasks) /\ NoRepeat(senders) /\ senders # <<>>
  BY WaitListTypes DEF QueueInv
<1>6. senders' = Tail(senders)
  <2>1. senders' = Unlink(senders, Head(senders))
    BY QueueAssumption DEF WakeWaiter, Wake, senders, FirstSender
  <2> QED BY <1>5, <2>1, UnlinkHead
<1>7. /\ Len(senders) \in Nat \ {0} /\ t = senders[1]
      /\ Len(senders') = Len(senders) - 1
      /\ \A k \in 1 .. Len(senders) - 1 : senders'[k] = senders[k + 1]
  BY <1>1, <1>5, <1>6, HeadTailProperties, EmptySeq DEF FirstSender
<1>8. /\ Offered \in Seq(Values) /\ Len(Offered) = Len(senders)
      /\ \A k \in 1 .. Len(senders) : Offered[k] = payload[senders[k]]
      /\ Stored \in Seq(Values)
  BY ItemTypes DEF ItemsTyped
<1>9. /\ Offered' \in Seq(Values) /\ Len(Offered') = Len(senders')
      /\ \A k \in 1 .. Len(senders') : Offered'[k] = payload'[senders'[k]]
  BY ItemTypesNext DEF ItemsTyped
<1>10. Offered # <<>>
  BY <1>7, <1>8, EmptySeq
<1>11. /\ Tail(Offered) \in Seq(Values) /\ Len(Tail(Offered)) = Len(senders) - 1
       /\ \A k \in 1 .. Len(senders) - 1 : Tail(Offered)[k] = Offered[k + 1]
       /\ Head(Offered) = Offered[1]
  BY <1>8, <1>10, HeadTailProperties
<1>12. Head(Offered) = payload[t]
  BY <1>7, <1>8, <1>11
<1>13. Offered' = Tail(Offered)
  <2>1. ASSUME NEW k \in 1 .. Len(senders) - 1 PROVE Offered'[k] = Tail(Offered)[k]
    <3>1. k + 1 \in 1 .. Len(senders) /\ k + 1 # 1 /\ 1 \in 1 .. Len(senders)
      BY <1>7
    <3>2. senders[k + 1] \in Tasks /\ senders[k + 1] # t
      BY <1>5, <1>7, <3>1, ElementOfSeq DEF NoRepeat
    <3>3. payload'[senders[k + 1]] = payload[senders[k + 1]]
      BY <1>2, <3>2 DEF QueueInv, QueueTypeOK
    <3>4. k \in 1 .. Len(senders')
      BY <1>7
    <3> QED BY <1>7, <1>8, <1>9, <1>11, <3>1, <3>3, <3>4
  <2> QED BY <1>7, <1>9, <1>11, <2>1, SeqEqual
<1>14. Stored # <<>> /\ Stored' = Append(Tail(Stored), Head(Offered))
  BY <1>1, <1>12, StoredRefill
<1>15. Items' = Tail(Stored) \o Offered
  <2>1. Tail(Stored) \in Seq(Values)
    BY <1>8, <1>14, HeadTailProperties
  <2> QED BY <1>8, <1>10, <1>13, <1>14, <2>1, HeadOfSecond DEF Items
<1>16. Items # <<>> /\ Items' = Tail(Items)
  BY <1>8, <1>14, <1>15, TailOfFirst DEF Items
<1>17. Delivered' = Delivered
  <2>1. ASSUME NEW u \in Tasks
        PROVE  (Handed(u)' <=> Handed(u)) /\ (Handed(u) => payload'[u] = payload[u])
    BY <1>2, <1>3 DEF Handed, QueueInv, QueueTypeOK, IInv, TypeOK
  <2> QED BY <2>1 DEF Delivered
<1>18. Chan!Receive
  BY <1>4, <1>16, <1>17 DEF Chan!Receive
<1> QED BY <1>18 DEF Chan!Next

LEMMA ReceiveBlocksIsAsk ==
    ASSUME QueueInv, QueueInv', NEW n \in Timeouts, Executing, count = 0,
           BlockCurrent("receivers", n), receiving' = receiving \union {current},
           UNCHANGED <<buf, head, count, payload>>
    PROVE  Chan!Next
<1>1. PICK t \in Tasks : t = current /\ state[t] = "Running"
  BY Executes DEF QueueInv
<1>2. /\ state' = [state EXCEPT ![t] = "Blocked"]
      /\ timed_out' = [timed_out EXCEPT ![t] = FALSE]
      /\ receivers' = Append(receivers, t) /\ senders' = senders
      /\ receiving' = receiving \union {t}
  BY <1>1, QueueAssumption DEF BlockCurrent, senders, receivers, QueueInv, IInv, TypeOK
<1>3. ~Contains(receivers, t)
  BY <1>1, Waiting, QueueAssumption DEF QueueInv, IInv, receivers
<1>4. senders = <<>>
  BY QueueAssumption DEF QueueInv, NobodyStranded
<1>5. Stored' = Stored
  BY DEF Stored
<1>6. Stored = <<>>
  BY ItemTypes, EmptySeq DEF ItemsTyped
<1>7. Items = <<>> /\ Items' = Items
  BY <1>2, <1>4, <1>5, <1>6, NothingOffered, NothingOfferedNext
<1>8. Delivered' = Delivered
  <2>1. ASSUME NEW u \in Tasks PROVE Handed(u)' <=> Handed(u)
    BY <1>1, <1>2 DEF Handed, QueueInv, QueueTypeOK, IInv, TypeOK
  <2> QED BY <2>1 DEF Delivered
<1>9. Delivered[t] = NoValue
  BY <1>1 DEF Delivered, Handed
<1>10. Chan!Ask(t)
  BY <1>2, <1>3, <1>7, <1>8, <1>9 DEF Chan!Ask, Contains, Chan!Contains
<1> QED BY <1>10 DEF Chan!Next

\* The task that goes on notices the value it was handed, if it was.
LEMMA DispatchIsNotice ==
    ASSUME QueueInv, QueueInv', QueueDispatch
    PROVE  [Chan!Next]_(Chan!vars)
<1>1. PICK t \in Tasks : t = current'
  BY DispatchRuns DEF QueueInv, QueueDispatch
<1>2. /\ state[t] = "Ready"
      /\ state' = [state EXCEPT ![t] = "Running"]
      /\ timed_out' = [timed_out EXCEPT ![t] = FALSE]
      /\ UNCHANGED <<receivers, senders, buf, head, count>>
      /\ receiving' = receiving \ {t}
      /\ payload' = [payload EXCEPT ![t] = NoValue]
  BY <1>1, DispatchRuns DEF QueueInv, QueueDispatch, receivers, senders
<1>3. ~Contains(senders, t)
  BY <1>2, Waiting, QueueAssumption DEF QueueInv, IInv, senders
<1>4. Stored' = Stored
  BY <1>2 DEF Stored
<1>5. Offered' = Offered
  <2>1. ASSUME NEW k \in 1 .. Len(senders) PROVE payload'[senders[k]] = payload[senders[k]]
    <3>1. senders[k] \in Tasks /\ senders[k] # t
      BY <1>3, WaitListTypes, ElementOfSeq DEF Contains, QueueInv
    <3> QED BY <1>2, <3>1 DEF QueueInv, QueueTypeOK
  <2> QED BY <1>2, <2>1 DEF Offered
<1>6. Items' = Items
  BY <1>4, <1>5 DEF Items
<1>7. Delivered' = [Delivered EXCEPT ![t] = NoValue]
  <2>1. ASSUME NEW u \in Tasks
        PROVE  /\ u # t => (Handed(u)' <=> Handed(u)) /\ payload'[u] = payload[u]
               /\ u = t => ~Handed(u)'
    BY <1>2 DEF Handed, QueueInv, QueueTypeOK, IInv, TypeOK
  <2> QED BY <2>1 DEF Delivered
<1>8. CASE Delivered[t] # NoValue
  <2>1. Chan!Notice(t)
    BY <1>2, <1>6, <1>7, <1>8 DEF Chan!Notice
  <2> QED BY <2>1 DEF Chan!Next
<1>9. CASE Delivered[t] = NoValue
  <2>1. Delivered' = Delivered
    BY <1>7, <1>9 DEF Delivered
  <2> QED BY <1>2, <1>6, <2>1 DEF Chan!vars
<1> QED BY <1>8, <1>9

\* A sender whose wait times out takes its value back.
LEMMA TimeoutIsWithdraw ==
    ASSUME QueueInv, QueueInv', NEW i \in 1 .. Len(senders),
           senders' = RemoveAt(senders, i), receivers' = receivers, Delivered' = Delivered,
           UNCHANGED <<buf, head, count, payload>>
    PROVE  Chan!Next
<1>1. senders \in Seq(Tasks) /\ Len(senders) \in Nat
  BY WaitListTypes, LenProperties DEF QueueInv
<1>2. senders # <<>> /\ count = N /\ N \in Nat
  BY <1>1, EmptySeq, QueueAssumption DEF QueueInv, NobodyStranded
<1>3. /\ Len(senders') = Len(senders) - 1
      /\ \A j \in 1 .. Len(senders) - 1 :
            senders'[j] = IF j < i THEN senders[j] ELSE senders[j + 1]
  BY <1>1, RemoveAtProperties
<1>4. /\ Offered \in Seq(Values) /\ Len(Offered) = Len(senders)
      /\ \A k \in 1 .. Len(senders) : Offered[k] = payload[senders[k]]
      /\ Stored \in Seq(Values) /\ Len(Stored) = N
  BY <1>2, ItemTypes DEF ItemsTyped
<1>5. /\ Offered' \in Seq(Values) /\ Len(Offered') = Len(senders) - 1
      /\ \A k \in 1 .. Len(senders) - 1 : Offered'[k] = payload[senders'[k]]
  BY <1>3, ItemTypesNext DEF ItemsTyped
<1> DEFINE r == RemoveAt(Offered, i)
<1>6. /\ r \in Seq(Values) /\ Len(r) = Len(senders) - 1
      /\ \A j \in 1 .. Len(senders) - 1 : r[j] = IF j < i THEN Offered[j] ELSE Offered[j + 1]
  BY <1>4, RemoveAtProperties
<1> HIDE DEF r
<1>7. Offered' = r
  <2>1. ASSUME NEW j \in 1 .. Len(senders) - 1 PROVE Offered'[j] = r[j]
    <3>1. j \in 1 .. Len(senders) /\ j + 1 \in 1 .. Len(senders)
      BY <1>1
    <3>2. Offered[j] = payload[senders[j]] /\ Offered[j + 1] = payload[senders[j + 1]]
      BY <1>4, <3>1
    <3> QED BY <1>3, <1>5, <1>6, <3>2
  <2> QED BY <1>5, <1>6, <2>1, SeqEqual
<1>8. N + i \in 1 .. Len(Items) /\ RemoveAt(Items, N + i) = Stored \o r
  BY <1>4, RemoveFromSecond DEF Items, r
<1>9. Items' = RemoveAt(Items, N + i)
  <2>1. Stored' = Stored
    BY DEF Stored
  <2> QED BY <1>7, <1>8, <2>1 DEF Items
<1>10. N + i > N
  BY <1>1, <1>2
<1>11. Chan!Withdraw(N + i)
  BY <1>9, <1>10 DEF Chan!Withdraw, RemoveAt, Chan!RemoveAt
<1> QED BY <1>8, <1>11 DEF Chan!Next

\* Of all that happens besides, only a timeout of tick_isr concerns a waiting
\* task: a receiver gives up, a sender takes its value back.
LEMMA BackgroundIsChannel ==
    ASSUME QueueInv, QueueInv', Background, UNCHANGED <<buf, head, count, payload, receiving>>
    PROVE  [Chan!Next]_(Chan!vars)
<1>1. ASSUME NEW u \in Tasks
      PROVE  /\ state[u] = "Ready" => state'[u] = "Ready" /\ timed_out'[u] = timed_out[u]
             /\ state[u] = "Blocked" =>
                   \/ state'[u] = "Blocked" /\ timed_out'[u] = timed_out[u]
                   \/ state'[u] = "Ready" /\ timed_out'[u]
  BY <1>1, BackgroundKeepsWaits DEF QueueInv
<1>2. \A u \in receiving : u \in Tasks /\ (Contains(receivers, u) \/ state[u] = "Ready")
  BY DEF QueueInv, ReceiveAgree, QueueTypeOK
<1>3. \A u \in Tasks : Contains(receivers, u) => state[u] = "Blocked"
  BY Waiting, QueueAssumption DEF QueueInv, IInv, receivers
<1>4. Delivered' = Delivered
  <2>1. ASSUME NEW u \in Tasks PROVE Handed(u)' <=> Handed(u)
    BY <1>1, <1>2, <1>3 DEF Handed
  <2> QED BY <2>1 DEF Delivered
<1>5. CASE UNCHANGED <<receivers, senders>>
  <2>1. Items' = Items
    BY <1>5 DEF Items, Stored, Offered
  <2> QED BY <1>4, <1>5, <2>1 DEF Chan!vars
<1>6. CASE ~UNCHANGED <<receivers, senders>>
  <2>1. TickWake
    BY <1>6 DEF Background, receivers, senders, Start, PendSV, ScanEmpty, Return, Sleep, Yield,
                Finish, TickIsr, lists
  <2>2. /\ receivers' = Unlink(receivers, Head(delay_list))
        /\ senders' = Unlink(senders, Head(delay_list))
    BY <2>1, QueueAssumption DEF TickWake, Wake, receivers, senders
  <2>3. PICK h : h = Head(delay_list)
    OBVIOUS
  <2>4. CASE Contains(receivers, h)
    <3>1. senders = <<>> /\ senders' = <<>>
      <4>1. receivers # <<>>
        BY <2>4 DEF Contains
      <4>2. senders = <<>>
        BY <4>1 DEF QueueInv, NobodyStranded
      <4> QED BY <2>2, <4>2 DEF Unlink, Contains
    <3>2. PICK i \in 1 .. Len(receivers) : receivers' = RemoveAt(receivers, i)
      BY <2>2, <2>3, <2>4, UnlinkIsRemoveAt
    <3>3. Items' = Items
      BY <3>1 DEF Items, Stored, Offered
    <3>4. Chan!GiveUp(i)
      BY <1>4, <3>2, <3>3 DEF Chan!GiveUp, RemoveAt, Chan!RemoveAt
    <3> QED BY <3>4 DEF Chan!Next
  <2>5. CASE ~Contains(receivers, h)
    <3>1. receivers' = receivers
      BY <2>2, <2>3, <2>5 DEF Unlink
    <3>2. Contains(senders, h)
      BY <1>6, <2>2, <2>3, <3>1 DEF Unlink
    <3>3. PICK i \in 1 .. Len(senders) : senders' = RemoveAt(senders, i)
      BY <2>2, <2>3, <3>2, UnlinkIsRemoveAt
    <3>4. Chan!Next
      BY <1>4, <3>1, <3>3, TimeoutIsWithdraw
    <3> QED BY <3>4
  <2> QED BY <2>4, <2>5
<1> QED BY <1>5, <1>6

LEMMA QueueNextIsChannel ==
    QueueInv /\ QueueInv' /\ [QueueNext]_queueVars => [Chan!Next]_(Chan!vars)
<1> SUFFICES ASSUME QueueInv, QueueInv', [QueueNext]_queueVars
             PROVE  [Chan!Next]_(Chan!vars)
  OBVIOUS
<1>1. ASSUME NEW v \in Values, DeliverOrPush(v) PROVE Chan!Next
  BY <1>1, HandIsHand, PushIsOffer DEF DeliverOrPush
<1>2. ASSUME PopAndRefill PROVE Chan!Next
  BY <1>2, PopIsReceive, RefillIsReceive DEF PopAndRefill
<1>3. ASSUME NEW v \in Values, NEW n \in Timeouts, Send(v, n) PROVE Chan!Next
  BY <1>1, <1>3, SendBlocksIsOffer DEF Send
<1>4. ASSUME NEW n \in Timeouts, Receive(n) PROVE Chan!Next
  BY <1>2, <1>4, ReceiveBlocksIsAsk DEF Receive
<1>5. ASSUME NEW v \in Values, TrySend(v) PROVE Chan!Next
  BY <1>1, <1>5 DEF TrySend
<1>6. CASE TryReceive
  BY <1>2, <1>6 DEF TryReceive
<1>7. CASE QueueDispatch
  BY <1>7, DispatchIsNotice
<1>8. CASE Background /\ UNCHANGED <<buf, head, count, payload, receiving>>
  BY <1>8, BackgroundIsChannel
<1>9. CASE UNCHANGED queueVars
  <2>1. UNCHANGED <<receivers, senders, state, timed_out, buf, head, count, payload, receiving>>
    BY <1>9 DEF queueVars, receivers, senders, kernelVars, lists, nodes
  <2>2. Items' = Items
    BY <2>1 DEF Items, Stored, Offered
  <2>3. Delivered' = Delivered
    BY <2>1 DEF Delivered, Handed
  <2> QED BY <2>1, <2>2, <2>3 DEF Chan!vars
<1> QED BY <1>3, <1>4, <1>5, <1>6, <1>7, <1>8, <1>9 DEF QueueNext

\* The queue is FIFO for any capacity and any number of tasks: no value is
\* lost, doubled or overtaken, also when hand-offs, blocked senders, timeouts
\* and preemptions mix.
THEOREM QueueIsFifo == QueueSpec => IsFifo
<1>1. QueueInit => Chan!Init
  <2> SUFFICES ASSUME QueueInit PROVE Chan!Init
    OBVIOUS
  <2>1. receivers = <<>> /\ senders = <<>> /\ count = 0 /\ QueueInv
    BY QueueInitInv, QueueAssumption DEF QueueInit, Init, receivers, senders
  <2>2. Items = <<>>
    BY <2>1, NothingOffered, ItemTypes, EmptySeq DEF ItemsTyped
  <2>3. Delivered = [t \in Tasks |-> NoValue]
    BY DEF QueueInit, Delivered, Handed
  <2> QED BY <2>1, <2>2, <2>3 DEF Chan!Init
<1> QED BY <1>1, QueueNextIsChannel, QueueInvariance, PTL DEF QueueSpec, IsFifo, Chan!Spec
=============================================================================
