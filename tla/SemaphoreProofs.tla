-------------------------- MODULE SemaphoreProofs ---------------------------
(***************************************************************************)
(* The semaphore takes no step that the scheduler does not know, so the    *)
(* invariant of the scheduler holds for it; no task waits while a permit   *)
(* is there, no permit is lost or given twice, and permits are given in    *)
(* the order of the requests, as module FairPermits promises.  The main    *)
(* loop on top of it sleeps through no wakeup.                             *)
(***************************************************************************)
EXTENDS MainLoop, KernelProofs, FiniteSetTheorems

\* Every step of the semaphore is a step of the scheduler, or leaves the
\* scheduler alone.
LEMMA StepsOfKernel ==
    ASSUME IInv, [SemNext]_semVars
    PROVE  [Next]_kernelVars
<1>1. TakePermit => UNCHANGED kernelVars
  BY DEF TakePermit
<1>2. ASSUME NEW m \in Timeouts, Acquire(m) PROVE [Next]_kernelVars
  <2>1. CASE TakePermit
    BY <1>1, <2>1
  <2>2. CASE Executing /\ BlockCurrent("waiters", m)
    <3>1. Block("waiters", m)
      BY <2>2 DEF Block
    <3> QED BY <3>1, SemaphoreAssumption DEF Next
  <2> QED BY <1>2, <2>1, <2>2 DEF Acquire
<1>3. ASSUME TryAcquire PROVE [Next]_kernelVars
  BY <1>1, <1>3 DEF TryAcquire
<1>4. ASSUME Release PROVE [Next]_kernelVars
  <2>1. CASE UNCHANGED kernelVars
    BY <2>1
  <2>2. CASE waiters # <<>> /\ WakeWaiter("waiters", Head(waiters))
    <3>1. Head(waiters) \in Tasks
      BY <2>2, HeadWaits, SemaphoreAssumption DEF IInv, waiters
    <3> QED BY <2>2, <3>1, SemaphoreAssumption DEF Next
  <2> QED BY <1>4, <2>1, <2>2 DEF Release
<1>5. ASSUME SemDispatch \/ Background PROVE [Next]_kernelVars
  BY <1>5 DEF SemDispatch, Next
<1>6. CASE UNCHANGED semVars
  BY <1>6 DEF semVars
<1> QED BY <1>2, <1>3, <1>4, <1>5, <1>6 DEF SemNext

-----------------------------------------------------------------------------
(* What a step does to the wait list and to the permits in flight *)

\* The permits in flight can be counted.
LEMMA InFlightFinite ==
    ASSUME SemTypeOK
    PROVE  IsFiniteSet(InFlight) /\ Cardinality(InFlight) \in Nat
<1>1. InFlight \in SUBSET Tasks
  BY DEF InFlight, SemTypeOK
<1> QED BY <1>1, SemaphoreAssumption, FS_Subset, FS_CardinalityType

\* Taking a permit needs one in the counter, so nobody waits.
LEMMA TakeStep ==
    ASSUME SemInv, TakePermit
    PROVE  SemInv'
<1>1. /\ UNCHANGED <<waiters, state, timed_out, awaiting, InFlight>>
      /\ count' = count - 1 /\ credit' = credit - 1 /\ count > 0
  BY DEF TakePermit, waiters, kernelVars, lists, nodes, InFlight
<1>2. IInv'
  BY StutterStep DEF TakePermit, SemInv
<1>3. Cardinality(InFlight) \in Nat
  BY InFlightFinite DEF SemInv
<1>4. SemTypeOK'
  BY <1>1, SemaphoreAssumption DEF SemInv, SemTypeOK
<1>5. AwaitAgree'
  BY <1>1 DEF SemInv, AwaitAgree
<1>6. NoIdlePermit'
  BY <1>1 DEF SemInv, NoIdlePermit, SemTypeOK
<1>7. PermitsConserved'
  BY <1>1, <1>3 DEF SemInv, PermitsConserved, SemTypeOK
<1> QED BY <1>2, <1>4, <1>5, <1>6, <1>7 DEF SemInv

\* A task joins the wait list when the counter is zero.
LEMMA AcquireBlocks ==
    ASSUME SemInv, NEW m \in Timeouts, Executing, count = 0,
           BlockCurrent("waiters", m),
           awaiting' = awaiting \union {current}, UNCHANGED <<count, credit>>
    PROVE  SemInv'
<1>1. /\ current \in Tasks /\ state[current] = "Running"
      /\ state' = [state EXCEPT ![current] = "Blocked"]
      /\ timed_out' = [timed_out EXCEPT ![current] = FALSE]
      /\ \A u \in Tasks : Contains(waiters', u) <=> (Contains(waiters, u) \/ u = current)
  BY BlockJoinsList, SemaphoreAssumption DEF SemInv, waiters
<1>2. IInv'
  BY BlockStep, SemaphoreAssumption DEF SemInv, Block
<1>3. SemTypeOK'
  BY <1>1 DEF SemInv, SemTypeOK
<1>4. AwaitAgree'
  BY <1>1 DEF SemInv, AwaitAgree, SemTypeOK, IInv, TypeOK
<1>5. NoIdlePermit'
  BY DEF NoIdlePermit
<1>6. InFlight' = InFlight
  BY <1>1 DEF InFlight, SemInv, SemTypeOK, IInv, TypeOK
<1>7. PermitsConserved'
  BY <1>6 DEF SemInv, PermitsConserved
<1> QED BY <1>2, <1>3, <1>4, <1>5, <1>7 DEF SemInv

\* release() with a waiter: the permit is on its way to the first of them.
LEMMA ReleaseWakes ==
    ASSUME SemInv, waiters # <<>>, WakeWaiter("waiters", Head(waiters)),
           credit' = credit + 1, UNCHANGED <<count, awaiting>>
    PROVE  SemInv'
<1> DEFINE t == Head(waiters)
<1>1. t \in Tasks /\ Contains(waiters, t)
  BY HeadWaits, SemaphoreAssumption DEF SemInv, IInv, waiters
<1>2. /\ state[t] = "Blocked"
      /\ state' = [state EXCEPT ![t] = "Ready"]
      /\ timed_out' = [timed_out EXCEPT ![t] = FALSE]
      /\ \A u \in Tasks : Contains(waiters', u) <=> (Contains(waiters, u) /\ u # t)
  BY <1>1, WakeLeavesList, SemaphoreAssumption DEF SemInv, waiters
<1>3. IInv'
  BY <1>1, WakeWaiterStep, SemaphoreAssumption DEF SemInv
<1> HIDE DEF t
<1>4. SemTypeOK'
  BY DEF SemInv, SemTypeOK
<1>5. AwaitAgree'
  BY <1>1, <1>2 DEF SemInv, AwaitAgree, SemTypeOK, IInv, TypeOK
<1>6. NoIdlePermit'
  BY DEF SemInv, NoIdlePermit
<1>7. t \in awaiting
  BY <1>1 DEF SemInv, AwaitAgree
<1>8. InFlight' = InFlight \union {t} /\ t \notin InFlight
  BY <1>1, <1>2, <1>7 DEF InFlight, SemInv, SemTypeOK, IInv, TypeOK
<1>9. Cardinality(InFlight') = Cardinality(InFlight) + 1
  BY <1>8, InFlightFinite, FS_AddElement DEF SemInv
<1>10. PermitsConserved'
  BY <1>9, InFlightFinite DEF SemInv, PermitsConserved, SemTypeOK
<1> QED BY <1>3, <1>4, <1>5, <1>6, <1>10 DEF SemInv

\* release() without a waiter: the permit stays in the counter.
LEMMA ReleaseCounts ==
    ASSUME SemInv, waiters = <<>>, count < MaxCount, count' = count + 1,
           credit' = credit + 1, UNCHANGED <<kernelVars, awaiting>>
    PROVE  SemInv'
<1>1. UNCHANGED <<waiters, state, timed_out, awaiting, InFlight>>
  BY DEF waiters, kernelVars, lists, nodes, InFlight
<1>2. IInv'
  BY StutterStep DEF SemInv
<1>3. SemTypeOK'
  BY <1>1, SemaphoreAssumption DEF SemInv, SemTypeOK
<1>4. AwaitAgree'
  BY <1>1 DEF SemInv, AwaitAgree
<1>5. NoIdlePermit'
  BY <1>1 DEF NoIdlePermit
<1>6. PermitsConserved'
  BY <1>1, InFlightFinite DEF SemInv, PermitsConserved, SemTypeOK
<1> QED BY <1>2, <1>3, <1>4, <1>5, <1>6 DEF SemInv

\* The task that goes on after its wait takes its permit with it, if it was
\* given one.
LEMMA DispatchTakes ==
    ASSUME SemInv, SemDispatch
    PROVE  SemInv'
<1> DEFINE t == current'
<1>1. /\ t \in Tasks /\ state[t] = "Ready"
      /\ state' = [state EXCEPT ![t] = "Running"]
      /\ timed_out' = [timed_out EXCEPT ![t] = FALSE]
      /\ UNCHANGED waiters
  BY DispatchRuns DEF SemInv, SemDispatch, waiters
<1>2. /\ awaiting' = awaiting \ {t} /\ count' = count
      /\ credit' = IF t \in awaiting /\ ~timed_out[t] THEN credit - 1 ELSE credit
  BY DEF SemDispatch
<1>3. IInv'
  BY NextIInv DEF SemInv, SemDispatch, Next
<1> HIDE DEF t
<1>4. ~Contains(waiters, t)
  BY <1>1, Waiting, SemaphoreAssumption DEF SemInv, IInv, waiters
<1>5. SemTypeOK'
  BY <1>2 DEF SemInv, SemTypeOK
<1>6. AwaitAgree'
  BY <1>1, <1>2, <1>4 DEF SemInv, AwaitAgree, SemTypeOK, IInv, TypeOK
<1>7. NoIdlePermit'
  BY <1>1, <1>2 DEF SemInv, NoIdlePermit
<1>8. InFlight' = InFlight \ {t} /\ (t \in InFlight <=> t \in awaiting /\ ~timed_out[t])
  BY <1>1, <1>2 DEF InFlight, SemInv, SemTypeOK, IInv, TypeOK
<1>9. Cardinality(InFlight') = IF t \in InFlight THEN Cardinality(InFlight) - 1
                               ELSE Cardinality(InFlight)
  BY <1>8, InFlightFinite, FS_RemoveElement DEF SemInv
<1>10. PermitsConserved'
  BY <1>2, <1>8, <1>9, InFlightFinite DEF SemInv, PermitsConserved, SemTypeOK
<1> QED BY <1>3, <1>5, <1>6, <1>7, <1>10 DEF SemInv

\* Timeouts, preemption and whatever other tasks do move no permit.
LEMMA BackgroundMovesNoPermit ==
    ASSUME SemInv, Background, UNCHANGED <<count, awaiting, credit>>
    PROVE  SemInv'
<1>1. ASSUME NEW u \in Tasks
      PROVE  /\ state[u] = "Ready" => state'[u] = "Ready" /\ timed_out'[u] = timed_out[u]
             /\ state[u] = "Blocked" =>
                   \/ state'[u] = "Blocked" /\ timed_out'[u] = timed_out[u]
                   \/ state'[u] = "Ready" /\ timed_out'[u]
             /\ Contains(waiters', u) <=> (Contains(waiters, u) /\ state'[u] = "Blocked")
  BY <1>1, BackgroundKeepsWaits, SemaphoreAssumption DEF SemInv, waiters
<1>2. \A u \in Tasks : Contains(waiters, u) => state[u] = "Blocked"
  BY Waiting, SemaphoreAssumption DEF SemInv, IInv, waiters
<1>3. IInv'
  BY NextIInv DEF SemInv, Next
<1>4. SemTypeOK'
  BY DEF SemInv, SemTypeOK
<1>5. AwaitAgree'
  BY <1>1, <1>2 DEF SemInv, AwaitAgree, SemTypeOK
<1>6. NoIdlePermit'
  BY EmptyStaysEmpty, SemaphoreAssumption DEF SemInv, IInv, NoIdlePermit, waiters
<1>7. InFlight' = InFlight
  BY <1>1, <1>2 DEF InFlight, SemInv, AwaitAgree, SemTypeOK
<1>8. PermitsConserved'
  BY <1>7 DEF SemInv, PermitsConserved
<1> QED BY <1>3, <1>4, <1>5, <1>6, <1>8 DEF SemInv

-----------------------------------------------------------------------------
\* At first every permit is in the counter.
LEMMA SemInitInv == SemInit => SemInv
<1> SUFFICES ASSUME SemInit PROVE SemInv
  OBVIOUS
<1>1. waiters = <<>> /\ InFlight = {}
  BY SemaphoreAssumption DEF SemInit, Init, waiters, InFlight
<1>2. \A u : ~Contains(<<>>, u)
  BY DEF Contains
<1>3. IInv
  BY InitIInv DEF SemInit
<1>4. SemTypeOK /\ AwaitAgree /\ NoIdlePermit
  BY <1>1, <1>2, SemaphoreAssumption DEF SemInit, SemTypeOK, AwaitAgree, NoIdlePermit
<1>5. PermitsConserved
  BY <1>1, FS_EmptySet, SemaphoreAssumption DEF SemInit, PermitsConserved
<1> QED BY <1>3, <1>4, <1>5 DEF SemInv

\* Every step keeps the invariant.
LEMMA SemNextInv == SemInv /\ [SemNext]_semVars => SemInv'
<1> SUFFICES ASSUME SemInv, [SemNext]_semVars PROVE SemInv'
  OBVIOUS
<1>1. ASSUME NEW m \in Timeouts, Acquire(m) PROVE SemInv'
  BY <1>1, TakeStep, AcquireBlocks DEF Acquire
<1>2. CASE TryAcquire
  BY <1>2, TakeStep DEF TryAcquire
<1>3. CASE Release
  BY <1>3, ReleaseWakes, ReleaseCounts DEF Release
<1>4. CASE SemDispatch
  BY <1>4, DispatchTakes
<1>5. CASE Background /\ UNCHANGED <<count, awaiting, credit>>
  BY <1>5, BackgroundMovesNoPermit
<1>6. CASE UNCHANGED semVars
  <2>1. UNCHANGED <<waiters, state, timed_out, awaiting, InFlight, count, credit>>
    BY <1>6 DEF semVars, waiters, kernelVars, lists, nodes, InFlight
  <2>2. IInv'
    BY <1>6, StutterStep DEF SemInv, semVars
  <2> QED BY <2>1, <2>2 DEF SemInv, SemTypeOK, AwaitAgree, NoIdlePermit, PermitsConserved
<1> QED BY <1>1, <1>2, <1>3, <1>4, <1>5, <1>6 DEF SemNext

\* The wait list, the counter and the permits in flight agree in every
\* behaviour of the semaphore.
THEOREM SemaphoreInvariance == SemSpec => []SemInv
  BY SemInitInv, SemNextInv, PTL DEF SemSpec

\* The semaphore runs on the scheduler as module Kernel describes it.
THEOREM RunsOnKernel == SemSpec => Spec
<1>1. SemInit => Init
  BY DEF SemInit
<1>2. SemInv => IInv
  BY DEF SemInv
<1> QED BY <1>1, <1>2, StepsOfKernel, SemaphoreInvariance, PTL DEF SemSpec, Spec

\* A task never waits while the counter holds a permit.
THEOREM NoPermitIsIdle == SemSpec => []NoIdlePermit
<1>1. SemInv => NoIdlePermit
  BY DEF SemInv
<1> QED BY <1>1, SemaphoreInvariance, PTL

\* No permit is lost and none is given twice, whatever the number of tasks,
\* their priorities and the order of releases, timeouts and preemptions.
THEOREM NoPermitIsLost == SemSpec => []PermitsConserved
<1>1. SemInv => PermitsConserved
  BY DEF SemInv
<1> QED BY <1>1, SemaphoreInvariance, PTL

-----------------------------------------------------------------------------
(* Fairness: the refinement of module FairPermits *)

\* The tasks whose acquire has timed out, not yet resumed
Expired == {t \in awaiting : state[t] = "Ready" /\ timed_out[t]}

\* A step that moves neither a permit nor a waiting task
LEMMA FairStutter ==
    ASSUME UNCHANGED <<count, waiters>>, InFlight' = InFlight, Expired' = Expired
    PROVE  UNCHANGED Permits!vars
<1>1. {t \in awaiting : state[t] = "Ready" /\ timed_out[t]}'
         = {t \in awaiting : state[t] = "Ready" /\ timed_out[t]}
  BY DEF Expired
<1> QED BY <1>1 DEF Permits!vars

\* A permit is taken from the counter, with nobody waiting.
LEMMA TakeIsFair ==
    ASSUME SemInv, TakePermit
    PROVE  Permits!Next
<1>1. /\ count' = count - 1 /\ count > 0
      /\ UNCHANGED <<waiters, InFlight, Expired>>
  BY DEF TakePermit, waiters, kernelVars, lists, nodes, InFlight, Expired
<1>2. waiters = <<>>
  BY <1>1 DEF SemInv, NoIdlePermit, SemTypeOK
<1>3. Permits!Take
  BY <1>1, <1>2 DEF Permits!Take, Expired
<1> QED BY <1>3 DEF Permits!Next

\* The executing task is last in the wait list.
LEMMA WaitIsFair ==
    ASSUME SemInv, NEW m \in Timeouts, Executing, count = 0,
           BlockCurrent("waiters", m),
           awaiting' = awaiting \union {current}, UNCHANGED <<count, credit>>
    PROVE  Permits!Next
<1>0. PICK t \in Tasks : t = current /\ state[t] = "Running"
  BY Executes DEF SemInv
<1>1. /\ state' = [state EXCEPT ![t] = "Blocked"]
      /\ timed_out' = [timed_out EXCEPT ![t] = FALSE]
      /\ waiters' = Append(waiters, t)
  BY <1>0, SemaphoreAssumption DEF BlockCurrent, waiters, SemInv, IInv, TypeOK
<1>2. /\ InFlight' = InFlight /\ t \notin InFlight
      /\ Expired' = Expired /\ t \notin Expired
  BY <1>0, <1>1 DEF InFlight, Expired, SemInv, SemTypeOK, IInv, TypeOK
<1>3. ~Contains(waiters, t)
  BY <1>0, Waiting, SemaphoreAssumption DEF SemInv, IInv, waiters
<1>4. Permits!Wait(t)
  BY <1>1, <1>2, <1>3 DEF Permits!Wait, Expired, Contains, Permits!Contains
<1> QED BY <1>4 DEF Permits!Next

\* The first in the wait list is given the permit.
LEMMA GrantIsFair ==
    ASSUME SemInv, waiters # <<>>, WakeWaiter("waiters", Head(waiters)),
           credit' = credit + 1, UNCHANGED <<count, awaiting>>
    PROVE  Permits!Next
<1>1. PICK t \in Tasks : t = Head(waiters) /\ Contains(waiters, t)
  BY HeadWaits, SemaphoreAssumption DEF SemInv, IInv, waiters
<1>2. /\ state[t] = "Blocked"
      /\ state' = [state EXCEPT ![t] = "Ready"]
      /\ timed_out' = [timed_out EXCEPT ![t] = FALSE]
  BY <1>1, WakeLeavesList, SemaphoreAssumption DEF SemInv, waiters
<1>3. waiters' = Tail(waiters)
  <2>1. waiters \in Seq(Tasks) /\ NoRepeat(waiters)
    BY SemaphoreAssumption DEF SemInv, IInv, TypeOK, BlockedAgree, waiters
  <2>2. waiters' = Unlink(waiters, Head(waiters))
    BY SemaphoreAssumption DEF WakeWaiter, Wake, waiters
  <2> QED BY <2>1, <2>2, UnlinkHead
<1>4. t \in awaiting
  BY <1>1 DEF SemInv, AwaitAgree
<1>5. InFlight' = InFlight \union {t} /\ Expired' = Expired
  BY <1>2, <1>4 DEF InFlight, Expired, SemInv, SemTypeOK, IInv, TypeOK
<1>6. Permits!Grant
  BY <1>1, <1>3, <1>5 DEF Permits!Grant, Expired
<1> QED BY <1>6 DEF Permits!Next

\* With nobody waiting the permit is kept.
LEMMA KeepIsFair ==
    ASSUME waiters = <<>>, count < MaxCount, count' = count + 1,
           UNCHANGED <<kernelVars, awaiting>>
    PROVE  Permits!Next
<1>1. UNCHANGED <<waiters, InFlight, Expired>>
  BY DEF waiters, kernelVars, lists, nodes, InFlight, Expired
<1>2. Permits!Keep
  BY <1>1 DEF Permits!Keep, Expired
<1> QED BY <1>2 DEF Permits!Next

\* The task that goes on notices what its wait has come to, if it waited.
LEMMA DispatchIsFair ==
    ASSUME SemInv, SemDispatch
    PROVE  [Permits!Next]_(Permits!vars)
<1>1. /\ current' \in Tasks /\ state[current'] = "Ready"
      /\ state' = [state EXCEPT ![current'] = "Running"]
      /\ timed_out' = [timed_out EXCEPT ![current'] = FALSE]
      /\ UNCHANGED waiters
  BY DispatchRuns DEF SemInv, SemDispatch, waiters
<1>2. PICK t \in Tasks : t = current'
  BY <1>1
<1>3. /\ state[t] = "Ready" /\ state' = [state EXCEPT ![t] = "Running"]
      /\ timed_out' = [timed_out EXCEPT ![t] = FALSE]
      /\ awaiting' = awaiting \ {t} /\ count' = count
  BY <1>1, <1>2 DEF SemDispatch
<1>4. InFlight' = InFlight \ {t} /\ Expired' = Expired \ {t}
  BY <1>3 DEF InFlight, Expired, SemInv, SemTypeOK, IInv, TypeOK
<1>5. CASE t \in InFlight \union Expired
  <2>1. Permits!Notice(t)
    BY <1>1, <1>3, <1>4, <1>5 DEF Permits!Notice, Expired
  <2> QED BY <2>1 DEF Permits!Next
<1>6. CASE t \notin InFlight \union Expired
  BY <1>1, <1>3, <1>4, <1>6, FairStutter
<1> QED BY <1>5, <1>6

\* Of all that happens besides, only a timeout of tick_isr concerns a waiting
\* task: it gives up from wherever it stands in the list.
LEMMA BackgroundIsFair ==
    ASSUME SemInv, SemInv', Background, UNCHANGED <<count, awaiting, credit>>
    PROVE  [Permits!Next]_(Permits!vars)
<1>1. ASSUME NEW u \in Tasks
      PROVE  /\ state[u] = "Ready" => state'[u] = "Ready" /\ timed_out'[u] = timed_out[u]
             /\ state[u] = "Blocked" =>
                   \/ state'[u] = "Blocked" /\ timed_out'[u] = timed_out[u]
                   \/ state'[u] = "Ready" /\ timed_out'[u]
             /\ Contains(waiters', u) <=> (Contains(waiters, u) /\ state'[u] = "Blocked")
  BY <1>1, BackgroundKeepsWaits, SemaphoreAssumption DEF SemInv, waiters
<1>2. \A u \in awaiting : u \in Tasks /\ (Contains(waiters, u) \/ state[u] = "Ready")
  BY DEF SemInv, AwaitAgree, SemTypeOK
<1>3. \A u \in Tasks : Contains(waiters, u) => state[u] = "Blocked" /\ u \in awaiting
  BY Waiting, SemaphoreAssumption DEF SemInv, IInv, AwaitAgree, waiters
<1>4. InFlight' = InFlight
  BY <1>1, <1>2, <1>3 DEF InFlight
<1>5. CASE waiters' = waiters
  <2>1. Expired' = Expired
    BY <1>1, <1>2, <1>3, <1>5 DEF Expired
  <2> QED BY <1>4, <1>5, <2>1, FairStutter
<1>6. CASE waiters' # waiters
  <2>1. TickWake
    BY <1>6 DEF Background, waiters, Start, PendSV, ScanEmpty, Return, Sleep, Yield, Finish,
                TickIsr, lists
  <2>2. PICK h \in Tasks : h = Head(delay_list) /\ waiters' = Unlink(waiters, h)
    <3>1. Head(delay_list) \in Tasks
      BY <2>1, Waiting DEF TickWake, SemInv, IInv, TickLoop
    <3>2. waiters' = Unlink(waiters, Head(delay_list))
      BY <2>1, SemaphoreAssumption DEF TickWake, Wake, waiters
    <3> QED BY <3>1, <3>2
  <2>3. Contains(waiters, h)
    BY <1>6, <2>2 DEF Unlink
  <2>4. PICK i \in 1 .. Len(waiters) : waiters[i] = h /\ waiters' = RemoveAt(waiters, i)
    BY <2>2, <2>3, UnlinkIsRemoveAt
  <2>5. \A u \in Tasks : Contains(waiters', u) <=> (Contains(waiters, u) /\ u # h)
    <3>1. waiters \in Seq(Tasks) /\ NoRepeat(waiters)
      BY SemaphoreAssumption DEF SemInv, IInv, TypeOK, BlockedAgree, waiters
    <3> QED BY <2>2, <3>1, UnlinkProperties
  <2>6. Expired' = Expired \union {h}
    BY <1>1, <1>2, <1>3, <2>3, <2>5 DEF Expired
  <2>7. Permits!GiveUp(i)
    BY <1>4, <2>4, <2>6 DEF Permits!GiveUp, Expired, RemoveAt, Permits!RemoveAt
  <2> QED BY <2>7 DEF Permits!Next
<1> QED BY <1>5, <1>6

\* Every step of the semaphore is a step of module FairPermits, or none there.
LEMMA SemNextIsFair ==
    SemInv /\ SemInv' /\ [SemNext]_semVars => [Permits!Next]_(Permits!vars)
<1> SUFFICES ASSUME SemInv, SemInv', [SemNext]_semVars PROVE [Permits!Next]_(Permits!vars)
  OBVIOUS
<1>1. ASSUME NEW m \in Timeouts, Acquire(m) PROVE Permits!Next
  BY <1>1, TakeIsFair, WaitIsFair DEF Acquire
<1>2. CASE TryAcquire
  BY <1>2, TakeIsFair DEF TryAcquire
<1>3. CASE Release
  BY <1>3, GrantIsFair, KeepIsFair DEF Release
<1>4. CASE SemDispatch
  BY <1>4, DispatchIsFair
<1>5. CASE Background /\ UNCHANGED <<count, awaiting, credit>>
  BY <1>5, BackgroundIsFair
<1>6. CASE UNCHANGED semVars
  <2>1. UNCHANGED <<count, waiters, InFlight, Expired>>
    BY <1>6 DEF semVars, waiters, kernelVars, lists, nodes, InFlight, Expired
  <2> QED BY <2>1, FairStutter
<1> QED BY <1>1, <1>2, <1>3, <1>4, <1>5, <1>6 DEF SemNext

\* Permits go to the tasks in the order in which they asked, whatever their
\* number and priorities and whatever times out or preempts in between.
THEOREM PermitsAreFair == SemSpec => IsFair
<1>1. SemInit => Permits!Init
  <2> SUFFICES ASSUME SemInit PROVE Permits!Init
    OBVIOUS
  <2>1. waiters = <<>> /\ InFlight = {} /\ Expired = {}
    BY SemaphoreAssumption DEF SemInit, Init, waiters, InFlight, Expired
  <2> QED BY <2>1 DEF SemInit, Permits!Init, Expired
<1> QED BY <1>1, SemNextIsFair, SemaphoreInvariance, PTL DEF SemSpec, IsFair, Permits!Spec

-----------------------------------------------------------------------------
(* The main loop on top: no wakeup is slept through, for any number of     *)
(* tasks and priorities; and the loop takes no step that the semaphore on  *)
(* the scheduler does not know, so that the theorems above hold of it.     *)

USE DEF Places, masked

\* A step of the loop leaves the semaphore and the scheduler alone or is a
\* step of theirs.
LEMMA StepsOfSemaphore ==
    MainNext => SemNext \/ UNCHANGED semVars
<1>1. ASSUME Works \/ Switches  PROVE SemNext
  BY <1>1 DEF Works, Switches, SemNext, Background
<1>2. ASSUME RunTask \/ TaskSwitches \/ TaskWorks  PROVE SemNext
  BY <1>1, <1>2 DEF RunTask, TaskSwitches, TaskWorks, SemNext
<1>3. ASSUME Handler(Release) \/ Handler(TimerHandler) \/ HandlerGoesOn  PROVE SemNext
  BY <1>3 DEF Handler, TimerHandler, HandlerGoesOn, SemNext, Background
<1>4. ASSUME Boot \/ IrqDisable \/ CheckReady \/ Idle \/ Request  PROVE UNCHANGED semVars
  BY <1>4 DEF Boot, IrqDisable, CheckReady, Idle, Request
<1> QED BY <1>2, <1>3, <1>4 DEF MainNext

\* The main loop implements the specification of the semaphore on the
\* scheduler: run() uses run_one() only as that specification allows.
THEOREM LoopRunsSemaphore == MainSpec => SemSpec
<1>1. MainInit => SemInit
  BY DEF MainInit
<1>2. [MainNext]_mainVars => [SemNext]_semVars
  BY StepsOfSemaphore DEF mainVars
<1> QED BY <1>1, <1>2, PTL DEF MainSpec, SemSpec

\* A handler may make tasks ready, and takes none out of the ready lists.
LEMMA HandlerKeepsReady ==
    ASSUME SemInv, Release \/ TickIsr \/ TickWake,
           NEW p \in Priority, ready_lists[p] # <<>>
    PROVE  ready_lists'[p] # <<>>
<1>1. ready_lists \in [Priority -> Seq(Tasks)]
  BY DEF SemInv, IInv, TypeOK
<1>2. ASSUME NEW t, NEW q, MakeReady(t, q)  PROVE ready_lists'[p] # <<>>
  <2>1. CASE UNCHANGED ready_lists
    BY <2>1
  <2>2. CASE ready_lists' = [ready_lists EXCEPT ![q] = Append(@, t)]
    <3>1. p # q => ready_lists'[p] = ready_lists[p]
      BY <1>1, <2>2
    <3>2. p = q => ready_lists'[p] = Append(ready_lists[p], t)
      BY <1>1, <2>2
    <3>3. Append(ready_lists[p], t) # <<>>
      BY <1>1, EmptySeq
    <3> QED BY <3>1, <3>2, <3>3
  <2> QED BY <1>2, <2>1, <2>2 DEF MakeReady
<1>3. Release => UNCHANGED ready_lists \/ \E t, q : MakeReady(t, q)
  BY DEF Release, WakeWaiter, Wake, kernelVars, lists
<1>4. TickWake => \E t, q : MakeReady(t, q)
  BY DEF TickWake, Wake
<1>5. TickIsr => UNCHANGED ready_lists
  BY DEF TickIsr, lists
<1> QED BY <1>2, <1>3, <1>4, <1>5

\* A step of the loop keeps its invariant: interrupts stay out of the masked
\* section, and the steps of tasks happen at the top of the loop or before it.
LEMMA MainNextInv ==
    ASSUME SemInv, MainInv, [MainNext]_mainVars
    PROVE  MainInv'
<1> USE DEF MainInv, LoopAgree, NoWakeupSleptThrough
<1>1. CASE UNCHANGED mainVars
  BY <1>1 DEF mainVars, semVars, kernelVars, lists, cpu
<1>2. CASE Boot
  BY <1>2 DEF Boot
<1>3. CASE IrqDisable
  BY <1>3 DEF IrqDisable, Outside, Proceeds, semVars, kernelVars, lists, cpu
<1>4. CASE CheckReady
  BY <1>4 DEF CheckReady, Outside, Proceeds, semVars, kernelVars, lists, cpu
<1>5. CASE Idle
  BY <1>5 DEF Idle
<1>6. CASE Request
  BY <1>6 DEF Request, semVars, kernelVars, lists, cpu
<1>7. ASSUME Handler(Release) \/ Handler(TimerHandler) \/ HandlerGoesOn  PROVE MainInv'
  <2>1. Release \/ TickIsr \/ TickWake
    BY <1>7 DEF Handler, TimerHandler, HandlerGoesOn
  <2>2. main' = main /\ requested' \in BOOLEAN
    BY <1>7 DEF Handler, HandlerGoesOn
  <2>3. ~masked
    BY <1>7 DEF Handler, HandlerGoesOn, TickWake
  <2>4. stack' = stack
    BY <2>1 DEF Release, WakeWaiter, TickIsr, TickWake, cpu, kernelVars
  <2>5. main = "run" => \E p \in Priority : ready_lists'[p] # <<>>
    BY <2>1, HandlerKeepsReady
  <2> QED BY <2>2, <2>3, <2>4, <2>5
<1>8. CASE RunTask
  BY <1>8 DEF RunTask
<1>9. CASE TaskSwitches
  <2>1. main = "top" /\ main' = main /\ requested' = requested
    BY <1>9 DEF TaskSwitches
  <2> QED BY <2>1
<1>10. CASE TaskWorks
  <2>1. main \in {"top", "boot"} /\ main' = main /\ requested' = requested
    BY <1>10 DEF TaskWorks
  <2>2. Works => stack' = stack
    BY DEF Works, TryAcquire, TakePermit, Start, cpu, kernelVars
  <2> QED BY <1>10, <2>1, <2>2 DEF TaskWorks
<1> QED BY <1>1, <1>2, <1>3, <1>4, <1>5, <1>6, <1>7, <1>8, <1>9, <1>10 DEF MainNext

\* The invariant of the main loop and of what it runs.
THEOREM MainInvariance == MainSpec => [](SemInv /\ MainInv)
<1>1. MainInit => MainInv
  BY DEF MainInit, MainInv, LoopAgree, NoWakeupSleptThrough, SemInit, Init
<1>2. SemInv /\ MainInv /\ [MainNext]_mainVars => MainInv'
  BY MainNextInv
<1> QED BY <1>1, <1>2, LoopRunsSemaphore, SemaphoreInvariance, PTL DEF MainSpec

\* No wakeup between the test of the ready lists and WFI is slept through.
THEOREM NeverSleepsOnReady == MainSpec => []NoWakeupSleptThrough
<1>1. MainInv => NoWakeupSleptThrough
  BY DEF MainInv
<1> QED BY <1>1, MainInvariance, PTL
=============================================================================
