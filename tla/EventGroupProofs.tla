-------------------------- MODULE EventGroupProofs --------------------------
(***************************************************************************)
(* The event group for any tasks, bits and requests: one call of set()     *)
(* wakes exactly the waiters it must, whatever their number, no event is   *)
(* missed, and sync() implements module Barrier.                           *)
(***************************************************************************)
EXTENDS EventGroup, KernelProofs

-----------------------------------------------------------------------------
(* set_locked *)

\* The waiters that set_locked wakes: those whose condition the raised bits meet.
LEMMA WokenProperties ==
    ASSUME TypeOK, BlockedAgree, NEW new
    PROVE  /\ Woken(new) \in Seq(Tasks) /\ NoRepeat(Woken(new))
           /\ \A t : Contains(Woken(new), t) <=> t \in Range(Woken(new))
           /\ \A t : t \in Range(Woken(new)) <=>
                 (Contains(waiters, t) /\ met(info[t], bits \union new))
           /\ Range(Woken(new)) \subseteq Tasks
<1>1. waiters \in Seq(Tasks) /\ NoRepeat(waiters)
  BY EventGroupAssumption DEF TypeOK, BlockedAgree, waiters
<1>2. ASSUME NEW s \in Seq(Tasks) PROVE \A t : Contains(s, t) <=> t \in Range(s)
  BY DEF Contains, Range
<1>3. \A t : t \in Range(waiters) <=> Contains(waiters, t)
  BY <1>1, <1>2
<1> DEFINE W == {t \in Range(waiters) : met(info[t], bits \union new)}
<1>4. /\ Woken(new) \in Seq(Tasks) /\ NoRepeat(Woken(new))
      /\ \A t : Contains(Woken(new), t) <=> (Contains(waiters, t) /\ t \in W)
  <2> HIDE DEF W
  <2>1. Woken(new) = Only(waiters, W)
    BY DEF Woken, W
  <2> QED BY <1>1, <2>1, OnlyProperties
<1>5. \A t : Contains(Woken(new), t) <=> t \in Range(Woken(new))
  BY <1>2, <1>4
<1>6. Range(Woken(new)) \subseteq Tasks
  BY <1>4 DEF Range
<1> QED BY <1>3, <1>4, <1>5, <1>6

\* set_locked, and in sync() the suspension that goes with it, keep the lists,
\* the states and the stack of the scheduler in order, whatever number of tasks
\* they wake.
LEMMA SetLockedStep ==
    ASSUME IInv, NEW new, NEW more, NEW blocked, ~ticking, set_locked(new, more, blocked),
           \/ blocked = <<>> /\ UNCHANGED <<timed_out, stack>>
           \/ /\ blocked = <<current>> /\ Executing
              /\ timed_out' = [timed_out EXCEPT ![current] = FALSE] /\ stack' = Suspended
    PROVE  IInv'
<1> DEFINE woken == Range(Woken(new))
           joins == Range(blocked)
<1>1. /\ Woken(new) \in Seq(Tasks) /\ NoRepeat(Woken(new)) /\ woken \subseteq Tasks
      /\ \A t : Contains(Woken(new), t) <=> t \in woken
      /\ \A t \in woken : Contains(waiters, t)
  BY WokenProperties DEF IInv
<1>2. \A t \in woken : state[t] = "Blocked"
  BY <1>1, Waiting, EventGroupAssumption DEF IInv, waiters
<1>3. /\ blocked \in Seq(Tasks) /\ NoRepeat(blocked)
      /\ \A t : Contains(blocked, t) <=> t \in joins
      /\ \A t \in joins : t = current /\ t \in Tasks /\ state[t] = "Running"
      /\ joins # {} => Executing
  <2>1. CASE blocked = <<>>
    BY <2>1 DEF NoRepeat, Contains, Range
  <2>2. CASE blocked = <<current>> /\ Executing
    <3>1. current \in Tasks /\ state[current] = "Running"
      BY <2>2, Executes
    <3>2. Len(blocked) = 1 /\ blocked[1] = current
      BY <2>2
    <3> QED BY <2>2, <3>1, <3>2 DEF NoRepeat, Contains, Range
  <2> QED BY <2>1, <2>2
<1>4. /\ state' = [t \in Tasks |-> IF t \in woken THEN "Ready"
                                   ELSE IF t \in joins THEN "Blocked" ELSE state[t]]
      /\ wait_lists' = [wait_lists EXCEPT !["waiters"] = Only(@, Tasks \ woken) \o blocked]
      /\ delay_list' = Only(delay_list, Tasks \ woken)
      /\ ready_lists' = [p \in Priority |->
            ready_lists[p] \o Only(Woken(new), {t \in woken : priority[t] = p})]
      /\ pend' = (pend \/ (PREEMPTIVE /\ running_prio # NoRunningTask
                           /\ \E t \in woken : priority[t] < running_prio))
      /\ UNCHANGED <<priority, deadline, tick_count, current, running_prio, ticking>>
  BY DEF set_locked
<1>5. \A t \in Tasks : state'[t] = IF t \in woken THEN "Ready"
                                   ELSE IF t \in joins THEN "Blocked" ELSE state[t]
  BY <1>4
<1> HIDE DEF woken, joins
<1>6. state' \in [Tasks -> {"Created", "Ready", "Running", "Blocked"}]
  BY <1>4 DEF IInv, TypeOK
<1>7. ReadyAgree' /\ ready_lists' \in [Priority -> Seq(Tasks)]
  <2>1. ASSUME NEW p \in Priority
        PROVE  /\ ready_lists'[p] \in Seq(Tasks) /\ NoRepeat(ready_lists'[p])
               /\ \A t : Contains(ready_lists'[p], t) <=>
                     (Contains(ready_lists[p], t) \/ (t \in woken /\ priority[t] = p))
    <3> DEFINE W == {t \in woken : priority[t] = p}
               r == Only(Woken(new), W)
    <3>1. /\ ready_lists[p] \in Seq(Tasks) /\ NoRepeat(ready_lists[p])
          /\ \A t \in Tasks : Contains(ready_lists[p], t) => state[t] = "Ready"
      BY DEF IInv, TypeOK, ReadyAgree
    <3>2. ready_lists'[p] = ready_lists[p] \o r
      BY <1>4
    <3>3. /\ r \in Seq(Tasks) /\ NoRepeat(r)
          /\ \A t : Contains(r, t) <=> (t \in woken /\ t \in W)
      <4> HIDE DEF W
      <4> QED BY <1>1, OnlyProperties
    <3> HIDE DEF r
    <3>4. \A t \in Tasks : ~(Contains(ready_lists[p], t) /\ Contains(r, t))
      BY <1>2, <3>1, <3>3
    <3> QED BY <3>1, <3>2, <3>3, <3>4, ConcatKeeps
  <2>2. ASSUME NEW t \in Tasks, NEW p \in Priority
        PROVE  Contains(ready_lists'[p], t) <=> (state'[t] = "Ready" /\ priority'[t] = p)
    <3>1. Contains(ready_lists[p], t) <=> (state[t] = "Ready" /\ priority[t] = p)
      BY DEF IInv, ReadyAgree
    <3>2. priority' = priority
      BY <1>4
    <3> QED BY <1>2, <1>3, <1>5, <2>1, <3>1, <3>2
  <2>3. ready_lists' \in [Priority -> Seq(Tasks)]
    <3>1. ready_lists' = [p \in Priority |-> ready_lists'[p]]
      BY <1>4
    <3> QED BY <2>1, <3>1
  <2> QED BY <2>1, <2>2, <2>3 DEF ReadyAgree
<1>8. /\ delay_list' \in Seq(Tasks) /\ NoRepeat(delay_list')
      /\ \A t \in Tasks : Contains(delay_list', t) <=> (Contains(delay_list, t) /\ t \notin woken)
  <2>1. delay_list \in Seq(Tasks) /\ NoRepeat(delay_list)
    BY DEF IInv, TypeOK, BlockedAgree
  <2> QED BY <1>4, <2>1, OnlyProperties
<1>9. ASSUME NEW l \in Lists
      PROVE  /\ wait_lists'[l] \in Seq(Tasks) /\ NoRepeat(wait_lists'[l])
             /\ \A t \in Tasks : Contains(wait_lists'[l], t) <=>
                   \/ Contains(wait_lists[l], t) /\ t \notin woken
                   \/ l = "waiters" /\ t \in joins
  <2>1. /\ wait_lists[l] \in Seq(Tasks) /\ NoRepeat(wait_lists[l])
        /\ \A t \in Tasks : Contains(wait_lists[l], t) => state[t] = "Blocked"
    BY Waiting DEF IInv, TypeOK, BlockedAgree
  <2>2. CASE l = "waiters"
    <3> DEFINE r == Only(wait_lists[l], Tasks \ woken)
    <3>1. wait_lists'[l] = r \o blocked
      BY <1>4, <2>2 DEF IInv, TypeOK
    <3>2. /\ r \in Seq(Tasks) /\ NoRepeat(r)
          /\ \A t : Contains(r, t) <=> (Contains(wait_lists[l], t) /\ t \in Tasks \ woken)
      BY <2>1, OnlyProperties
    <3> HIDE DEF r
    <3>3. \A t \in Tasks : ~(Contains(r, t) /\ Contains(blocked, t))
      BY <1>3, <2>1, <3>2
    <3>4. /\ r \o blocked \in Seq(Tasks) /\ NoRepeat(r \o blocked)
          /\ \A t : Contains(r \o blocked, t) <=> (Contains(r, t) \/ Contains(blocked, t))
      BY <1>3, <3>2, <3>3, ConcatKeeps
    <3> QED BY <1>3, <2>2, <3>1, <3>2, <3>4
  <2>3. CASE l # "waiters"
    <3>1. wait_lists'[l] = wait_lists[l]
      BY <1>4, <2>3 DEF IInv, TypeOK
    <3>2. ASSUME NEW t \in Tasks, Contains(wait_lists[l], t) PROVE t \notin woken
      BY <1>1, <2>3, <3>2, EventGroupAssumption DEF IInv, BlockedAgree, waiters
    <3> QED BY <2>1, <2>3, <3>1, <3>2
  <2> QED BY <2>2, <2>3
<1>10. BlockedAgree'
  <2>1. ASSUME NEW t \in Tasks
        PROVE  (state'[t] = "Blocked") <=>
                  (Contains(delay_list', t) \/ \E l \in Lists : Contains(wait_lists'[l], t))
    <3>1. (state[t] = "Blocked") <=>
             (Contains(delay_list, t) \/ \E l \in Lists : Contains(wait_lists[l], t))
      BY DEF IInv, BlockedAgree
    <3>2. CASE t \in woken
      BY <1>2, <1>3, <1>5, <1>8, <1>9, <3>2
    <3>3. CASE t \in joins
      BY <1>2, <1>3, <1>5, <1>9, <3>3, EventGroupAssumption
    <3>4. CASE t \notin woken /\ t \notin joins
      BY <1>5, <1>8, <1>9, <3>1, <3>4
    <3> QED BY <3>2, <3>3, <3>4
  <2>2. ASSUME NEW t \in Tasks, NEW l \in Lists, NEW m \in Lists,
               Contains(wait_lists'[l], t), Contains(wait_lists'[m], t)
        PROVE  l = m
    <3>1. \A k \in Lists : Contains(wait_lists[k], t) => state[t] = "Blocked"
      BY Waiting DEF IInv
    <3>2. Contains(wait_lists[l], t) /\ Contains(wait_lists[m], t) => l = m
      BY DEF IInv, BlockedAgree
    <3> QED BY <1>3, <1>9, <2>2, <3>1, <3>2
  <2> QED BY <1>8, <1>9, <2>1, <2>2 DEF BlockedAgree
<1>11. CpuAgree' /\ stack' \in Seq(Activation)
  <2>1. UNCHANGED <<priority, current, running_prio>>
    BY <1>4
  <2>2. CASE blocked = <<>> /\ UNCHANGED <<timed_out, stack>>
    <3>1. joins = {}
      BY <2>2 DEF joins, Range
    <3>2. \A t \in Tasks : (state'[t] = "Running") <=> (state[t] = "Running")
      BY <1>2, <1>5, <3>1
    <3>3. stack = <<>> => ~pend'
      BY <1>4 DEF IInv, CpuAgree, CurrentExecutes
    <3> QED BY <2>1, <2>2, <3>2, <3>3, CpuFrame DEF IInv, TypeOK, cpu
  <2>3. CASE blocked = <<current>> /\ Executing /\ stack' = Suspended
    <3>1. current \in Tasks /\ state[current] = "Running" /\ TopIs("exec")
      BY <2>3, Executes
    <3>2. current \in joins
      BY <2>3 DEF joins, Range
    <3>3. /\ state'[current] # "Running"
          /\ \A t \in Tasks : t # current => (state'[t] = "Running") <=> (state[t] = "Running")
      BY <1>2, <1>3, <1>5, <3>1, <3>2
    <3> QED BY <2>1, <2>3, <3>1, <3>3, CpuSuspend DEF IInv
  <2> QED BY <2>2, <2>3
<1>12. TypeOK'
  <2>1. timed_out' \in [Tasks -> BOOLEAN]
    BY <1>3 DEF IInv, TypeOK
  <2>2. pend' \in BOOLEAN
    BY <1>4 DEF IInv, TypeOK
  <2>3. wait_lists' \in [Lists -> Seq(Tasks)]
    <3>1. wait_lists' = [l \in Lists |-> wait_lists'[l]]
      BY <1>4 DEF IInv, TypeOK
    <3> QED BY <1>9, <3>1
  <2> QED BY <1>4, <1>6, <1>7, <1>8, <1>11, <2>1, <2>2, <2>3 DEF IInv, TypeOK
<1>13. TickLoop'
  BY <1>4 DEF TickLoop
<1> QED BY <1>7, <1>10, <1>11, <1>12, <1>13 DEF IInv

\* Who is woken by set_locked, and who then waits.
LEMMA SetLockedWakes ==
    ASSUME IInv, bits \in SUBSET Bits, NEW new \in SUBSET Bits, NEW more,
           NEW blocked \in Seq(Tasks), set_locked(new, more, blocked)
    PROVE  /\ \A t \in Tasks :
                 /\ Contains(waiters, t) /\ met(info[t], bits \union new) =>
                       state'[t] = "Ready" /\ result'[t] = bits \union new
                 /\ ~(Contains(waiters, t) /\ met(info[t], bits \union new)) =>
                       /\ state'[t] = IF Contains(blocked, t) THEN "Blocked" ELSE state[t]
                       /\ result'[t] = result[t]
                 /\ Contains(waiters', t) <=>
                       \/ Contains(waiters, t) /\ ~met(info[t], bits \union new)
                       \/ Contains(blocked, t)
           /\ bits' \subseteq bits \union new
           /\ result' = [t \in Tasks |-> result'[t]]
<1> DEFINE woken == Range(Woken(new))
<1>1. \A t : t \in woken <=> (Contains(waiters, t) /\ met(info[t], bits \union new))
  BY WokenProperties DEF IInv
<1>2. \A t : Contains(blocked, t) <=> t \in Range(blocked)
  BY DEF Contains, Range
<1>3. /\ bits' \subseteq bits \union new
      /\ result' = [t \in Tasks |-> IF t \in woken THEN bits \union new ELSE result[t]]
      /\ state' = [t \in Tasks |-> IF t \in woken THEN "Ready"
                                   ELSE IF t \in Range(blocked) THEN "Blocked" ELSE state[t]]
      /\ wait_lists' = [wait_lists EXCEPT !["waiters"] = Only(@, Tasks \ woken) \o blocked]
  BY DEF set_locked, Cleared, Snapshot
<1> HIDE DEF woken
<1>4. \A t \in Tasks : Contains(waiters', t) <=>
                          ((Contains(waiters, t) /\ t \notin woken) \/ Contains(blocked, t))
  <2>1. waiters' = Only(waiters, Tasks \ woken) \o blocked
    BY <1>3, EventGroupAssumption DEF IInv, TypeOK, waiters
  <2>2. waiters \in Seq(Tasks)
    BY EventGroupAssumption DEF IInv, TypeOK, waiters
  <2>3. /\ Only(waiters, Tasks \ woken) \in Seq(Tasks)
        /\ \A t : Contains(Only(waiters, Tasks \ woken), t) <=>
                     (Contains(waiters, t) /\ t \in Tasks \ woken)
    BY <2>2, OnlyProperties
  <2>4. \A t : Contains(waiters', t) <=>
                  (Contains(Only(waiters, Tasks \ woken), t) \/ Contains(blocked, t))
    BY <2>1, <2>3, ConcatKeeps
  <2> QED BY <2>3, <2>4
<1>5. ASSUME NEW t \in Tasks, t \in woken
      PROVE  state'[t] = "Ready" /\ result'[t] = bits \union new
  BY <1>3, <1>5
<1>6. ASSUME NEW t \in Tasks, t \notin woken
      PROVE  /\ state'[t] = IF Contains(blocked, t) THEN "Blocked" ELSE state[t]
             /\ result'[t] = result[t]
  BY <1>2, <1>3, <1>6
<1>7. result' = [t \in Tasks |-> result'[t]]
  BY <1>3
<1> QED BY <1>1, <1>3, <1>4, <1>5, <1>6, <1>7

-----------------------------------------------------------------------------
(* The invariant of the event group *)

\* Bits that are taken away meet no condition that was not met before.
LEMMA FewerBits ==
    ASSUME NEW i, NEW b, NEW c, c \subseteq b, ~met(i, b)
    PROVE  ~met(i, c)
BY DEF met

LEMMA InList ==
    ASSUME IInv
    PROVE  /\ waiters \in Seq(Tasks)
           /\ \A t : t \in Range(waiters) <=> Contains(waiters, t)
           /\ Range(waiters) \subseteq Tasks
BY EventGroupAssumption DEF IInv, TypeOK, waiters, Contains, Range

LEMMA InListNext == IInv' => /\ waiters' \in Seq(Tasks)
                             /\ \A t : t \in Range(waiters') <=> Contains(waiters', t)
                             /\ Range(waiters') \subseteq Tasks
BY EventGroupAssumption DEF IInv, TypeOK, waiters, Contains, Range

\* Bits are raised and nobody joins the list: set(), and the last one in sync().
LEMMA RaiseStep ==
    ASSUME GroupInv, NEW b \in SUBSET Bits, NEW more, ~ticking, set_locked(b, more, <<>>),
           UNCHANGED <<info, timed_out, stack>>
    PROVE  GroupInv'
<1>1. IInv /\ GroupTypeOK /\ InfoAgree /\ NoMissedEvent /\ SnapshotMeets
  BY DEF GroupInv
<1>2. IInv'
  BY <1>1, SetLockedStep
<1>3. /\ \A t \in Tasks :
            /\ Contains(waiters, t) /\ met(info[t], bits \union b) =>
                  state'[t] = "Ready" /\ result'[t] = bits \union b
            /\ ~(Contains(waiters, t) /\ met(info[t], bits \union b)) =>
                  state'[t] = state[t] /\ result'[t] = result[t]
            /\ Contains(waiters', t) <=> (Contains(waiters, t) /\ ~met(info[t], bits \union b))
      /\ bits' \subseteq bits \union b
      /\ result' = [t \in Tasks |-> result'[t]]
  <2>1. \A t : ~Contains(<<>>, t)
    BY DEF Contains
  <2>2. <<>> \in Seq(Tasks)
    OBVIOUS
  <2> QED BY <1>1, <2>1, <2>2, SetLockedWakes DEF GroupTypeOK
<1>4. bits \union b \in SUBSET Bits /\ bits \union b # None
  BY <1>1, EventGroupAssumption DEF GroupTypeOK
<1>5. GroupTypeOK'
  <2>1. \A t \in Tasks : result'[t] \in (SUBSET Bits) \union {None}
    BY <1>1, <1>3, <1>4 DEF GroupTypeOK
  <2> QED BY <1>1, <1>3, <1>4, <2>1 DEF GroupTypeOK
<1>6. InfoAgree'
  BY <1>1, <1>3 DEF InfoAgree
<1>7. NoMissedEvent'
  BY <1>1, <1>2, <1>3, InListNext, FewerBits DEF NoMissedEvent
<1>8. SnapshotMeets'
  BY <1>1, <1>3, <1>4 DEF SnapshotMeets
<1> QED BY <1>2, <1>5, <1>6, <1>7, <1>8 DEF GroupInv

LEMMA ClearStep ==
    ASSUME GroupInv, NEW b \in SUBSET Bits, Clear(b)
    PROVE  GroupInv'
<1>1. /\ bits' = bits \ b /\ UNCHANGED <<kernelVars, info, result>>
      /\ IInv /\ GroupTypeOK /\ InfoAgree /\ NoMissedEvent /\ SnapshotMeets
  BY DEF Clear, GroupInv
<1>2. IInv' /\ UNCHANGED <<state, wait_lists, timed_out>>
  BY <1>1, StutterStep DEF kernelVars, lists, nodes
<1>3. GroupTypeOK' /\ InfoAgree' /\ SnapshotMeets'
  BY <1>1, <1>2 DEF GroupTypeOK, InfoAgree, SnapshotMeets, waiters
<1>4. NoMissedEvent'
  BY <1>1, <1>2, FewerBits DEF NoMissedEvent, waiters
<1> QED BY <1>2, <1>3, <1>4 DEF GroupInv

LEMMA WaitGroupStep ==
    ASSUME GroupInv, NEW i \in WaitInfo, NEW n \in Timeouts, Wait(i, n)
    PROVE  GroupInv'
<1>1. IInv /\ GroupTypeOK /\ InfoAgree /\ NoMissedEvent /\ SnapshotMeets /\ Executing
  BY DEF GroupInv, Wait
<1>2. CASE /\ bits' = IF i.clear THEN bits \ i.want ELSE bits
           /\ UNCHANGED <<kernelVars, info, result>>
  <2>1. IInv' /\ UNCHANGED <<state, wait_lists, timed_out>>
    BY <1>1, <1>2, StutterStep DEF kernelVars, lists, nodes
  <2>2. bits' \subseteq bits
    BY <1>2
  <2>3. GroupTypeOK' /\ InfoAgree' /\ SnapshotMeets'
    BY <1>1, <1>2, <2>1, <2>2 DEF GroupTypeOK, InfoAgree, SnapshotMeets, waiters
  <2>4. NoMissedEvent'
    BY <1>1, <1>2, <2>1, <2>2, FewerBits DEF NoMissedEvent, waiters
  <2> QED BY <2>1, <2>3, <2>4 DEF GroupInv
<1>3. CASE /\ ~met(i, bits) /\ info' = [info EXCEPT ![current] = i]
           /\ BlockCurrent("waiters", n) /\ UNCHANGED <<bits, result>>
  <2>1. IInv'
    BY <1>1, <1>3, BlockStep, EventGroupAssumption DEF Block
  <2>2. /\ current \in Tasks /\ state[current] = "Running"
        /\ state' = [state EXCEPT ![current] = "Blocked"]
        /\ timed_out' = [timed_out EXCEPT ![current] = FALSE]
        /\ \A t \in Tasks : Contains(waiters', t) <=> (Contains(waiters, t) \/ t = current)
    BY <1>1, <1>3, BlockJoinsList, EventGroupAssumption DEF waiters
  <2>3. /\ state'[current] = "Blocked" /\ info'[current] = i /\ i # None
        /\ \A t \in Tasks : t # current =>
              state'[t] = state[t] /\ info'[t] = info[t] /\ timed_out'[t] = timed_out[t]
    BY <1>1, <1>3, <2>2, EventGroupAssumption DEF GroupTypeOK, IInv, TypeOK
  <2>4. GroupTypeOK'
    BY <1>1, <1>3 DEF GroupTypeOK
  <2>5. InfoAgree'
    BY <1>1, <2>2, <2>3 DEF InfoAgree
  <2>6. NoMissedEvent'
    <3>1. ASSUME NEW t \in Tasks, Contains(waiters', t) PROVE ~met(info'[t], bits')
      BY <1>1, <1>3, <2>2, <2>3, <3>1, InList DEF NoMissedEvent
    <3> QED BY <2>1, <3>1, InListNext DEF NoMissedEvent
  <2>7. SnapshotMeets'
    BY <1>1, <1>3, <2>2, <2>3 DEF SnapshotMeets
  <2> QED BY <2>1, <2>4, <2>5, <2>6, <2>7 DEF GroupInv
<1> QED BY <1>2, <1>3 DEF Wait

\* The two ways through sync(): the last one passes, the others wait.
LEMMA SyncStep ==
    ASSUME GroupInv, NEW b \in SUBSET Bits, NEW want \in SUBSET Bits, Sync(b, want)
    PROVE  GroupInv'
<1>1. IInv /\ GroupTypeOK /\ InfoAgree /\ NoMissedEvent /\ SnapshotMeets /\ Executing /\ ~ticking
  BY DEF GroupInv, Sync, Executing, Proceeds
<1>2. /\ current \in Tasks /\ state[current] = "Running" /\ info[current] = None
      /\ ~Contains(waiters, current)
  BY <1>1, Executes DEF InfoAgree
<1>3. bits \union b \in SUBSET Bits /\ bits \union b # None
  BY <1>1, EventGroupAssumption DEF GroupTypeOK
<1>4. CASE set_locked(b, want, <<>>) /\ UNCHANGED <<info, timed_out, stack>>
  BY <1>1, <1>4, RaiseStep
<1>5. CASE /\ ~Passes(b, want) /\ set_locked(b, {}, <<current>>)
           /\ info' = [info EXCEPT ![current] = AllOf(want)]
           /\ timed_out' = [timed_out EXCEPT ![current] = FALSE]
           /\ stack' = Suspended
  <2>1. IInv'
    BY <1>1, <1>5, SetLockedStep
  <2>2. /\ \A t \in Tasks :
              /\ Contains(waiters, t) /\ met(info[t], bits \union b) =>
                    state'[t] = "Ready" /\ result'[t] = bits \union b
              /\ ~(Contains(waiters, t) /\ met(info[t], bits \union b)) =>
                    /\ state'[t] = IF t = current THEN "Blocked" ELSE state[t]
                    /\ result'[t] = result[t]
              /\ Contains(waiters', t) <=>
                    ((Contains(waiters, t) /\ ~met(info[t], bits \union b)) \/ t = current)
        /\ bits' \subseteq bits \union b
        /\ result' = [t \in Tasks |-> result'[t]]
    <3>1. \A t : Contains(<<current>>, t) <=> t = current
      BY DEF Contains
    <3>2. <<current>> \in Seq(Tasks)
      BY <1>2
    <3> QED BY <1>1, <1>5, <3>1, <3>2, SetLockedWakes DEF GroupTypeOK
  <2>3. /\ info'[current] = AllOf(want) /\ AllOf(want) \in WaitInfo /\ AllOf(want) # None
        /\ ~met(AllOf(want), bits \union b)
    <3>1. AllOf(want) \in WaitInfo
      BY DEF AllOf, WaitInfo
    <3>2. info'[current] = AllOf(want)
      BY <1>1, <1>2, <1>5 DEF GroupTypeOK
    <3>3. AllOf(want).all /\ AllOf(want).want = want
      BY DEF AllOf
    <3>4. ~met(AllOf(want), bits \union b)
      BY <1>5, <3>3, Zenon DEF met, Passes
    <3> QED BY <3>1, <3>2, <3>4, EventGroupAssumption
  <2>4. \A t \in Tasks : t # current => info'[t] = info[t] /\ timed_out'[t] = timed_out[t]
    BY <1>1, <1>5 DEF GroupTypeOK, IInv, TypeOK
  <2>5. GroupTypeOK'
    <3>1. \A t \in Tasks : result'[t] \in (SUBSET Bits) \union {None}
      BY <1>1, <1>3, <2>2 DEF GroupTypeOK
    <3>2. info' \in [Tasks -> WaitInfo \union {None}]
      BY <1>1, <1>5, <2>3 DEF GroupTypeOK
    <3> QED BY <1>3, <2>2, <3>1, <3>2 DEF GroupTypeOK
  <2>6. InfoAgree'
    BY <1>1, <1>2, <2>2, <2>3, <2>4 DEF InfoAgree
  <2>7. NoMissedEvent'
    <3>1. ASSUME NEW t \in Tasks, Contains(waiters', t) PROVE ~met(info'[t], bits')
      BY <1>2, <2>2, <2>3, <2>4, <3>1, FewerBits
    <3> QED BY <2>1, <3>1, InListNext DEF NoMissedEvent
  <2>8. SnapshotMeets'
    BY <1>1, <1>2, <1>3, <2>2, <2>3, <2>4 DEF SnapshotMeets
  <2> QED BY <2>1, <2>5, <2>6, <2>7, <2>8 DEF GroupInv
<1> QED BY <1>4, <1>5 DEF Sync

LEMMA DispatchGroupStep ==
    ASSUME GroupInv, GroupDispatch
    PROVE  GroupInv'
<1>1. /\ IInv /\ GroupTypeOK /\ InfoAgree /\ NoMissedEvent /\ SnapshotMeets /\ Dispatch
      /\ info' = [info EXCEPT ![current'] = None]
      /\ result' = [result EXCEPT ![current'] = None]
      /\ UNCHANGED bits
  BY DEF GroupInv, GroupDispatch
<1>2. IInv'
  BY <1>1, NextIInv DEF Next
<1>3. PICK t \in Tasks : t = current'
  BY <1>1, DispatchRuns
<1>4. /\ state[t] = "Ready"
      /\ state' = [state EXCEPT ![t] = "Running"]
      /\ timed_out' = [timed_out EXCEPT ![t] = FALSE]
      /\ UNCHANGED wait_lists
      /\ info' = [info EXCEPT ![t] = None]
      /\ result' = [result EXCEPT ![t] = None]
  BY <1>1, <1>3, DispatchRuns
<1>5. /\ state'[t] = "Running" /\ info'[t] = None
      /\ \A u \in Tasks : u # t => /\ state'[u] = state[u] /\ info'[u] = info[u]
                                   /\ timed_out'[u] = timed_out[u] /\ result'[u] = result[u]
  BY <1>1, <1>4 DEF GroupTypeOK, IInv, TypeOK
<1>6. GroupTypeOK'
  <2>1. info' \in [Tasks -> WaitInfo \union {None}]
    <3> HIDE DEF WaitInfo
    <3> QED BY <1>1, <1>4 DEF GroupTypeOK
  <2>2. result' \in [Tasks -> (SUBSET Bits) \union {None}]
    <3>1. result \in [Tasks -> (SUBSET Bits) \union {None}] /\ None \in (SUBSET Bits) \union {None}
      BY <1>1 DEF GroupTypeOK
    <3> DEFINE R == (SUBSET Bits) \union {None}
    <3> HIDE DEF R
    <3>2. result \in [Tasks -> R] /\ None \in R => result' \in [Tasks -> R]
      BY <1>4
    <3> QED BY <3>1, <3>2 DEF R
  <2> QED BY <1>1, <2>1, <2>2 DEF GroupTypeOK
<1>7. InfoAgree'
  BY <1>1, <1>4, <1>5 DEF InfoAgree, waiters
<1>8. NoMissedEvent'
  <2>1. ASSUME NEW u \in Tasks, Contains(waiters, u) PROVE info'[u] = info[u]
    BY <1>1, <1>4, <1>5, <2>1 DEF InfoAgree
  <2> QED BY <1>1, <1>4, <2>1, InList DEF NoMissedEvent, waiters
<1>9. SnapshotMeets'
  BY <1>1, <1>5 DEF SnapshotMeets
<1> QED BY <1>2, <1>6, <1>7, <1>8, <1>9 DEF GroupInv

LEMMA BackgroundGroupStep ==
    ASSUME GroupInv, Background, UNCHANGED <<bits, info, result>>
    PROVE  GroupInv'
<1>1. IInv /\ GroupTypeOK /\ InfoAgree /\ NoMissedEvent /\ SnapshotMeets
  BY DEF GroupInv
<1>2. IInv'
  BY <1>1, NextIInv DEF Next
<1>3. ASSUME NEW u \in Tasks
      PROVE  /\ state[u] = "Ready" => state'[u] = "Ready" /\ timed_out'[u] = timed_out[u]
             /\ state[u] = "Blocked" => state'[u] = "Blocked" \/ (state'[u] = "Ready" /\ timed_out'[u])
             /\ Contains(waiters', u) <=> (Contains(waiters, u) /\ state'[u] = "Blocked")
  BY <1>1, BackgroundKeepsWaits, EventGroupAssumption DEF waiters
<1>4. GroupTypeOK'
  BY <1>1 DEF GroupTypeOK
<1>5. InfoAgree'
  BY <1>1, <1>3 DEF InfoAgree
<1>6. NoMissedEvent'
  BY <1>1, <1>2, <1>3, InList, InListNext DEF NoMissedEvent
<1>7. SnapshotMeets'
  BY <1>1, <1>3 DEF SnapshotMeets, InfoAgree
<1> QED BY <1>2, <1>4, <1>5, <1>6, <1>7 DEF GroupInv

LEMMA GroupInitially == GroupInit => GroupInv
<1> SUFFICES ASSUME GroupInit PROVE GroupInv
  OBVIOUS
<1>1. /\ IInv /\ bits = {} /\ info = [t \in Tasks |-> None] /\ result = [t \in Tasks |-> None]
      /\ waiters = <<>>
  BY InitIInv, EventGroupAssumption DEF GroupInit, Init, waiters
<1>2. \A t \in Tasks : ~Contains(waiters, t)
  BY <1>1 DEF Contains
<1>3. NoMissedEvent
  BY <1>1, <1>2, InList DEF NoMissedEvent
<1>4. GroupTypeOK
  BY <1>1 DEF GroupTypeOK
<1>5. InfoAgree /\ SnapshotMeets
  BY <1>1, <1>2 DEF InfoAgree, SnapshotMeets
<1> QED BY <1>1, <1>3, <1>4, <1>5 DEF GroupInv

LEMMA GroupStutterStep ==
    ASSUME GroupInv, UNCHANGED groupVars
    PROVE  GroupInv'
<1>1. IInv' /\ UNCHANGED <<bits, info, result, state, wait_lists, timed_out>>
  BY StutterStep DEF GroupInv, groupVars, kernelVars, lists, nodes
<1> QED BY <1>1 DEF GroupInv, GroupTypeOK, InfoAgree, NoMissedEvent, SnapshotMeets, waiters

LEMMA GroupNextInv == GroupInv /\ [GroupNext]_groupVars => GroupInv'
<1> SUFFICES ASSUME GroupInv, [GroupNext]_groupVars PROVE GroupInv'
  OBVIOUS
<1>1. ASSUME NEW b \in SUBSET Bits, Set(b) PROVE GroupInv'
  BY <1>1, RaiseStep DEF Set, Interrupts
<1>2. ASSUME NEW b \in SUBSET Bits, Clear(b) PROVE GroupInv'
  BY <1>2, ClearStep
<1>3. ASSUME NEW i \in Requests, NEW n \in Timeouts, Wait(i, n) PROVE GroupInv'
  BY <1>3, WaitGroupStep, EventGroupAssumption
<1>4. ASSUME NEW i \in Requests, NEW b \in Bits, Sync({b}, i.want) PROVE GroupInv'
  <2>1. {b} \in SUBSET Bits /\ i.want \in SUBSET Bits
    BY EventGroupAssumption DEF WaitInfo
  <2> QED BY <1>4, <2>1, SyncStep
<1>5. CASE GroupDispatch
  BY <1>5, DispatchGroupStep
<1>6. CASE Background /\ UNCHANGED <<bits, info, result>>
  BY <1>6, BackgroundGroupStep
<1>7. CASE UNCHANGED groupVars
  BY <1>7, GroupStutterStep
<1> QED BY <1>1, <1>2, <1>3, <1>4, <1>5, <1>6, <1>7 DEF GroupNext

\* The lists of the scheduler, the waits and the bits stay in step, although
\* one set() wakes any number of tasks in a single critical section.
THEOREM GroupInvariance == GroupSpec => []GroupInv
BY GroupInitially, GroupNextInv, PTL DEF GroupSpec

\* A primitive that wakes many tasks at once leaves the scheduler as sound as
\* the single wakeups of Kernel do.
THEOREM GroupRunsSoundly == GroupSpec => []IInv
<1>1. GroupInv => IInv
  BY DEF GroupInv
<1> QED BY <1>1, GroupInvariance, PTL

\* No task waits for bits that are set.
THEOREM EventsAreNotMissed == GroupSpec => []NoMissedEvent
<1>1. GroupInv => NoMissedEvent
  BY DEF GroupInv
<1> QED BY <1>1, GroupInvariance, PTL

\* What a wait returns met its condition, whoever cleared the bits since.
THEOREM ResultsMeet == GroupSpec => []SnapshotMeets
<1>1. GroupInv => SnapshotMeets
  BY DEF GroupInv
<1> QED BY <1>1, GroupInvariance, PTL

\* Results are assigned by set_locked alone, to those who meet the bits raised.
LEMMA ResultIsAssigned ==
    ASSUME GroupInv, NEW t \in Tasks, result[t] = None, result'[t] # None, [GroupNext]_groupVars
    PROVE  \E b \in SUBSET Bits, more \in SUBSET Bits, blocked \in Seq(Tasks) :
              /\ set_locked(b, more, blocked)
              /\ \A u \in Tasks : Contains(blocked, u) => ~Contains(waiters, u)
<1>1. /\ result \in [Tasks -> (SUBSET Bits) \union {None}] /\ IInv
      /\ {} \in SUBSET Bits /\ <<>> \in Seq(Tasks) /\ \A u : ~Contains(<<>>, u)
  BY DEF GroupInv, GroupTypeOK, Contains
<1>2. ASSUME NEW b \in SUBSET Bits, Set(b)
      PROVE  set_locked(b, {}, <<>>)
  BY <1>2 DEF Set
<1>3. ASSUME NEW b \in SUBSET Bits, Clear(b)
      PROVE  FALSE
  BY <1>3 DEF Clear
<1>4. ASSUME NEW i \in Requests, NEW n \in Timeouts, Wait(i, n)
      PROVE  FALSE
  BY <1>4 DEF Wait
<1>5. ASSUME NEW i \in Requests, NEW b \in Bits, Sync({b}, i.want)
      PROVE  \/ set_locked({b}, i.want, <<>>)
             \/ /\ set_locked({b}, {}, <<current>>)
                /\ current \in Tasks /\ ~Contains(waiters, current)
  <2>1. current \in Tasks /\ ~Contains(waiters, current)
    BY <1>1, <1>5, Executes DEF Sync, GroupInv, InfoAgree
  <2> QED BY <1>5, <2>1 DEF Sync
<1>6. CASE GroupDispatch
  <2>1. result' = [result EXCEPT ![current'] = None]
    BY <1>6 DEF GroupDispatch
  <2> QED BY <1>1, <2>1
<1>7. CASE Background /\ UNCHANGED <<bits, info, result>>
  BY <1>7
<1>8. CASE UNCHANGED groupVars
  BY <1>8 DEF groupVars
<1>9. ASSUME NEW i \in Requests PROVE i.want \in SUBSET Bits
  BY EventGroupAssumption DEF WaitInfo
<1>10. ASSUME current \in Tasks, ~Contains(waiters, current)
       PROVE  /\ <<current>> \in Seq(Tasks)
              /\ \A u \in Tasks : Contains(<<current>>, u) => ~Contains(waiters, u)
  BY <1>10 DEF Contains
<1>11. CASE \E b \in SUBSET Bits : Set(b) \/ Clear(b)
  BY <1>1, <1>2, <1>3, <1>11
<1>12. CASE \E i \in Requests, b \in Bits : i.all /\ i.clear /\ Sync({b}, i.want)
  <2>1. PICK i \in Requests, b \in Bits : Sync({b}, i.want)
    BY <1>12
  <2>2. {b} \in SUBSET Bits /\ i.want \in SUBSET Bits
    BY <1>9
  <2>3. CASE set_locked({b}, i.want, <<>>)
    BY <1>1, <2>2, <2>3
  <2>4. CASE /\ set_locked({b}, {}, <<current>>)
             /\ current \in Tasks /\ ~Contains(waiters, current)
    BY <1>1, <1>10, <2>2, <2>4
  <2> QED BY <1>5, <2>1, <2>3, <2>4
<1> QED BY <1>4, <1>6, <1>7, <1>8, <1>11, <1>12 DEF GroupNext

\* Clear-on-exit hides no bit from another waiter: whoever stays in the list
\* did not meet the snapshot that the others were woken with.
THEOREM SnapshotIsShared == GroupSpec => NobodyPassedOver
<1>1. ASSUME GroupInv, [GroupNext]_groupVars
      PROVE  \A t, u \in Tasks :
                result[t] = None /\ result'[t] # None
                /\ Contains(waiters, u) /\ Contains(waiters', u)
                   => ~met(info[u], result'[t])
  <2> SUFFICES ASSUME NEW t \in Tasks, NEW u \in Tasks,
                      result[t] = None, result'[t] # None,
                      Contains(waiters, u), Contains(waiters', u)
               PROVE  ~met(info[u], result'[t])
    OBVIOUS
  <2>1. PICK b \in SUBSET Bits, more \in SUBSET Bits, blocked \in Seq(Tasks) :
           /\ set_locked(b, more, blocked)
           /\ \A v \in Tasks : Contains(blocked, v) => ~Contains(waiters, v)
    BY <1>1, ResultIsAssigned
  <2>2. IInv /\ bits \in SUBSET Bits
    BY <1>1 DEF GroupInv, GroupTypeOK
  <2>3. /\ Contains(waiters, t) /\ met(info[t], bits \union b) => result'[t] = bits \union b
        /\ ~(Contains(waiters, t) /\ met(info[t], bits \union b)) => result'[t] = result[t]
        /\ Contains(waiters', u) <=>
              \/ Contains(waiters, u) /\ ~met(info[u], bits \union b)
              \/ Contains(blocked, u)
    BY <2>1, <2>2, SetLockedWakes
  <2> QED BY <2>1, <2>3
<1> QED BY <1>1, GroupInvariance, PTL DEF GroupSpec, NobodyPassedOver

-----------------------------------------------------------------------------
(* The rendezvous: every task has a bit of its own *)

\* What sync() does in a rendezvous: the last one lets everybody through and
\* leaves no bit behind, the others join the list with their bit.
LEMMA MeetEffect ==
    ASSUME Bits = Tasks, MeetInv, Meet
    PROVE  /\ GroupInv'
           /\ current \in Tasks /\ state[current] = "Running" /\ info[current] = None
           /\ current \notin Range(waiters)
           /\ \A t \in Tasks : Contains(delay_list', t) => Contains(delay_list, t)
           /\ \/ /\ Tasks = Range(waiters) \union {current}
                 /\ Range(waiters') = {} /\ bits' = {} /\ info' = info
                 /\ \A t \in Tasks :
                       state'[t] = IF t \in Range(waiters) THEN "Ready" ELSE state[t]
              \/ /\ Tasks # Range(waiters) \union {current}
                 /\ Range(waiters') = Range(waiters) \union {current}
                 /\ bits' = bits \union {current}
                 /\ info' = [info EXCEPT ![current] = AllOf(Bits)]
                 /\ \A t \in Tasks : state'[t] = IF t = current THEN "Blocked" ELSE state[t]
<1>1. /\ GroupInv /\ IInv /\ GroupTypeOK /\ InfoAgree /\ RoundsAreClean
      /\ Executing /\ ~ticking
      /\ \A t \in Tasks : info[t] # None => info[t] = AllOf(Bits)
  BY DEF MeetInv, GroupInv, Meet, Sync, Executing, Proceeds
<1>2. /\ current \in Tasks /\ state[current] = "Running" /\ info[current] = None
      /\ ~Contains(waiters, current)
  BY <1>1, Executes DEF InfoAgree
<1>3. GroupInv' /\ IInv'
  <2>1. {current} \in SUBSET Bits /\ Bits \in SUBSET Bits
    BY <1>2
  <2> QED BY <1>1, <2>1, SyncStep DEF Meet, GroupInv
<1>4. /\ \A t : t \in Range(waiters) <=> Contains(waiters, t)
      /\ \A t : t \in Range(waiters') <=> Contains(waiters', t)
      /\ Range(waiters) \subseteq Tasks /\ Range(waiters') \subseteq Tasks
      /\ bits = Range(waiters)
  BY <1>1, <1>3, InList, InListNext DEF RoundsAreClean
<1> DEFINE b == bits \union {current}
<1>5. b \subseteq Bits /\ (Bits \subseteq b <=> Tasks = Range(waiters) \union {current})
  BY <1>2, <1>4
<1>6. \A t \in Tasks : Contains(waiters, t) => (met(info[t], b) <=> Bits \subseteq b)
  <2>1. ASSUME NEW t \in Tasks, Contains(waiters, t) PROVE info[t] = AllOf(Bits)
    BY <1>1, <2>1 DEF InfoAgree
  <2>2. AllOf(Bits).all = TRUE /\ AllOf(Bits).want = Bits
    BY DEF AllOf
  <2>3. met(AllOf(Bits), b) <=> Bits \subseteq b
    <3> HIDE DEF b
    <3> QED BY <2>2 DEF met
  <2> HIDE DEF b
  <2> QED BY <2>1, <2>3
<1>7. ASSUME NEW more, NEW blocked, set_locked({current}, more, blocked)
      PROVE  \A t \in Tasks : Contains(delay_list', t) => Contains(delay_list, t)
  <2>1. delay_list' = Only(delay_list, Tasks \ Range(Woken({current})))
    BY <1>7 DEF set_locked
  <2>2. delay_list \in Seq(Tasks)
    BY <1>1 DEF IInv, TypeOK
  <2> QED BY <2>1, <2>2, OnlyProperties
<1>8. CASE /\ Passes({current}, Bits) /\ set_locked({current}, Bits, <<>>)
           /\ UNCHANGED <<info, timed_out, stack>>
  <2>1. Bits \subseteq b
    BY <1>8 DEF Passes
  <2>2. bits' = {}
    BY <1>5, <1>8 DEF set_locked, Cleared
  <2>3. /\ {current} \in SUBSET Bits /\ <<>> \in Seq(Tasks) /\ bits \in SUBSET Bits
        /\ \A t : ~Contains(<<>>, t)
    BY <1>1, <1>2 DEF GroupTypeOK, Contains
  <2>4. \A t \in Tasks : /\ state'[t] = IF Contains(waiters, t) THEN "Ready" ELSE state[t]
                         /\ ~Contains(waiters', t)
    <3> HIDE DEF b
    <3>1. \A t \in Tasks :
             /\ Contains(waiters, t) /\ met(info[t], b) => state'[t] = "Ready"
             /\ ~(Contains(waiters, t) /\ met(info[t], b)) => state'[t] = state[t]
             /\ Contains(waiters', t) <=> (Contains(waiters, t) /\ ~met(info[t], b))
      BY <1>1, <1>8, <2>3, SetLockedWakes DEF b
    <3> QED BY <1>6, <2>1, <3>1
  <2>5. Range(waiters') = {}
    BY <1>4, <2>4
  <2> QED BY <1>2, <1>3, <1>4, <1>5, <1>7, <1>8, <2>1, <2>2, <2>4, <2>5
<1>9. CASE /\ ~Passes({current}, Bits) /\ set_locked({current}, {}, <<current>>)
           /\ info' = [info EXCEPT ![current] = AllOf(Bits)]
  <2>1. ~(Bits \subseteq b)
    BY <1>9 DEF Passes
  <2>2. \A t : t \notin Range(Woken({current}))
    <3>1. Range(Woken({current})) \subseteq Tasks
          /\ \A t : t \in Range(Woken({current})) => Contains(waiters, t) /\ met(info[t], b)
      BY <1>1, WokenProperties DEF IInv
    <3> HIDE DEF b
    <3> QED BY <1>6, <2>1, <3>1
  <2>3. bits' = b
    <3>1. ToClear({current}) = {}
      BY <2>2 DEF ToClear
    <3> QED BY <1>9, <3>1 DEF set_locked, Cleared
  <2>4. /\ {current} \in SUBSET Bits /\ <<current>> \in Seq(Tasks) /\ bits \in SUBSET Bits
        /\ \A t : Contains(<<current>>, t) <=> t = current
    BY <1>1, <1>2 DEF GroupTypeOK, Contains
  <2>5. \A t \in Tasks : /\ state'[t] = IF t = current THEN "Blocked" ELSE state[t]
                         /\ Contains(waiters', t) <=> (Contains(waiters, t) \/ t = current)
    <3> HIDE DEF b
    <3>1. \A t \in Tasks :
             /\ ~(Contains(waiters, t) /\ met(info[t], b)) =>
                   state'[t] = IF t = current THEN "Blocked" ELSE state[t]
             /\ Contains(waiters', t) <=> ((Contains(waiters, t) /\ ~met(info[t], b)) \/ t = current)
      BY <1>1, <1>9, <2>4, SetLockedWakes DEF b
    <3> QED BY <1>6, <2>1, <3>1
  <2>6. Range(waiters') = Range(waiters) \union {current}
    BY <1>2, <1>4, <2>5
  <2> QED BY <1>2, <1>3, <1>4, <1>5, <1>7, <1>9, <2>1, <2>3, <2>5, <2>6
<1> QED BY <1>8, <1>9 DEF Meet, Sync

\* Every step of the rendezvous keeps its bits clean, and is a step of a barrier.
LEMMA MeetStep ==
    ASSUME Bits = Tasks, MeetInv, Meet
    PROVE  MeetInv' /\ [Meeting!Next]_(Meeting!vars)
<1> DEFINE c == current
<1>1. /\ GroupInv /\ IInv /\ InfoAgree /\ BlockedAgree /\ RoundsAreClean
      /\ \A t \in Tasks : /\ info[t] # None => info[t] = AllOf(Bits)
                          /\ Contains(waiters, t) => ~Contains(delay_list, t)
      /\ info \in [Tasks -> WaitInfo \union {None}]
  BY DEF MeetInv, GroupInv, GroupTypeOK, IInv
<1>2. GroupInv' /\ IInv' /\ InfoAgree'
  BY MeetEffect DEF GroupInv
<1>3. /\ \A t : t \in Range(waiters) <=> Contains(waiters, t)
      /\ \A t : t \in Range(waiters') <=> Contains(waiters', t)
      /\ Range(waiters) \subseteq Tasks /\ Range(waiters') \subseteq Tasks
  BY <1>1, <1>2, InList, InListNext
<1>4. /\ c \in Tasks /\ state[c] = "Running" /\ info[c] = None
      /\ c \notin Range(waiters) /\ c \notin LetThrough
      /\ ~Contains(delay_list, c)
      /\ \A t \in Tasks : Contains(delay_list', t) => Contains(delay_list, t)
  BY <1>1, MeetEffect DEF LetThrough, BlockedAgree
<1>5. CASE /\ Tasks = Range(waiters) \union {c}
           /\ Range(waiters') = {} /\ bits' = {} /\ info' = info
           /\ \A t \in Tasks : state'[t] = IF t \in Range(waiters) THEN "Ready" ELSE state[t]
  <2>1. LetThrough' = LetThrough \union Range(waiters)
    BY <1>1, <1>3, <1>5 DEF LetThrough, InfoAgree
  <2>2. Meeting!Complete(c)
    BY <1>4, <1>5, <2>1, Zenon DEF Meeting!Complete
  <2>3. MeetInv'
    BY <1>1, <1>2, <1>3, <1>5 DEF MeetInv, RoundsAreClean
  <2> QED BY <1>4, <2>2, <2>3, Zenon DEF Meeting!Next
<1>6. CASE /\ Tasks # Range(waiters) \union {c}
           /\ Range(waiters') = Range(waiters) \union {c}
           /\ bits' = bits \union {c}
           /\ info' = [info EXCEPT ![c] = AllOf(Bits)]
           /\ \A t \in Tasks : state'[t] = IF t = c THEN "Blocked" ELSE state[t]
  <2>1. info'[c] = AllOf(Bits) /\ \A t \in Tasks : t # c => info'[t] = info[t]
    BY <1>1, <1>4, <1>6
  <2>2. LetThrough' = LetThrough
    BY <1>4, <1>6, <2>1 DEF LetThrough
  <2>3. Meeting!Hold(c)
    BY <1>4, <1>6, <2>2, Zenon DEF Meeting!Hold
  <2>4. RoundsAreClean'
    BY <1>1, <1>6 DEF RoundsAreClean
  <2>5. ASSUME NEW t \in Tasks
        PROVE  /\ info'[t] # None => info'[t] = AllOf(Bits)
               /\ Contains(waiters', t) => ~Contains(delay_list', t)
    BY <1>1, <1>3, <1>4, <1>6, <2>1
  <2>6. MeetInv'
    BY <1>2, <2>4, <2>5 DEF MeetInv
  <2> QED BY <1>4, <2>3, <2>6, Zenon DEF Meeting!Next
<1> QED BY <1>5, <1>6, MeetEffect

LEMMA MeetDispatchStep ==
    ASSUME MeetInv, GroupDispatch
    PROVE  MeetInv' /\ [Meeting!Next]_(Meeting!vars)
<1>1. /\ GroupInv /\ IInv /\ InfoAgree /\ RoundsAreClean
      /\ \A t \in Tasks : /\ info[t] # None => info[t] = AllOf(Bits)
                          /\ Contains(waiters, t) => ~Contains(delay_list, t)
      /\ info \in [Tasks -> WaitInfo \union {None}]
  BY DEF MeetInv, GroupInv, GroupTypeOK
<1>2. GroupInv'
  BY <1>1, DispatchGroupStep
<1>3. PICK t \in Tasks : t = current'
  BY <1>1, DispatchRuns DEF GroupDispatch
<1>4. /\ state[t] = "Ready" /\ state' = [state EXCEPT ![t] = "Running"]
      /\ info' = [info EXCEPT ![t] = None]
      /\ UNCHANGED <<bits, wait_lists, delay_list>>
  BY <1>1, <1>3, DispatchRuns DEF GroupDispatch
<1>5. /\ state'[t] = "Running" /\ info'[t] = None
      /\ \A u \in Tasks : u # t => state'[u] = state[u] /\ info'[u] = info[u]
  BY <1>1, <1>4 DEF IInv, TypeOK
<1>6. LetThrough' = LetThrough \ {t} /\ Range(waiters') = Range(waiters)
  BY <1>4, <1>5 DEF LetThrough, waiters
<1>7. MeetInv'
  BY <1>1, <1>2, <1>4, <1>5 DEF MeetInv, RoundsAreClean, waiters
<1>8. CASE t \in LetThrough
  <2>1. Meeting!Leave(t)
    BY <1>6, <1>8, Zenon DEF Meeting!Leave
  <2> QED BY <1>7, <2>1, Zenon DEF Meeting!Next
<1>9. CASE t \notin LetThrough
  <2>1. LetThrough' = LetThrough
    BY <1>6, <1>9
  <2> QED BY <1>6, <1>7, <2>1, Zenon DEF Meeting!vars
<1> QED BY <1>8, <1>9

LEMMA MeetBackgroundStep ==
    ASSUME MeetInv, Background, UNCHANGED <<bits, info, result>>
    PROVE  MeetInv' /\ [Meeting!Next]_(Meeting!vars)
<1>1. /\ GroupInv /\ IInv /\ InfoAgree /\ RoundsAreClean
      /\ \A t \in Tasks : /\ info[t] # None => info[t] = AllOf(Bits)
                          /\ Contains(waiters, t) => ~Contains(delay_list, t)
  BY DEF MeetInv, GroupInv
<1>2. GroupInv' /\ IInv'
  BY <1>1, BackgroundGroupStep DEF GroupInv
<1>3. /\ \A t : t \in Range(waiters) <=> Contains(waiters, t)
      /\ \A t : t \in Range(waiters') <=> Contains(waiters', t)
      /\ Range(waiters) \subseteq Tasks /\ Range(waiters') \subseteq Tasks
  BY <1>1, <1>2, InList, InListNext
<1>4. ASSUME NEW t \in Tasks
      PROVE  /\ Contains(waiters', t) <=> Contains(waiters, t)
             /\ Contains(waiters', t) => ~Contains(delay_list', t)
             /\ info[t] # None => ((state'[t] = "Ready") <=> (state[t] = "Ready"))
  <2>1. /\ state[t] = "Ready" => state'[t] = "Ready"
        /\ Contains(waiters', t) <=> (Contains(waiters, t) /\ state'[t] = "Blocked")
    BY <1>1, BackgroundKeepsWaits, EventGroupAssumption DEF waiters
  <2>2. Contains(waiters, t) <=> (info[t] # None /\ state[t] = "Blocked")
    BY <1>1 DEF InfoAgree
  <2>3. Contains(waiters, t) => state'[t] = "Blocked" /\ ~Contains(delay_list', t)
    BY <1>1, <2>2, BackgroundEndsNoUntimedWait
  <2>4. info[t] # None => state[t] \in {"Ready", "Blocked"}
    BY <1>1 DEF InfoAgree
  <2> QED BY <2>1, <2>2, <2>3, <2>4
<1>5. Range(waiters') = Range(waiters)
  BY <1>3, <1>4
<1>6. LetThrough' = LetThrough
  BY <1>4 DEF LetThrough
<1>7. MeetInv'
  BY <1>1, <1>2, <1>4, <1>5 DEF MeetInv, RoundsAreClean
<1> QED BY <1>5, <1>6, <1>7, Zenon DEF Meeting!vars

LEMMA MeetStutterStep ==
    ASSUME MeetInv, UNCHANGED groupVars
    PROVE  MeetInv' /\ [Meeting!Next]_(Meeting!vars)
<1>1. GroupInv' /\ UNCHANGED <<bits, info, state, wait_lists, delay_list>>
  BY GroupStutterStep DEF MeetInv, groupVars, kernelVars, lists
<1>2. MeetInv'
  BY <1>1 DEF MeetInv, RoundsAreClean, waiters
<1>3. Range(waiters') = Range(waiters) /\ LetThrough' = LetThrough
  BY <1>1 DEF waiters, LetThrough
<1> QED BY <1>2, <1>3, Zenon DEF Meeting!vars

LEMMA MeetNextStep ==
    ASSUME Bits = Tasks, MeetInv, [MeetNext]_groupVars
    PROVE  MeetInv' /\ [Meeting!Next]_(Meeting!vars)
BY MeetStep, MeetDispatchStep, MeetBackgroundStep, MeetStutterStep DEF MeetNext

LEMMA MeetInitially ==
    ASSUME GroupInit
    PROVE  MeetInv /\ Meeting!Init
<1>1. GroupInv /\ IInv
  BY GroupInitially DEF GroupInv
<1>2. /\ bits = {} /\ info = [t \in Tasks |-> None] /\ waiters = <<>>
  BY EventGroupAssumption DEF GroupInit, Init, waiters
<1>3. Range(waiters) = {} /\ \A t : ~Contains(waiters, t)
  BY <1>2 DEF Range, Contains
<1>4. LetThrough = {}
  BY <1>2 DEF LetThrough
<1>5. MeetInv
  BY <1>1, <1>2, <1>3 DEF MeetInv, RoundsAreClean
<1> QED BY <1>3, <1>4, <1>5, Zenon DEF Meeting!Init

\* Between the rounds of a rendezvous no bit is left over and none is lost,
\* however many tasks take part.
THEOREM BitsAreClean ==
    ASSUME Bits = Tasks
    PROVE  MeetFairSpec => []RoundsAreClean
<1>1. GroupInit => MeetInv
  BY MeetInitially
<1>2. MeetInv /\ [MeetNext /\ \A t \in Tasks : state[t] # "Created" => state'[t] # "Created"]_groupVars
        => MeetInv'
  BY MeetNextStep
<1>3. MeetInv => RoundsAreClean
  BY DEF MeetInv
<1> QED BY <1>1, <1>2, <1>3, PTL DEF MeetFairSpec

\* sync() implements a barrier: nobody passes before the last has come, and a
\* quick task that comes back belongs to the next round.
THEOREM SyncIsBarrier ==
    ASSUME Bits = Tasks
    PROVE  MeetFairSpec => IsBarrier
<1>1. GroupInit => MeetInv /\ Meeting!Init
  BY MeetInitially
<1>2. MeetInv /\ [MeetNext /\ \A t \in Tasks : state[t] # "Created" => state'[t] # "Created"]_groupVars
        => MeetInv' /\ [Meeting!Next]_(Meeting!vars)
  BY MeetNextStep
<1> QED BY <1>1, <1>2, PTL DEF MeetFairSpec, IsBarrier, Meeting!Spec

=============================================================================
