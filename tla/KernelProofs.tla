---------------------------- MODULE KernelProofs ----------------------------
(***************************************************************************)
(* Proofs that every behaviour of module Kernel keeps its lists, the       *)
(* states of the tasks and the machine stack in agreement, for any number  *)
(* of tasks, lists and priorities, any width of the tick counter, on every *)
(* port.                                                                   *)
(*                                                                         *)
(* First what each kind of change does to one part of the invariant        *)
(* (ReadyAgree, BlockedAgree, CpuAgree), then one lemma per action.        *)
(***************************************************************************)
EXTENDS Kernel, ListOpsProofs

-----------------------------------------------------------------------------
(* Ready lists *)

\* A task that is not Ready is pushed on the list of its priority.
LEMMA ReadyPush ==
    ASSUME TypeOK, ReadyAgree,
           NEW t \in Tasks, NEW p \in Priority, state[t] # "Ready",
           state' = [state EXCEPT ![t] = "Ready"],
           ready_lists' = [ready_lists EXCEPT ![p] = Append(@, t)],
           priority' \in [Tasks -> Priority], priority'[t] = p,
           \A u \in Tasks : u # t => priority'[u] = priority[u]
    PROVE  ReadyAgree' /\ ready_lists' \in [Priority -> Seq(Tasks)]
  <1>1. ready_lists[p] \in Seq(Tasks) /\ ~Contains(ready_lists[p], t)
    BY DEF TypeOK, ReadyAgree
  <1>2. /\ Append(ready_lists[p], t) \in Seq(Tasks)
        /\ \A u : Contains(Append(ready_lists[p], t), u) <=>
                    (Contains(ready_lists[p], u) \/ u = t)
        /\ NoRepeat(Append(ready_lists[p], t))
    BY <1>1, PushBackProperties DEF ReadyAgree
  <1>3. \A q \in Priority : ready_lists'[q] = IF q = p THEN Append(ready_lists[p], t)
                                              ELSE ready_lists[q]
    BY DEF TypeOK
  <1>4. ready_lists' \in [Priority -> Seq(Tasks)]
    BY <1>2 DEF TypeOK
  <1>5. ASSUME NEW u \in Tasks, NEW q \in Priority
        PROVE  Contains(ready_lists'[q], u) <=> (state'[u] = "Ready" /\ priority'[u] = q)
    <2>1. CASE u = t
      BY <1>2, <1>3, <2>1 DEF TypeOK, ReadyAgree
    <2>2. CASE u # t
      BY <1>2, <1>3, <2>2 DEF TypeOK, ReadyAgree
    <2> QED BY <2>1, <2>2
  <1>6. \A q \in Priority : NoRepeat(ready_lists'[q])
    BY <1>2, <1>3 DEF ReadyAgree
  <1> QED BY <1>4, <1>5, <1>6 DEF ReadyAgree

\* The head of a ready list is popped and runs.
LEMMA ReadyPop ==
    ASSUME TypeOK, ReadyAgree,
           NEW p \in Priority, ready_lists[p] # <<>>, NEW t, t = Head(ready_lists[p]),
           state' = [state EXCEPT ![t] = "Running"],
           ready_lists' = [ready_lists EXCEPT ![p] = Tail(@)],
           UNCHANGED priority
    PROVE  /\ t \in Tasks /\ state[t] = "Ready" /\ priority[t] = p
           /\ ReadyAgree' /\ ready_lists' \in [Priority -> Seq(Tasks)]
  <1>1. ready_lists[p] \in Seq(Tasks)
    BY DEF TypeOK
  <1>2. /\ t \in Tasks /\ Contains(ready_lists[p], t)
        /\ Tail(ready_lists[p]) \in Seq(Tasks)
        /\ NoRepeat(Tail(ready_lists[p]))
        /\ \A u : Contains(Tail(ready_lists[p]), u) <=>
                    (Contains(ready_lists[p], u) /\ u # t)
    BY <1>1, PopFrontProperties DEF ReadyAgree
  <1>3. state[t] = "Ready" /\ priority[t] = p
    BY <1>2 DEF ReadyAgree
  <1>4. \A q \in Priority : ready_lists'[q] = IF q = p THEN Tail(ready_lists[p])
                                              ELSE ready_lists[q]
    BY DEF TypeOK
  <1>5. ready_lists' \in [Priority -> Seq(Tasks)]
    BY <1>2 DEF TypeOK
  <1>6. ASSUME NEW u \in Tasks, NEW q \in Priority
        PROVE  Contains(ready_lists'[q], u) <=> (state'[u] = "Ready" /\ priority'[u] = q)
    <2>1. CASE u = t
      BY <1>2, <1>3, <1>4, <2>1 DEF TypeOK, ReadyAgree
    <2>2. CASE u # t
      BY <1>2, <1>4, <2>2 DEF TypeOK, ReadyAgree
    <2> QED BY <2>1, <2>2
  <1>7. \A q \in Priority : NoRepeat(ready_lists'[q])
    BY <1>2, <1>4 DEF ReadyAgree
  <1> QED BY <1>2, <1>3, <1>5, <1>6, <1>7 DEF ReadyAgree

\* The ready lists are left alone, and so are the tasks in them.
LEMMA ReadyFrame ==
    ASSUME ReadyAgree, UNCHANGED ready_lists,
           \A t \in Tasks : (state'[t] = "Ready") <=> (state[t] = "Ready"),
           \A t \in Tasks : state[t] = "Ready" => priority'[t] = priority[t]
    PROVE  ReadyAgree'
  BY DEF ReadyAgree

-----------------------------------------------------------------------------
(* Wait lists and delay list *)

\* The node of a task leaves both lists.
LEMMA BlockedRemove ==
    ASSUME TypeOK, BlockedAgree,
           NEW t \in Tasks, state' \in [Tasks -> {"Created", "Ready", "Running", "Blocked"}],
           state'[t] # "Blocked", \A u \in Tasks : u # t => state'[u] = state[u],
           wait_lists' = [l \in Lists |-> Unlink(wait_lists[l], t)],
           delay_list' = Unlink(delay_list, t)
    PROVE  /\ BlockedAgree'
           /\ wait_lists' \in [Lists -> Seq(Tasks)] /\ delay_list' \in Seq(Tasks)
  <1>1. /\ delay_list' \in Seq(Tasks) /\ NoRepeat(delay_list')
        /\ \A u : Contains(delay_list', u) <=> (Contains(delay_list, u) /\ u # t)
    BY UnlinkProperties DEF TypeOK, BlockedAgree
  <1>2. ASSUME NEW l \in Lists
        PROVE  /\ wait_lists'[l] \in Seq(Tasks) /\ NoRepeat(wait_lists'[l])
               /\ \A u : Contains(wait_lists'[l], u) <=> (Contains(wait_lists[l], u) /\ u # t)
    <2>1. wait_lists[l] \in Seq(Tasks) /\ NoRepeat(wait_lists[l])
      BY DEF TypeOK, BlockedAgree
    <2>2. wait_lists'[l] = Unlink(wait_lists[l], t)
      OBVIOUS
    <2> QED BY <2>1, <2>2, UnlinkProperties
  <1>3. wait_lists' \in [Lists -> Seq(Tasks)]
    BY <1>2
  <1>4. ASSUME NEW u \in Tasks
        PROVE  (state'[u] = "Blocked") <=>
                  (Contains(delay_list', u) \/ \E l \in Lists : Contains(wait_lists'[l], u))
    <2>1. CASE u = t
      BY <1>1, <1>2, <2>1
    <2>2. CASE u # t
      BY <1>1, <1>2, <2>2 DEF BlockedAgree
    <2> QED BY <2>1, <2>2
  <1>5. ASSUME NEW u \in Tasks, NEW l \in Lists, NEW m \in Lists,
               Contains(wait_lists'[l], u), Contains(wait_lists'[m], u)
        PROVE  l = m
    BY <1>2, <1>5 DEF BlockedAgree
  <1> QED BY <1>1, <1>2, <1>3, <1>4, <1>5 DEF BlockedAgree

\* The lists of waiting tasks are left alone, and no task starts or stops
\* being Blocked.
LEMMA BlockedFrame ==
    ASSUME BlockedAgree, UNCHANGED <<wait_lists, delay_list>>,
           \A t \in Tasks : (state'[t] = "Blocked") <=> (state[t] = "Blocked")
    PROVE  BlockedAgree'
  BY DEF BlockedAgree

\* The node of a task that was not waiting is put into a wait list, or into
\* the delay list, or into both.
LEMMA BlockedAdd ==
    ASSUME TypeOK, BlockedAgree,
           NEW t \in Tasks, state[t] # "Blocked",
           state' = [state EXCEPT ![t] = "Blocked"],
           NEW W \in SUBSET Lists, \A l, m \in W : l = m,
           wait_lists' = [l \in Lists |-> IF l \in W THEN Append(wait_lists[l], t)
                                          ELSE wait_lists[l]],
           \/ delay_list' = delay_list /\ W # {}
           \/ \E k \in 1 .. Len(delay_list) + 1 : delay_list' = InsertAt(delay_list, k, t)
    PROVE  /\ BlockedAgree'
           /\ wait_lists' \in [Lists -> Seq(Tasks)] /\ delay_list' \in Seq(Tasks)
  <1>1. /\ ~Contains(delay_list, t) /\ NoRepeat(delay_list) /\ delay_list \in Seq(Tasks)
        /\ \A l \in Lists : /\ ~Contains(wait_lists[l], t) /\ NoRepeat(wait_lists[l])
                            /\ wait_lists[l] \in Seq(Tasks)
    BY DEF TypeOK, BlockedAgree
  <1>2. /\ delay_list' \in Seq(Tasks) /\ NoRepeat(delay_list')
        /\ \A u : u # t => (Contains(delay_list', u) <=> Contains(delay_list, u))
        /\ W = {} => Contains(delay_list', t)
    <2>1. CASE delay_list' = delay_list /\ W # {}
      BY <1>1, <2>1
    <2>2. ASSUME NEW k \in 1 .. Len(delay_list) + 1,
                 delay_list' = InsertAt(delay_list, k, t)
          PROVE  /\ delay_list' \in Seq(Tasks) /\ NoRepeat(delay_list')
                 /\ \A u : Contains(delay_list', u) <=> (Contains(delay_list, u) \/ u = t)
      BY <1>1, <2>2, InsertBeforeProperties
    <2> QED BY <2>1, <2>2
  <1>3. ASSUME NEW l \in Lists
        PROVE  /\ wait_lists'[l] \in Seq(Tasks) /\ NoRepeat(wait_lists'[l])
               /\ \A u : Contains(wait_lists'[l], u) <=>
                           (Contains(wait_lists[l], u) \/ (l \in W /\ u = t))
    <2>1. CASE l \in W
      <3>1. wait_lists'[l] = Append(wait_lists[l], t)
        BY <2>1
      <3> QED BY <1>1, <2>1, <3>1, PushBackProperties
    <2>2. CASE l \notin W
      BY <1>1, <2>2
    <2> QED BY <2>1, <2>2
  <1>4. wait_lists' \in [Lists -> Seq(Tasks)]
    BY <1>3
  <1>5. ASSUME NEW u \in Tasks
        PROVE  (state'[u] = "Blocked") <=>
                  (Contains(delay_list', u) \/ \E l \in Lists : Contains(wait_lists'[l], u))
    <2>1. CASE u = t
      <3>1. Contains(delay_list', t) \/ \E l \in Lists : Contains(wait_lists'[l], t)
        BY <1>2, <1>3
      <3> QED BY <2>1, <3>1 DEF TypeOK
    <2>2. CASE u # t
      BY <1>2, <1>3, <2>2 DEF TypeOK, BlockedAgree
    <2> QED BY <2>1, <2>2
  <1>6. ASSUME NEW u \in Tasks, NEW l \in Lists, NEW m \in Lists,
               Contains(wait_lists'[l], u), Contains(wait_lists'[m], u)
        PROVE  l = m
    <2>1. CASE u = t
      BY <1>1, <1>3, <1>6, <2>1
    <2>2. CASE u # t
      BY <1>3, <1>6, <2>2 DEF BlockedAgree
    <2> QED BY <2>1, <2>2
  <1> QED BY <1>2, <1>3, <1>4, <1>5, <1>6 DEF BlockedAgree

-----------------------------------------------------------------------------
(* Stack, current and running_prio *)

\* A sequence is empty when its length is zero.
LEMMA NonEmpty ==
    ASSUME NEW S, NEW s \in Seq(S)
    PROVE  /\ Len(s) \in Nat
           /\ s # <<>> <=> Len(s) # 0
           /\ s # <<>> <=> Len(s) >= 1
  BY EmptySeq, LenProperties

\* Changing where the innermost activation is.
LEMMA TopPc ==
    ASSUME TypeOK, stack # <<>>, NEW x \in {"scan", "exec", "exit"},
           stack' = [stack EXCEPT ![Len(stack)].pc = x]
    PROVE  /\ Len(stack) \in Nat \ {0}
           /\ stack' \in Seq(Activation) /\ Len(stack') = Len(stack)
           /\ \A i \in 1 .. Len(stack) : /\ i # Len(stack) => stack'[i] = stack[i]
                                         /\ stack'[i].fn = stack[i].fn
                                         /\ stack'[i].task = stack[i].task
                                         /\ stack'[i].saved_current = stack[i].saved_current
                                         /\ stack'[i].saved_prio = stack[i].saved_prio
           /\ stack'[Len(stack)].pc = x
  <1>1. stack \in Seq(Activation) /\ Len(stack) \in Nat \ {0}
    BY EmptySeq DEF TypeOK
  <1> DEFINE n == Len(stack)
             e == [stack[n] EXCEPT !.pc = x]
  <1>2. stack[n] \in Activation
    BY <1>1, ElementOfSeq
  <1>3. /\ e \in Activation
        /\ e.fn = stack[n].fn /\ e.task = stack[n].task
        /\ e.saved_current = stack[n].saved_current /\ e.saved_prio = stack[n].saved_prio
        /\ e.pc = x
    BY <1>2 DEF Activation
  <1>4. stack' = [stack EXCEPT ![n] = e]
    OBVIOUS
  <1> HIDE DEF e
  <1>5. /\ stack' \in Seq(Activation) /\ Len(stack') = n
        /\ \A i \in 1 .. n : stack'[i] = IF i = n THEN e ELSE stack[i]
    BY <1>1, <1>3, <1>4, ExceptSeq
  <1> QED BY <1>1, <1>3, <1>5

\* The stack is left alone, and so are the tasks on it.
LEMMA CpuFrame ==
    ASSUME TypeOK, CpuAgree, UNCHANGED cpu,
           \A t \in Tasks : (state'[t] = "Running") <=> (state[t] = "Running"),
           \A t \in Tasks : state[t] = "Running" => priority'[t] = priority[t],
           stack = <<>> => ~pend'
    PROVE  CpuAgree'
  <1>1. ASSUME NEW i \in 1 .. Len(stack), stack[i].pc = "exec"
        PROVE  stack[i].task \in Tasks /\ priority'[stack[i].task] = priority[stack[i].task]
    <2>1. stack[i] \in Activation
      BY ElementOfSeq DEF TypeOK
    <2>2. stack[i].task \in Tasks
      BY <1>1, <2>1 DEF CpuAgree, SavedAgree, Activation
    <2> QED BY <1>1, <2>2 DEF CpuAgree, RunningOnStack
  <1>2. Len(stack) \in Nat /\ (stack # <<>> => Len(stack) # 0)
    BY EmptySeq, LenProperties DEF TypeOK
  <1>3. UNCHANGED <<stack, current, running_prio>>
    BY DEF cpu
  <1>4. RunningOnStack'
    BY <1>3 DEF CpuAgree, RunningOnStack
  <1>5. CurrentExecutes'
    BY <1>1, <1>2, <1>3 DEF CpuAgree, CurrentExecutes, TopIs, Top
  <1>6. SavedAgree'
    BY <1>1, <1>2, <1>3 DEF CpuAgree, SavedAgree
  <1>7. AboveEntry'
    BY <1>1, <1>2, <1>3 DEF CpuAgree, AboveEntry
  <1> QED BY <1>4, <1>5, <1>6, <1>7 DEF CpuAgree

\* The executing task leaves the processor.
LEMMA CpuSuspend ==
    ASSUME TypeOK, CpuAgree, TopIs("exec"), stack' = Suspended,
           UNCHANGED <<current, running_prio>>,
           state'[current] # "Running",
           \A t \in Tasks : t # current => /\ (state'[t] = "Running") <=> (state[t] = "Running")
                                           /\ priority'[t] = priority[t]
    PROVE  CpuAgree' /\ stack' \in Seq(Activation)
  <1> DEFINE n == Len(stack)
             x == IF Top.fn = "run_one" THEN "exit" ELSE "scan"
  <1>1. /\ n \in Nat \ {0}
        /\ stack' \in Seq(Activation) /\ Len(stack') = n
        /\ \A i \in 1 .. n : /\ i # n => stack'[i] = stack[i]
                             /\ stack'[i].fn = stack[i].fn
                             /\ stack'[i].task = stack[i].task
                             /\ stack'[i].saved_current = stack[i].saved_current
                             /\ stack'[i].saved_prio = stack[i].saved_prio
        /\ stack'[n].pc = x
    <2>1. stack # <<>> /\ x \in {"scan", "exec", "exit"} /\ stack' = [stack EXCEPT ![n].pc = x]
      BY DEF Suspended, TopIs
    <2> HIDE DEF x
    <2> QED BY <2>1, TopPc
  <1>2. stack[n].pc = "exec" /\ stack[n].task = current
    BY DEF TopIs, Top, CpuAgree, CurrentExecutes
  <1>3. x # "exec"
    OBVIOUS
  <1> HIDE DEF x
  <1>4. ASSUME NEW i \in 1 .. n, stack'[i].pc = "exec"
        PROVE  /\ i # n /\ stack'[i] = stack[i] /\ stack[i].task \in Tasks /\ stack[i].task # current
               /\ priority'[stack[i].task] = priority[stack[i].task]
    <2>1. i # n /\ stack'[i] = stack[i]
      BY <1>1, <1>3, <1>4
    <2>2. stack[i] \in Activation
      BY ElementOfSeq DEF TypeOK
    <2>3. stack[i].task \in Tasks
      BY <1>4, <2>1, <2>2 DEF CpuAgree, SavedAgree, Activation
    <2>4. stack[i].task # current
      BY <1>1, <1>2, <1>4, <2>1 DEF CpuAgree, RunningOnStack
    <2> QED BY <2>1, <2>3, <2>4
  <1>5. RunningOnStack'
    <2>1. ASSUME NEW i \in 1 .. n, NEW j \in 1 .. n, stack'[i].pc = "exec",
                 stack'[j].pc = "exec", stack'[i].task = stack'[j].task
          PROVE  i = j
      BY <1>4, <2>1 DEF CpuAgree, RunningOnStack
    <2>2. ASSUME NEW t \in Tasks, state'[t] = "Running"
          PROVE  \E i \in 1 .. n : stack'[i].pc = "exec" /\ stack'[i].task = t
      <3>1. PICK i \in 1 .. n : stack[i].pc = "exec" /\ stack[i].task = t
        BY <2>2 DEF CpuAgree, RunningOnStack
      <3> QED BY <1>1, <1>2, <2>2, <3>1
    <2>3. ASSUME NEW t \in Tasks, NEW i \in 1 .. n, stack'[i].pc = "exec", stack'[i].task = t
          PROVE  state'[t] = "Running"
      BY <1>4, <2>3 DEF CpuAgree, RunningOnStack
    <2> QED BY <1>1, <2>1, <2>2, <2>3 DEF RunningOnStack
  <1>6. CurrentExecutes'
    <2>1. stack' # <<>>
      BY <1>1
    <2>2. stack'[Len(stack')].pc # "exec"
      BY <1>1, <1>3
    <2> QED BY <2>1, <2>2 DEF CurrentExecutes, TopIs, Top
  <1>7. SavedAgree'
    BY <1>1, <1>4 DEF CpuAgree, SavedAgree, TopIs
  <1>8. AboveEntry'
    BY <1>1, <1>4 DEF CpuAgree, AboveEntry
  <1> QED BY <1>1, <1>5, <1>6, <1>7, <1>8 DEF CpuAgree

\* An activation is put on top of the stack: run_one with the task it has
\* taken from its ready list, or the handler before its first pass.
LEMMA CpuPush ==
    ASSUME TypeOK, CpuAgree, NEW a \in Activation,
           stack' = Append(stack, a),
           a.saved_current = current, a.saved_prio = running_prio,
           stack = <<>> \/ a.fn = "run_one" \/ a.pc = "scan",
           stack = <<>> => a.fn = "run_one",
           UNCHANGED priority,
           \/ /\ a.pc = "scan"
              /\ UNCHANGED <<state, current, running_prio>>
           \/ /\ a.pc = "exec" /\ a.task \in Tasks /\ state[a.task] # "Running"
              /\ state' = [state EXCEPT ![a.task] = "Running"]
              /\ current' = a.task /\ running_prio' = priority[a.task]
    PROVE  CpuAgree' /\ stack' \in Seq(Activation)
  <1> DEFINE n == Len(stack)
  <1>1. /\ n \in Nat /\ (stack # <<>> => n # 0) /\ (stack = <<>> => n = 0)
        /\ stack' \in Seq(Activation) /\ Len(stack') = n + 1 /\ stack' # <<>>
        /\ \A i \in 1 .. n : stack'[i] = stack[i]
        /\ stack'[n + 1] = a
    <2>1. stack \in Seq(Activation)
      BY DEF TypeOK
    <2>2. n \in Nat /\ (stack # <<>> => n # 0) /\ (stack = <<>> => n = 0)
      BY <2>1, EmptySeq, LenProperties
    <2> QED BY <2>1, <2>2, AppendProperties
  <1>2. RunningOnStack'
    <2>1. ASSUME NEW i \in 1 .. n + 1, NEW j \in 1 .. n + 1, i < j, stack'[i].pc = "exec",
                 stack'[j].pc = "exec", stack'[i].task = stack'[j].task
          PROVE  FALSE
      <3>1. i \in 1 .. n /\ stack'[i] = stack[i]
        BY <1>1, <2>1
      <3>2. CASE j = n + 1
        <4>1. stack[i].task = a.task /\ a.pc = "exec" /\ state[a.task] # "Running" /\ a.task \in Tasks
          BY <1>1, <2>1, <3>1, <3>2
        <4> QED BY <2>1, <3>1, <4>1 DEF CpuAgree, RunningOnStack
      <3>3. CASE j # n + 1
        <4>1. j \in 1 .. n /\ stack'[j] = stack[j]
          BY <1>1, <3>3
        <4> QED BY <1>1, <2>1, <3>1, <4>1 DEF CpuAgree, RunningOnStack
      <3> QED BY <3>2, <3>3
    <2>2. \A i, j \in 1 .. n + 1 : i = j \/ i < j \/ j < i
      BY <1>1
    <2>3. ASSUME NEW t \in Tasks, state'[t] = "Running"
          PROVE  \E i \in 1 .. n + 1 : stack'[i].pc = "exec" /\ stack'[i].task = t
      <3>1. CASE state[t] = "Running"
        <4>1. PICK i \in 1 .. n : stack[i].pc = "exec" /\ stack[i].task = t
          BY <3>1 DEF CpuAgree, RunningOnStack
        <4> QED BY <1>1, <4>1
      <3>2. CASE state[t] # "Running"
        <4>1. a.pc = "exec" /\ a.task = t
          BY <2>3, <3>2 DEF TypeOK
        <4> QED BY <1>1, <4>1
      <3> QED BY <3>1, <3>2
    <2>4. ASSUME NEW t \in Tasks, NEW i \in 1 .. n + 1, stack'[i].pc = "exec", stack'[i].task = t
          PROVE  state'[t] = "Running"
      <3>1. CASE i = n + 1
        BY <1>1, <2>4, <3>1 DEF TypeOK
      <3>2. CASE i # n + 1
        <4>1. i \in 1 .. n /\ stack'[i] = stack[i]
          BY <1>1, <3>2
        <4>2. state[t] = "Running"
          BY <2>4, <4>1 DEF CpuAgree, RunningOnStack
        <4> QED BY <4>2 DEF TypeOK
      <3> QED BY <3>1, <3>2
    <2> QED BY <1>1, <2>1, <2>2, <2>3, <2>4 DEF RunningOnStack
  <1>3. CurrentExecutes'
    BY <1>1 DEF CurrentExecutes, TopIs, Top
  <1>4. SavedAgree'
    <2>1. stack'[1].saved_current = NoTask /\ stack'[1].saved_prio = NoRunningTask
      <3>1. CASE stack = <<>>
        BY <1>1, <3>1 DEF CpuAgree, CurrentExecutes
      <3>2. CASE stack # <<>>
        BY <1>1, <3>2 DEF CpuAgree, SavedAgree
      <3> QED BY <3>1, <3>2
    <2>2. ASSUME NEW i \in 1 .. n, stack'[i].pc = "exec"
          PROVE  /\ stack'[i + 1].saved_current = stack'[i].task
                 /\ stack'[i + 1].saved_prio = priority'[stack'[i].task]
      <3>1. CASE i = n
        BY <1>1, <2>2, <3>1 DEF CpuAgree, CurrentExecutes, TopIs, Top
      <3>2. CASE i # n
        <4>1. i \in 1 .. n - 1 /\ i + 1 \in 1 .. n
          BY <1>1, <3>2
        <4> QED BY <1>1, <2>2, <4>1 DEF CpuAgree, SavedAgree
      <3> QED BY <3>1, <3>2
    <2>3. ASSUME NEW i \in 1 .. n + 1, stack'[i].pc = "exec"
          PROVE  stack'[i].task # NoTask
      <3>1. CASE i = n + 1
        BY <1>1, <2>3, <3>1, KernelAssumption
      <3>2. CASE i # n + 1
        <4>1. i \in 1 .. n /\ stack'[i] = stack[i]
          BY <1>1, <3>2
        <4> QED BY <2>3, <4>1 DEF CpuAgree, SavedAgree
      <3> QED BY <3>1, <3>2
    <2> QED BY <1>1, <2>1, <2>2, <2>3 DEF SavedAgree
  <1>5. AboveEntry'
    <2>1. ASSUME NEW i \in 1 .. n + 1, stack'[i].fn = "preempt_handler"
          PROVE  /\ i > 1
                 /\ stack'[i].pc = "exec" => priority'[stack'[i].task] < stack'[i].saved_prio
      <3>1. CASE i = n + 1
        <4>1. a.fn # "run_one" /\ stack # <<>> /\ a.pc = "scan" /\ i > 1
          BY <1>1, <2>1, <3>1
        <4> QED BY <1>1, <3>1, <4>1
      <3>2. CASE i # n + 1
        <4>1. i \in 1 .. n /\ stack'[i] = stack[i]
          BY <1>1, <3>2
        <4>2. i > 1
          BY <2>1, <4>1 DEF CpuAgree, AboveEntry
        <4>3. i - 1 \in 1 .. n /\ stack'[i - 1] = stack[i - 1]
          BY <1>1, <4>1, <4>2
        <4> QED BY <2>1, <4>1, <4>2, <4>3 DEF CpuAgree, AboveEntry
      <3> QED BY <3>1, <3>2
    <2> QED BY <1>1, <2>1 DEF AboveEntry
  <1> QED BY <1>1, <1>2, <1>3, <1>4, <1>5 DEF CpuAgree
\* The handler resumes a task of a priority below the one it has saved.
LEMMA CpuScan ==
    ASSUME TypeOK, CpuAgree, TopIs("scan"), NEW t \in Tasks, state[t] # "Running",
           priority[t] < Top.saved_prio,
           state' = [state EXCEPT ![t] = "Running"], UNCHANGED priority,
           current' = t, running_prio' = priority[t],
           stack' = [stack EXCEPT ![Len(stack)].pc = "exec", ![Len(stack)].task = t]
    PROVE  CpuAgree' /\ stack' \in Seq(Activation)
  <1> DEFINE n == Len(stack)
             e == [stack[n] EXCEPT !.pc = "exec", !.task = t]
  <1>1. stack \in Seq(Activation) /\ n \in Nat \ {0} /\ stack[n].pc = "scan"
    BY EmptySeq DEF TypeOK, TopIs, Top
  <1>2. stack[n] \in Activation
    BY <1>1, ElementOfSeq
  <1>3. /\ e \in Activation
        /\ e.fn = stack[n].fn /\ e.task = t
        /\ e.saved_current = stack[n].saved_current /\ e.saved_prio = stack[n].saved_prio
        /\ e.pc = "exec"
    BY <1>2 DEF Activation
  <1>4. stack' = [stack EXCEPT ![n] = e]
    OBVIOUS
  <1> HIDE DEF e
  <1>5. /\ stack' \in Seq(Activation) /\ Len(stack') = n /\ stack' # <<>>
        /\ \A i \in 1 .. n : i # n => stack'[i] = stack[i]
        /\ stack'[n] = e
    <2>1. /\ stack' \in Seq(Activation) /\ Len(stack') = n
          /\ \A i \in 1 .. n : stack'[i] = IF i = n THEN e ELSE stack[i]
      <3>1. stack \in Seq(Activation) /\ n \in Nat \ {0}
        BY <1>1
      <3> QED BY <1>3, <1>4, <3>1, ExceptSeq
    <2>2. stack' # <<>>
      BY <1>1, <2>1, NonEmpty
    <2> QED BY <1>1, <2>1, <2>2
  <1>6. \A i \in 1 .. n : stack[i].pc = "exec" => i # n /\ stack[i].task # t
    <2>1. ASSUME NEW i \in 1 .. n, stack[i].pc = "exec", stack[i].task = t
          PROVE  FALSE
      BY <2>1 DEF CpuAgree, RunningOnStack
    <2> QED BY <1>1, <2>1
  <1>7. RunningOnStack'
    <2>1. ASSUME NEW i \in 1 .. n, NEW j \in 1 .. n, stack'[i].pc = "exec",
                 stack'[j].pc = "exec", stack'[i].task = stack'[j].task
          PROVE  i = j
      <3>1. CASE i = n \/ j = n
        BY <1>3, <1>5, <1>6, <2>1, <3>1
      <3>2. CASE i # n /\ j # n
        BY <1>5, <2>1, <3>2 DEF CpuAgree, RunningOnStack
      <3> QED BY <3>1, <3>2
    <2>2. ASSUME NEW u \in Tasks, state'[u] = "Running"
          PROVE  \E i \in 1 .. n : stack'[i].pc = "exec" /\ stack'[i].task = u
      <3>1. CASE u = t
        BY <1>1, <1>3, <1>5, <3>1
      <3>2. CASE u # t
        <4>1. state[u] = "Running"
          BY <2>2, <3>2 DEF TypeOK
        <4>2. PICK i \in 1 .. n : stack[i].pc = "exec" /\ stack[i].task = u
          BY <4>1 DEF CpuAgree, RunningOnStack
        <4> QED BY <1>5, <1>6, <4>2
      <3> QED BY <3>1, <3>2
    <2>3. ASSUME NEW u \in Tasks, NEW i \in 1 .. n, stack'[i].pc = "exec", stack'[i].task = u
          PROVE  state'[u] = "Running"
      <3>1. CASE i = n
        BY <1>3, <1>5, <2>3, <3>1 DEF TypeOK
      <3>2. CASE i # n
        <4>1. state[u] = "Running"
          BY <1>5, <2>3, <3>2 DEF CpuAgree, RunningOnStack
        <4> QED BY <4>1 DEF TypeOK
      <3> QED BY <3>1, <3>2
    <2>4. Len(stack') = n
      BY <1>5
    <2> QED BY <2>1, <2>2, <2>3, <2>4 DEF RunningOnStack
  <1>8. CurrentExecutes'
    BY <1>1, <1>3, <1>5 DEF CurrentExecutes, TopIs, Top
  <1>9. SavedAgree'
    <2>1. stack'[1].saved_current = NoTask /\ stack'[1].saved_prio = NoRunningTask
      BY <1>1, <1>3, <1>5 DEF CpuAgree, SavedAgree, TopIs
    <2>2. ASSUME NEW i \in 1 .. n - 1, stack'[i].pc = "exec"
          PROVE  /\ stack'[i + 1].saved_current = stack'[i].task
                 /\ stack'[i + 1].saved_prio = priority'[stack'[i].task]
      <3>1. i \in 1 .. n /\ i # n /\ i + 1 \in 1 .. n
        BY <1>1
      <3>2. stack'[i + 1].saved_current = stack[i + 1].saved_current
            /\ stack'[i + 1].saved_prio = stack[i + 1].saved_prio
        BY <1>3, <1>5, <3>1
      <3> QED BY <1>5, <2>2, <3>1, <3>2 DEF CpuAgree, SavedAgree
    <2>3. ASSUME NEW i \in 1 .. n, stack'[i].pc = "exec"
          PROVE  stack'[i].task # NoTask
      BY <1>3, <1>5, <2>3, KernelAssumption DEF CpuAgree, SavedAgree
    <2> QED BY <1>5, <2>1, <2>2, <2>3 DEF SavedAgree
  <1>10. AboveEntry'
    <2>1. ASSUME NEW i \in 1 .. n, stack'[i].fn = "preempt_handler"
          PROVE  /\ i > 1
                 /\ stack'[i].pc = "exec" => priority'[stack'[i].task] < stack'[i].saved_prio
      <3>1. stack[i].fn = "preempt_handler"
        BY <1>3, <1>5, <2>1
      <3>2. i > 1 /\ i - 1 \in 1 .. n /\ i - 1 # n /\ i - 1 \in 1 .. n - 1
        BY <1>1, <3>1 DEF CpuAgree, AboveEntry
      <3>3. CASE i = n
        <4>1. stack'[n - 1].pc = "exec" => stack[n].saved_prio = priority[stack[n - 1].task]
          <5>1. (n - 1) + 1 = n
            BY <1>1
          <5> QED BY <1>5, <3>2, <3>3, <5>1 DEF CpuAgree, SavedAgree
        <4>2. stack'[n].task = t /\ stack'[n - 1] = stack[n - 1]
          BY <1>3, <1>5, <3>2, <3>3
        <4> QED BY <3>2, <3>3, <4>1, <4>2 DEF Top
      <3>4. CASE i # n
        BY <1>5, <3>1, <3>2, <3>4 DEF CpuAgree, AboveEntry
      <3> QED BY <3>3, <3>4
    <2> QED BY <1>5, <2>1 DEF AboveEntry
  <1> QED BY <1>5, <1>7, <1>8, <1>9, <1>10 DEF CpuAgree

\* The handler finds nothing more to run.
LEMMA CpuScanEmpty ==
    ASSUME TypeOK, CpuAgree, TopIs("scan"),
           UNCHANGED <<state, priority, current, running_prio>>,
           stack' = [stack EXCEPT ![Len(stack)].pc = "exit"]
    PROVE  CpuAgree' /\ stack' \in Seq(Activation)
  <1> DEFINE n == Len(stack)
  <1>1. /\ n \in Nat \ {0} /\ stack[n].pc = "scan"
        /\ stack' \in Seq(Activation) /\ Len(stack') = n /\ stack' # <<>>
        /\ \A i \in 1 .. n : /\ i # n => stack'[i] = stack[i]
                             /\ stack'[i].fn = stack[i].fn
                             /\ stack'[i].task = stack[i].task
                             /\ stack'[i].saved_current = stack[i].saved_current
                             /\ stack'[i].saved_prio = stack[i].saved_prio
        /\ stack'[n].pc = "exit"
    BY TopPc, EmptySeq DEF TopIs, Top
  <1>2. \A i \in 1 .. n : stack'[i].pc = "exec" <=> stack[i].pc = "exec"
    BY <1>1
  <1>3. RunningOnStack'
    BY <1>1, <1>2 DEF CpuAgree, RunningOnStack
  <1>4. CurrentExecutes'
    BY <1>1 DEF CurrentExecutes, TopIs, Top
  <1>5. SavedAgree'
    BY <1>1, <1>2 DEF CpuAgree, SavedAgree, TopIs
  <1>6. AboveEntry'
    BY <1>1, <1>2 DEF CpuAgree, AboveEntry
  <1> QED BY <1>1, <1>3, <1>4, <1>5, <1>6 DEF CpuAgree

\* The innermost activation restores what it saved and returns.
LEMMA CpuReturn ==
    ASSUME TypeOK, CpuAgree, TopIs("exit"), pend => HandlerActive,
           UNCHANGED <<state, priority, pend>>,
           current' = Top.saved_current, running_prio' = Top.saved_prio,
           stack' = SubSeq(stack, 1, Len(stack) - 1)
    PROVE  CpuAgree' /\ stack' \in Seq(Activation)
  <1> DEFINE n == Len(stack)
  <1>0. n \in Nat /\ n >= 1
    BY NonEmpty DEF TypeOK, TopIs
  <1>1. stack \in Seq(Activation) /\ n \in Nat \ {0} /\ stack[n].pc = "exit"
    BY EmptySeq DEF TypeOK, TopIs, Top
  <1>2. /\ stack' \in Seq(Activation) /\ Len(stack') = n - 1
        /\ \A i \in 1 .. n - 1 : stack'[i] = stack[i]
    <2>1. stack # <<>>
      BY DEF TopIs
    <2> QED BY <1>1, <2>1, FrontProperties
  <1>3. RunningOnStack'
    <2>1. \A i \in 1 .. n : stack[i].pc = "exec" => i \in 1 .. n - 1
      BY <1>1
    <2> QED BY <1>1, <1>2, <2>1 DEF CpuAgree, RunningOnStack
  <1>4. CurrentExecutes'
    <2>1. CASE n = 1
      <3>1. stack' = <<>>
        BY <1>2, <2>1, EmptySeq
      <3>2. current' = NoTask /\ running_prio' = NoRunningTask
        BY <1>1, <2>1 DEF CpuAgree, SavedAgree, Top, TopIs
      <3>3. ~HandlerActive
        BY <2>1 DEF CpuAgree, AboveEntry, HandlerActive
      <3> QED BY <3>1, <3>2, <3>3 DEF CurrentExecutes, TopIs
    <2>2. CASE n > 1
      <3>1. stack' # <<>> /\ n - 1 \in 1 .. n - 1 /\ (n - 1) + 1 = n
        <4>1. Len(stack') >= 1 /\ n - 1 >= 1
          BY <1>0, <1>2, <2>2
        <4>2. stack' # <<>>
          BY <1>2, <4>1, NonEmpty
        <4> QED BY <1>0, <4>1, <4>2
      <3>2. stack[n - 1].pc = "exec" =>
               /\ stack[n].saved_current = stack[n - 1].task
               /\ stack[n].saved_prio = priority[stack[n - 1].task]
        BY <3>1 DEF CpuAgree, SavedAgree
      <3>3. stack'[Len(stack')] = stack[n - 1]
        BY <1>2, <3>1
      <3> QED BY <1>1, <3>1, <3>2, <3>3 DEF CurrentExecutes, TopIs, Top
    <2>3. n = 1 \/ n > 1
      <3> HIDE DEF n
      <3> QED BY <1>0
    <2> QED BY <2>1, <2>2, <2>3
  <1>5. SavedAgree'
    <2>1. stack' # <<>> => 1 \in 1 .. n - 1
      BY <1>1, <1>2, EmptySeq
    <2>2. \A i \in 1 .. n - 2 : i \in 1 .. n - 1 /\ i + 1 \in 1 .. n - 1
      BY <1>1
    <2>3. Len(stack') - 1 = n - 2
      BY <1>1, <1>2
    <2> QED BY <1>1, <1>2, <2>1, <2>2, <2>3 DEF CpuAgree, SavedAgree, TopIs
  <1>6. AboveEntry'
    <2>1. ASSUME NEW i \in 1 .. n - 1, stack'[i].fn = "preempt_handler"
          PROVE  /\ i > 1
                 /\ stack'[i].pc = "exec" => priority'[stack'[i].task] < stack'[i].saved_prio
      <3>1. i \in 1 .. n /\ stack'[i] = stack[i]
        BY <1>1, <1>2
      <3>2. i > 1
        BY <2>1, <3>1 DEF CpuAgree, AboveEntry
      <3>3. i - 1 \in 1 .. n - 1 /\ stack'[i - 1] = stack[i - 1]
        BY <1>1, <1>2, <3>2
      <3> QED BY <2>1, <3>1, <3>2, <3>3 DEF CpuAgree, AboveEntry
    <2> QED BY <1>2, <2>1 DEF AboveEntry
  <1> QED BY <1>2, <1>3, <1>4, <1>5, <1>6 DEF CpuAgree
-----------------------------------------------------------------------------
(* The actions *)

\* A task is Blocked when it is found in a wait list or in the delay list.
LEMMA Waiting ==
    ASSUME TypeOK, BlockedAgree
    PROVE  /\ \A l \in Lists, t \in Tasks :
                 Contains(wait_lists[l], t) => state[t] = "Blocked"
           /\ delay_list # <<>> => /\ Head(delay_list) \in Tasks
                                  /\ state[Head(delay_list)] = "Blocked"
  <1>1. \A l \in Lists, t \in Tasks : Contains(wait_lists[l], t) => state[t] = "Blocked"
    BY DEF BlockedAgree
  <1>2. ASSUME delay_list # <<>>
        PROVE  Head(delay_list) \in Tasks /\ Contains(delay_list, Head(delay_list))
    BY <1>2, PopFrontProperties DEF TypeOK
  <1> QED BY <1>1, <1>2 DEF BlockedAgree

\* Waking a Blocked task, by an event or by the tick
LEMMA WakeStep ==
    ASSUME IInv, NEW t \in Tasks, NEW b \in BOOLEAN, state[t] = "Blocked",
           Wake(t, b), UNCHANGED <<priority, deadline, cpu>>,
           tick_count' \in Tick, ticking' \in BOOLEAN, TickLoop'
    PROVE  IInv'
  <1>1. /\ state' = [state EXCEPT ![t] = "Ready"]
        /\ ready_lists' = [ready_lists EXCEPT ![priority[t]] = Append(@, t)]
        /\ pend' = (pend \/ (PREEMPTIVE /\ running_prio # NoRunningTask
                                       /\ priority[t] < running_prio))
    BY DEF Wake, MakeReady
  <1>2. priority[t] \in Priority /\ UNCHANGED priority /\ state[t] # "Ready"
    BY DEF IInv, TypeOK
  <1>3. ReadyAgree' /\ ready_lists' \in [Priority -> Seq(Tasks)]
    BY <1>1, <1>2, ReadyPush DEF IInv, TypeOK
  <1>4. state' \in [Tasks -> {"Created", "Ready", "Running", "Blocked"}]
    BY <1>1 DEF IInv, TypeOK
  <1>5. /\ BlockedAgree'
        /\ wait_lists' \in [Lists -> Seq(Tasks)] /\ delay_list' \in Seq(Tasks)
    <2>1. state'[t] # "Blocked" /\ \A u \in Tasks : u # t => state'[u] = state[u]
      BY <1>1 DEF IInv, TypeOK
    <2> QED BY <1>4, <2>1, BlockedRemove DEF IInv, Wake
  <1>6. CpuAgree'
    <2>1. stack = <<>> => ~pend'
      BY <1>1 DEF IInv, CpuAgree, CurrentExecutes
    <2>2. \A u \in Tasks : (state'[u] = "Running") <=> (state[u] = "Running")
      BY <1>1 DEF IInv, TypeOK
    <2> QED BY <2>1, <2>2, CpuFrame DEF IInv
  <1>7. timed_out' \in [Tasks -> BOOLEAN]
    BY DEF Wake, IInv, TypeOK
  <1>8. pend' \in BOOLEAN
    BY <1>1
  <1>9. TypeOK'
    BY <1>3, <1>4, <1>5, <1>7, <1>8 DEF IInv, TypeOK, cpu
  <1> QED BY <1>3, <1>5, <1>6, <1>9 DEF IInv

\* wake_locked by a primitive
LEMMA WakeWaiterStep ==
    ASSUME IInv, NEW l \in Lists, NEW t \in Tasks, WakeWaiter(l, t)
    PROVE  IInv'
  <1>1. state[t] = "Blocked"
    BY Waiting DEF IInv, WakeWaiter
  <1>2. ~ticking'
    BY DEF WakeWaiter, Interrupts
  <1>3. tick_count' \in Tick /\ ticking' \in BOOLEAN /\ TickLoop'
    BY <1>2 DEF WakeWaiter, IInv, TypeOK, TickLoop
  <1> QED BY <1>1, <1>3, WakeStep DEF WakeWaiter

\* One pass of the loop of tick_isr
LEMMA TickWakeStep ==
    ASSUME IInv, TickWake
    PROVE  IInv'
  <1>1. Head(delay_list) \in Tasks /\ state[Head(delay_list)] = "Blocked"
    BY Waiting DEF IInv, TickWake, TickLoop
  <1>2. tick_count' \in Tick /\ ticking' \in BOOLEAN /\ TickLoop'
    BY DEF TickWake, IInv, TypeOK, TickLoop, Due
  <1> QED BY <1>1, <1>2, WakeStep DEF TickWake

\* The counter of tick_isr: lists and stack are left alone.
LEMMA TickIsrStep ==
    ASSUME IInv, TickIsr
    PROVE  IInv'
  <1>1. tick_count' \in Tick
    BY KernelAssumption DEF TickIsr, IInv, TypeOK, Tick, Plus, Modulus
  <1>2. ticking' \in BOOLEAN /\ TickLoop'
    BY DEF TickIsr, TickLoop, Due, lists
  <1>3. UNCHANGED <<state, priority, ready_lists, delay_list, wait_lists, deadline, timed_out, cpu, pend>>
    BY DEF TickIsr, lists, nodes
  <1>4. CpuAgree'
    BY <1>3, CpuFrame DEF IInv, CpuAgree, CurrentExecutes
  <1>5. ReadyAgree' /\ BlockedAgree'
    BY <1>3, ReadyFrame, BlockedFrame DEF IInv
  <1> QED BY <1>1, <1>2, <1>3, <1>4, <1>5 DEF IInv, TypeOK, cpu

\* start: the task joins the ready list of its limited priority.
LEMMA StartStep ==
    ASSUME IInv, NEW t \in Tasks, NEW p \in 0 .. NUM_PRIORITIES, Start(t, p)
    PROVE  IInv'
  <1> DEFINE q == IF p < NUM_PRIORITIES THEN p ELSE NUM_PRIORITIES - 1
  <1>1. q \in Priority
    BY KernelAssumption DEF Priority
  <1>2. /\ state[t] = "Created" /\ ~ticking
        /\ priority' = [priority EXCEPT ![t] = q]
        /\ state' = [state EXCEPT ![t] = "Ready"]
        /\ ready_lists' = [ready_lists EXCEPT ![q] = Append(@, t)]
        /\ pend' = (pend \/ (PREEMPTIVE /\ running_prio # NoRunningTask /\ q < running_prio))
        /\ UNCHANGED <<delay_list, wait_lists, deadline, timed_out, tick_count, cpu, ticking>>
    BY DEF Start, MakeReady, Proceeds, nodes
  <1> HIDE DEF q
  <1>3. priority' \in [Tasks -> Priority] /\ priority'[t] = q
        /\ \A u \in Tasks : u # t => priority'[u] = priority[u]
    BY <1>1, <1>2 DEF IInv, TypeOK
  <1>4. ReadyAgree' /\ ready_lists' \in [Priority -> Seq(Tasks)]
    BY <1>1, <1>2, <1>3, ReadyPush DEF IInv
  <1>5. state' \in [Tasks -> {"Created", "Ready", "Running", "Blocked"}]
        /\ \A u \in Tasks : /\ (state'[u] = "Blocked") <=> (state[u] = "Blocked")
                            /\ (state'[u] = "Running") <=> (state[u] = "Running")
    BY <1>2 DEF IInv, TypeOK
  <1>6. BlockedAgree'
    BY <1>2, <1>5, BlockedFrame DEF IInv
  <1>7. CpuAgree'
    <2>1. stack = <<>> => ~pend'
      BY <1>2 DEF IInv, CpuAgree, CurrentExecutes
    <2>2. \A u \in Tasks : state[u] = "Running" => priority'[u] = priority[u]
      BY <1>2, <1>3
    <2> QED BY <1>2, <1>5, <2>1, <2>2, CpuFrame DEF IInv
  <1>8. TypeOK'
    BY <1>2, <1>3, <1>4, <1>5 DEF IInv, TypeOK, cpu
  <1> QED BY <1>2, <1>4, <1>6, <1>7, <1>8 DEF IInv, TickLoop

\* What resuming a task does to everything but the stack
LEMMA ResumeStep ==
    ASSUME IInv, ~ticking, NEW p \in Priority, ready_lists[p] # <<>>, Resume(p),
           NEW t, t = Head(ready_lists[p])
    PROVE  /\ t \in Tasks /\ state[t] = "Ready" /\ priority[t] = p
           /\ state' = [state EXCEPT ![t] = "Running"] /\ UNCHANGED <<priority, pend>>
           /\ current' = t /\ running_prio' = priority[t]
           /\ ReadyAgree' /\ BlockedAgree' /\ TickLoop'
           /\ stack' \in Seq(Activation) => TypeOK'
  <1>1. /\ state' = [state EXCEPT ![t] = "Running"]
        /\ ready_lists' = [ready_lists EXCEPT ![p] = Tail(@)]
        /\ deadline' = [deadline EXCEPT ![t] = 0]
        /\ timed_out' = [timed_out EXCEPT ![t] = FALSE]
        /\ current' = t /\ running_prio' = p
        /\ UNCHANGED <<priority, delay_list, wait_lists, tick_count, pend, ticking>>
    BY DEF Resume
  <1>2. /\ t \in Tasks /\ state[t] = "Ready" /\ priority[t] = p
        /\ ReadyAgree' /\ ready_lists' \in [Priority -> Seq(Tasks)]
    BY <1>1, ReadyPop DEF IInv
  <1>3. BlockedAgree'
    <2>1. \A u \in Tasks : (state'[u] = "Blocked") <=> (state[u] = "Blocked")
      BY <1>1, <1>2 DEF IInv, TypeOK
    <2> QED BY <1>1, <2>1, BlockedFrame DEF IInv
  <1>4. deadline' \in [Tasks -> Tick]
    <2>1. 0 \in Tick
      BY KernelAssumption DEF Tick, Modulus
    <2> QED BY <1>1, <2>1 DEF IInv, TypeOK
  <1>5. stack' \in Seq(Activation) => TypeOK'
    BY <1>1, <1>2, <1>4 DEF IInv, TypeOK
  <1> QED BY <1>1, <1>2, <1>3, <1>5 DEF TickLoop

\* run_one pushes an activation on an empty stack or on the task that calls it.
LEMMA RunOneStep ==
    ASSUME IInv, RunOne
    PROVE  IInv'
  <1>1. PICK p \in Priority :
           /\ ready_lists[p] # <<>> /\ Resume(p)
           /\ stack' = Append(stack, [fn |-> "run_one", task |-> Head(ready_lists[p]),
                                      saved_current |-> current,
                                      saved_prio |-> running_prio, pc |-> "exec"])
    BY DEF RunOne, FirstReady
  <1> DEFINE t == Head(ready_lists[p])
             a == [fn |-> "run_one", task |-> t, saved_current |-> current,
                   saved_prio |-> running_prio, pc |-> "exec"]
  <1>2. ~ticking
    BY DEF RunOne, Proceeds
  <1>3. /\ t \in Tasks /\ state[t] = "Ready" /\ priority[t] = p
        /\ state' = [state EXCEPT ![t] = "Running"] /\ UNCHANGED <<priority, pend>>
        /\ current' = t /\ running_prio' = priority[t]
        /\ ReadyAgree' /\ BlockedAgree' /\ TickLoop'
        /\ stack' \in Seq(Activation) => TypeOK'
    BY <1>1, <1>2, ResumeStep
  <1>4. /\ a \in Activation /\ a.fn = "run_one" /\ a.task = t /\ a.pc = "exec"
        /\ a.saved_current = current /\ a.saved_prio = running_prio
    BY <1>3 DEF IInv, TypeOK, Activation
  <1>5. stack' = Append(stack, a)
    BY <1>1
  <1> HIDE DEF a, t
  <1>6. CpuAgree' /\ stack' \in Seq(Activation)
    BY <1>3, <1>4, <1>5, CpuPush DEF IInv
  <1> QED BY <1>3, <1>6 DEF IInv

\* PendSV is requested only while a task has the processor, so the handler is
\* pushed on a stack that is not empty.
LEMMA PendSVStep ==
    ASSUME IInv, PendSV
    PROVE  IInv'
  <1> DEFINE a == [fn |-> "preempt_handler", task |-> NoTask, saved_current |-> current,
                   saved_prio |-> running_prio, pc |-> "scan"]
  <1>1. /\ stack' = Append(stack, a) /\ pend /\ pend' = FALSE /\ ~ticking
        /\ UNCHANGED <<state, priority, ready_lists, delay_list, wait_lists, deadline,
                       timed_out, tick_count, current, running_prio, ticking>>
    BY DEF PendSV, lists, nodes
  <1>2. /\ a \in Activation /\ a.fn = "preempt_handler" /\ a.pc = "scan"
        /\ a.saved_current = current /\ a.saved_prio = running_prio
    BY DEF IInv, TypeOK, Activation
  <1>3. stack # <<>>
    BY <1>1 DEF IInv, CpuAgree, CurrentExecutes
  <1> HIDE DEF a
  <1>4. CpuAgree' /\ stack' \in Seq(Activation)
    BY <1>1, <1>2, <1>3, CpuPush DEF IInv
  <1>5. ReadyAgree' /\ BlockedAgree'
    BY <1>1, ReadyFrame, BlockedFrame DEF IInv
  <1> QED BY <1>1, <1>4, <1>5 DEF IInv, TypeOK, TickLoop
\* A pass of the handler that finds a task runs a higher priority than it
\* interrupted.
LEMMA ScanStep ==
    ASSUME IInv, Scan
    PROVE  IInv'
  <1>1. PICK p \in Priority :
           /\ p < ScanLimit /\ ready_lists[p] # <<>> /\ Resume(p)
           /\ stack' = [stack EXCEPT ![Len(stack)].pc = "exec",
                                     ![Len(stack)].task = Head(ready_lists[p])]
    BY DEF Scan, FirstReady
  <1> DEFINE t == Head(ready_lists[p])
  <1>2. ~ticking /\ TopIs("scan")
    BY DEF Scan, Proceeds
  <1>3. /\ t \in Tasks /\ state[t] = "Ready" /\ priority[t] = p
        /\ state' = [state EXCEPT ![t] = "Running"] /\ UNCHANGED <<priority, pend>>
        /\ current' = t /\ running_prio' = priority[t]
        /\ ReadyAgree' /\ BlockedAgree' /\ TickLoop'
        /\ stack' \in Seq(Activation) => TypeOK'
    BY <1>1, <1>2, ResumeStep
  <1>4. priority[t] < Top.saved_prio
    <2>1. Top \in Activation
      BY <1>2, NonEmpty, ElementOfSeq DEF IInv, TypeOK, TopIs, Top
    <2>2. Top.saved_prio \in Nat
      BY <2>1, KernelAssumption DEF Activation, Priority, NoRunningTask
    <2>3. p \in Nat /\ NUM_PRIORITIES \in Nat
      BY KernelAssumption DEF Priority
    <2>4. p < Top.saved_prio
      BY <1>1, <2>2, <2>3 DEF ScanLimit
    <2> QED BY <1>3, <2>4
  <1> HIDE DEF t
  <1>5. CpuAgree' /\ stack' \in Seq(Activation)
    BY <1>1, <1>2, <1>3, <1>4, CpuScan DEF IInv, t
  <1> QED BY <1>3, <1>5 DEF IInv

\* The last pass of the handler changes where it is, and nothing else.
LEMMA ScanEmptyStep ==
    ASSUME IInv, ScanEmpty
    PROVE  IInv'
  <1>1. /\ TopIs("scan") /\ stack' = [stack EXCEPT ![Len(stack)].pc = "exit"]
        /\ UNCHANGED <<state, priority, ready_lists, delay_list, wait_lists, deadline,
                       timed_out, tick_count, current, running_prio, pend, ticking>>
    BY DEF ScanEmpty, lists, nodes
  <1>2. CpuAgree' /\ stack' \in Seq(Activation)
    BY <1>1, CpuScanEmpty DEF IInv
  <1>3. ReadyAgree' /\ BlockedAgree'
    BY <1>1, ReadyFrame, BlockedFrame DEF IInv
  <1> QED BY <1>1, <1>2, <1>3 DEF IInv, TypeOK, TickLoop

\* What an activation restores is right for the one below it.
LEMMA ReturnStep ==
    ASSUME IInv, Return
    PROVE  IInv'
  <1>1. /\ TopIs("exit") /\ (pend => HandlerActive)
        /\ current' = Top.saved_current /\ running_prio' = Top.saved_prio
        /\ stack' = SubSeq(stack, 1, Len(stack) - 1)
        /\ UNCHANGED <<state, priority, ready_lists, delay_list, wait_lists, deadline,
                       timed_out, tick_count, pend, ticking>>
    BY DEF Return, Proceeds, lists, nodes
  <1>2. CpuAgree' /\ stack' \in Seq(Activation)
    BY <1>1, CpuReturn DEF IInv
  <1>3. ReadyAgree' /\ BlockedAgree'
    BY <1>1, ReadyFrame, BlockedFrame DEF IInv
  <1>4. Top \in Activation
    BY <1>1, NonEmpty, ElementOfSeq DEF IInv, TypeOK, TopIs, Top
  <1>5. current' \in Tasks \union {NoTask} /\ running_prio' \in Priority \union {NoRunningTask}
    BY <1>1, <1>4 DEF Activation
  <1> QED BY <1>1, <1>2, <1>3, <1>5 DEF IInv, TypeOK, TickLoop

\* The task body that has the processor is the current task, and it is Running.
LEMMA Executes ==
    ASSUME IInv, Executing
    PROVE  current \in Tasks /\ state[current] = "Running" /\ TopIs("exec")
  <1>1. TopIs("exec")
    BY DEF Executing
  <1>2. Len(stack) \in 1 .. Len(stack) /\ Top \in Activation /\ Top = stack[Len(stack)]
    BY <1>1, NonEmpty, ElementOfSeq DEF IInv, TypeOK, TopIs, Top
  <1>3. current = stack[Len(stack)].task /\ stack[Len(stack)].pc = "exec"
    BY <1>1, <1>2 DEF IInv, CpuAgree, CurrentExecutes, TopIs
  <1>4. current # NoTask
    BY <1>2, <1>3 DEF IInv, CpuAgree, SavedAgree
  <1>5. current \in Tasks
    BY <1>4 DEF IInv, TypeOK
  <1> QED BY <1>1, <1>2, <1>3, <1>5 DEF IInv, CpuAgree, RunningOnStack

\* A wait begins: the node is put into the wait lists W (none or one), the
\* delay list, or both.
LEMMA WaitStep ==
    ASSUME IInv, Executing, NEW W \in SUBSET Lists, \A l, m \in W : l = m,
           NEW d, Plus(tick_count, d) \in Tick,
           state' = [state EXCEPT ![current] = "Blocked"],
           timed_out' = [timed_out EXCEPT ![current] = FALSE],
           wait_lists' = [l \in Lists |-> IF l \in W THEN Append(wait_lists[l], current)
                                          ELSE wait_lists[l]],
           \/ UNCHANGED <<deadline, delay_list>> /\ W # {}
           \/ DelayInsert(current, Plus(tick_count, d)),
           stack' = Suspended,
           UNCHANGED <<priority, ready_lists, tick_count, current, running_prio, pend, ticking>>
    PROVE  IInv'
  <1>1. current \in Tasks /\ state[current] = "Running" /\ TopIs("exec") /\ ~ticking
    BY Executes DEF Executing, Proceeds
  <1>2. /\ deadline' \in [Tasks -> Tick]
        /\ \/ delay_list' = delay_list /\ W # {}
           \/ \E k \in 1 .. Len(delay_list) + 1 : delay_list' = InsertAt(delay_list, k, current)
    BY <1>1 DEF DelayInsert, IInv, TypeOK
  <1>3. BlockedAgree' /\ wait_lists' \in [Lists -> Seq(Tasks)] /\ delay_list' \in Seq(Tasks)
    BY <1>1, <1>2, BlockedAdd DEF IInv
  <1>4. /\ state' \in [Tasks -> {"Created", "Ready", "Running", "Blocked"}]
        /\ state'[current] = "Blocked"
        /\ \A u \in Tasks : u # current => state'[u] = state[u]
    BY <1>1 DEF IInv, TypeOK
  <1>5. ReadyAgree'
    BY <1>1, <1>4, ReadyFrame DEF IInv
  <1>6. CpuAgree' /\ stack' \in Seq(Activation)
    BY <1>1, <1>4, CpuSuspend DEF IInv
  <1>7. timed_out' \in [Tasks -> BOOLEAN]
    BY DEF IInv, TypeOK
  <1> QED BY <1>1, <1>2, <1>3, <1>4, <1>5, <1>6, <1>7 DEF IInv, TypeOK, TickLoop

\* Ticks stay within Tick.
LEMMA PlusType ==
    ASSUME NEW a \in Tick, NEW n \in 0 .. MaxTimeout
    PROVE  Plus(a, n) \in Tick
  BY KernelAssumption DEF Plus, Tick, Modulus

\* A primitive blocks the current task.
LEMMA BlockStep ==
    ASSUME IInv, NEW l \in Lists, NEW n \in Timeouts, Block(l, n)
    PROVE  IInv'
  <1>1. /\ Executing
        /\ state' = [state EXCEPT ![current] = "Blocked"]
        /\ timed_out' = [timed_out EXCEPT ![current] = FALSE]
        /\ wait_lists' = [wait_lists EXCEPT ![l] = Append(@, current)]
        /\ IF n = NoTimeout THEN UNCHANGED <<deadline, delay_list>>
                            ELSE DelayInsert(current, Plus(tick_count, n))
        /\ stack' = Suspended
        /\ UNCHANGED <<priority, ready_lists, tick_count, current, running_prio, pend, ticking>>
    BY DEF Block, BlockCurrent
  <1>2. wait_lists' = [m \in Lists |-> IF m \in {l} THEN Append(wait_lists[m], current)
                                       ELSE wait_lists[m]]
    BY <1>1 DEF IInv, TypeOK
  <1>3. {l} \in SUBSET Lists /\ {l} # {} /\ \A m, o \in {l} : m = o
    OBVIOUS
  <1>4. CASE n = NoTimeout
    <2>1. Plus(tick_count, 0) \in Tick
      BY PlusType, KernelAssumption DEF IInv, TypeOK, Modulus
    <2> QED BY <1>1, <1>2, <1>3, <1>4, <2>1, WaitStep
  <1>5. CASE n # NoTimeout
    <2>1. Plus(tick_count, n) \in Tick
      BY <1>5, PlusType DEF Timeouts, IInv, TypeOK
    <2> QED BY <1>1, <1>2, <1>3, <1>5, <2>1, WaitStep
  <1> QED BY <1>4, <1>5

\* sleep_for blocks the current task in the delay list alone.
LEMMA SleepStep ==
    ASSUME IInv, NEW n \in 0 .. MaxTimeout, Sleep(n)
    PROVE  IInv'
  <1>1. wait_lists' = [m \in Lists |-> IF m \in {} THEN Append(wait_lists[m], current)
                                       ELSE wait_lists[m]]
    BY DEF Sleep, IInv, TypeOK
  <1>2. Plus(tick_count, n) \in Tick
    BY PlusType DEF IInv, TypeOK
  <1>3. {} \in SUBSET Lists /\ \A l, m \in {} : l = m
    OBVIOUS
  <1>4. /\ Executing
        /\ state' = [state EXCEPT ![current] = "Blocked"]
        /\ timed_out' = [timed_out EXCEPT ![current] = FALSE]
        /\ DelayInsert(current, Plus(tick_count, n))
        /\ stack' = Suspended
        /\ UNCHANGED <<priority, ready_lists, tick_count, current, running_prio, pend, ticking>>
    BY DEF Sleep
  <1> QED BY <1>1, <1>2, <1>3, <1>4, WaitStep

\* yield puts the current task back into its ready list.
LEMMA YieldStep ==
    ASSUME IInv, Yield
    PROVE  IInv'
  <1>1. current \in Tasks /\ state[current] = "Running" /\ TopIs("exec") /\ ~ticking
    BY Executes DEF Yield, Executing, Proceeds
  <1>2. /\ state' = [state EXCEPT ![current] = "Ready"]
        /\ ready_lists' = [ready_lists EXCEPT ![priority[current]] = Append(@, current)]
        /\ pend' \in BOOLEAN
        /\ stack' = Suspended
        /\ UNCHANGED <<priority, delay_list, wait_lists, deadline, timed_out, tick_count,
                       current, running_prio, ticking>>
    BY <1>1 DEF Yield, MakeReady, nodes
  <1>3. priority[current] \in Priority
    BY <1>1 DEF IInv, TypeOK
  <1>4. ReadyAgree' /\ ready_lists' \in [Priority -> Seq(Tasks)]
    BY <1>1, <1>2, <1>3, ReadyPush DEF IInv, TypeOK
  <1>5. /\ state' \in [Tasks -> {"Created", "Ready", "Running", "Blocked"}]
        /\ state'[current] = "Ready"
        /\ \A u \in Tasks : u # current => state'[u] = state[u]
    BY <1>1, <1>2 DEF IInv, TypeOK
  <1>6. BlockedAgree'
    <2>1. \A u \in Tasks : (state'[u] = "Blocked") <=> (state[u] = "Blocked")
      BY <1>1, <1>5
    <2> QED BY <1>2, <2>1, BlockedFrame DEF IInv
  <1>7. CpuAgree' /\ stack' \in Seq(Activation)
    BY <1>1, <1>2, <1>5, CpuSuspend DEF IInv
  <1> QED BY <1>1, <1>2, <1>4, <1>5, <1>6, <1>7 DEF IInv, TypeOK, TickLoop

\* The task that ends is in no list and on no activation any more.
LEMMA FinishStep ==
    ASSUME IInv, Finish
    PROVE  IInv'
  <1>1. current \in Tasks /\ state[current] = "Running" /\ TopIs("exec") /\ ~ticking
    BY Executes DEF Finish, Executing, Proceeds
  <1>2. /\ state' = [state EXCEPT ![current] = "Created"]
        /\ priority' = [priority EXCEPT ![current] = NUM_PRIORITIES - 1]
        /\ stack' = Suspended
        /\ UNCHANGED <<ready_lists, delay_list, wait_lists, deadline, timed_out, tick_count,
                       current, running_prio, pend, ticking>>
    BY DEF Finish, lists, nodes
  <1>3. /\ state' \in [Tasks -> {"Created", "Ready", "Running", "Blocked"}]
        /\ state'[current] = "Created"
        /\ \A u \in Tasks : u # current => state'[u] = state[u] /\ priority'[u] = priority[u]
    BY <1>1, <1>2 DEF IInv, TypeOK
  <1>4. priority' \in [Tasks -> Priority]
    <2>1. NUM_PRIORITIES - 1 \in Priority
      BY KernelAssumption DEF Priority
    <2> QED BY <1>2, <2>1 DEF IInv, TypeOK
  <1>5. ReadyAgree'
    <2>1. \A u \in Tasks : /\ (state'[u] = "Ready") <=> (state[u] = "Ready")
                           /\ state[u] = "Ready" => priority'[u] = priority[u]
      BY <1>1, <1>3
    <2> QED BY <1>2, <2>1, ReadyFrame DEF IInv
  <1>6. BlockedAgree'
    <2>1. \A u \in Tasks : (state'[u] = "Blocked") <=> (state[u] = "Blocked")
      BY <1>1, <1>3
    <2> QED BY <1>2, <2>1, BlockedFrame DEF IInv
  <1>7. CpuAgree' /\ stack' \in Seq(Activation)
    BY <1>1, <1>2, <1>3, CpuSuspend DEF IInv
  <1> QED BY <1>1, <1>2, <1>3, <1>4, <1>5, <1>6, <1>7 DEF IInv, TypeOK, TickLoop

\* Nothing changes.
LEMMA StutterStep ==
    ASSUME IInv, UNCHANGED kernelVars
    PROVE  IInv'
  <1>1. UNCHANGED <<state, priority, ready_lists, delay_list, wait_lists, deadline, timed_out,
                    tick_count, cpu, current, running_prio, stack, pend, ticking>>
    BY DEF kernelVars, lists, nodes, cpu
  <1>2. CpuAgree'
    BY <1>1, CpuFrame DEF IInv, CpuAgree, CurrentExecutes
  <1>3. ReadyAgree' /\ BlockedAgree'
    BY <1>1, ReadyFrame, BlockedFrame DEF IInv
  <1> QED BY <1>1, <1>2, <1>3 DEF IInv, TypeOK, TickLoop

\* Before kernel::start everything is empty.
LEMMA InitIInv == Init => IInv
  <1> SUFFICES ASSUME Init PROVE IInv
    OBVIOUS
  <1>1. NUM_PRIORITIES - 1 \in Priority /\ 0 \in Tick
    BY KernelAssumption DEF Priority, Tick, Modulus
  <1>2. \A S : <<>> \in Seq(S) /\ Len(<<>>) = 0
    BY EmptySeq
  <1>3. TypeOK
    BY <1>1, <1>2 DEF Init, TypeOK
  <1>4. ReadyAgree /\ BlockedAgree
    BY <1>2 DEF Init, ReadyAgree, BlockedAgree, Contains, NoRepeat
  <1>5. CpuAgree
    BY <1>2 DEF Init, CpuAgree, RunningOnStack, CurrentExecutes, SavedAgree, AboveEntry, TopIs
  <1> QED BY <1>3, <1>4, <1>5 DEF Init, IInv, TickLoop

\* Every step of the scheduler keeps the invariant.
LEMMA NextIInv == IInv /\ [Next]_kernelVars => IInv'
  <1> SUFFICES ASSUME IInv, [Next]_kernelVars PROVE IInv'
    OBVIOUS
  <1>1. ASSUME NEW t \in Tasks, NEW p \in 0 .. NUM_PRIORITIES, Start(t, p) PROVE IInv'
    BY <1>1, StartStep
  <1>2. CASE RunOne
    BY <1>2, RunOneStep
  <1>3. CASE PendSV
    BY <1>3, PendSVStep
  <1>4. CASE Scan
    BY <1>4, ScanStep
  <1>5. CASE ScanEmpty
    BY <1>5, ScanEmptyStep
  <1>6. CASE Return
    BY <1>6, ReturnStep
  <1>7. ASSUME NEW n \in 0 .. MaxTimeout, Sleep(n) PROVE IInv'
    BY <1>7, SleepStep
  <1>8. CASE Yield
    BY <1>8, YieldStep
  <1>9. CASE Finish
    BY <1>9, FinishStep
  <1>10. CASE TickIsr
    BY <1>10, TickIsrStep
  <1>11. CASE TickWake
    BY <1>11, TickWakeStep
  <1>12. ASSUME NEW l \in Lists, NEW n \in Timeouts, Block(l, n) PROVE IInv'
    BY <1>12, BlockStep
  <1>13. ASSUME NEW l \in Lists, NEW t \in Tasks, WakeWaiter(l, t) PROVE IInv'
    BY <1>13, WakeWaiterStep
  <1>14. CASE UNCHANGED kernelVars
    BY <1>14, StutterStep
  <1> QED BY <1>1, <1>2, <1>3, <1>4, <1>5, <1>6, <1>7, <1>8, <1>9, <1>10, <1>11, <1>12,
             <1>13, <1>14 DEF Next, Dispatch, Background

-----------------------------------------------------------------------------
(* Theorems *)

\* The invariant holds in every reachable state of the scheduler.
THEOREM Invariance == Spec => []IInv
  BY InitIInv, NextIInv, PTL DEF Spec

\* Every variable of the kernel keeps its type; in particular the lists hold
\* tasks and current is a task or null.
THEOREM TypeCorrect == Spec => []TypeOK
  <1>1. IInv => TypeOK
    BY DEF IInv
  <1> QED BY <1>1, Invariance, PTL

\* A task is in the ready list of its priority exactly when it is Ready: no
\* wakeup is lost and none is doubled.
THEOREM ReadyListsAgree == Spec => []ReadyAgree
  <1>1. IInv => ReadyAgree
    BY DEF IInv
  <1> QED BY <1>1, Invariance, PTL

\* A WaitNode is linked exactly while its task is Blocked: no node outlives
\* the awaiter it lives in, whichever of the event and the timeout comes first.
THEOREM WaitListsAgree == Spec => []BlockedAgree
  <1>1. IInv => BlockedAgree
    BY DEF IInv
  <1> QED BY <1>1, Invariance, PTL

\* However run_one() and preempt_handler() nest, a Running task has one
\* activation, and an activation that executes has a Running task.
THEOREM NestingIsSound == Spec => []RunningOnStack
  <1>1. IInv => RunningOnStack
    BY DEF IInv, CpuAgree
  <1> QED BY <1>1, Invariance, PTL

\* The task body that has the processor is "current", at its own priority.
THEOREM CurrentIsExecuting == Spec => []CurrentExecutes
  <1>1. IInv => CurrentExecutes
    BY DEF IInv, CpuAgree
  <1> QED BY <1>1, Invariance, PTL
-----------------------------------------------------------------------------
(* What the steps of the scheduler mean to a primitive *)

\* The awaiter of a task that is Ready or Blocked changes in no step without
\* the primitives, except that a Blocked task may time out; the task is in its
\* wait list as long as it is Blocked.
LEMMA BackgroundKeepsWaits ==
    ASSUME IInv, Background, NEW u \in Tasks
    PROVE  /\ state[u] = "Ready" => state'[u] = "Ready" /\ timed_out'[u] = timed_out[u]
           /\ state[u] = "Blocked" =>
                 \/ state'[u] = "Blocked" /\ timed_out'[u] = timed_out[u]
                 \/ state'[u] = "Ready" /\ timed_out'[u]
           /\ \A l \in Lists :
                 Contains(wait_lists'[l], u) <=>
                    (Contains(wait_lists[l], u) /\ state'[u] = "Blocked")
  <1>0. \A l \in Lists : Contains(wait_lists[l], u) => state[u] = "Blocked"
    BY Waiting DEF IInv
  <1>1. ASSUME NEW t \in Tasks, NEW p \in 0 .. NUM_PRIORITIES, Start(t, p)
        PROVE  /\ \/ state'[u] = state[u]
                  \/ state[u] = "Created" /\ state'[u] # "Blocked"
               /\ UNCHANGED <<timed_out, wait_lists>>
    BY <1>1 DEF Start, MakeReady, nodes, IInv, TypeOK
  <1>2. ASSUME PendSV \/ ScanEmpty \/ Return \/ TickIsr
        PROVE  UNCHANGED <<state, timed_out, wait_lists>>
    BY <1>2 DEF PendSV, ScanEmpty, Return, TickIsr, nodes, lists
  <1>3. ASSUME (\E n \in 0 .. MaxTimeout : Sleep(n)) \/ Yield \/ Finish
        PROVE  /\ state[u] # "Running" => state'[u] = state[u] /\ timed_out'[u] = timed_out[u]
               /\ UNCHANGED wait_lists
    <2>1. current \in Tasks /\ state[current] = "Running"
      BY <1>3, Executes DEF Sleep, Yield, Finish
    <2>2. CASE \E n \in 0 .. MaxTimeout : Sleep(n)
      BY <2>1, <2>2 DEF Sleep, IInv, TypeOK
    <2>3. CASE Yield
      BY <2>1, <2>3 DEF Yield, MakeReady, nodes, IInv, TypeOK
    <2>4. CASE Finish
      BY <2>1, <2>4 DEF Finish, nodes, lists, IInv, TypeOK
    <2> QED BY <1>3, <2>2, <2>3, <2>4
  <1>4. ASSUME TickWake
        PROVE  /\ u # Head(delay_list) => state'[u] = state[u] /\ timed_out'[u] = timed_out[u]
               /\ u = Head(delay_list) => /\ state[u] = "Blocked" /\ state'[u] = "Ready"
                                          /\ timed_out'[u]
               /\ \A l \in Lists : Contains(wait_lists'[l], u) <=>
                     (Contains(wait_lists[l], u) /\ u # Head(delay_list))
    <2> DEFINE t == Head(delay_list)
    <2>1. t \in Tasks /\ state[t] = "Blocked"
      BY <1>4, Waiting DEF IInv, TickWake, TickLoop
    <2>2. /\ state' = [state EXCEPT ![t] = "Ready"]
          /\ timed_out' = [timed_out EXCEPT ![t] = TRUE]
          /\ wait_lists' = [l \in Lists |-> Unlink(wait_lists[l], t)]
      BY <1>4, <2>1 DEF TickWake, Wake, MakeReady
    <2>3. ASSUME NEW l \in Lists
          PROVE  Contains(wait_lists'[l], u) <=> (Contains(wait_lists[l], u) /\ u # t)
      <3>1. wait_lists[l] \in Seq(Tasks) /\ NoRepeat(wait_lists[l])
        BY DEF IInv, TypeOK, BlockedAgree
      <3>2. Contains(Unlink(wait_lists[l], t), u) <=> (Contains(wait_lists[l], u) /\ u # t)
        BY <3>1, UnlinkProperties
      <3> QED BY <2>2, <3>2
    <2> QED BY <2>1, <2>2, <2>3 DEF IInv, TypeOK
  <1>5. CASE \E t \in Tasks, p \in 0 .. NUM_PRIORITIES : Start(t, p)
    BY <1>0, <1>1, <1>5
  <1>6. CASE PendSV \/ ScanEmpty \/ Return \/ TickIsr
    BY <1>0, <1>2, <1>6
  <1>7. CASE (\E n \in 0 .. MaxTimeout : Sleep(n)) \/ Yield \/ Finish
    BY <1>0, <1>3, <1>7
  <1>8. CASE TickWake
    BY <1>0, <1>4, <1>8
  <1> QED BY <1>5, <1>6, <1>7, <1>8 DEF Background

\* No step without the primitives, other than a dispatch, lets a task go on.
LEMMA BackgroundStartsNobody ==
    ASSUME IInv, Background, NEW u \in Tasks, state'[u] = "Running"
    PROVE  state[u] = "Running"
  <1>1. ASSUME (\E n \in 0 .. MaxTimeout : Sleep(n)) \/ Yield \/ Finish
        PROVE  state[u] = "Running"
    <2>1. current \in Tasks /\ state[current] = "Running"
      BY <1>1, Executes DEF Sleep, Yield, Finish
    <2> QED BY <1>1, <2>1 DEF Sleep, Yield, Finish, MakeReady, IInv, TypeOK
  <1>2. CASE \E t \in Tasks, p \in 0 .. NUM_PRIORITIES : Start(t, p)
    BY <1>2 DEF Start, MakeReady, IInv, TypeOK
  <1>3. CASE PendSV \/ ScanEmpty \/ Return \/ TickIsr
    BY <1>3 DEF PendSV, ScanEmpty, Return, TickIsr
  <1>4. CASE TickWake
    <2>1. Head(delay_list) \in Tasks
      BY <1>4, Waiting DEF IInv, TickWake, TickLoop
    <2> QED BY <1>4, <2>1 DEF TickWake, Wake, MakeReady, IInv, TypeOK
  <1> QED BY <1>1, <1>2, <1>3, <1>4 DEF Background

\* A waiting task that is not in the delay list goes on waiting.
LEMMA BackgroundEndsNoUntimedWait ==
    ASSUME IInv, Background, NEW u \in Tasks, state[u] = "Blocked", ~Contains(delay_list, u)
    PROVE  state'[u] = "Blocked" /\ ~Contains(delay_list', u)
  <1>1. ASSUME NEW n \in 0 .. MaxTimeout, Sleep(n)
        PROVE  state'[u] = "Blocked" /\ ~Contains(delay_list', u)
    <2>1. current \in Tasks /\ current # u
      BY <1>1, Executes DEF Sleep
    <2>2. PICK k \in 1 .. Len(delay_list) + 1 : delay_list' = InsertAt(delay_list, k, current)
      BY <1>1 DEF Sleep, DelayInsert
    <2>3. ~Contains(delay_list', u)
      BY <2>1, <2>2, InsertBeforeProperties DEF IInv, TypeOK
    <2> QED BY <1>1, <2>1, <2>3 DEF Sleep, IInv, TypeOK
  <1>2. CASE TickWake
    <2> DEFINE t == Head(delay_list)
    <2>1. t \in Tasks /\ Contains(delay_list, t) /\ state[t] = "Blocked"
      BY <1>2, Waiting, PopFrontProperties DEF IInv, TypeOK, TickWake, TickLoop
    <2>2. state' = [state EXCEPT ![t] = "Ready"] /\ delay_list' = Unlink(delay_list, t)
      BY <1>2, <2>1 DEF TickWake, Wake, MakeReady
    <2>3. ~Contains(delay_list', u)
      BY <2>2, UnlinkProperties DEF IInv, TypeOK, BlockedAgree
    <2> QED BY <2>1, <2>2, <2>3 DEF IInv, TypeOK
  <1>3. CASE \E t \in Tasks, p \in 0 .. NUM_PRIORITIES : Start(t, p)
    BY <1>3 DEF Start, MakeReady, IInv, TypeOK
  <1>4. CASE PendSV \/ ScanEmpty \/ Return \/ TickIsr
    BY <1>4 DEF PendSV, ScanEmpty, Return, TickIsr, lists
  <1>5. CASE Yield \/ Finish
    <2>1. current \in Tasks /\ current # u
      BY <1>5, Executes DEF Yield, Finish
    <2> QED BY <1>5, <2>1 DEF Yield, Finish, MakeReady, lists, IInv, TypeOK
  <1> QED BY <1>1, <1>2, <1>3, <1>4, <1>5 DEF Background

\* A wait list that is empty stays so in every step without the primitives.
LEMMA EmptyStaysEmpty ==
    ASSUME TypeOK, Background, NEW l \in Lists, wait_lists[l] = <<>>
    PROVE  wait_lists'[l] = <<>>
  <1>1. CASE TickWake
    <2>1. wait_lists'[l] = Unlink(wait_lists[l], Head(delay_list))
      BY <1>1 DEF TickWake, Wake
    <2>2. ~Contains(<<>>, Head(delay_list))
      BY DEF Contains
    <2> QED BY <2>1, <2>2 DEF Unlink
  <1>2. CASE ~TickWake
    <2>1. UNCHANGED wait_lists
      BY <1>2 DEF Background, Start, PendSV, ScanEmpty, Return, Sleep, Yield, Finish,
                  TickIsr, lists
    <2> QED BY <2>1
  <1> QED BY <1>1, <1>2

\* The head of a wait list is a task that the scheduler may wake.
LEMMA HeadWaits ==
    ASSUME TypeOK, NEW l \in Lists, wait_lists[l] # <<>>
    PROVE  Head(wait_lists[l]) \in Tasks /\ Contains(wait_lists[l], Head(wait_lists[l]))
  BY PopFrontProperties DEF TypeOK

\* The task that is dispatched was Ready and is Running.
LEMMA DispatchRuns ==
    ASSUME IInv, Dispatch
    PROVE  /\ current' \in Tasks /\ state[current'] = "Ready"
           /\ state' = [state EXCEPT ![current'] = "Running"]
           /\ timed_out' = [timed_out EXCEPT ![current'] = FALSE]
           /\ UNCHANGED <<wait_lists, delay_list>>
  <1>1. PICK p \in Priority : ready_lists[p] # <<>> /\ Resume(p) /\ ~ticking
    BY DEF Dispatch, RunOne, Scan, FirstReady, Proceeds
  <1>2. /\ Head(ready_lists[p]) \in Tasks /\ state[Head(ready_lists[p])] = "Ready"
        /\ current' = Head(ready_lists[p])
    BY <1>1, ResumeStep
  <1> QED BY <1>1, <1>2 DEF Resume

\* The task that a primitive wakes was Blocked and is Ready, and has left the
\* list.
LEMMA WakeLeavesList ==
    ASSUME IInv, NEW l \in Lists, NEW t \in Tasks, WakeWaiter(l, t)
    PROVE  /\ state[t] = "Blocked"
           /\ state' = [state EXCEPT ![t] = "Ready"]
           /\ timed_out' = [timed_out EXCEPT ![t] = FALSE]
           /\ \A u \in Tasks : Contains(wait_lists'[l], u) <=>
                 (Contains(wait_lists[l], u) /\ u # t)
           /\ \A u \in Tasks : Contains(delay_list', u) => Contains(delay_list, u)
  <1>1. state[t] = "Blocked"
    BY Waiting DEF IInv, WakeWaiter
  <1>2. /\ state' = [state EXCEPT ![t] = "Ready"]
        /\ timed_out' = [timed_out EXCEPT ![t] = FALSE]
        /\ wait_lists'[l] = Unlink(wait_lists[l], t)
        /\ delay_list' = Unlink(delay_list, t)
    BY <1>1 DEF WakeWaiter, Wake, MakeReady
  <1>3. wait_lists[l] \in Seq(Tasks) /\ NoRepeat(wait_lists[l])
    BY DEF IInv, TypeOK, BlockedAgree
  <1>4. \A u \in Tasks : Contains(Unlink(wait_lists[l], t), u) <=>
           (Contains(wait_lists[l], u) /\ u # t)
    BY <1>3, UnlinkProperties
  <1>5. delay_list \in Seq(Tasks) /\ NoRepeat(delay_list)
    BY DEF IInv, TypeOK, BlockedAgree
  <1>6. \A u \in Tasks : Contains(Unlink(delay_list, t), u) => Contains(delay_list, u)
    BY <1>5, UnlinkProperties
  <1> QED BY <1>1, <1>2, <1>4, <1>6

\* The task that a primitive blocks was Running, and is the last of the list.
LEMMA BlockJoinsList ==
    ASSUME IInv, NEW l \in Lists, NEW n, Executing, BlockCurrent(l, n)
    PROVE  /\ current \in Tasks /\ state[current] = "Running"
           /\ state' = [state EXCEPT ![current] = "Blocked"]
           /\ timed_out' = [timed_out EXCEPT ![current] = FALSE]
           /\ \A u \in Tasks : Contains(wait_lists'[l], u) <=>
                 (Contains(wait_lists[l], u) \/ u = current)
           /\ UNCHANGED current
           /\ n = NoTimeout => UNCHANGED delay_list
  <1>1. current \in Tasks /\ state[current] = "Running"
    BY Executes
  <1>2. /\ state' = [state EXCEPT ![current] = "Blocked"]
        /\ timed_out' = [timed_out EXCEPT ![current] = FALSE]
        /\ wait_lists' = [wait_lists EXCEPT ![l] = Append(@, current)]
        /\ UNCHANGED current
        /\ n = NoTimeout => UNCHANGED delay_list
    BY DEF BlockCurrent
  <1>3. wait_lists[l] \in Seq(Tasks) /\ wait_lists'[l] = Append(wait_lists[l], current)
    BY <1>2 DEF IInv, TypeOK
  <1>4. \A u \in Tasks : Contains(Append(wait_lists[l], current), u) <=>
           (Contains(wait_lists[l], u) \/ u = current)
    BY <1>1, <1>3, PushBackProperties
  <1> QED BY <1>1, <1>2, <1>3, <1>4

\* A wait is never shorter in ticks than the duration asked for, nor a whole
\* tick longer, as long as its ticks fit the 32 bits of a Tick; durations up to
\* zero do not wait.
THEOREM DurationsRoundUp ==
    ASSUME NEW d \in Int, NEW num \in Nat \ {0}, NEW den \in Nat \ {0},
           d * num <= (Modulus - 1) * den
    PROVE  /\ to_ticks(d, num, den) \in Tick
           /\ d <= 0 => to_ticks(d, num, den) = 0
           /\ d > 0 => /\ d * num <= to_ticks(d, num, den) * den
                       /\ (to_ticks(d, num, den) - 1) * den < d * num
  <1> DEFINE x == d * num
             q == x \div den
  <1>1. Modulus \in Nat /\ Modulus >= 4
    BY KernelAssumption DEF Modulus
  <1>2. CASE d <= 0
    BY <1>1, <1>2 DEF to_ticks, Tick
  <1>3. CASE d > 0
    <2>1. x \in Nat
      BY <1>3
    <2>2. q \in Nat /\ q * den <= x /\ x < (q + 1) * den
      BY <2>1
    <2>3. q <= Modulus - 1
      BY <1>1, <2>1, <2>2
    <2>4. q % Modulus = q
      BY <1>1, <2>2, <2>3
    <2>5. CASE q * den < x
      <3>1. q + 1 <= Modulus - 1
        BY <1>1, <2>1, <2>2, <2>5
      <3>2. (q + 1) % Modulus = q + 1
        BY <1>1, <2>2, <3>1
      <3>3. to_ticks(d, num, den) = q + 1
        BY <1>3, <2>4, <2>5, <3>2 DEF to_ticks
      <3> QED BY <1>1, <1>3, <2>2, <2>5, <3>1, <3>3 DEF Tick
    <2>6. CASE ~(q * den < x)
      <3>1. to_ticks(d, num, den) = q
        BY <1>3, <2>4, <2>6 DEF to_ticks
      <3>2. q * den = x
        BY <2>1, <2>2, <2>6
      <3> QED BY <1>1, <1>3, <2>2, <2>3, <3>1, <3>2 DEF Tick
    <2> QED BY <2>5, <2>6
  <1> QED BY <1>2, <1>3
=============================================================================
