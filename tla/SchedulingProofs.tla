--------------------------- MODULE SchedulingProofs -------------------------
(***************************************************************************)
(* Proofs of what in module Kernel needs more than the agreement of its    *)
(* lists and its stack: how deep the machine stack gets, who has the       *)
(* processor when interrupts do not come between two steps, whom the       *)
(* handler may put on top of whom, the order of the delay list across the  *)
(* wrap of the tick counter, and that timeouts implement module Timeouts.  *)
(* Each has an inductive invariant of its own, on top of IInv.             *)
(***************************************************************************)
EXTENDS KernelProofs, FiniteSetTheorems

-----------------------------------------------------------------------------
(* The shape of the stack *)

\* A task is in the middle of its body in every activation, except in the
\* innermost one and in the one that PendSV has interrupted; the handler is
\* there once at most, and run_one() is above something only if it may nest.
StackShape ==
    /\ stack # <<>> => running_prio \in Priority
    /\ \A i \in 1 .. Len(stack) :
          /\ i > 1 => stack[i].saved_prio \in Priority
          /\ stack[i].pc = "scan" => stack[i].fn = "preempt_handler"
          /\ i > 1 /\ ~NESTED => stack[i].fn = "preempt_handler"
    /\ \A i \in 1 .. Len(stack) - 1 :
          stack[i].pc # "exec" => stack[i + 1].fn = "preempt_handler"
    /\ \A i, j \in 1 .. Len(stack) :
          stack[i].fn = "preempt_handler" /\ stack[j].fn = "preempt_handler" => i = j

\* Only the place of the innermost activation changes.
LEMMA ShapeTop ==
    ASSUME StackShape, Len(stack) \in Nat \ {0}, Len(stack') = Len(stack),
           running_prio' \in Priority,
           \A i \in 1 .. Len(stack) : /\ i # Len(stack) => stack'[i] = stack[i]
                                      /\ stack'[i].fn = stack[i].fn
                                      /\ stack'[i].saved_prio = stack[i].saved_prio,
           stack'[Len(stack)].pc = "scan" => Top.fn = "preempt_handler"
    PROVE  StackShape'
  <1>1. ASSUME NEW i \in 1 .. Len(stack)
        PROVE  /\ i > 1 => stack'[i].saved_prio \in Priority
               /\ stack'[i].pc = "scan" => stack'[i].fn = "preempt_handler"
               /\ i > 1 /\ ~NESTED => stack'[i].fn = "preempt_handler"
    BY <1>1 DEF StackShape, Top
  <1>2. ASSUME NEW i \in 1 .. Len(stack) - 1, stack'[i].pc # "exec"
        PROVE  stack'[i + 1].fn = "preempt_handler"
    <2>1. i \in 1 .. Len(stack) /\ i + 1 \in 1 .. Len(stack) /\ i # Len(stack)
      OBVIOUS
    <2> QED BY <1>2, <2>1 DEF StackShape
  <1>3. ASSUME NEW i \in 1 .. Len(stack), NEW j \in 1 .. Len(stack),
               stack'[i].fn = "preempt_handler", stack'[j].fn = "preempt_handler"
        PROVE  i = j
    BY <1>3 DEF StackShape
  <1> QED BY <1>1, <1>2, <1>3 DEF StackShape

\* An activation is put on top.
LEMMA ShapePush ==
    ASSUME TypeOK, StackShape, NEW a \in Activation, stack' = Append(stack, a),
           a.saved_prio = running_prio, running_prio' \in Priority,
           a.pc = "scan" => a.fn = "preempt_handler",
           stack # <<>> => TopIs("exec") \/ a.fn = "preempt_handler",
           stack # <<>> /\ ~NESTED => a.fn = "preempt_handler",
           a.fn = "preempt_handler" => ~HandlerActive
    PROVE  StackShape'
  <1> DEFINE n == Len(stack)
  <1>1. /\ n \in Nat /\ Len(stack') = n + 1 /\ stack'[n + 1] = a
        /\ \A i \in 1 .. n : stack'[i] = stack[i]
        /\ n # 0 => stack # <<>>
    BY AppendProperties, LenProperties, EmptySeq DEF TypeOK
  <1>2. ASSUME NEW i \in 1 .. n + 1
        PROVE  /\ i > 1 => stack'[i].saved_prio \in Priority
               /\ stack'[i].pc = "scan" => stack'[i].fn = "preempt_handler"
               /\ i > 1 /\ ~NESTED => stack'[i].fn = "preempt_handler"
    <2>1. CASE i = n + 1
      <3>1. i > 1 => stack # <<>>
        BY <1>1, <2>1
      <3> QED BY <1>1, <2>1, <3>1 DEF StackShape
    <2>2. CASE i \in 1 .. n
      BY <1>1, <2>2 DEF StackShape
    <2> QED BY <1>1, <2>1, <2>2
  <1>3. ASSUME NEW i \in 1 .. n, stack'[i].pc # "exec"
        PROVE  stack'[i + 1].fn = "preempt_handler"
    <2>1. CASE i = n
      BY <1>1, <1>3, <2>1 DEF TopIs, Top
    <2>2. CASE i # n
      <3>1. i \in 1 .. n - 1 /\ i + 1 \in 1 .. n
        BY <1>1, <2>2
      <3> QED BY <1>1, <1>3, <3>1 DEF StackShape
    <2> QED BY <2>1, <2>2
  <1>4. ASSUME NEW i \in 1 .. n + 1, NEW j \in 1 .. n + 1,
               stack'[i].fn = "preempt_handler", stack'[j].fn = "preempt_handler"
        PROVE  i = j
    <2>1. a.fn = "preempt_handler" => \A k \in 1 .. n : stack[k].fn # "preempt_handler"
      BY DEF HandlerActive
    <2>2. CASE i \in 1 .. n /\ j \in 1 .. n
      BY <1>1, <1>4, <2>2 DEF StackShape
    <2>3. CASE i = n + 1 \/ j = n + 1
      BY <1>1, <1>4, <2>1, <2>3
    <2> QED BY <1>1, <2>2, <2>3
  <1> HIDE DEF n
  <1>5. Len(stack') - 1 = n
    BY <1>1
  <1> QED BY <1>1, <1>2, <1>3, <1>4, <1>5 DEF StackShape

\* The innermost activation returns.
LEMMA ShapePop ==
    ASSUME TypeOK, StackShape, stack # <<>>, running_prio' = Top.saved_prio,
           stack' = SubSeq(stack, 1, Len(stack) - 1)
    PROVE  StackShape'
  <1> DEFINE n == Len(stack)
  <1>1. /\ n \in Nat \ {0} /\ Len(stack') = n - 1
        /\ \A i \in 1 .. n - 1 : stack'[i] = stack[i]
    BY FrontProperties, NonEmpty DEF TypeOK
  <1>2. stack' # <<>> => n > 1
    BY <1>1, FrontProperties, EmptySeq DEF TypeOK
  <1>3. stack' # <<>> => running_prio' \in Priority
    BY <1>1, <1>2 DEF StackShape, Top
  <1>4. ASSUME NEW i \in 1 .. n - 1
        PROVE  /\ i > 1 => stack'[i].saved_prio \in Priority
               /\ stack'[i].pc = "scan" => stack'[i].fn = "preempt_handler"
               /\ i > 1 /\ ~NESTED => stack'[i].fn = "preempt_handler"
    BY <1>1 DEF StackShape
  <1>5. ASSUME NEW i \in 1 .. n - 1 - 1, stack'[i].pc # "exec"
        PROVE  stack'[i + 1].fn = "preempt_handler"
    <2>1. i \in 1 .. n - 1 /\ i + 1 \in 1 .. n - 1
      BY <1>1
    <2> QED BY <1>1, <1>5, <2>1 DEF StackShape
  <1>6. ASSUME NEW i \in 1 .. n - 1, NEW j \in 1 .. n - 1,
               stack'[i].fn = "preempt_handler", stack'[j].fn = "preempt_handler"
        PROVE  i = j
    BY <1>1, <1>6 DEF StackShape
  <1> HIDE DEF n
  <1> QED BY <1>1, <1>3, <1>4, <1>5, <1>6 DEF StackShape

\* What the steps that move the stack do to it.
LEMMA RunOnePushes ==
    ASSUME IInv, RunOne
    PROVE  \E p \in Priority, a \in Activation :
              /\ FirstReady(p, NUM_PRIORITIES) /\ running_prio' = p
              /\ ready_lists' = [ready_lists EXCEPT ![p] = Tail(@)]
              /\ a.fn = "run_one" /\ a.pc = "exec" /\ a.saved_prio = running_prio
              /\ stack' = Append(stack, a)
              /\ UNCHANGED <<pend, ticking>>
  <1>1. PICK p \in Priority :
           /\ FirstReady(p, NUM_PRIORITIES) /\ Resume(p)
           /\ stack' = Append(stack, [fn |-> "run_one", task |-> Head(ready_lists[p]),
                                      saved_current |-> current,
                                      saved_prio |-> running_prio, pc |-> "exec"])
    BY DEF RunOne
  <1> DEFINE t == Head(ready_lists[p])
             a == [fn |-> "run_one", task |-> t, saved_current |-> current,
                   saved_prio |-> running_prio, pc |-> "exec"]
  <1>2. t \in Tasks
    BY <1>1, ResumeStep DEF RunOne, Proceeds, FirstReady
  <1>3. /\ a \in Activation /\ a.fn = "run_one" /\ a.pc = "exec"
        /\ a.saved_prio = running_prio
    BY <1>2 DEF IInv, TypeOK, Activation
  <1>4. /\ running_prio' = p /\ UNCHANGED <<pend, ticking>>
        /\ ready_lists' = [ready_lists EXCEPT ![p] = Tail(@)]
    BY <1>1 DEF Resume
  <1> QED BY <1>1, <1>3, <1>4

\* PendSV finds a task that executes, and is not taken twice.
LEMMA PendSVPushes ==
    ASSUME IInv, PendSV
    PROVE  /\ stack # <<>> /\ ~HandlerActive /\ ~ticking /\ UNCHANGED <<ready_lists, running_prio, ticking>>
           /\ \E a \in Activation :
                 /\ a.fn = "preempt_handler" /\ a.pc = "scan" /\ a.saved_prio = running_prio
                 /\ stack' = Append(stack, a)
  <1> DEFINE a == [fn |-> "preempt_handler", task |-> NoTask, saved_current |-> current,
                   saved_prio |-> running_prio, pc |-> "scan"]
  <1>1. /\ stack' = Append(stack, a) /\ pend /\ ~ticking /\ ~HandlerActive
        /\ UNCHANGED <<ready_lists, running_prio, ticking>>
    BY DEF PendSV, lists
  <1>2. /\ a \in Activation /\ a.fn = "preempt_handler" /\ a.pc = "scan"
        /\ a.saved_prio = running_prio
    BY DEF IInv, TypeOK, Activation
  <1>3. stack # <<>>
    BY <1>1 DEF IInv, CpuAgree, CurrentExecutes
  <1> HIDE DEF a
  <1> QED BY <1>1, <1>2, <1>3

\* x is where the innermost activation goes; the rest stays as it is.
MovesTop(x) ==
    /\ Len(stack) \in Nat \ {0} /\ Len(stack') = Len(stack)
    /\ \A i \in 1 .. Len(stack) : /\ i # Len(stack) => stack'[i] = stack[i]
                                  /\ stack'[i].fn = stack[i].fn
                                  /\ stack'[i].saved_prio = stack[i].saved_prio
    /\ stack'[Len(stack)].pc = x

\* A coroutine that suspends goes back to run_one() or to the handler's loop.
LEMMA SuspendMoves ==
    ASSUME TypeOK, TopIs("exec"), stack' = Suspended
    PROVE  MovesTop(IF Top.fn = "run_one" THEN "exit" ELSE "scan")
  <1> DEFINE x == IF Top.fn = "run_one" THEN "exit" ELSE "scan"
  <1>1. stack # <<>> /\ x \in {"scan", "exec", "exit"} /\ stack' = [stack EXCEPT ![Len(stack)].pc = x]
    BY DEF Suspended, TopIs
  <1> HIDE DEF x
  <1>2. MovesTop(x)
    BY <1>1, TopPc DEF MovesTop
  <1> QED BY <1>2 DEF x

\* The handler's loop ends.
LEMMA ScanEmptyMoves ==
    ASSUME TypeOK, ScanEmpty
    PROVE  MovesTop("exit")
  <1>1. stack # <<>> /\ stack' = [stack EXCEPT ![Len(stack)].pc = "exit"]
    BY DEF ScanEmpty, TopIs
  <1> QED BY <1>1, TopPc DEF MovesTop

\* The handler's loop has found a task and resumes it.
LEMMA ScanMoves ==
    ASSUME TypeOK, Scan
    PROVE  /\ MovesTop("exec")
           /\ \E p \in Priority : running_prio' = p
  <1>1. PICK p \in Priority :
           /\ Resume(p)
           /\ stack' = [stack EXCEPT ![Len(stack)].pc = "exec",
                                     ![Len(stack)].task = Head(ready_lists[p])]
    BY DEF Scan
  <1>2. ready_lists[p] \in Seq(Tasks) /\ ready_lists[p] # <<>>
    <2>1. PICK q \in Priority : /\ ready_lists[q] # <<>> /\ Resume(q)
      BY DEF Scan, FirstReady
    <2>2. p = q
      BY <1>1, <2>1 DEF Resume
    <2> QED BY <2>1, <2>2 DEF TypeOK
  <1> DEFINE n == Len(stack)
             t == Head(ready_lists[p])
             e == [stack[n] EXCEPT !.pc = "exec", !.task = t]
  <1>3. stack \in Seq(Activation) /\ n \in Nat \ {0} /\ t \in Tasks
    BY <1>2, EmptySeq, PopFrontProperties DEF TypeOK, Scan, TopIs
  <1>4. stack[n] \in Activation
    BY <1>3, ElementOfSeq
  <1>5. /\ e \in Activation /\ e.fn = stack[n].fn /\ e.saved_prio = stack[n].saved_prio
        /\ e.pc = "exec"
    BY <1>3, <1>4 DEF Activation
  <1>6. stack' = [stack EXCEPT ![n] = e]
    BY <1>1
  <1> HIDE DEF e
  <1>7. /\ Len(stack') = n
        /\ \A i \in 1 .. n : stack'[i] = IF i = n THEN e ELSE stack[i]
    BY <1>3, <1>5, <1>6, ExceptSeq
  <1>8. running_prio' = p
    BY <1>1 DEF Resume
  <1> QED BY <1>3, <1>5, <1>7, <1>8 DEF MovesTop

\* The stack stands as it is in every step that is not one of its own.
LEMMA StackStands ==
    ASSUME [Next]_kernelVars,
           ~(RunOne \/ Scan \/ PendSV \/ ScanEmpty \/ Return),
           ~(\E n \in 0 .. MaxTimeout : Sleep(n)), ~Yield, ~Finish,
           ~(\E l \in Lists, n \in Timeouts : Block(l, n))
    PROVE  /\ UNCHANGED <<stack, running_prio>>
           /\ \/ UNCHANGED kernelVars \/ TickIsr \/ TickWake
              \/ \E t \in Tasks, p \in 0 .. NUM_PRIORITIES : Start(t, p)
              \/ \E l \in Lists, t \in Tasks : WakeWaiter(l, t)
  <1>1. \/ UNCHANGED kernelVars \/ TickIsr \/ TickWake
        \/ \E t \in Tasks, p \in 0 .. NUM_PRIORITIES : Start(t, p)
        \/ \E l \in Lists, t \in Tasks : WakeWaiter(l, t)
    BY DEF Next, Dispatch, Background
  <1>2. UNCHANGED <<stack, running_prio>>
    BY <1>1 DEF kernelVars, cpu, TickIsr, TickWake, Start, WakeWaiter
  <1> QED BY <1>1, <1>2

\* A task that suspends leaves everything on the stack but its own place.
LEMMA Suspends ==
    ASSUME IInv, \/ \E n \in 0 .. MaxTimeout : Sleep(n)
                 \/ Yield \/ Finish
                 \/ \E l \in Lists, n \in Timeouts : Block(l, n)
    PROVE  /\ Executing /\ stack' = Suspended /\ UNCHANGED <<running_prio, ticking>>
           /\ MovesTop(IF Top.fn = "run_one" THEN "exit" ELSE "scan")
  <1>1. Executing /\ stack' = Suspended /\ UNCHANGED <<running_prio, ticking>>
    BY DEF Sleep, Yield, Finish, Block, BlockCurrent
  <1> QED BY <1>1, SuspendMoves DEF Executing, IInv

\* Before start() the stack is empty.
LEMMA InitShape == Init => StackShape
  <1> SUFFICES ASSUME Init PROVE StackShape
    OBVIOUS
  <1>1. stack = <<>> /\ Len(stack) = 0
    BY EmptySeq DEF Init
  <1> QED BY <1>1 DEF StackShape

\* Every step of the scheduler keeps the shape of the stack.
LEMMA NextShape == IInv /\ StackShape /\ [Next]_kernelVars => StackShape'
  <1> SUFFICES ASSUME IInv, StackShape, [Next]_kernelVars PROVE StackShape'
    OBVIOUS
  <1>0. TypeOK /\ \A i \in 1 .. Len(stack) : stack[i] \in Activation
    BY ElementOfSeq DEF IInv, TypeOK
  <1>1. CASE RunOne
    <2>1. PICK p \in Priority, a \in Activation :
              /\ FirstReady(p, NUM_PRIORITIES) /\ running_prio' = p
              /\ a.fn = "run_one" /\ a.pc = "exec" /\ a.saved_prio = running_prio
              /\ stack' = Append(stack, a)
      BY <1>1, RunOnePushes
    <2>2. stack # <<>> => TopIs("exec") /\ NESTED
      BY <1>1 DEF RunOne
    <2> QED BY <1>0, <2>1, <2>2, ShapePush
  <1>2. CASE PendSV
    <2>1. /\ stack # <<>> /\ ~HandlerActive /\ running_prio' = running_prio
          /\ \E a \in Activation :
                /\ a.fn = "preempt_handler" /\ a.pc = "scan" /\ a.saved_prio = running_prio
                /\ stack' = Append(stack, a)
      BY <1>2, PendSVPushes
    <2>2. running_prio' \in Priority
      BY <2>1 DEF StackShape
    <2> QED BY <1>0, <2>1, <2>2, ShapePush
  <1>3. CASE Scan
    <2>1. MovesTop("exec") /\ running_prio' \in Priority
      BY <1>0, <1>3, ScanMoves
    <2> QED BY <2>1, ShapeTop DEF MovesTop
  <1>4. CASE ScanEmpty
    <2>1. MovesTop("exit") /\ running_prio' = running_prio /\ stack # <<>>
      BY <1>0, <1>4, ScanEmptyMoves DEF ScanEmpty, TopIs
    <2> QED BY <2>1, ShapeTop DEF MovesTop, StackShape
  <1>5. CASE Return
    <2>1. /\ stack # <<>> /\ running_prio' = Top.saved_prio
          /\ stack' = SubSeq(stack, 1, Len(stack) - 1)
      BY <1>5 DEF Return, TopIs
    <2> QED BY <1>0, <2>1, ShapePop
  <1>6. CASE \/ \E n \in 0 .. MaxTimeout : Sleep(n)
             \/ Yield \/ Finish
             \/ \E l \in Lists, n \in Timeouts : Block(l, n)
    <2>1. /\ Executing /\ running_prio' = running_prio
          /\ MovesTop(IF Top.fn = "run_one" THEN "exit" ELSE "scan")
      BY <1>6, Suspends
    <2>2. stack # <<>> /\ running_prio' \in Priority
      BY <2>1 DEF Executing, TopIs, StackShape
    <2>3. Top.fn \in {"run_one", "preempt_handler"}
      BY <1>0, <2>1 DEF MovesTop, Top, Activation
    <2>4. stack'[Len(stack)].pc = "scan" => Top.fn = "preempt_handler"
      BY <2>1, <2>3 DEF MovesTop
    <2> QED BY <2>1, <2>2, <2>4, ShapeTop DEF MovesTop
  <1>7. CASE UNCHANGED <<stack, running_prio>>
    BY <1>7 DEF StackShape
  <1> QED BY <1>1, <1>2, <1>3, <1>4, <1>5, <1>6, <1>7, StackStands

\* The stack has that shape in every reachable state.
THEOREM ShapeInvariance == Spec => []StackShape
  <1>1. IInv /\ StackShape /\ [Next]_kernelVars => StackShape'
    BY NextShape
  <1> QED BY InitShape, Invariance, <1>1, PTL DEF Spec

\* Activations in the middle of a body hold distinct tasks; besides them there
\* are the one that PendSV has interrupted on its way out and the innermost.
LEMMA ShapeBounds ==
    ASSUME IInv, StackShape, IsFiniteSet(Tasks)
    PROVE  StackBound
  <1> DEFINE n == Len(stack)
             E == {i \in 1 .. n : stack[i].pc = "exec"}
             f == [i \in E |-> stack[i].task]
  <1>1. n \in Nat /\ \A i \in 1 .. n : stack[i] \in Activation
    BY LenProperties, ElementOfSeq DEF IInv, TypeOK
  <1>2. f \in Injection(E, Tasks)
    <2>1. \A i \in E : stack[i].task \in Tasks
      BY <1>1 DEF IInv, CpuAgree, SavedAgree, Activation
    <2>2. \A i, j \in E : stack[i].task = stack[j].task => i = j
      BY DEF IInv, CpuAgree, RunningOnStack
    <2> QED BY <2>1, <2>2 DEF Injection, IsInjective
  <1>3. IsFiniteSet(E) /\ Cardinality(E) <= Cardinality(Tasks)
    BY <1>2, FS_Injection
  <1>4. Cardinality(E) \in Nat /\ Cardinality(Tasks) \in Nat
    BY <1>3, FS_CardinalityType
  <1>5. n <= Cardinality(Tasks) + 2
    <2>1. PICK h \in Nat : \A i \in 1 .. n - 1 : stack[i].pc # "exec" => i = h
      <3>1. \A i, j \in 1 .. n - 1 : stack[i].pc # "exec" /\ stack[j].pc # "exec" => i = j
        BY <1>1 DEF StackShape
      <3>2. CASE \E j \in 1 .. n - 1 : stack[j].pc # "exec"
        <4>1. PICK j \in 1 .. n - 1 : stack[j].pc # "exec"
          BY <3>2
        <4>2. j \in Nat
          BY <1>1
        <4> QED BY <3>1, <4>1, <4>2
      <3>3. CASE \A j \in 1 .. n - 1 : stack[j].pc = "exec"
        BY <3>3
      <3> QED BY <3>2, <3>3
    <2>2. 1 .. n \subseteq (E \cup {h}) \cup {n}
      BY <1>1, <2>1
    <2> HIDE DEF E, n
    <2> DEFINE A == E \cup {h}
               B == A \cup {n}
    <2>3. /\ Cardinality(A) \in Nat /\ Cardinality(B) \in Nat /\ IsFiniteSet(B)
          /\ Cardinality(A) <= Cardinality(E) + 1 /\ Cardinality(B) <= Cardinality(A) + 1
      <3>1. /\ IsFiniteSet(A)
            /\ Cardinality(A) = IF h \in E THEN Cardinality(E) ELSE Cardinality(E) + 1
        BY <1>3, FS_AddElement
      <3> HIDE DEF A
      <3>2. /\ IsFiniteSet(B)
            /\ Cardinality(B) = IF n \in A THEN Cardinality(A) ELSE Cardinality(A) + 1
        BY <3>1, FS_AddElement
      <3>3. Cardinality(A) \in Nat
        BY <3>1, FS_CardinalityType
      <3> HIDE DEF B
      <3> QED BY <1>4, <3>1, <3>2, <3>3
    <2>4. Cardinality(1 .. n) = n /\ IsFiniteSet(1 .. n)
      BY <1>1, FS_Interval
    <2>5. Cardinality(1 .. n) <= Cardinality(B)
      BY <2>2, <2>3, FS_Subset
    <2> HIDE DEF A, B
    <2> QED BY <1>1, <1>3, <1>4, <2>3, <2>4, <2>5
  <1>6. ~NESTED => n <= 2
    <2>1. ASSUME ~NESTED, n > 2 PROVE FALSE
      <3>1. 2 \in 1 .. n /\ 3 \in 1 .. n
        BY <1>1, <2>1
      <3> QED BY <2>1, <3>1 DEF StackShape
    <2> QED BY <1>1, <2>1
  <1> QED BY <1>5, <1>6 DEF StackBound

\* However often wakeups preempt and bodies call run_one(), the machine stack
\* holds at most two activations more than there are tasks, and two altogether
\* when bodies do not call run_one().
THEOREM StackIsBounded ==
    ASSUME IsFiniteSet(Tasks)
    PROVE  Spec => []StackBound
  <1>1. IInv /\ StackShape => StackBound
    BY ShapeBounds
  <1> QED BY <1>1, Invariance, ShapeInvariance, PTL

-----------------------------------------------------------------------------
(* No priority inversion where interrupts do not come between two steps *)

\* No task above priority r is ready
QuietAbove(r) == \A p \in Priority : p < r => ready_lists[p] = <<>>

\* No wakeup is forgotten while the handler is not there to see it: either
\* PendSV is requested, or nobody is ready above the task that runs.
PendsOrQuiet ==
    stack # <<>> /\ ~HandlerActive => pend \/ QuietAbove(running_prio)

\* Without the handler, nested run_one() calls run ever lower priorities.
Descends ==
    \A i \in 2 .. Len(stack) : (\A j \in 1 .. i : stack[j].fn = "run_one") =>
        stack[i].saved_prio <= IF i = Len(stack) THEN running_prio
                               ELSE stack[i + 1].saved_prio

\* When the handler has found nobody, nobody becomes ready until it is gone.
Calm ==
    /\ ticking => stack = <<>> \/ TopIs("exec")
    /\ TopIs("exit") /\ Top.fn = "preempt_handler" => QuietAbove(Top.saved_prio)
    /\ PendsOrQuiet
    /\ Descends

\* A wakeup above the running task requests PendSV.
LEMMA ReadyOrPend ==
    ASSUME TypeOK, StackShape, PREEMPTIVE, PendsOrQuiet,
           NEW t, NEW p \in Priority, MakeReady(t, p), UNCHANGED running_prio,
           stack' # <<>> => stack # <<>>, HandlerActive' = HandlerActive
    PROVE  PendsOrQuiet'
  <1> SUFFICES ASSUME stack' # <<>>, ~HandlerActive', ~pend'
               PROVE  QuietAbove(running_prio)'
    BY DEF PendsOrQuiet
  <1>1. running_prio \in Priority /\ running_prio # NoRunningTask
    BY KernelAssumption DEF StackShape, Priority, NoRunningTask
  <1>2. ~pend /\ QuietAbove(running_prio)
    BY DEF MakeReady, PendsOrQuiet
  <1>3. CASE state[t] = "Ready"
    BY <1>2, <1>3 DEF MakeReady, QuietAbove
  <1>4. CASE state[t] # "Ready"
    <2>1. /\ ready_lists' = [ready_lists EXCEPT ![p] = Append(@, t)]
          /\ ~(p < running_prio)
      BY <1>1, <1>4 DEF MakeReady
    <2> QED BY <1>2, <2>1 DEF QuietAbove, TypeOK
  <1> QED BY <1>3, <1>4

\* Where the innermost activation goes does not matter to what is below.
LEMMA DescendsTop ==
    ASSUME Descends, Len(stack) \in Nat, Len(stack') = Len(stack), UNCHANGED running_prio,
           \A i \in 1 .. Len(stack) : /\ stack'[i].fn = stack[i].fn
                                      /\ stack'[i].saved_prio = stack[i].saved_prio
    PROVE  Descends' /\ HandlerActive' = HandlerActive
  <1>1. ASSUME NEW i \in 2 .. Len(stack), \A j \in 1 .. i : stack'[j].fn = "run_one"
        PROVE  stack'[i].saved_prio <= IF i = Len(stack) THEN running_prio
                                       ELSE stack'[i + 1].saved_prio
    <2>1. i \in 1 .. Len(stack) /\ (i # Len(stack) => i + 1 \in 1 .. Len(stack))
      OBVIOUS
    <2>2. \A j \in 1 .. i : stack[j].fn = "run_one"
      BY <1>1
    <2> QED BY <2>1, <2>2 DEF Descends
  <1>2. Descends'
    BY <1>1 DEF Descends
  <1>3. HandlerActive' <=> HandlerActive
    BY DEF HandlerActive
  <1> QED BY <1>2, <1>3 DEF HandlerActive

\* A step that leaves the stack alone happens between two steps of a task.
LEMMA CalmStands ==
    ASSUME IInv, StackShape, Calm, PREEMPTIVE, ~ASYNC_ISR,
           UNCHANGED <<stack, running_prio>>,
           \/ UNCHANGED kernelVars \/ TickIsr \/ TickWake
           \/ \E t \in Tasks, p \in 0 .. NUM_PRIORITIES : Start(t, p)
           \/ \E l \in Lists, t \in Tasks : WakeWaiter(l, t)
    PROVE  Calm'
  <1>1. CASE UNCHANGED kernelVars
    BY <1>1 DEF kernelVars, lists, cpu, Calm, TopIs, Top, QuietAbove, PendsOrQuiet,
                HandlerActive, Descends
  <1>2. CASE ~UNCHANGED kernelVars
    <2>1. stack = <<>> \/ TopIs("exec")
      BY <1>2 DEF TickIsr, TickWake, Start, WakeWaiter, Interrupts, Calm
    <2>2. PendsOrQuiet'
      <3>1. CASE TickIsr
        BY <3>1 DEF TickIsr, lists, Calm, PendsOrQuiet, QuietAbove, HandlerActive
      <3>3. CASE TickWake
        <4>1. Head(delay_list) \in Tasks
          BY <3>3, Waiting DEF IInv, TickWake, TickLoop
        <4>2. /\ priority[Head(delay_list)] \in Priority
              /\ MakeReady(Head(delay_list), priority[Head(delay_list)])
          BY <3>3, <4>1 DEF TickWake, Wake, IInv, TypeOK
        <4> QED BY <4>2, ReadyOrPend DEF Calm, IInv, HandlerActive
      <3>4. ASSUME NEW u \in Tasks, NEW q \in 0 .. NUM_PRIORITIES, Start(u, q)
            PROVE  PendsOrQuiet'
        <4> DEFINE r == IF q < NUM_PRIORITIES THEN q ELSE NUM_PRIORITIES - 1
        <4>1. r \in Priority /\ MakeReady(u, r)
          BY <3>4, KernelAssumption DEF Start, Priority
        <4> HIDE DEF r
        <4> QED BY <4>1, ReadyOrPend DEF Calm, IInv, HandlerActive
      <3>5. ASSUME NEW l \in Lists, NEW u \in Tasks, WakeWaiter(l, u)
            PROVE  PendsOrQuiet'
        <4>1. priority[u] \in Priority /\ MakeReady(u, priority[u])
          BY <3>5 DEF WakeWaiter, Wake, IInv, TypeOK
        <4> QED BY <4>1, ReadyOrPend DEF Calm, IInv, HandlerActive
      <3> QED BY <1>2, <3>1, <3>3, <3>4, <3>5
    <2>3. (stack = <<>> \/ TopIs("exec"))' /\ ~TopIs("exit")'
      BY <2>1 DEF TopIs, Top
    <2>4. Descends'
      BY DEF Calm, Descends
    <2> QED BY <2>2, <2>3, <2>4 DEF Calm
  <1> QED BY <1>1, <1>2

\* A task that suspends leaves the handler to its next pass.
LEMMA CalmSuspends ==
    ASSUME IInv, StackShape, Calm, PREEMPTIVE,
           \/ \E n \in 0 .. MaxTimeout : Sleep(n)
           \/ Yield \/ Finish
           \/ \E l \in Lists, n \in Timeouts : Block(l, n)
    PROVE  Calm'
  <1>1. /\ Executing /\ UNCHANGED <<running_prio, ticking>>
        /\ MovesTop(IF Top.fn = "run_one" THEN "exit" ELSE "scan")
    BY Suspends
  <1>2. /\ stack # <<>> /\ ~ticking' /\ Descends' /\ HandlerActive' = HandlerActive
    BY <1>1, DescendsTop DEF MovesTop, Executing, Proceeds, TopIs, Calm
  <1>3. ~(TopIs("exit") /\ Top.fn = "preempt_handler")'
    BY <1>1 DEF MovesTop, TopIs, Top
  <1>4. PendsOrQuiet'
    <2>1. CASE Yield
      <3>1. current \in Tasks
        BY <2>1, Executes DEF Yield
      <3>2. priority[current] \in Priority /\ MakeReady(current, priority[current])
        BY <2>1, <3>1 DEF Yield, IInv, TypeOK
      <3> QED BY <1>1, <1>2, <3>2, ReadyOrPend DEF Calm, IInv
    <2>2. CASE ~Yield
      <3>1. UNCHANGED <<ready_lists, pend>>
        BY <2>2 DEF Sleep, Finish, Block, BlockCurrent, lists
      <3> QED BY <1>1, <1>2, <3>1 DEF Calm, PendsOrQuiet, QuietAbove
    <2> QED BY <2>1, <2>2
  <1> QED BY <1>2, <1>3, <1>4 DEF Calm

\* The last pass of the handler has found nobody above what it interrupted.
LEMMA CalmScanEmpty ==
    ASSUME IInv, StackShape, Calm, ScanEmpty
    PROVE  Calm'
  <1>1. /\ stack # <<>> /\ ~ticking' /\ Top.pc = "scan"
        /\ \A p \in Priority : p < ScanLimit => ready_lists[p] = <<>>
        /\ UNCHANGED <<ready_lists, running_prio>>
    BY DEF ScanEmpty, Proceeds, TopIs, lists
  <1>2. MovesTop("exit")
    BY ScanEmptyMoves DEF IInv
  <1>3. Descends' /\ HandlerActive' = HandlerActive
    BY <1>1, <1>2, DescendsTop DEF MovesTop, Calm
  <1>4. Top.fn = "preempt_handler" /\ Len(stack) \in 1 .. Len(stack)
    BY <1>1, <1>2 DEF MovesTop, Top, StackShape
  <1>5. ~PendsOrQuiet' => FALSE
    BY <1>3, <1>4 DEF PendsOrQuiet, HandlerActive, Top
  <1>6. QuietAbove(Top.saved_prio)'
    <2>1. Top' = stack'[Len(stack)] /\ Top'.saved_prio = Top.saved_prio
      BY <1>2 DEF MovesTop, Top
    <2>2. Top.saved_prio \in Priority \union {NoRunningTask}
      <3>1. Top \in Activation
        BY <1>4, ElementOfSeq DEF IInv, TypeOK, Top
      <3> QED BY <3>1 DEF Activation
    <2>3. \A p \in Priority : p < Top.saved_prio => p < ScanLimit
      BY <2>2, KernelAssumption DEF ScanLimit, Priority, NoRunningTask
    <2> QED BY <1>1, <2>1, <2>3 DEF QuietAbove
  <1> QED BY <1>1, <1>3, <1>5, <1>6 DEF Calm

\* While the handler runs tasks, nothing is claimed.
LEMMA CalmScan ==
    ASSUME IInv, StackShape, Calm, Scan
    PROVE  Calm'
  <1>1. Top.pc = "scan" /\ ~ticking /\ ticking' = ticking
    BY DEF Scan, Proceeds, TopIs, Resume
  <1>2. MovesTop("exec")
    BY ScanMoves DEF IInv
  <1>3. Len(stack) \in 1 .. Len(stack) /\ stack[Len(stack)].fn = "preempt_handler"
    BY <1>1, <1>2 DEF MovesTop, Top, StackShape
  <1>4. HandlerActive'
    BY <1>2, <1>3 DEF MovesTop, HandlerActive
  <1>5. ~TopIs("exit")'
    BY <1>2 DEF MovesTop, TopIs, Top
  <1>6. Descends'
    <2>1. ASSUME NEW i \in 2 .. Len(stack), \A j \in 1 .. i : stack'[j].fn = "run_one"
          PROVE  /\ i # Len(stack)
                 /\ stack'[i].saved_prio <= stack'[i + 1].saved_prio
      <3>1. i # Len(stack)
        BY <1>2, <1>3, <2>1 DEF MovesTop
      <3>2. i \in 1 .. Len(stack) /\ i + 1 \in 1 .. Len(stack)
        BY <3>1
      <3>3. \A j \in 1 .. i : stack[j].fn = "run_one"
        BY <1>2, <2>1 DEF MovesTop
      <3> QED BY <1>2, <3>1, <3>2, <3>3 DEF MovesTop, Calm, Descends
    <2> QED BY <1>2, <2>1 DEF MovesTop, Descends
  <1> QED BY <1>1, <1>4, <1>5, <1>6 DEF Calm, PendsOrQuiet

\* run_one() called by the task that has the processor takes nobody above it.
LEMMA CalmRunOne ==
    ASSUME IInv, StackShape, Calm, PREEMPTIVE, RunOne
    PROVE  Calm'
  <1>1. PICK p \in Priority, a \in Activation :
            /\ FirstReady(p, NUM_PRIORITIES) /\ running_prio' = p
            /\ ready_lists' = [ready_lists EXCEPT ![p] = Tail(@)]
            /\ a.fn = "run_one" /\ a.pc = "exec" /\ a.saved_prio = running_prio
            /\ stack' = Append(stack, a)
            /\ UNCHANGED <<pend, ticking>>
    BY RunOnePushes
  <1> DEFINE n == Len(stack)
  <1>2. /\ n \in Nat /\ Len(stack') = n + 1 /\ stack'[n + 1] = a
        /\ \A i \in 1 .. n : stack'[i] = stack[i]
        /\ n # 0 => stack # <<>>
    <2>1. stack \in Seq(Activation)
      BY DEF IInv, TypeOK
    <2> QED BY <1>1, <2>1, AppendProperties, LenProperties, EmptySeq
  <1>3. ~ticking' /\ (pend => HandlerActive)
    BY <1>1 DEF RunOne, Proceeds
  <1>4. TopIs("exec")' /\ ~TopIs("exit")'
    BY <1>1, <1>2 DEF TopIs, Top
  <1>5. HandlerActive' <=> HandlerActive
    BY <1>1, <1>2 DEF HandlerActive
  <1>6. PendsOrQuiet'
    BY <1>1 DEF PendsOrQuiet, QuietAbove, FirstReady, Priority
  <1>7. stack # <<>> /\ ~HandlerActive => running_prio <= p
    <2>1. ASSUME stack # <<>>, ~HandlerActive, p < running_prio PROVE FALSE
      BY <1>1, <1>3, <2>1 DEF Calm, PendsOrQuiet, QuietAbove, FirstReady
    <2>2. stack # <<>> => running_prio \in Nat /\ p \in Nat
      BY KernelAssumption DEF StackShape, Priority
    <2> QED BY <2>1, <2>2
  <1>8. Descends'
    <2>1. ASSUME NEW i \in 2 .. n + 1, \A j \in 1 .. i : stack'[j].fn = "run_one"
          PROVE  stack'[i].saved_prio <= IF i = n + 1 THEN p ELSE stack'[i + 1].saved_prio
      <3>1. CASE i = n + 1
        <4>1. stack # <<>>
          BY <1>2, <3>1
        <4>2. ~HandlerActive
          BY <1>2, <2>1, <3>1 DEF HandlerActive
        <4> QED BY <1>1, <1>2, <1>7, <3>1, <4>1, <4>2
      <3>2. CASE i # n + 1
        <4>1. i \in 2 .. n /\ \A j \in 1 .. i : stack[j].fn = "run_one"
          BY <1>2, <2>1, <3>2
        <4>2. stack[i].saved_prio <= IF i = n THEN running_prio ELSE stack[i + 1].saved_prio
          BY <4>1 DEF Calm, Descends
        <4>3. i \in 1 .. n /\ (i # n => i + 1 \in 1 .. n)
          BY <1>2, <4>1
        <4> QED BY <1>1, <1>2, <3>2, <4>2, <4>3
      <3> QED BY <3>1, <3>2
    <2> HIDE DEF n
    <2> QED BY <1>1, <1>2, <2>1 DEF Descends
  <1> QED BY <1>3, <1>4, <1>6, <1>8 DEF Calm

\* The handler saves the priority of the task that it interrupts.
LEMMA CalmPendSV ==
    ASSUME IInv, StackShape, Calm, PendSV
    PROVE  Calm'
  <1>1. ~ticking' /\ stack # <<>> /\ UNCHANGED <<ready_lists, running_prio>>
    BY PendSVPushes
  <1>2. PICK a \in Activation :
            /\ a.fn = "preempt_handler" /\ a.pc = "scan" /\ a.saved_prio = running_prio
            /\ stack' = Append(stack, a)
    BY PendSVPushes
  <1> DEFINE n == Len(stack)
  <1>3. /\ n \in Nat /\ Len(stack') = n + 1 /\ stack'[n + 1] = a
        /\ \A i \in 1 .. n : stack'[i] = stack[i]
    BY <1>2, AppendProperties, LenProperties DEF IInv, TypeOK
  <1>4. HandlerActive' /\ ~TopIs("exit")'
    BY <1>2, <1>3 DEF HandlerActive, TopIs, Top
  <1>5. Descends'
    <2>1. ASSUME NEW i \in 2 .. n + 1, \A j \in 1 .. i : stack'[j].fn = "run_one"
          PROVE  /\ i # n + 1
                 /\ stack'[i].saved_prio <= stack'[i + 1].saved_prio
      <3>1. i \in 2 .. n /\ \A j \in 1 .. i : stack[j].fn = "run_one"
        BY <1>2, <1>3, <2>1
      <3>2. stack[i].saved_prio <= IF i = n THEN running_prio ELSE stack[i + 1].saved_prio
        BY <3>1 DEF Calm, Descends
      <3>3. i \in 1 .. n /\ (i # n => i + 1 \in 1 .. n)
        BY <1>3, <3>1
      <3> QED BY <1>2, <1>3, <3>2, <3>3
    <2> HIDE DEF n
    <2> QED BY <1>3, <2>1 DEF Descends
  <1> QED BY <1>1, <1>4, <1>5 DEF Calm, PendsOrQuiet

\* An activation gives the processor back to the task below it; whoever is
\* ready above that task has been run, or has requested PendSV.
LEMMA CalmReturn ==
    ASSUME IInv, StackShape, Calm, Return
    PROVE  Calm'
  <1> DEFINE n == Len(stack)
  <1>1. /\ stack # <<>> /\ Top.pc = "exit" /\ ~ticking' /\ (pend => HandlerActive)
        /\ running_prio' = Top.saved_prio
        /\ stack' = SubSeq(stack, 1, n - 1)
        /\ UNCHANGED <<ready_lists, pend>>
    BY DEF Return, Proceeds, TopIs, lists
  <1>2. /\ n \in Nat \ {0} /\ Len(stack') = n - 1
        /\ \A i \in 1 .. n - 1 : stack'[i] = stack[i]
        /\ stack' # <<>> => n > 1
        /\ \A i \in 1 .. n : stack[i] \in Activation
    BY <1>1, FrontProperties, NonEmpty, ElementOfSeq DEF IInv, TypeOK
  <1>3. ~(TopIs("exit") /\ Top.fn = "preempt_handler")'
    <2>1. ASSUME stack' # <<>>, Top'.pc = "exit", Top'.fn = "preempt_handler" PROVE FALSE
      <3>1. n - 1 \in 1 .. n - 1 /\ n - 1 \in 1 .. n /\ Top' = stack[n - 1] /\ n - 1 + 1 = n
        BY <1>2, <2>1 DEF Top
      <3>2. stack[n].fn = "preempt_handler"
        BY <2>1, <3>1 DEF StackShape
      <3> QED BY <1>2, <2>1, <3>1, <3>2 DEF StackShape
    <2> QED BY <2>1 DEF TopIs
  <1>4. PendsOrQuiet'
    <2> SUFFICES ASSUME stack' # <<>>, ~HandlerActive'
                 PROVE  QuietAbove(Top.saved_prio)
      BY <1>1 DEF PendsOrQuiet, QuietAbove
    <2>1. \A i \in 1 .. n - 1 : stack[i].fn = "run_one"
      BY <1>2 DEF HandlerActive, Activation
    <2>2. CASE Top.fn = "preempt_handler"
      BY <1>1, <2>2 DEF Calm, TopIs
    <2>3. CASE Top.fn # "preempt_handler"
      <3>1. n \in 2 .. n /\ \A i \in 1 .. n : stack[i].fn = "run_one"
        BY <1>2, <2>1, <2>3 DEF Top, Activation
      <3>2. ~HandlerActive
        BY <3>1 DEF HandlerActive
      <3>3. QuietAbove(running_prio)
        BY <1>1, <3>2 DEF Calm, PendsOrQuiet
      <3>4. Top.saved_prio <= running_prio
        BY <3>1 DEF Calm, Descends, Top
      <3>5. Top.saved_prio \in Nat /\ running_prio \in Nat
        BY <1>1, <1>2, <3>1, KernelAssumption DEF StackShape, Priority, Top
      <3> QED BY <3>3, <3>4, <3>5 DEF QuietAbove, Priority
    <2> QED BY <2>2, <2>3
  <1>5. Descends'
    <2>1. ASSUME NEW i \in 2 .. n - 1, \A j \in 1 .. i : stack'[j].fn = "run_one"
          PROVE  stack'[i].saved_prio <= IF i = n - 1 THEN running_prio'
                                         ELSE stack'[i + 1].saved_prio
      <3>1. i \in 2 .. n /\ i # n /\ \A j \in 1 .. i : stack[j].fn = "run_one"
        BY <1>2, <2>1
      <3>2. stack[i].saved_prio <= stack[i + 1].saved_prio
        BY <3>1 DEF Calm, Descends
      <3>3. i \in 1 .. n - 1 /\ (i # n - 1 => i + 1 \in 1 .. n - 1)
        BY <1>2, <2>1
      <3> QED BY <1>1, <1>2, <3>2, <3>3 DEF Top
    <2> HIDE DEF n
    <2> QED BY <1>2, <2>1 DEF Descends
  <1> QED BY <1>1, <1>3, <1>4, <1>5 DEF Calm

\* Before start() nobody runs.
LEMMA InitCalm == Init => Calm
  <1> SUFFICES ASSUME Init PROVE Calm
    OBVIOUS
  <1>1. stack = <<>> /\ Len(stack) = 0 /\ ~ticking
    BY EmptySeq DEF Init
  <1> QED BY <1>1 DEF Calm, TopIs, PendsOrQuiet, Descends

\* Every step of the scheduler keeps wakeups from being forgotten, where
\* interrupts do not come between two steps.
LEMMA NextCalm ==
    ASSUME PREEMPTIVE, ~ASYNC_ISR
    PROVE  IInv /\ StackShape /\ Calm /\ [Next]_kernelVars => Calm'
  <1> SUFFICES ASSUME IInv, StackShape, Calm, [Next]_kernelVars PROVE Calm'
    OBVIOUS
  <1>1. CASE RunOne
    BY <1>1, CalmRunOne
  <1>2. CASE PendSV
    BY <1>2, CalmPendSV
  <1>3. CASE Scan
    BY <1>3, CalmScan
  <1>4. CASE ScanEmpty
    BY <1>4, CalmScanEmpty
  <1>5. CASE Return
    BY <1>5, CalmReturn
  <1>6. CASE \/ \E n \in 0 .. MaxTimeout : Sleep(n)
             \/ Yield \/ Finish
             \/ \E l \in Lists, n \in Timeouts : Block(l, n)
    BY <1>6, CalmSuspends
  <1>7. CASE ~(RunOne \/ Scan \/ PendSV \/ ScanEmpty \/ Return) /\
             ~(\/ \E n \in 0 .. MaxTimeout : Sleep(n)
               \/ Yield \/ Finish
               \/ \E l \in Lists, n \in Timeouts : Block(l, n))
    <2>1. /\ UNCHANGED <<stack, running_prio>>
          /\ \/ UNCHANGED kernelVars \/ TickIsr \/ TickWake
             \/ \E t \in Tasks, p \in 0 .. NUM_PRIORITIES : Start(t, p)
             \/ \E l \in Lists, t \in Tasks : WakeWaiter(l, t)
      BY <1>7, StackStands
    <2> QED BY <2>1, CalmStands
  <1> QED BY <1>1, <1>2, <1>3, <1>4, <1>5, <1>6, <1>7

\* What a task body that has the processor under no handler sees
LEMMA CalmIsNoInversion ==
    ASSUME IInv, StackShape, Calm
    PROVE  NoInversion
  <1> SUFFICES ASSUME Executing, ~HandlerActive, NEW p \in Priority, p < priority[Top.task]
               PROVE  ready_lists[p] = <<>>
    BY DEF NoInversion
  <1>1. stack # <<>> /\ ~pend
    BY DEF Executing, Proceeds, TopIs
  <1>2. running_prio = priority[Top.task]
    BY DEF Executing, IInv, CpuAgree, CurrentExecutes
  <1> QED BY <1>1, <1>2 DEF Calm, PendsOrQuiet, QuietAbove

\* Where interrupts are taken only by the program itself (the host port), no
\* task body runs while a higher priority is ready, however run_one() calls and
\* the handler nest.  With asynchronous interrupts this is false: run
\* kernel_exit shows it.
THEOREM NobodyIsInverted ==
    ASSUME ~ASYNC_ISR
    PROVE  Spec => []NoInversion
  <1>1. CASE PREEMPTIVE
    <2>1. IInv /\ StackShape /\ Calm /\ [Next]_kernelVars => Calm'
      BY <1>1, NextCalm
    <2>2. IInv /\ StackShape /\ Calm => NoInversion
      BY CalmIsNoInversion
    <2> QED BY <2>1, <2>2, InitCalm, Invariance, ShapeInvariance, PTL DEF Spec
  <1>2. CASE ~PREEMPTIVE
    <2>1. NoInversion
      BY <1>2 DEF NoInversion
    <2> QED BY <2>1, PTL
  <1> QED BY <1>1, <1>2

-----------------------------------------------------------------------------
(* What the handler runs, and on top of whom *)

\* The handler interrupts a body in the middle, or a nested run_one() between
\* the resume() of its task and the restore.
LEMMA ShapeIsAbove ==
    ASSUME IInv, StackShape
    PROVE  HandlerAbove
  <1> SUFFICES ASSUME NEW i \in 1 .. Len(stack), stack[i].fn = "preempt_handler",
                      stack[i].pc = "exec",
                      ~(stack[i - 1].fn = "run_one" /\ stack[i - 1].pc = "exit"),
                      NEW j \in BodyBelow(i)
               PROVE  priority[stack[i].task] < priority[stack[j].task]
    BY DEF HandlerAbove, IInv, CpuAgree
  <1>1. /\ Len(stack) \in Nat
        /\ \A k \in 1 .. Len(stack) : stack[k] \in Activation
        /\ i > 1 /\ priority[stack[i].task] < stack[i].saved_prio
    BY LenProperties, ElementOfSeq DEF IInv, TypeOK, CpuAgree, AboveEntry
  <1>2. i - 1 \in 1 .. Len(stack) /\ i - 1 \in 1 .. Len(stack) - 1 /\ (i - 1) + 1 = i /\ i # i - 1
    BY <1>1
  <1>3. stack[i - 1].fn = "run_one"
    BY <1>1, <1>2 DEF StackShape, Activation
  <1>4. stack[i - 1].pc = "exec"
    <2>1. stack[i - 1].pc # "scan"
      BY <1>2, <1>3 DEF StackShape
    <2> QED BY <1>1, <1>2, <1>3, <2>1 DEF Activation
  <1>5. j = i - 1
    BY <1>1, <1>2, <1>4 DEF BodyBelow
  <1>6. stack[i].saved_prio = priority[stack[i - 1].task]
    BY <1>2, <1>4 DEF IInv, CpuAgree, SavedAgree
  <1> QED BY <1>1, <1>5, <1>6

\* Whatever interrupts and nesting, the handler runs nothing that is not
\* strictly above entry_prio, nothing on an idle scheduler, and nothing that is
\* not strictly above the body in the middle, unless it has been entered while
\* a nested run_one() was on its way out.
THEOREM HandlerIsAbove == Spec => []HandlerAbove
  <1>1. IInv /\ StackShape => HandlerAbove
    BY ShapeIsAbove
  <1> QED BY <1>1, Invariance, ShapeInvariance, PTL

\* Where interrupts are taken only by the program itself, PendSV is requested
\* and taken in the middle of a body.
EntersBodies ==
    /\ ticking => stack = <<>> \/ TopIs("exec")
    /\ pend /\ ~HandlerActive => TopIs("exec")
    /\ \A i \in 1 .. Len(stack) :
          stack[i].fn = "preempt_handler" => stack[i - 1].pc = "exec"

\* Before start() no request is pending.
LEMMA InitEntersBodies == Init => EntersBodies
  <1> SUFFICES ASSUME Init PROVE EntersBodies
    OBVIOUS
  <1>1. stack = <<>> /\ Len(stack) = 0 /\ ~ticking /\ ~pend
    BY EmptySeq DEF Init
  <1> QED BY <1>1 DEF EntersBodies

\* Only the place of the innermost activation changes, and it held no body in
\* the middle of which the handler could be.
LEMMA EntersTop ==
    ASSUME EntersBodies, IInv, NEW x, MovesTop(x), ~ticking',
           pend' => HandlerActive \/ x = "exec"
    PROVE  EntersBodies'
  <1>1. /\ Len(stack) \in Nat \ {0} /\ Len(stack') = Len(stack)
        /\ stack'[Len(stack)].pc = x /\ stack' # <<>>
    BY NonEmpty, EmptySeq DEF MovesTop
  <1>2. HandlerActive' <=> HandlerActive
    BY <1>1 DEF MovesTop, HandlerActive
  <1>3. ASSUME NEW i \in 1 .. Len(stack), stack'[i].fn = "preempt_handler"
        PROVE  stack'[i - 1].pc = "exec"
    <2>1. stack[i].fn = "preempt_handler" /\ stack[i - 1].pc = "exec" /\ i > 1
      BY <1>3 DEF MovesTop, EntersBodies, IInv, CpuAgree, AboveEntry
    <2>2. i - 1 \in 1 .. Len(stack) /\ i - 1 # Len(stack)
      BY <1>1, <2>1
    <2> QED BY <2>1, <2>2 DEF MovesTop
  <1>4. (pend /\ ~HandlerActive)' => TopIs("exec")'
    BY <1>1, <1>2 DEF TopIs, Top
  <1> QED BY <1>1, <1>3, <1>4 DEF EntersBodies

\* An activation is put on top of a body, or on the empty stack.
LEMMA EntersPush ==
    ASSUME EntersBodies, IInv, NEW a \in Activation, stack' = Append(stack, a), ~ticking',
           stack # <<>> => TopIs("exec"),
           a.fn = "preempt_handler" => stack # <<>>,
           a.pc # "exec" => a.fn = "preempt_handler"
    PROVE  EntersBodies'
  <1> DEFINE n == Len(stack)
  <1>1. /\ n \in Nat /\ Len(stack') = n + 1 /\ stack'[n + 1] = a /\ stack' # <<>>
        /\ \A i \in 1 .. n : stack'[i] = stack[i]
        /\ stack # <<>> => n # 0
    BY AppendProperties, LenProperties, EmptySeq DEF IInv, TypeOK
  <1>2. ASSUME NEW i \in 1 .. n + 1, stack'[i].fn = "preempt_handler"
        PROVE  stack'[i - 1].pc = "exec"
    <2>1. CASE i = n + 1
      <3>1. stack # <<>> /\ stack[n].pc = "exec" /\ i - 1 = n /\ n \in 1 .. n
        BY <1>1, <1>2, <2>1 DEF TopIs, Top
      <3> QED BY <1>1, <3>1
    <2>2. CASE i \in 1 .. n
      <3>1. stack[i].fn = "preempt_handler" /\ stack[i - 1].pc = "exec" /\ i > 1
        BY <1>1, <1>2, <2>2 DEF EntersBodies, IInv, CpuAgree, AboveEntry
      <3>2. i - 1 \in 1 .. n
        BY <1>1, <2>2, <3>1
      <3> QED BY <1>1, <3>1, <3>2
    <2>3. i = n + 1 \/ i \in 1 .. n
      <3> HIDE DEF n
      <3> QED BY <1>1
    <2> QED BY <2>1, <2>2, <2>3
  <1>3. (pend /\ ~HandlerActive)' => TopIs("exec")'
    <2>1. a.fn = "preempt_handler" => HandlerActive'
      BY <1>1 DEF HandlerActive
    <2> QED BY <1>1, <2>1 DEF TopIs, Top
  <1> QED BY <1>1, <1>2, <1>3 DEF EntersBodies

\* Every step of the scheduler leaves it to bodies to be interrupted, where
\* interrupts do not come between two steps.
LEMMA NextEntersBodies ==
    ASSUME ~ASYNC_ISR
    PROVE  IInv /\ StackShape /\ EntersBodies /\ [Next]_kernelVars => EntersBodies'
  <1> SUFFICES ASSUME IInv, StackShape, EntersBodies, [Next]_kernelVars PROVE EntersBodies'
    OBVIOUS
  <1>1. CASE RunOne
    <2>1. PICK a \in Activation : a.pc = "exec" /\ a.fn = "run_one" /\ stack' = Append(stack, a)
      BY <1>1, RunOnePushes
    <2>2. ~ticking' /\ (stack # <<>> => TopIs("exec"))
      BY <1>1, RunOnePushes DEF RunOne, Proceeds
    <2> QED BY <2>1, <2>2, EntersPush
  <1>2. CASE PendSV
    <2>1. /\ stack # <<>> /\ ~ticking' /\ pend /\ ~HandlerActive
          /\ \E a \in Activation : a.fn = "preempt_handler" /\ stack' = Append(stack, a)
      BY <1>2, PendSVPushes DEF PendSV
    <2>2. TopIs("exec")
      BY <2>1 DEF EntersBodies
    <2> QED BY <2>1, <2>2, EntersPush
  <1>3. CASE Scan
    <2>1. MovesTop("exec")
      BY <1>3, ScanMoves DEF IInv
    <2>2. ~ticking'
      BY <1>3 DEF Scan, Proceeds, Resume
    <2> QED BY <2>1, <2>2, EntersTop
  <1>4. CASE ScanEmpty
    <2>1. MovesTop("exit") /\ ~ticking' /\ (pend' => HandlerActive)
      BY <1>4, ScanEmptyMoves DEF IInv, ScanEmpty, Proceeds
    <2> QED BY <2>1, EntersTop
  <1>5. CASE Return
    <2> DEFINE n == Len(stack)
    <2>1. /\ stack # <<>> /\ Top.pc = "exit" /\ ~ticking' /\ (pend => HandlerActive)
          /\ stack' = SubSeq(stack, 1, n - 1) /\ UNCHANGED pend
      BY <1>5 DEF Return, Proceeds, TopIs
    <2>2. /\ n \in Nat \ {0} /\ Len(stack') = n - 1
          /\ \A i \in 1 .. n - 1 : stack'[i] = stack[i]
          /\ stack' = <<>> => n = 1
      <3>1. stack \in Seq(Activation)
        BY DEF IInv, TypeOK
      <3>2. n \in Nat \ {0}
        BY <2>1, <3>1, NonEmpty
      <3>3. Len(stack') = n - 1 /\ \A i \in 1 .. n - 1 : stack'[i] = stack[i]
        BY <2>1, <3>1, FrontProperties
      <3>4. stack' = <<>> => n = 1
        BY <3>2, <3>3, EmptySeq
      <3> QED BY <3>2, <3>3, <3>4
    <2>3. ASSUME NEW i \in 1 .. n - 1, stack'[i].fn = "preempt_handler"
          PROVE  stack'[i - 1].pc = "exec"
      <3>1. i > 1 /\ stack[i - 1].pc = "exec"
        BY <2>2, <2>3 DEF EntersBodies, IInv, CpuAgree, AboveEntry
      <3>2. i - 1 \in 1 .. n - 1
        BY <2>2, <3>1
      <3> QED BY <2>2, <3>1, <3>2
    <2>4. ASSUME pend', ~HandlerActive' PROVE TopIs("exec")'
      <3>1. PICK h \in 1 .. n : stack[h].fn = "preempt_handler"
        BY <2>1, <2>4 DEF HandlerActive
      <3>2. h = n
        BY <2>2, <2>4, <3>1 DEF HandlerActive
      <3>3. n > 1 /\ stack[n - 1].pc = "exec"
        BY <3>1, <3>2 DEF EntersBodies, IInv, CpuAgree, AboveEntry
      <3>4. stack' # <<>> /\ n - 1 \in 1 .. n - 1
        BY <2>2, <3>3
      <3> QED BY <2>2, <3>3, <3>4 DEF TopIs, Top
    <2> HIDE DEF n
    <2> QED BY <2>1, <2>2, <2>3, <2>4 DEF EntersBodies
  <1>6. CASE \/ \E n \in 0 .. MaxTimeout : Sleep(n)
             \/ Yield \/ Finish
             \/ \E l \in Lists, n \in Timeouts : Block(l, n)
    <2>1. /\ Executing /\ ~ticking'
          /\ MovesTop(IF Top.fn = "run_one" THEN "exit" ELSE "scan")
      BY <1>6, Suspends DEF Executing, Proceeds
    <2>2. pend' = pend
      <3>1. CASE Yield
        <4>1. current \in Tasks /\ state[current] = "Running"
          BY <3>1, Executes DEF Yield
        <4>2. priority[current] = running_prio /\ priority[current] \in Priority
          BY <2>1, <4>1 DEF Executing, IInv, CpuAgree, CurrentExecutes, TypeOK
        <4>3. ~(priority[current] < running_prio)
          BY <4>2 DEF Priority
        <4> QED BY <3>1, <4>1, <4>3 DEF Yield, MakeReady, IInv, TypeOK
      <3>2. CASE ~Yield
        BY <1>6, <3>2 DEF Sleep, Finish, Block, BlockCurrent
      <3> QED BY <3>1, <3>2
    <2>3. pend' => HandlerActive
      BY <2>1, <2>2 DEF Executing, Proceeds
    <2> QED BY <2>1, <2>3, EntersTop
  <1>7. CASE ~(RunOne \/ Scan \/ PendSV \/ ScanEmpty \/ Return) /\
             ~(\/ \E n \in 0 .. MaxTimeout : Sleep(n)
               \/ Yield \/ Finish
               \/ \E l \in Lists, n \in Timeouts : Block(l, n))
    <2>1. /\ UNCHANGED <<stack, running_prio>>
          /\ \/ UNCHANGED kernelVars \/ TickIsr \/ TickWake
             \/ \E t \in Tasks, p \in 0 .. NUM_PRIORITIES : Start(t, p)
             \/ \E l \in Lists, t \in Tasks : WakeWaiter(l, t)
      BY <1>7, StackStands
    <2>2. CASE UNCHANGED kernelVars
      BY <2>1, <2>2 DEF kernelVars, EntersBodies, TopIs, Top, HandlerActive
    <2>3. CASE ~UNCHANGED kernelVars
      <3>1. stack = <<>> \/ TopIs("exec")
        BY <2>1, <2>3 DEF TickIsr, TickWake, Start, WakeWaiter, Interrupts, EntersBodies
      <3>2. stack = <<>> => ~pend'
        BY <2>1, NextIInv DEF IInv, CpuAgree, CurrentExecutes
      <3> QED BY <2>1, <3>1, <3>2 DEF EntersBodies, TopIs, Top, HandlerActive
    <2> QED BY <2>2, <2>3
  <1> QED BY <1>1, <1>2, <1>3, <1>4, <1>5, <1>6, <1>7

\* What the handler runs on a body is above it.
LEMMA EntersIsStrict ==
    ASSUME IInv, StackShape, NESTED => EntersBodies
    PROVE  StrictlyAbove
  <1> SUFFICES ASSUME NEW i \in 1 .. Len(stack), stack[i].fn = "preempt_handler",
                      stack[i].pc = "exec", NEW j \in BodyBelow(i)
               PROVE  priority[stack[i].task] < priority[stack[j].task]
    BY DEF StrictlyAbove
  <1>1. /\ Len(stack) \in Nat
        /\ i > 1 /\ priority[stack[i].task] < stack[i].saved_prio
    BY LenProperties DEF IInv, TypeOK, CpuAgree, AboveEntry
  <1>2. j = i - 1 /\ stack[i - 1].pc = "exec"
    <2>1. j \in 1 .. i - 1 /\ stack[j].pc = "exec"
      BY DEF BodyBelow
    <2>2. CASE NESTED
      <3>1. stack[i - 1].pc = "exec"
        BY <2>2 DEF EntersBodies
      <3> QED BY <1>1, <3>1 DEF BodyBelow
    <2>3. CASE ~NESTED
      <3>1. 2 \in 1 .. Len(stack)
        BY <1>1
      <3>2. i = 2
        BY <1>1, <2>3, <3>1 DEF StackShape
      <3> QED BY <2>1, <3>2
    <2> QED BY <2>2, <2>3
  <1>3. i - 1 \in 1 .. Len(stack) - 1 /\ (i - 1) + 1 = i
    BY <1>1
  <1>4. stack[i].saved_prio = priority[stack[i - 1].task]
    BY <1>2, <1>3 DEF IInv, CpuAgree, SavedAgree
  <1> QED BY <1>1, <1>2, <1>4

\* On the host, and where bodies do not call run_one(), preempt_handler() runs
\* only tasks strictly above the body in the middle, the nearest one below it
\* on the stack.  Where both interrupts and run_one() calls are free this is
\* false, and HandlerAbove names the exception.
THEOREM PreemptionIsUpward ==
    ASSUME ~(ASYNC_ISR /\ NESTED)
    PROVE  Spec => []StrictlyAbove
  <1>1. CASE NESTED
    <2>1. IInv /\ StackShape /\ EntersBodies /\ [Next]_kernelVars => EntersBodies'
      BY <1>1, NextEntersBodies
    <2>2. IInv /\ StackShape /\ EntersBodies => StrictlyAbove
      BY EntersIsStrict
    <2> QED BY <2>1, <2>2, InitEntersBodies, Invariance, ShapeInvariance, PTL DEF Spec
  <1>2. CASE ~NESTED
    <2>1. IInv /\ StackShape => StrictlyAbove
      BY <1>2, EntersIsStrict
    <2> QED BY <2>1, Invariance, ShapeInvariance, PTL
  <1> QED BY <1>1, <1>2

-----------------------------------------------------------------------------
(* The delay list across the wrap of the tick counter *)

\* Every node that was due at this tick, or before it, has been woken.
LastTick == IF ticking THEN Minus(tick_count, 1) ELSE tick_count

\* How far a deadline is ahead of that tick
Away == [t \in Tasks |-> Minus(deadline[t], LastTick)]

\* No node is further away than a timeout can be, and none is further away
\* than the nodes behind it.
Sorted(s, away) ==
    /\ \A i \in 1 .. Len(s) : away[s[i]] <= MaxTimeout
    /\ \A i, j \in 1 .. Len(s) : i < j => away[s[i]] <= away[s[j]]

DelaySorted == Sorted(delay_list, Away)

\* What is taken out leaves the others in their order.
LEMMA UnlinkOrder ==
    ASSUME NEW S, NEW s \in Seq(S), NEW n
    PROVE  \A i, j \in 1 .. Len(Unlink(s, n)) : i < j =>
              \E k, l \in 1 .. Len(s) : k < l /\ Unlink(s, n)[i] = s[k] /\ Unlink(s, n)[j] = s[l]
  <1>1. CASE ~Contains(s, n)
    BY <1>1 DEF Unlink
  <1>2. CASE Contains(s, n)
    <2> DEFINE c == CHOOSE k \in 1 .. Len(s) : s[k] = n
    <2>1. c \in 1 .. Len(s) /\ Unlink(s, n) = RemoveAt(s, c)
      BY <1>2 DEF Unlink, Contains
    <2> HIDE DEF c
    <2>2. /\ Len(Unlink(s, n)) = Len(s) - 1 /\ Len(s) \in Nat
          /\ \A j \in 1 .. Len(s) - 1 :
                Unlink(s, n)[j] = IF j < c THEN s[j] ELSE s[j + 1]
      BY <2>1, RemoveAtProperties, LenProperties
    <2>3. ASSUME NEW i \in 1 .. Len(Unlink(s, n)), NEW j \in 1 .. Len(Unlink(s, n)), i < j
          PROVE  \E k, l \in 1 .. Len(s) :
                    k < l /\ Unlink(s, n)[i] = s[k] /\ Unlink(s, n)[j] = s[l]
      <3>0. i \in 1 .. Len(s) - 1 /\ j \in 1 .. Len(s) - 1
        BY <2>2
      <3> DEFINE k == IF i < c THEN i ELSE i + 1
                 l == IF j < c THEN j ELSE j + 1
      <3>1. k \in 1 .. Len(s) /\ l \in 1 .. Len(s) /\ k < l
        BY <2>1, <2>2, <2>3, <3>0
      <3>2. Unlink(s, n)[i] = s[k] /\ Unlink(s, n)[j] = s[l]
        BY <2>2, <3>0
      <3> HIDE DEF k, l
      <3> QED BY <3>1, <3>2
    <2> QED BY <2>3
  <1> QED BY <1>1, <1>2

\* Two deadlines less than half the range ahead of a common tick compare as
\* their distances to it.
LEMMA Compare ==
    ASSUME NEW a \in Tick, NEW b \in Tick, NEW c \in Tick,
           Minus(a, c) < Half, Minus(b, c) < Half
    PROVE  deadline_le(a, b) <=> Minus(a, c) <= Minus(b, c)
  BY KernelAssumption DEF deadline_le, Minus, Tick, Modulus

\* Distances after one more tick
LEMMA NextTick ==
    ASSUME NEW a \in Tick, NEW b \in Tick
    PROVE  /\ Plus(b, 1) \in Tick /\ Minus(Plus(b, 1), 1) = b
           /\ Minus(b, 1) \in Tick /\ Plus(Minus(b, 1), 1) = b
           /\ Minus(a, b) \in Tick
           /\ Minus(a, Plus(b, 1)) = IF a = b THEN Modulus - 1 ELSE Minus(a, b) - 1
           /\ a = b <=> Minus(a, b) = 0
  BY KernelAssumption DEF Plus, Minus, Tick, Modulus

\* One more tick brings a deadline one tick nearer, or to the far end.
LEMMA OneNearer ==
    \A a, b \in Tick :
        Minus(a, Plus(b, 1)) = IF a = b THEN Modulus - 1 ELSE Minus(a, b) - 1
  BY KernelAssumption DEF Plus, Minus, Tick, Modulus

\* A deadline n ticks ahead is n ticks away.
LEMMA Ahead ==
    ASSUME NEW b \in Tick, NEW n \in 0 .. MaxTimeout
    PROVE  Plus(b, n) \in Tick /\ Minus(Plus(b, n), b) = n
  BY KernelAssumption DEF Plus, Minus, Tick, Modulus

\* Whether nodes leave or the tick is counted, the nodes that stay keep their
\* order as long as their distances shrink alike.
LEMMA SortedSubset ==
    ASSUME NEW s \in Seq(Tasks), NoRepeat(s), NEW f \in [Tasks -> Int], NEW g \in [Tasks -> Int],
           Sorted(s, f), NEW t, NEW r, r = Unlink(s, t) \/ r = s, NEW d \in Nat,
           \A u \in Tasks : Contains(r, u) => g[u] = f[u] - d
    PROVE  Sorted(r, g)
  <1>0. MaxTimeout \in Int
    BY KernelAssumption
  <1>1. r \in Seq(Tasks) /\ Len(r) \in Nat
    BY UnlinkProperties, LenProperties
  <1>2. ASSUME NEW i \in 1 .. Len(r)
        PROVE  /\ r[i] \in Tasks /\ g[r[i]] = f[r[i]] - d /\ f[r[i]] \in Int
               /\ \E k \in 1 .. Len(s) : s[k] = r[i]
    <2>1. r[i] \in Tasks /\ Contains(r, r[i])
      BY <1>1, ElementOfSeq DEF Contains
    <2>2. Contains(s, r[i])
      BY <2>1, UnlinkProperties
    <2> QED BY <2>1, <2>2 DEF Contains
  <1>3. ASSUME NEW i \in 1 .. Len(r)
        PROVE  g[r[i]] <= MaxTimeout
    <2>1. g[r[i]] = f[r[i]] - d /\ f[r[i]] \in Int
      BY <1>2
    <2>2. PICK k \in 1 .. Len(s) : s[k] = r[i]
      BY <1>2
    <2>3. f[r[i]] <= MaxTimeout
      BY <2>2 DEF Sorted
    <2> QED BY <1>0, <2>1, <2>3
  <1>4. ASSUME NEW i \in 1 .. Len(r), NEW j \in 1 .. Len(r), i < j
        PROVE  g[r[i]] <= g[r[j]]
    <2>1. PICK k \in 1 .. Len(s), l \in 1 .. Len(s) : k < l /\ r[i] = s[k] /\ r[j] = s[l]
      <3>1. CASE r = s
        BY <1>4, <3>1
      <3>2. CASE r = Unlink(s, t)
        <4>1. \A m, o \in 1 .. Len(Unlink(s, t)) : m < o =>
                 \E k, l \in 1 .. Len(s) :
                    k < l /\ Unlink(s, t)[m] = s[k] /\ Unlink(s, t)[o] = s[l]
          BY UnlinkOrder
        <4> QED BY <1>4, <3>2, <4>1
      <3> QED BY <3>1, <3>2
    <2>2. f[r[i]] <= f[r[j]]
      BY <2>1 DEF Sorted
    <2>3. g[r[i]] = f[r[i]] - d /\ f[r[i]] \in Int
      BY <1>2
    <2>4. g[r[j]] = f[r[j]] - d /\ f[r[j]] \in Int
      BY <1>2
    <2>5. \A a, b \in Int : a <= b => a - d <= b - d
      OBVIOUS
    <2> QED BY <2>2, <2>3, <2>4, <2>5
  <1> QED BY <1>3, <1>4 DEF Sorted

\* A node is put behind those that are not further away and before the first
\* that is.
LEMMA SortedInsert ==
    ASSUME NEW s \in Seq(Tasks), NEW f \in [Tasks -> Int], NEW g \in [Tasks -> Int],
           Sorted(s, f), NEW t \in Tasks, ~Contains(s, t),
           \A u \in Tasks : u # t => g[u] = f[u],
           NEW k \in 1 .. Len(s) + 1, g[t] <= MaxTimeout,
           \A j \in 1 .. k - 1 : f[s[j]] <= g[t],
           k <= Len(s) => g[t] <= f[s[k]]
    PROVE  Sorted(InsertAt(s, k, t), g)
  <1> DEFINE r == InsertAt(s, k, t)
  <1>1. /\ Len(r) = Len(s) + 1 /\ Len(s) \in Nat
        /\ \A j \in 1 .. Len(s) + 1 :
              r[j] = IF j < k THEN s[j] ELSE IF j = k THEN t ELSE s[j - 1]
    <2>1. Len(s) \in Nat
      BY LenProperties
    <2>2. /\ Len(InsertAt(s, k, t)) = Len(s) + 1
          /\ \A j \in 1 .. Len(s) + 1 :
                InsertAt(s, k, t)[j] = IF j < k THEN s[j] ELSE IF j = k THEN t ELSE s[j - 1]
      BY InsertAtProperties
    <2> QED BY <2>1, <2>2
  <1> HIDE DEF r
  <1>2. \A j \in 1 .. Len(s) : s[j] \in Tasks /\ s[j] # t /\ g[s[j]] = f[s[j]] /\ f[s[j]] \in Int
    BY ElementOfSeq DEF Contains
  <1>3. \A j \in 1 .. Len(s) : (j < k => f[s[j]] <= g[t]) /\ (j >= k => g[t] <= f[s[j]])
    <2>1. ASSUME NEW j \in 1 .. Len(s), j >= k PROVE g[t] <= f[s[j]]
      <3>1. k \in 1 .. Len(s) /\ g[t] <= f[s[k]]
        BY <1>1, <2>1
      <3>2. f[s[k]] <= f[s[j]]
        BY <1>2, <2>1, <3>1 DEF Sorted
      <3> QED BY <1>2, <3>1, <3>2
    <2> QED BY <1>1, <2>1
  <1>4. ASSUME NEW i \in 1 .. Len(s) + 1 PROVE g[r[i]] <= MaxTimeout
    <2>1. CASE i < k
      <3>1. i \in 1 .. Len(s) /\ r[i] = s[i]
        BY <1>1, <2>1
      <3> QED BY <1>2, <3>1 DEF Sorted
    <2>2. CASE i = k
      BY <1>1, <2>2
    <2>3. CASE i > k
      <3>1. i - 1 \in 1 .. Len(s) /\ r[i] = s[i - 1]
        BY <1>1, <2>3
      <3> QED BY <1>2, <3>1 DEF Sorted
    <2> QED BY <2>1, <2>2, <2>3
  <1>5. ASSUME NEW i \in 1 .. Len(s) + 1, NEW j \in 1 .. Len(s) + 1, i < j
        PROVE  g[r[i]] <= g[r[j]]
    <2>1. CASE j < k
      <3>1. i \in 1 .. Len(s) /\ j \in 1 .. Len(s) /\ r[i] = s[i] /\ r[j] = s[j]
        BY <1>1, <1>5, <2>1
      <3> QED BY <1>2, <1>5, <3>1 DEF Sorted
    <2>2. CASE j = k
      <3>1. i \in 1 .. Len(s) /\ i < k /\ r[i] = s[i] /\ r[j] = t
        BY <1>1, <1>5, <2>2
      <3> QED BY <1>2, <1>3, <3>1
    <2>3. CASE j > k /\ i < k
      <3>1. /\ i \in 1 .. Len(s) /\ j - 1 \in 1 .. Len(s) /\ r[i] = s[i] /\ r[j] = s[j - 1]
            /\ j - 1 >= k
        <4>1. i \in 1 .. Len(s) /\ r[i] = s[i]
          BY <1>1, <1>5, <2>3
        <4>2. j - 1 \in 1 .. Len(s) /\ r[j] = s[j - 1] /\ j - 1 >= k
          BY <1>1, <1>5, <2>3
        <4> QED BY <4>1, <4>2
      <3>2. f[s[i]] <= g[t] /\ g[t] <= f[s[j - 1]]
        BY <1>3, <2>3, <3>1
      <3>3. /\ g[r[i]] = f[s[i]] /\ f[s[i]] \in Int
            /\ g[r[j]] = f[s[j - 1]] /\ f[s[j - 1]] \in Int /\ g[t] \in Int
        BY <1>2, <3>1
      <3> QED BY <3>2, <3>3
    <2>4. CASE j > k /\ i = k
      <3>1. j - 1 \in 1 .. Len(s) /\ r[i] = t /\ r[j] = s[j - 1] /\ j - 1 >= k
        BY <1>1, <1>5, <2>4
      <3> QED BY <1>2, <1>3, <3>1
    <2>5. CASE j > k /\ i > k
      <3>1. /\ i - 1 \in 1 .. Len(s) /\ j - 1 \in 1 .. Len(s) /\ r[i] = s[i - 1]
            /\ r[j] = s[j - 1] /\ i - 1 < j - 1
        BY <1>1, <1>5, <2>5
      <3> QED BY <1>2, <3>1 DEF Sorted
    <2> QED BY <2>1, <2>2, <2>3, <2>4, <2>5
  <1> QED BY <1>1, <1>4, <1>5 DEF Sorted, r

\* Ticks and their differences are natural numbers below the modulus.
LEMMA MinusType ==
    /\ \A a, b \in Tick : Minus(a, b) \in Tick
    /\ \A a \in Tick : Minus(a, 1) \in Tick /\ Plus(a, 1) \in Tick
    /\ \A a \in Tick : a \in Int /\ a >= 0 /\ a <= Modulus - 1
    /\ Modulus \in Int /\ Modulus = 2 * Half /\ Half \in Int /\ Half >= 2
  BY KernelAssumption DEF Tick, Modulus, Minus, Plus

\* Distances are ticks, before a step ...
LEMMA AwayType ==
    ASSUME TypeOK
    PROVE  LastTick \in Tick /\ Away \in [Tasks -> Int] /\ \A t \in Tasks : Away[t] \in Tick
  <1>1. LastTick \in Tick
    BY MinusType DEF TypeOK, LastTick
  <1>2. \A t \in Tasks : Away[t] \in Tick
    BY <1>1, MinusType DEF TypeOK, Away
  <1> QED BY <1>1, <1>2, MinusType DEF Away

\* ... and after it.
LEMMA AwayTypeNext ==
    ASSUME TypeOK'
    PROVE  LastTick' \in Tick /\ Away' \in [Tasks -> Int]
  <1>1. LastTick' \in Tick
    BY MinusType DEF TypeOK, LastTick
  <1>2. \A t \in Tasks : Away'[t] \in Tick
    BY <1>1, MinusType DEF TypeOK, Away
  <1> QED BY <1>1, <1>2, MinusType DEF Away

\* The deadline of a node in the list is not touched.
LEMMA SortedFrame ==
    ASSUME TypeOK, TypeOK', BlockedAgree, DelaySorted, NEW t,
           delay_list' = Unlink(delay_list, t) \/ delay_list' = delay_list,
           LastTick' = LastTick,
           \A u \in Tasks : Contains(delay_list, u) => deadline'[u] = deadline[u]
    PROVE  DelaySorted'
  <1>1. delay_list \in Seq(Tasks) /\ NoRepeat(delay_list)
    BY DEF TypeOK, BlockedAgree
  <1>2. Away \in [Tasks -> Int] /\ Away' \in [Tasks -> Int]
    BY AwayType, AwayTypeNext
  <1>3. \A u \in Tasks : Contains(delay_list', u) => Away'[u] = Away[u] - 0
    <2>1. \A u \in Tasks : Contains(delay_list', u) => Contains(delay_list, u)
      BY <1>1, UnlinkProperties
    <2>2. \A u \in Tasks : Contains(delay_list', u) => Away'[u] = Away[u]
      BY <2>1 DEF Away
    <2> QED BY <1>2, <2>2
  <1> DEFINE f == Away
             g == Away'
             r == delay_list'
  <1>4. Sorted(r, g)
    <2>1. g \in [Tasks -> Int] /\ f \in [Tasks -> Int] /\ 0 \in Nat /\ Sorted(delay_list, f)
      BY <1>2 DEF DelaySorted
    <2>2. \A u \in Tasks : Contains(r, u) => g[u] = f[u] - 0
      BY <1>3
    <2> HIDE DEF f, g
    <2> QED BY <1>1, <2>1, <2>2, SortedSubset
  <1> QED BY <1>4 DEF DelaySorted, Sorted

\* Once nobody is due any more, everybody left is a tick nearer.
LEMMA SortedTick ==
    ASSUME TypeOK, TypeOK', BlockedAgree, BlockedAgree', DelaySorted, MaxTimeout < Half, NEW t,
           delay_list' = Unlink(delay_list, t) \/ delay_list' = delay_list,
           UNCHANGED deadline, tick_count' = Plus(LastTick, 1),
           ticking' = Due(delay_list', tick_count')
    PROVE  DelaySorted'
  <1>1. delay_list \in Seq(Tasks) /\ NoRepeat(delay_list) /\ delay_list' \in Seq(Tasks)
    BY DEF TypeOK, BlockedAgree
  <1>2. /\ LastTick \in Tick /\ tick_count' \in Tick
        /\ Away \in [Tasks -> Int] /\ Away' \in [Tasks -> Int]
        /\ \A u \in Tasks : Away[u] \in Tick /\ deadline[u] \in Tick
    BY AwayType, AwayTypeNext DEF TypeOK
  <1>3. CASE ticking'
    <2>1. LastTick' = LastTick
      BY <1>2, <1>3, NextTick DEF LastTick
    <2> QED BY <2>1, SortedFrame
  <1>4. CASE ~ticking'
    <2>1. LastTick' = Plus(LastTick, 1)
      BY <1>4 DEF LastTick
    <2>2. \A u \in Tasks : Away'[u] = IF deadline[u] = LastTick THEN Modulus - 1 ELSE Away[u] - 1
      <3>1. ASSUME NEW u \in Tasks
            PROVE  Away'[u] = IF deadline[u] = LastTick THEN Modulus - 1 ELSE Away[u] - 1
        <4>1. /\ Away'[u] = Minus(deadline[u], Plus(LastTick, 1))
              /\ Away[u] = Minus(deadline[u], LastTick)
          BY <2>1 DEF Away
        <4>2. deadline[u] \in Tick /\ LastTick \in Tick
          BY <1>2
        <4>3. Minus(deadline[u], Plus(LastTick, 1)) =
                 IF deadline[u] = LastTick THEN Modulus - 1
                 ELSE Minus(deadline[u], LastTick) - 1
          BY <4>2, OneNearer
        <4> QED BY <4>1, <4>3
      <3> QED BY <3>1
    <2>3. Sorted(delay_list', Away)
      <3>1. \A u \in Tasks : Contains(delay_list', u) => Away[u] = Away[u] - 0
        BY <1>2
      <3> DEFINE f == Away
                 r == delay_list'
      <3>2. f \in [Tasks -> Int] /\ 0 \in Nat /\ Sorted(delay_list, f)
        BY <1>2 DEF DelaySorted
      <3>3. \A u \in Tasks : Contains(r, u) => f[u] = f[u] - 0
        BY <3>1
      <3> HIDE DEF f
      <3> QED BY <1>1, <3>2, <3>3, SortedSubset DEF f
    <2>4. ASSUME NEW u \in Tasks, Contains(delay_list', u)
          PROVE  Away'[u] = Away[u] - 1
      <3> DEFINE h == Head(delay_list')
      <3>1. PICK i \in 1 .. Len(delay_list') : delay_list'[i] = u
        BY <2>4 DEF Contains
      <3>2. Len(delay_list') \in Nat /\ delay_list' # <<>>
        BY <1>1, <3>1, NonEmpty
      <3>3. h \in Tasks /\ h = delay_list'[1] /\ 1 \in 1 .. Len(delay_list')
        BY <1>1, <3>1, <3>2, HeadTailProperties, ElementOfSeq
      <3>4. Away[h] <= Away[u] /\ Away[h] <= MaxTimeout
        <4>1. CASE i = 1
          BY <1>2, <2>3, <3>1, <3>3, <4>1, KernelAssumption DEF Sorted, Tick, Modulus
        <4>2. CASE i # 1
          BY <2>3, <3>1, <3>2, <3>3, <4>2 DEF Sorted
        <4> QED BY <4>1, <4>2
      <3>5. ~deadline_le(deadline[h], tick_count')
        BY <1>4, <3>2 DEF Due
      <3> HIDE DEF h
      <3>6. deadline[h] # LastTick
        <4>1. Minus(deadline[h], tick_count') < Half
          <5>1. Minus(deadline[h], tick_count') \in Tick
            BY <1>2, <3>3, MinusType
          <5>2. /\ ~(Minus(deadline[h], tick_count') >= Half)
                /\ Minus(deadline[h], tick_count') \in Int /\ Half \in Int
            BY <3>5, <5>1, MinusType DEF deadline_le
          <5> QED BY <5>2
        <4>2. deadline[h] = LastTick => Minus(deadline[h], tick_count') = Modulus - 1
          BY <1>2, <3>3, NextTick
        <4> QED BY <4>1, <4>2, KernelAssumption DEF Modulus
      <3>7. Away[h] = Minus(deadline[h], LastTick) /\ Away[u] = Minus(deadline[u], LastTick)
        BY <3>3 DEF Away
      <3>8. Away[h] >= 1
        <4>1. Away[h] # 0
          <5>1. deadline[h] \in Tick /\ LastTick \in Tick
            BY <1>2, <3>3
          <5>2. deadline[h] = LastTick <=> Minus(deadline[h], LastTick) = 0
            BY <5>1, NextTick
          <5> QED BY <3>6, <3>7, <5>2
        <4>2. Away[h] \in Nat
          BY <1>2, <3>3 DEF Tick
        <4> QED BY <4>1, <4>2
      <3>9. deadline[u] # LastTick
        <4>1. Away[u] # 0
          BY <1>2, <3>3, <3>4, <3>8
        <4> QED BY <1>2, <3>7, <4>1, NextTick
      <3> QED BY <2>2, <3>9
    <2> DEFINE f == Away
               g == Away'
               r == delay_list'
    <2>5. Sorted(r, g)
      <3>1. g \in [Tasks -> Int] /\ f \in [Tasks -> Int] /\ 1 \in Nat /\ Sorted(delay_list, f)
        BY <1>2 DEF DelaySorted
      <3>2. \A u \in Tasks : Contains(r, u) => g[u] = f[u] - 1
        BY <2>4
      <3> HIDE DEF f, g
      <3> QED BY <1>1, <3>1, <3>2, SortedSubset
    <2> QED BY <2>5 DEF DelaySorted, Sorted
  <1> QED BY <1>3, <1>4

\* A deadline is put where its distance belongs.
LEMMA SortedJoin ==
    ASSUME IInv, TypeOK', DelaySorted, MaxTimeout < Half, ~ticking, UNCHANGED <<ticking, tick_count>>,
           NEW t \in Tasks, state[t] # "Blocked", NEW n \in 0 .. MaxTimeout,
           DelayInsert(t, Plus(tick_count, n))
    PROVE  DelaySorted'
  <1> DEFINE d == Plus(tick_count, n)
  <1>0. TypeOK /\ delay_list \in Seq(Tasks) /\ tick_count \in Tick
    BY DEF IInv, TypeOK
  <1>1. ~Contains(delay_list, t)
    BY DEF IInv, BlockedAgree
  <1>2. /\ Away \in [Tasks -> Int] /\ Away' \in [Tasks -> Int]
        /\ \A u \in Tasks : Away[u] \in Tick /\ deadline[u] \in Tick
    BY <1>0, AwayType, AwayTypeNext DEF TypeOK
  <1>3. LastTick = tick_count /\ LastTick' = tick_count
    BY DEF LastTick
  <1>4. d \in Tick /\ Minus(d, tick_count) = n
    BY <1>0, Ahead
  <1> HIDE DEF d
  <1>5. PICK k \in 1 .. Len(delay_list) + 1 :
           IsDelayPosition(k, d) /\ delay_list' = InsertAt(delay_list, k, t)
    BY DEF DelayInsert, d
  <1>6. deadline' = [deadline EXCEPT ![t] = d]
    BY DEF DelayInsert, d
  <1>7. Away'[t] = n /\ \A u \in Tasks : u # t => Away'[u] = Away[u]
    BY <1>0, <1>3, <1>4, <1>6 DEF Away, TypeOK
  <1>8. n \in Int /\ n <= MaxTimeout /\ MaxTimeout \in Int /\ Half \in Int
    BY KernelAssumption
  <1>9. ASSUME NEW j \in 1 .. Len(delay_list)
        PROVE  deadline_le(deadline[delay_list[j]], d) <=> Away[delay_list[j]] <= n
    <2> DEFINE a == deadline[delay_list[j]]
    <2>1. delay_list[j] \in Tasks
      BY <1>0, ElementOfSeq
    <2>2. a \in Tick /\ Away[delay_list[j]] = Minus(a, tick_count)
      BY <1>2, <1>3, <2>1 DEF Away
    <2>3. Away[delay_list[j]] <= MaxTimeout /\ Away[delay_list[j]] \in Int
      BY <1>2, <2>1 DEF DelaySorted, Sorted
    <2>4. Minus(a, tick_count) < Half /\ Minus(d, tick_count) < Half
      BY <1>4, <1>8, <2>2, <2>3
    <2> HIDE DEF a
    <2>5. deadline_le(a, d) <=> Minus(a, tick_count) <= Minus(d, tick_count)
      BY <1>0, <1>4, <2>2, <2>4, Compare
    <2> QED BY <1>4, <2>2, <2>5 DEF a
  <1>10. \A j \in 1 .. k - 1 : Away[delay_list[j]] <= n
    <2>1. \A j \in 1 .. k - 1 : j \in 1 .. Len(delay_list)
      BY <1>0, LenProperties
    <2> QED BY <1>5, <1>9, <2>1 DEF IsDelayPosition
  <1>11. k <= Len(delay_list) => n <= Away[delay_list[k]]
    <2>1. ASSUME k <= Len(delay_list) PROVE n <= Away[delay_list[k]]
      <3>1. k \in 1 .. Len(delay_list)
        BY <1>0, <2>1, LenProperties
      <3>2. ~(Away[delay_list[k]] <= n)
        BY <1>5, <1>9, <2>1, <3>1 DEF IsDelayPosition
      <3>3. delay_list[k] \in Tasks
        BY <1>0, <3>1, ElementOfSeq
      <3>4. Away[delay_list[k]] \in Int
        BY <1>2, <3>3
      <3> QED BY <1>8, <3>2, <3>4
    <2> QED BY <2>1
  <1> DEFINE f == Away
             g == Away'
             r == delay_list'
  <1>12. Sorted(r, g)
    <2>1. /\ f \in [Tasks -> Int] /\ g \in [Tasks -> Int] /\ Sorted(delay_list, f)
          /\ \A u \in Tasks : u # t => g[u] = f[u]
          /\ g[t] <= MaxTimeout /\ \A j \in 1 .. k - 1 : f[delay_list[j]] <= g[t]
          /\ k <= Len(delay_list) => g[t] <= f[delay_list[k]]
      BY <1>2, <1>7, <1>8, <1>10, <1>11 DEF DelaySorted
    <2> HIDE DEF f, g
    <2>2. Sorted(InsertAt(delay_list, k, t), g)
      BY <1>0, <1>1, <2>1, SortedInsert
    <2> QED BY <1>5, <2>2
  <1> QED BY <1>12 DEF DelaySorted, Sorted

\* A step that keeps the list and the counter, or takes a task out
LEMMA SortedStays ==
    ASSUME IInv, IInv', DelaySorted, UNCHANGED <<ticking, tick_count>>, NEW t,
           delay_list' = Unlink(delay_list, t) \/ delay_list' = delay_list,
           \A u \in Tasks : state[u] = "Blocked" => deadline'[u] = deadline[u]
    PROVE  DelaySorted'
  <1>1. LastTick' = LastTick
    BY DEF LastTick
  <1>2. \A u \in Tasks : Contains(delay_list, u) => deadline'[u] = deadline[u]
    BY DEF IInv, BlockedAgree
  <1> QED BY <1>1, <1>2, SortedFrame DEF IInv

\* At first the delay list is empty.
LEMMA InitSorted == Init => DelaySorted
  <1> SUFFICES ASSUME Init PROVE DelaySorted
    OBVIOUS
  <1>1. delay_list = <<>> /\ Len(delay_list) = 0
    BY EmptySeq DEF Init
  <1> QED BY <1>1 DEF DelaySorted, Sorted

\* Every step of the scheduler keeps the delay list in order.
LEMMA NextSorted ==
    ASSUME MaxTimeout < Half
    PROVE  IInv /\ IInv' /\ DelaySorted /\ [Next]_kernelVars => DelaySorted'
  <1> SUFFICES ASSUME IInv, IInv', DelaySorted, [Next]_kernelVars PROVE DelaySorted'
    OBVIOUS
  <1>1. CASE RunOne \/ Scan
    <2>1. PICK p \in Priority : ready_lists[p] # <<>> /\ Resume(p) /\ ~ticking
      BY <1>1 DEF RunOne, Scan, FirstReady, Proceeds
    <2>2. Head(ready_lists[p]) \in Tasks /\ state[Head(ready_lists[p])] = "Ready"
      BY <2>1, ResumeStep
    <2>3. /\ UNCHANGED <<ticking, tick_count, delay_list>>
          /\ deadline' = [deadline EXCEPT ![Head(ready_lists[p])] = 0]
      BY <2>1 DEF Resume
    <2>4. \A u \in Tasks : state[u] = "Blocked" => deadline'[u] = deadline[u]
      BY <2>2, <2>3 DEF IInv, TypeOK
    <2> QED BY <2>3, <2>4, SortedStays
  <1>2. CASE \/ UNCHANGED kernelVars \/ PendSV \/ ScanEmpty \/ Return \/ Yield \/ Finish
             \/ \E t \in Tasks, p \in 0 .. NUM_PRIORITIES : Start(t, p)
    <2>1. UNCHANGED <<ticking, tick_count, delay_list, deadline>>
      BY <1>2 DEF kernelVars, PendSV, ScanEmpty, Return, Yield, Finish, Start, lists, nodes, cpu
    <2> QED BY <2>1, SortedStays
  <1>3. ASSUME NEW l \in Lists, NEW t \in Tasks, WakeWaiter(l, t) PROVE DelaySorted'
    <2>1. UNCHANGED <<ticking, tick_count, deadline>> /\ delay_list' = Unlink(delay_list, t)
      BY <1>3 DEF WakeWaiter, Wake
    <2> QED BY <2>1, SortedStays
  <1>4. CASE TickIsr
    <2>1. /\ UNCHANGED <<deadline, delay_list>> /\ tick_count' = Plus(tick_count, 1)
          /\ ticking' = Due(delay_list, tick_count') /\ ~ticking
      BY <1>4 DEF TickIsr, Interrupts, lists, nodes
    <2>2. LastTick = tick_count
      BY <2>1 DEF LastTick
    <2> QED BY <2>1, <2>2, SortedTick DEF IInv
  <1>5. CASE TickWake
    <2>1. /\ UNCHANGED <<deadline, tick_count>> /\ ticking
          /\ ticking' = Due(delay_list', tick_count)
          /\ delay_list' = Unlink(delay_list, Head(delay_list))
      BY <1>5 DEF TickWake, Wake
    <2>2. tick_count = Plus(LastTick, 1)
      BY <2>1, NextTick DEF LastTick, IInv, TypeOK
    <2>3. tick_count' = Plus(LastTick, 1) /\ ticking' = Due(delay_list', tick_count')
      BY <2>1, <2>2
    <2> QED BY <2>1, <2>3, SortedTick DEF IInv
  <1>6. ASSUME NEW n \in 0 .. MaxTimeout, Sleep(n) PROVE DelaySorted'
    <2>1. /\ Executing /\ UNCHANGED <<ticking, tick_count>>
          /\ DelayInsert(current, Plus(tick_count, n))
      BY <1>6 DEF Sleep
    <2>2. current \in Tasks /\ state[current] # "Blocked" /\ ~ticking
      BY <2>1, Executes DEF Executing, Proceeds
    <2> QED BY <2>1, <2>2, SortedJoin DEF IInv
  <1>7. ASSUME NEW l \in Lists, NEW n \in Timeouts, Block(l, n) PROVE DelaySorted'
    <2>1. /\ Executing /\ UNCHANGED <<ticking, tick_count>>
          /\ IF n = NoTimeout THEN UNCHANGED <<deadline, delay_list>>
             ELSE DelayInsert(current, Plus(tick_count, n))
      BY <1>7 DEF Block, BlockCurrent
    <2>2. current \in Tasks /\ state[current] # "Blocked" /\ ~ticking
      BY <2>1, Executes DEF Executing, Proceeds
    <2>3. CASE n = NoTimeout
      BY <2>1, <2>3, SortedStays
    <2>4. CASE n # NoTimeout
      <3>1. n \in 0 .. MaxTimeout
        BY <2>4 DEF Timeouts
      <3> QED BY <2>1, <2>2, <2>4, <3>1, SortedJoin DEF IInv
    <2> QED BY <2>3, <2>4
  <1> QED BY <1>1, <1>2, <1>3, <1>4, <1>5, <1>6, <1>7 DEF Next, Dispatch, Background

\* What the comparison of two raw deadlines says of a sorted list
LEMMA SortedIsInOrder ==
    ASSUME IInv, DelaySorted, MaxTimeout < Half
    PROVE  DelayInOrder
  <1>1. TypeOK /\ delay_list \in Seq(Tasks) /\ Len(delay_list) \in Nat
    BY LenProperties DEF IInv, TypeOK
  <1>2. ASSUME NEW i \in 1 .. Len(delay_list)
        PROVE  /\ deadline[delay_list[i]] \in Tick /\ LastTick \in Tick
               /\ Away[delay_list[i]] = Minus(deadline[delay_list[i]], LastTick)
               /\ Away[delay_list[i]] \in Int /\ Away[delay_list[i]] <= MaxTimeout
               /\ Away[delay_list[i]] < Half
    <2>1. delay_list[i] \in Tasks
      BY <1>1, ElementOfSeq
    <2>2. /\ deadline[delay_list[i]] \in Tick /\ LastTick \in Tick
          /\ Away[delay_list[i]] \in Int
      BY <1>1, <2>1, AwayType DEF TypeOK
    <2>3. Away[delay_list[i]] = Minus(deadline[delay_list[i]], LastTick)
      BY <2>1 DEF Away
    <2>4. Away[delay_list[i]] <= MaxTimeout
      BY DEF DelaySorted, Sorted
    <2> QED BY <2>2, <2>3, <2>4, KernelAssumption
  <1>3. ASSUME NEW i \in 1 .. Len(delay_list) - 1
        PROVE  deadline_le(deadline[delay_list[i]], deadline[delay_list[i + 1]])
    <2>1. i \in 1 .. Len(delay_list) /\ i + 1 \in 1 .. Len(delay_list) /\ i < i + 1
      BY <1>1
    <2>2. Away[delay_list[i]] <= Away[delay_list[i + 1]]
      BY <2>1 DEF DelaySorted, Sorted
    <2>3. /\ deadline[delay_list[i]] \in Tick /\ LastTick \in Tick
          /\ Away[delay_list[i]] = Minus(deadline[delay_list[i]], LastTick)
          /\ Away[delay_list[i]] < Half
      BY <1>2, <2>1
    <2>4. /\ deadline[delay_list[i + 1]] \in Tick
          /\ Away[delay_list[i + 1]] = Minus(deadline[delay_list[i + 1]], LastTick)
          /\ Away[delay_list[i + 1]] < Half
      BY <1>2, <2>1
    <2> QED BY <2>2, <2>3, <2>4, Compare
  <1>4. ~ticking => \A i \in 1 .. Len(delay_list) :
                       Minus(deadline[delay_list[i]], tick_count) <= MaxTimeout
    BY <1>2 DEF LastTick
  <1> QED BY <1>3, <1>4 DEF DelayInOrder

\* The delay list stays in deadline order for ever, across every wrap of the
\* counter, if no timeout reaches half its range; run kernel_long shows what
\* longer ones do.
THEOREM DeadlinesInOrder ==
    ASSUME MaxTimeout < Half
    PROVE  Spec => []DelayInOrder
  <1>1. IInv /\ IInv' /\ DelaySorted /\ [Next]_kernelVars => DelaySorted'
    BY NextSorted
  <1>2. IInv /\ DelaySorted => DelayInOrder
    BY SortedIsInOrder
  <1> QED BY <1>1, <1>2, InitSorted, Invariance, PTL DEF Spec

-----------------------------------------------------------------------------
(* What a timeout promises: the refinement of module Timeouts *)

\* A task that has timed out and not noticed yet waits for the processor, and
\* the loop of tick_isr goes on exactly as long as somebody is due.
TimeoutInv ==
    /\ DelaySorted
    /\ \A t \in Tasks : timed_out[t] => state[t] = "Ready"
    /\ ticking => Due(delay_list, tick_count)

\* If the first of a sorted list is not due, nobody in it is.
LEMMA NobodyDue ==
    ASSUME MaxTimeout < Half, NEW s \in Seq(Tasks), NEW d \in [Tasks -> Tick], NEW now \in Tick,
           Sorted(s, [t \in Tasks |-> Minus(d[t], now)]),
           s # <<>> => ~deadline_le(d[Head(s)], now),
           NEW u \in Tasks, Contains(s, u)
    PROVE  ~deadline_le(d[u], now) /\ d[u] # now
  <1> DEFINE away == [t \in Tasks |-> Minus(d[t], now)]
             h == Head(s)
  <1>1. PICK i \in 1 .. Len(s) : s[i] = u
    BY DEF Contains
  <1>2. Len(s) \in Nat /\ s # <<>>
    BY <1>1, NonEmpty
  <1>3. h \in Tasks /\ h = s[1] /\ 1 \in 1 .. Len(s)
    BY <1>1, <1>2, HeadTailProperties, ElementOfSeq
  <1>4. d[h] \in Tick /\ d[u] \in Tick /\ away[h] = Minus(d[h], now) /\ away[u] = Minus(d[u], now)
    BY <1>3
  <1> HIDE DEF h, away
  <1>5. away[u] <= MaxTimeout
    BY <1>1 DEF Sorted, away
  <1>6. i # 1 => away[h] <= away[u]
    BY <1>1, <1>2, <1>3 DEF Sorted, away
  <1>7. i = 1 => h = u
    BY <1>1, <1>3
  <1>8. ~deadline_le(d[h], now)
    BY <1>2 DEF h
  <1>9. /\ Minus(d[h], now) \in Tick /\ Minus(d[u], now) \in Tick
        /\ d[u] = now => Minus(d[u], now) = 0
    BY <1>4, MinusType, NextTick
  <1>10. /\ Minus(d[h], now) \in Int /\ Minus(d[h], now) >= 0
         /\ Minus(d[u], now) \in Int /\ Minus(d[u], now) >= 0
         /\ MaxTimeout \in Int /\ Half \in Int
    BY <1>9, MinusType, KernelAssumption
  <1>11. Minus(d[h], now) >= 1
    BY <1>8, <1>10 DEF deadline_le
  <1>12. Minus(d[u], now) >= 1 /\ Minus(d[u], now) < Half
    <2>1. Minus(d[u], now) <= MaxTimeout
      BY <1>4, <1>5
    <2>2. CASE i = 1
      BY <1>7, <1>10, <1>11, <2>1, <2>2
    <2>3. CASE i # 1
      BY <1>4, <1>6, <1>10, <1>11, <2>1, <2>3
    <2> QED BY <2>2, <2>3
  <1> QED BY <1>9, <1>10, <1>12 DEF deadline_le

\* What the comparison with the tick counter says of a node that is at most
\* MaxTimeout ticks ahead of the last one
LEMMA DueArithmetic ==
    ASSUME MaxTimeout < Half, NEW a \in Tick, NEW b \in Tick, Minus(a, b) <= MaxTimeout
    PROVE  /\ deadline_le(a, Plus(b, 1)) <=> Minus(a, b) \in {0, 1}
           /\ ~deadline_le(a, Plus(b, 1)) => Minus(a, Plus(b, 1)) = Minus(a, b) - 1
           /\ deadline_le(a, Plus(b, 1)) => Minus(Plus(b, 1), a) \in {0, 1}
           /\ a = Plus(b, 1) => deadline_le(a, Plus(b, 1))
           /\ a = b <=> Minus(a, b) = 0
           /\ Minus(a, b) \in Nat
  BY KernelAssumption DEF deadline_le, Plus, Minus, Tick, Modulus

\* At first nobody waits.
LEMMA InitTimeoutInv == Init => TimeoutInv
  <1> SUFFICES ASSUME Init PROVE TimeoutInv
    OBVIOUS
  <1>1. ~ticking /\ \A t \in Tasks : ~timed_out[t]
    BY DEF Init
  <1> QED BY <1>1, InitSorted DEF TimeoutInv

\* A step of the scheduler other than the wakeup of tick_isr marks nobody.
LEMMA NextTimeoutInv ==
    ASSUME MaxTimeout < Half
    PROVE  IInv /\ IInv' /\ TimeoutInv /\ [Next]_kernelVars => TimeoutInv'
  <1> SUFFICES ASSUME IInv, IInv', TimeoutInv, [Next]_kernelVars PROVE TimeoutInv'
    OBVIOUS
  <1>1. DelaySorted'
    BY NextSorted DEF TimeoutInv
  <1>2. TypeOK /\ timed_out \in [Tasks -> BOOLEAN] /\ state \in [Tasks -> {"Created", "Ready", "Running", "Blocked"}]
    BY DEF IInv, TypeOK
  <1>3. ASSUME NEW t \in Tasks, state[t] # "Ready" \/ ~timed_out'[t], NEW x,
               state' = [state EXCEPT ![t] = x],
               timed_out' = timed_out \/ timed_out' = [timed_out EXCEPT ![t] = FALSE],
               UNCHANGED ticking, ~ticking
        PROVE  TimeoutInv'
    BY <1>1, <1>2, <1>3 DEF TimeoutInv
  <1>4. CASE RunOne \/ Scan
    <2>1. PICK p \in Priority : ready_lists[p] # <<>> /\ Resume(p) /\ ~ticking
      BY <1>4 DEF RunOne, Scan, FirstReady, Proceeds
    <2>2. Head(ready_lists[p]) \in Tasks
      BY <2>1, ResumeStep
    <2>3. /\ UNCHANGED ticking /\ state' = [state EXCEPT ![Head(ready_lists[p])] = "Running"]
          /\ timed_out' = [timed_out EXCEPT ![Head(ready_lists[p])] = FALSE]
      BY <2>1 DEF Resume
    <2> QED BY <1>2, <1>3, <2>1, <2>2, <2>3
  <1>5. CASE UNCHANGED kernelVars \/ PendSV \/ ScanEmpty \/ Return \/ TickIsr
    <2>1. UNCHANGED <<state, timed_out>>
      BY <1>5 DEF kernelVars, PendSV, ScanEmpty, Return, TickIsr, nodes
    <2>2. ticking' => Due(delay_list, tick_count)'
      <3>1. CASE TickIsr
        BY <3>1 DEF TickIsr, lists, nodes, Due
      <3>2. CASE ~TickIsr
        <4>1. UNCHANGED <<ticking, delay_list, deadline, tick_count>>
          BY <1>5, <3>2 DEF kernelVars, PendSV, ScanEmpty, Return, lists, nodes
        <4> QED BY <4>1 DEF TimeoutInv, Due
      <3> QED BY <3>1, <3>2
    <2> QED BY <1>1, <2>1, <2>2 DEF TimeoutInv
  <1>6. ASSUME NEW t \in Tasks, NEW p \in 0 .. NUM_PRIORITIES, Start(t, p) PROVE TimeoutInv'
    <2>1. state[t] # "Ready" /\ ~ticking /\ UNCHANGED <<timed_out, ticking>>
      BY <1>6 DEF Start, Proceeds, nodes
    <2>2. state' = [state EXCEPT ![t] = "Ready"]
      BY <1>6, <2>1 DEF Start, MakeReady
    <2> QED BY <1>3, <2>1, <2>2
  <1>7. ASSUME NEW l \in Lists, NEW t \in Tasks, WakeWaiter(l, t) PROVE TimeoutInv'
    <2>1. state[t] = "Blocked" /\ ~ticking /\ UNCHANGED ticking
      BY <1>7, Waiting DEF WakeWaiter, IInv, Interrupts
    <2>2. /\ state' = [state EXCEPT ![t] = "Ready"]
          /\ timed_out' = [timed_out EXCEPT ![t] = FALSE]
      BY <1>7, <2>1 DEF WakeWaiter, Wake, MakeReady
    <2> QED BY <1>3, <2>1, <2>2
  <1>8. CASE TickWake
    <2> DEFINE h == Head(delay_list)
    <2>1. h \in Tasks /\ state[h] = "Blocked"
      BY <1>8, Waiting DEF TickWake, IInv, TickLoop
    <2>2. /\ state' = [state EXCEPT ![h] = "Ready"]
          /\ timed_out' = [timed_out EXCEPT ![h] = TRUE]
      BY <1>8, <2>1 DEF TickWake, Wake, MakeReady
    <2>3. ticking' => Due(delay_list, tick_count)'
      BY <1>8 DEF TickWake, Due
    <2> HIDE DEF h
    <2> QED BY <1>1, <1>2, <2>1, <2>2, <2>3 DEF TimeoutInv
  <1>9. CASE \/ \E n \in 0 .. MaxTimeout : Sleep(n)
             \/ \E l \in Lists, n \in Timeouts : Block(l, n)
    <2>1. current \in Tasks /\ state[current] = "Running" /\ ~ticking
      BY <1>9, Executes DEF Sleep, Block, Executing, Proceeds
    <2>2. /\ UNCHANGED ticking /\ state' = [state EXCEPT ![current] = "Blocked"]
          /\ timed_out' = [timed_out EXCEPT ![current] = FALSE]
      BY <1>9 DEF Sleep, Block, BlockCurrent
    <2> QED BY <1>3, <2>1, <2>2
  <1>10. CASE Yield \/ Finish
    <2>1. current \in Tasks /\ state[current] = "Running" /\ ~ticking
      BY <1>10, Executes DEF Yield, Finish, Executing, Proceeds
    <2>2. UNCHANGED <<timed_out, ticking>>
      BY <1>10 DEF Yield, Finish, nodes
    <2>3. PICK x : state' = [state EXCEPT ![current] = x]
      BY <1>10, <2>1 DEF Yield, Finish, MakeReady
    <2> QED BY <1>3, <2>1, <2>2, <2>3
  <1> QED BY <1>4, <1>5, <1>6, <1>7, <1>8, <1>9, <1>10 DEF Next, Dispatch, Background

\* Between two interrupts nobody is due.
LEMMA NobodyExpired ==
    ASSUME TypeOK, ~ticking
    PROVE  \A t \in Tasks : TicksLeft(t) # 0
  <1>1. ASSUME NEW t \in Tasks, deadline[t] # tick_count
        PROVE  Minus(deadline[t], tick_count) # 0
    <2>1. deadline[t] \in Tick /\ tick_count \in Tick
      BY DEF TypeOK
    <2> QED BY <1>1, <2>1, NextTick
  <1> QED BY <1>1 DEF TicksLeft

\* What the node of a task says as long as neither it nor the time moves
LEMMA LeftStays ==
    ASSUME NEW u \in Tasks, Contains(delay_list', u) <=> Contains(delay_list, u),
           Contains(delay_list, u) => deadline'[u] = deadline[u],
           UNCHANGED <<tick_count, ticking>>
    PROVE  TicksLeft(u)' = TicksLeft(u)
  <1>1. CASE ~Contains(delay_list, u)
    BY <1>1 DEF TicksLeft
  <1>2. CASE Contains(delay_list, u)
    BY <1>2 DEF TicksLeft, deadline_le, Minus
  <1> QED BY <1>1, <1>2

\* How a step of the scheduler shows in the state of module Timeouts
LEMMA ShowsStutter ==
    ASSUME UNCHANGED timed_out, \A u \in Tasks : TicksLeft(u)' = TicksLeft(u)
    PROVE  UNCHANGED Promise!vars
  <1>1. [u \in Tasks |-> TicksLeft(u)]' = [u \in Tasks |-> TicksLeft(u)]
    OBVIOUS
  <1> QED BY <1>1 DEF Promise!vars

LEMMA ShowsCancel ==
    ASSUME TypeOK, ~ticking, UNCHANGED timed_out, NEW t \in Tasks,
           TicksLeft(t) # -1, TicksLeft(t)' = -1,
           \A u \in Tasks : u # t => TicksLeft(u)' = TicksLeft(u)
    PROVE  Promise!Next
  <1>1. Promise!NoneExpired
    BY NobodyExpired DEF Promise!NoneExpired
  <1>2. Promise!Cancel(t)
    BY <1>1 DEF Promise!Cancel, Promise!Off
  <1> QED BY <1>2 DEF Promise!Next

LEMMA ShowsArm ==
    ASSUME TypeOK, ~ticking, UNCHANGED timed_out, NEW t \in Tasks, ~timed_out[t],
           TicksLeft(t) = -1, NEW n \in 0 .. MaxTimeout,
           TicksLeft(t)' = IF n = 0 THEN 1 ELSE n,
           \A u \in Tasks : u # t => TicksLeft(u)' = TicksLeft(u)
    PROVE  Promise!Next
  <1>1. Promise!NoneExpired
    BY NobodyExpired DEF Promise!NoneExpired
  <1>2. Promise!Arm(t, n)
    BY <1>1 DEF Promise!Arm, Promise!Off
  <1> QED BY <1>2 DEF Promise!Next

LEMMA ShowsCollect ==
    ASSUME TypeOK, ~ticking, NEW t \in Tasks, timed_out' = [timed_out EXCEPT ![t] = FALSE],
           \A u \in Tasks : TicksLeft(u)' = TicksLeft(u)
    PROVE  [Promise!Next]_(Promise!vars)
  <1>1. CASE timed_out[t]
    <2>1. Promise!NoneExpired
      BY NobodyExpired DEF Promise!NoneExpired
    <2>2. Promise!Collect(t)
      BY <1>1, <2>1 DEF Promise!Collect
    <2> QED BY <2>2 DEF Promise!Next
  <1>2. CASE ~timed_out[t]
    <2>1. UNCHANGED timed_out
      BY <1>2 DEF TypeOK
    <2> QED BY <2>1, ShowsStutter
  <1> QED BY <1>1, <1>2

LEMMA ShowsExpire ==
    ASSUME NEW t \in Tasks, timed_out' = [timed_out EXCEPT ![t] = TRUE],
           TicksLeft(t) = 0, TicksLeft(t)' = -1,
           \A u \in Tasks : u # t => TicksLeft(u)' = TicksLeft(u)
    PROVE  Promise!Next
  <1>1. Promise!Expire(t)
    BY DEF Promise!Expire, Promise!Off
  <1> QED BY <1>1 DEF Promise!Next

LEMMA ShowsTick ==
    ASSUME TypeOK, ~ticking, UNCHANGED timed_out,
           \A u \in Tasks : TicksLeft(u)' = IF TicksLeft(u) = -1 THEN -1 ELSE TicksLeft(u) - 1
    PROVE  Promise!Next
  <1>1. Promise!NoneExpired
    BY NobodyExpired DEF Promise!NoneExpired
  <1>2. Promise!Tick
    BY <1>1 DEF Promise!Tick, Promise!Off
  <1> QED BY <1>2 DEF Promise!Next

\* A node in the delay list seen from the last tick that has been dealt with
LEMMA LeftOf ==
    ASSUME MaxTimeout < Half, TypeOK, DelaySorted, NEW u \in Tasks, Contains(delay_list, u)
    PROVE  /\ Away[u] \in Nat /\ Away[u] <= MaxTimeout
           /\ TicksLeft(u) = IF ticking THEN IF Away[u] <= 1 THEN 0 ELSE Away[u] - 1
                             ELSE IF Away[u] = 0 THEN 1 ELSE Away[u]
           /\ ticking => (deadline_le(deadline[u], tick_count) <=> Away[u] \in {0, 1})
           /\ ticking /\ deadline_le(deadline[u], tick_count) =>
                 Minus(tick_count, deadline[u]) \in {0, 1}
  <1>1. /\ deadline[u] \in Tick /\ tick_count \in Tick /\ LastTick \in Tick
        /\ Away[u] = Minus(deadline[u], LastTick)
    BY AwayType DEF TypeOK, Away
  <1>2. Away[u] <= MaxTimeout
    BY DEF DelaySorted, Sorted, Contains
  <1>3. /\ deadline[u] = LastTick <=> Away[u] = 0
        /\ Away[u] \in Nat
        /\ deadline_le(deadline[u], Plus(LastTick, 1)) <=> Away[u] \in {0, 1}
        /\ ~deadline_le(deadline[u], Plus(LastTick, 1)) =>
              Minus(deadline[u], Plus(LastTick, 1)) = Away[u] - 1
        /\ deadline_le(deadline[u], Plus(LastTick, 1)) =>
              Minus(Plus(LastTick, 1), deadline[u]) \in {0, 1}
    BY <1>1, <1>2, DueArithmetic
  <1>4. CASE ticking
    <2>1. tick_count = Plus(LastTick, 1)
      BY <1>1, <1>4, NextTick DEF LastTick
    <2>2. /\ deadline_le(deadline[u], tick_count) <=> Away[u] \in {0, 1}
          /\ ~deadline_le(deadline[u], tick_count) => Minus(deadline[u], tick_count) = Away[u] - 1
          /\ deadline_le(deadline[u], tick_count) => Minus(tick_count, deadline[u]) \in {0, 1}
      BY <1>3, <2>1
    <2>3. TicksLeft(u) = IF deadline_le(deadline[u], tick_count) THEN 0
                         ELSE Minus(deadline[u], tick_count)
      BY <1>4 DEF TicksLeft
    <2>4. TicksLeft(u) = IF Away[u] <= 1 THEN 0 ELSE Away[u] - 1
      BY <1>3, <2>2, <2>3
    <2> QED BY <1>2, <1>3, <1>4, <2>2, <2>4
  <1>5. CASE ~ticking
    <2>1. LastTick = tick_count
      BY <1>5 DEF LastTick
    <2>2. TicksLeft(u) = IF deadline[u] = tick_count THEN 1 ELSE Minus(deadline[u], tick_count)
      BY <1>5 DEF TicksLeft
    <2> QED BY <1>1, <1>2, <1>3, <1>5, <2>1, <2>2
  <1> QED BY <1>4, <1>5

\* After a tick without a wakeup to come, nobody who is left is due.
LEMMA NobodyLeft ==
    ASSUME MaxTimeout < Half, TypeOK', DelaySorted', ~ticking',
           ~Due(delay_list, tick_count)', NEW u \in Tasks, Contains(delay_list', u)
    PROVE  ~deadline_le(deadline'[u], tick_count') /\ deadline'[u] # tick_count'
  <1>1. /\ delay_list' \in Seq(Tasks) /\ tick_count' \in Tick /\ deadline' \in [Tasks -> Tick]
    BY DEF TypeOK
  <1>2. LastTick' = tick_count'
    BY DEF LastTick
  <1>3. Sorted(delay_list', [t \in Tasks |-> Minus(deadline'[t], tick_count')])
    <2>1. Away' = [t \in Tasks |-> Minus(deadline'[t], tick_count')]
      BY <1>2 DEF Away, Minus
    <2>2. Sorted(delay_list', Away')
      BY DEF DelaySorted, Sorted
    <2> QED BY <2>1, <2>2
  <1>4. delay_list' # <<>> => ~deadline_le(deadline'[Head(delay_list')], tick_count')
    BY DEF Due, deadline_le, Minus
  <1> DEFINE s == delay_list'
             d == deadline'
             now == tick_count'
  <1>5. /\ s \in Seq(Tasks) /\ d \in [Tasks -> Tick] /\ now \in Tick /\ Contains(s, u)
        /\ Sorted(s, [t \in Tasks |-> Minus(d[t], now)])
        /\ s # <<>> => ~deadline_le(d[Head(s)], now)
    BY <1>1, <1>3, <1>4
  <1> HIDE DEF s, d, now
  <1>6. ~deadline_le(d[u], now) /\ d[u] # now
    BY <1>5, NobodyDue
  <1> QED BY <1>6 DEF s, d, now

\* Counting the tick brings everybody one tick nearer.
LEMMA TickIsrShows ==
    ASSUME MaxTimeout < Half, IInv, IInv', TimeoutInv, TimeoutInv', TickIsr
    PROVE  Promise!Next
  <1>1. /\ ~ticking /\ UNCHANGED <<delay_list, deadline, timed_out>>
        /\ tick_count' = Plus(tick_count, 1)
        /\ ticking' = Due(delay_list, tick_count)'
    BY DEF TickIsr, Interrupts, lists, nodes, Due
  <1>2. TypeOK /\ TypeOK' /\ DelaySorted /\ DelaySorted' /\ LastTick = tick_count
    BY <1>1 DEF IInv, TimeoutInv, LastTick
  <1>3. ASSUME NEW u \in Tasks
        PROVE  TicksLeft(u)' = IF TicksLeft(u) = -1 THEN -1 ELSE TicksLeft(u) - 1
    <2>1. CASE ~Contains(delay_list, u)
      BY <1>1, <2>1 DEF TicksLeft
    <2>2. CASE Contains(delay_list, u)
      <3>1. /\ Away[u] \in Nat /\ Away[u] <= MaxTimeout
            /\ TicksLeft(u) = IF Away[u] = 0 THEN 1 ELSE Away[u]
        BY <1>1, <1>2, <2>2, LeftOf
      <3>2. /\ deadline[u] \in Tick /\ tick_count \in Tick /\ Away[u] = Minus(deadline[u], tick_count)
        BY <1>2 DEF TypeOK, Away
      <3>3. /\ deadline_le(deadline[u], tick_count') <=> Away[u] \in {0, 1}
            /\ ~deadline_le(deadline[u], tick_count') => Minus(deadline[u], tick_count') = Away[u] - 1
            /\ deadline[u] = tick_count' => deadline_le(deadline[u], tick_count')
        BY <1>1, <3>1, <3>2, DueArithmetic
      <3>4. CASE ticking'
        <4>1. TicksLeft(u)' = IF deadline_le(deadline[u], tick_count') THEN 0
                              ELSE Minus(deadline[u], tick_count')
          BY <1>1, <2>2, <3>4 DEF TicksLeft, deadline_le, Minus
        <4> QED BY <3>1, <3>3, <4>1
      <3>5. CASE ~ticking'
        <4>1. ~deadline_le(deadline[u], tick_count') /\ deadline[u] # tick_count'
          BY <1>1, <1>2, <2>2, <3>5, NobodyLeft
        <4>2. TicksLeft(u)' = Minus(deadline[u], tick_count')
          BY <1>1, <2>2, <3>5, <4>1 DEF TicksLeft, Minus
        <4> QED BY <3>1, <3>3, <4>1, <4>2
      <3> QED BY <3>4, <3>5
    <2> QED BY <2>1, <2>2
  <1> QED BY <1>1, <1>2, <1>3, ShowsTick

\* The loop of tick_isr takes out the first node, which is due, and ends when
\* nobody else is.
LEMMA TickWakeShows ==
    ASSUME MaxTimeout < Half, IInv, IInv', TimeoutInv, TimeoutInv', TickWake
    PROVE  Promise!Next
  <1>0. PICK h : h = Head(delay_list)
    OBVIOUS
  <1>1. /\ ticking /\ UNCHANGED <<deadline, tick_count>>
        /\ ticking' = Due(delay_list, tick_count)'
        /\ delay_list' = Unlink(delay_list, h) /\ timed_out' = [timed_out EXCEPT ![h] = TRUE]
    BY <1>0 DEF TickWake, Wake, Due
  <1>2. /\ h \in Tasks /\ Contains(delay_list, h)
        /\ delay_list \in Seq(Tasks) /\ NoRepeat(delay_list)
    BY <1>0, <1>1, PopFrontProperties DEF IInv, TypeOK, TickLoop, BlockedAgree
  <1>3. \A u \in Tasks : Contains(delay_list', u) <=> (Contains(delay_list, u) /\ u # h)
    BY <1>1, <1>2, UnlinkProperties
  <1>4. TicksLeft(h) = 0 /\ TicksLeft(h)' = -1
    <2>1. deadline_le(deadline[h], tick_count)
      BY <1>0, <1>1 DEF TimeoutInv, Due
    <2> QED BY <1>1, <1>2, <1>3, <2>1 DEF TicksLeft
  <1>5. ASSUME NEW u \in Tasks, u # h
        PROVE  TicksLeft(u)' = TicksLeft(u)
    <2>1. CASE ~Contains(delay_list, u) \/ ticking'
      <3>1. Contains(delay_list', u) <=> Contains(delay_list, u)
        BY <1>3, <1>5
      <3>2. CASE ~Contains(delay_list, u)
        BY <3>1, <3>2 DEF TicksLeft
      <3>3. CASE ticking'
        <4>1. UNCHANGED ticking
          BY <1>1, <3>3
        <4> QED BY <1>1, <3>1, <4>1, LeftStays
      <3> QED BY <2>1, <3>2, <3>3
    <2>2. CASE Contains(delay_list, u) /\ ~ticking'
      <3>1. Contains(delay_list', u)
        BY <1>3, <1>5, <2>2
      <3>2. ~deadline_le(deadline'[u], tick_count') /\ deadline'[u] # tick_count'
        BY <1>1, <2>2, <3>1, NobodyLeft DEF IInv, TimeoutInv
      <3>3. TicksLeft(u) = Minus(deadline[u], tick_count)
        BY <1>1, <2>2, <3>2 DEF TicksLeft
      <3>4. TicksLeft(u)' = Minus(deadline[u], tick_count)
        BY <1>1, <2>2, <3>1, <3>2 DEF TicksLeft, Minus
      <3> QED BY <3>3, <3>4
    <2> QED BY <2>1, <2>2
  <1> QED BY <1>1, <1>2, <1>4, <1>5, ShowsExpire

\* A timeout begins with the wait: the node is put into the delay list.
LEMMA InsertShows ==
    ASSUME MaxTimeout < Half, IInv, IInv', TimeoutInv, TimeoutInv', ~ticking,
           UNCHANGED <<ticking, tick_count>>, NEW t \in Tasks, state[t] = "Running",
           timed_out' = [timed_out EXCEPT ![t] = FALSE],
           NEW n \in 0 .. MaxTimeout, DelayInsert(t, Plus(tick_count, n))
    PROVE  Promise!Next
  <1>1. /\ TypeOK /\ delay_list \in Seq(Tasks) /\ deadline \in [Tasks -> Tick]
        /\ tick_count \in Tick /\ ~timed_out[t] /\ UNCHANGED timed_out
    BY DEF IInv, TypeOK, TimeoutInv
  <1>2. ~Contains(delay_list, t)
    BY DEF IInv, BlockedAgree
  <1>3. PICK k \in 1 .. Len(delay_list) + 1 : delay_list' = InsertAt(delay_list, k, t)
    BY DEF DelayInsert
  <1>4. \A u \in Tasks : Contains(delay_list', u) <=> (Contains(delay_list, u) \/ u = t)
    BY <1>1, <1>3, InsertBeforeProperties
  <1>5. deadline' = [deadline EXCEPT ![t] = Plus(tick_count, n)]
    BY DEF DelayInsert
  <1>6. ASSUME NEW u \in Tasks, u # t PROVE TicksLeft(u)' = TicksLeft(u)
    <2>1. /\ Contains(delay_list', u) <=> Contains(delay_list, u)
          /\ deadline'[u] = deadline[u]
      BY <1>1, <1>4, <1>5, <1>6
    <2> QED BY <2>1, LeftStays
  <1>7. TicksLeft(t) = -1
    BY <1>2 DEF TicksLeft
  <1>8. TicksLeft(t)' = IF n = 0 THEN 1 ELSE n
    <2>1. /\ Plus(tick_count, n) \in Tick /\ Minus(Plus(tick_count, n), tick_count) = n
          /\ Plus(tick_count, n) = tick_count <=> Minus(Plus(tick_count, n), tick_count) = 0
      BY <1>1, Ahead, NextTick
    <2>2. Contains(delay_list', t) /\ deadline'[t] = Plus(tick_count, n)
      BY <1>1, <1>4, <1>5
    <2>3. TicksLeft(t)' = IF deadline'[t] = tick_count THEN 1 ELSE Minus(deadline'[t], tick_count)
      BY <2>2 DEF TicksLeft, Minus
    <2> QED BY <2>1, <2>2, <2>3
  <1> QED BY <1>1, <1>6, <1>7, <1>8, ShowsArm

\* An event that comes before the tick cancels the timeout.
LEMMA WakeWaiterShows ==
    ASSUME MaxTimeout < Half, IInv, IInv', TimeoutInv, TimeoutInv',
           NEW l \in Lists, NEW t \in Tasks, WakeWaiter(l, t)
    PROVE  [Promise!Next]_(Promise!vars)
  <1>1. /\ ~ticking /\ UNCHANGED <<ticking, tick_count, deadline>>
        /\ delay_list' = Unlink(delay_list, t) /\ timed_out' = [timed_out EXCEPT ![t] = FALSE]
    BY DEF WakeWaiter, Interrupts, Wake
  <1>2. TypeOK /\ state[t] = "Blocked" /\ delay_list \in Seq(Tasks) /\ NoRepeat(delay_list)
    BY Waiting DEF IInv, TypeOK, WakeWaiter, BlockedAgree
  <1>3. UNCHANGED timed_out
    BY <1>1, <1>2 DEF TypeOK, TimeoutInv
  <1>4. \A u \in Tasks : Contains(delay_list', u) <=> (Contains(delay_list, u) /\ u # t)
    BY <1>1, <1>2, UnlinkProperties
  <1>5. \A u \in Tasks : u # t => TicksLeft(u)' = TicksLeft(u)
    BY <1>1, <1>4, LeftStays
  <1>6. TicksLeft(t)' = -1
    BY <1>4 DEF TicksLeft
  <1>7. CASE Contains(delay_list, t)
    <2>1. TicksLeft(t) # -1
      BY <1>1, <1>2, <1>7, LeftOf DEF TimeoutInv
    <2> QED BY <1>1, <1>2, <1>3, <1>5, <1>6, <2>1, ShowsCancel
  <1>8. CASE ~Contains(delay_list, t)
    <2>1. TicksLeft(t) = -1
      BY <1>8 DEF TicksLeft
    <2> QED BY <1>3, <1>5, <1>6, <2>1, ShowsStutter
  <1> QED BY <1>7, <1>8

\* A task that gets the processor learns how its wait has ended.
LEMMA DispatchShows ==
    ASSUME MaxTimeout < Half, IInv, IInv', RunOne \/ Scan
    PROVE  [Promise!Next]_(Promise!vars)
  <1>1. PICK p \in Priority : ready_lists[p] # <<>> /\ Resume(p) /\ ~ticking
    BY DEF RunOne, Scan, FirstReady, Proceeds
  <1>2. PICK t \in Tasks : t = Head(ready_lists[p]) /\ state[t] = "Ready"
    BY <1>1, ResumeStep
  <1>3. /\ UNCHANGED <<ticking, tick_count, delay_list>>
        /\ deadline' = [deadline EXCEPT ![t] = 0]
        /\ timed_out' = [timed_out EXCEPT ![t] = FALSE]
    BY <1>1, <1>2 DEF Resume
  <1>4. ASSUME NEW u \in Tasks PROVE TicksLeft(u)' = TicksLeft(u)
    <2>1. Contains(delay_list, u) => u # t
      BY <1>2 DEF IInv, BlockedAgree
    <2>2. /\ Contains(delay_list', u) <=> Contains(delay_list, u)
          /\ Contains(delay_list, u) => deadline'[u] = deadline[u]
      BY <1>3, <2>1 DEF IInv, TypeOK
    <2> QED BY <1>3, <2>2, LeftStays
  <1> QED BY <1>1, <1>3, <1>4, ShowsCollect DEF IInv

\* Every step of the scheduler is a step of module Timeouts, or none there.
LEMMA NextShows ==
    ASSUME MaxTimeout < Half
    PROVE  IInv /\ IInv' /\ TimeoutInv /\ TimeoutInv' /\ [Next]_kernelVars
              => [Promise!Next]_(Promise!vars)
  <1> SUFFICES ASSUME IInv, IInv', TimeoutInv, TimeoutInv', [Next]_kernelVars
               PROVE  [Promise!Next]_(Promise!vars)
    OBVIOUS
  <1>1. ASSUME UNCHANGED <<ticking, tick_count, delay_list, deadline, timed_out>>
        PROVE  [Promise!Next]_(Promise!vars)
    <2>1. \A u \in Tasks : TicksLeft(u)' = TicksLeft(u)
      BY <1>1, LeftStays
    <2> QED BY <1>1, <2>1, ShowsStutter
  <1>2. CASE \/ UNCHANGED kernelVars \/ PendSV \/ ScanEmpty \/ Return \/ Yield \/ Finish
             \/ \E t \in Tasks, p \in 0 .. NUM_PRIORITIES : Start(t, p)
    <2>1. UNCHANGED <<ticking, tick_count, delay_list, deadline, timed_out>>
      BY <1>2 DEF kernelVars, PendSV, ScanEmpty, Return, Yield, Finish, Start, lists, nodes, cpu
    <2> QED BY <1>1, <2>1
  <1>3. ASSUME NEW n \in Timeouts,
               \/ n # 0 /\ n # NoTimeout /\ Sleep(n)
               \/ \E l \in Lists : Block(l, n)
        PROVE  [Promise!Next]_(Promise!vars)
    <2>1. PICK t \in Tasks : t = current /\ state[t] = "Running" /\ ~ticking
      BY <1>3, Executes DEF Sleep, Block, Executing, Proceeds
    <2>2. /\ UNCHANGED <<ticking, tick_count>> /\ timed_out' = [timed_out EXCEPT ![t] = FALSE]
          /\ IF n = NoTimeout THEN UNCHANGED <<deadline, delay_list>>
             ELSE DelayInsert(t, Plus(tick_count, n))
      BY <1>3, <2>1 DEF Sleep, Block, BlockCurrent
    <2>3. CASE n = NoTimeout
      <3>1. UNCHANGED timed_out
        BY <2>1, <2>2 DEF TimeoutInv, IInv, TypeOK
      <3> QED BY <1>1, <2>2, <2>3, <3>1
    <2>4. CASE n # NoTimeout
      <3>1. n \in 0 .. MaxTimeout
        BY <2>4 DEF Timeouts
      <3> QED BY <2>1, <2>2, <2>4, <3>1, InsertShows
    <2> QED BY <2>3, <2>4
  <1>4. ASSUME NEW n \in 0 .. MaxTimeout, Sleep(n)
        PROVE  [Promise!Next]_(Promise!vars)
    <2>1. n \in Timeouts /\ n # 0 /\ n # NoTimeout
      BY <1>4 DEF Sleep, Timeouts, NoTimeout
    <2> QED BY <1>3, <1>4, <2>1
  <1>5. ASSUME NEW l \in Lists, NEW n \in Timeouts, Block(l, n)
        PROVE  [Promise!Next]_(Promise!vars)
    BY <1>3, <1>5
  <1>6. ASSUME NEW l \in Lists, NEW t \in Tasks, WakeWaiter(l, t)
        PROVE  [Promise!Next]_(Promise!vars)
    BY <1>6, WakeWaiterShows
  <1>7. CASE TickIsr
    BY <1>7, TickIsrShows
  <1>8. CASE TickWake
    BY <1>8, TickWakeShows
  <1>9. CASE RunOne \/ Scan
    BY <1>9, DispatchShows
  <1> QED BY <1>2, <1>4, <1>5, <1>6, <1>7, <1>8, <1>9 DEF Next, Dispatch, Background

\* At first no timeout runs.
LEMMA InitShows == Init => Promise!Init
  <1> SUFFICES ASSUME Init PROVE Promise!Init
    OBVIOUS
  <1>1. \A t \in Tasks : ~Contains(delay_list, t)
    <2>1. Len(delay_list) = 0
      BY EmptySeq DEF Init
    <2> QED BY <2>1 DEF Contains
  <1>2. \A t \in Tasks : TicksLeft(t) = -1
    BY <1>1 DEF TicksLeft
  <1> QED BY <1>2 DEF Init, Promise!Init, Promise!Off

\* Sorted list, wrapping deadlines and the masked loop of tick_isr implement
\* what module Timeouts promises, for any number of tasks and lists, if no
\* timeout reaches half the range of the counter.
THEOREM TimeoutsAreKept ==
    ASSUME MaxTimeout < Half
    PROVE  Spec => KeepsTimeouts
  <1>1. IInv /\ IInv' /\ TimeoutInv /\ [Next]_kernelVars => TimeoutInv'
    BY NextTimeoutInv
  <1>2. IInv /\ IInv' /\ TimeoutInv /\ TimeoutInv' /\ [Next]_kernelVars
           => [Promise!Next]_(Promise!vars)
    BY NextShows
  <1> QED BY <1>1, <1>2, InitTimeoutInv, InitShows, Invariance, PTL
          DEF Spec, KeepsTimeouts, Promise!Spec

\* The tick that ends a wait is that of its deadline; a wait of zero ticks ends
\* one later.  Run kernel_long shows that the bound on MaxTimeout is needed.
THEOREM TimeoutsAreOnTime ==
    ASSUME MaxTimeout < Half
    PROVE  Spec => TimeoutOnTime
  <1> DEFINE OnTime == \A t \in Tasks : timed_out'[t] /\ ~timed_out[t] =>
                          Minus(tick_count, deadline[t]) \in {0, 1}
  <1>1. IInv /\ IInv' /\ TimeoutInv /\ [Next]_kernelVars => TimeoutInv'
    BY NextTimeoutInv
  <1>2. IInv /\ TimeoutInv /\ [Next]_kernelVars => [OnTime]_kernelVars
    <2> SUFFICES ASSUME IInv, TimeoutInv, [Next]_kernelVars PROVE [OnTime]_kernelVars
      OBVIOUS
    <2>0. timed_out \in [Tasks -> BOOLEAN]
      BY DEF IInv, TypeOK
    <2>1. CASE TickWake
      <3>1. PICK h \in Tasks : h = Head(delay_list) /\ Contains(delay_list, h)
        BY <2>1, PopFrontProperties DEF TickWake, IInv, TypeOK, TickLoop
      <3>2. ticking /\ timed_out' = [timed_out EXCEPT ![h] = TRUE]
        BY <2>1, <3>1 DEF TickWake, Wake
      <3>3. deadline_le(deadline[h], tick_count)
        BY <3>1, <3>2 DEF TimeoutInv, Due
      <3>4. Minus(tick_count, deadline[h]) \in {0, 1}
        BY <3>1, <3>2, <3>3, LeftOf DEF TimeoutInv, IInv
      <3> QED BY <2>0, <3>2, <3>4
    <2>2. CASE ~TickWake
      <3>1. \/ UNCHANGED timed_out
            \/ \E t : timed_out' = [timed_out EXCEPT ![t] = FALSE]
        BY <2>2 DEF Next, Dispatch, Background, kernelVars, nodes, RunOne, Scan, Resume, PendSV,
                    ScanEmpty, Return, Sleep, Yield, Finish, Start, TickIsr, Block,
                    BlockCurrent, WakeWaiter, Wake
      <3> QED BY <2>0, <3>1
    <2> QED BY <2>1, <2>2
  <1> HIDE DEF OnTime
  <1>3. Spec => [][OnTime]_kernelVars
    BY <1>1, <1>2, InitTimeoutInv, Invariance, PTL DEF Spec
  <1> QED BY <1>3 DEF TimeoutOnTime, OnTime
=============================================================================
