------------------------------- MODULE Kernel -------------------------------
(***************************************************************************)
(* The scheduler of CooRTOS (include/rtos/kernel.hpp): stackless tasks     *)
(* that leave the processor only at a co_await, ready lists by priority, a *)
(* delay list ordered by wrap-around deadlines, the tick interrupt, the    *)
(* re-entrant run_one() and the PendSV handler that runs higher-priority   *)
(* tasks on top of the interrupted one.                                    *)
(*                                                                         *)
(* One machine stack carries everything: "stack" holds the activations of  *)
(* run_one() and preempt_handler(), innermost last.  A task body is what   *)
(* happens between resume() and the next suspension; it may wake, start,   *)
(* block, yield or finish in any order, which is the most that any client  *)
(* does.  A critical section is one step.                                  *)
(***************************************************************************)
EXTENDS Integers, Sequences, FiniteSets, SequencesExt, ListOps

CONSTANTS
    Tasks,           \* the TaskPromise objects (coroutine frames)
    NoTask,          \* nullptr
    Lists,           \* the wait lists of the primitives that use the kernel
    NUM_PRIORITIES,  \* RTOS_NUM_PRIORITIES; 0 is the highest priority
    Half,            \* the sign bit of a Tick difference (2^31 in the code)
    MaxTimeout,      \* the longest interval that clients ask for
    PREEMPTIVE,      \* RTOS_PREEMPTIVE_WAKE
    ASYNC_ISR,       \* interrupts arrive between any two critical sections
                     \* (Cortex-M); FALSE: only where the program calls the
                     \* handler itself (the HOST port)
    NESTED           \* task bodies may call run_one() (sync_wait)

Modulus == 2 * Half           \* a Tick wraps here (2^32 in the code)
Tick == 0 .. Modulus - 1
Priority == 0 .. NUM_PRIORITIES - 1
NoRunningTask == 255

ASSUME KernelAssumption ==
    /\ NoTask \notin Tasks
    /\ NUM_PRIORITIES \in 1 .. 254
    /\ Half \in Nat /\ Half >= 2
    /\ MaxTimeout \in 1 .. Modulus - 1
    /\ PREEMPTIVE \in BOOLEAN /\ ASYNC_ISR \in BOOLEAN /\ NESTED \in BOOLEAN

VARIABLES
    state,         \* TaskPromise::state.  "Created" is a frame the scheduler
                   \* does not know: not started yet, or destroyed
    priority,      \* TaskPromise::priority
    ready_lists,   \* one sequence of tasks per priority
    delay_list,    \* the tasks whose WaitNode is in the delay list, in order
    wait_lists,    \* per primitive list, the tasks whose WaitNode is in it
    deadline,      \* WaitNode::deadline of the awaiter a task is suspended in
    timed_out,     \* WaitNode::timed_out of that awaiter
    tick_count,
    current,       \* kernel::current
    running_prio,  \* kernel::running_prio
    stack,         \* activations of run_one and preempt_handler
    pend,          \* the PendSV request
    ticking        \* tick_isr is in its loop (interrupts are masked)

lists == <<ready_lists, delay_list, wait_lists>>
nodes == <<deadline, timed_out>>
cpu == <<current, running_prio, stack>>
kernelVars == <<state, priority, lists, nodes, tick_count, cpu, pend, ticking>>

-----------------------------------------------------------------------------
(* Tick arithmetic *)

\* a + n on a Tick
Plus(a, n) == IF a + n < Modulus THEN a + n ELSE a + n - Modulus

\* a - b on a Tick
Minus(a, b) == IF b <= a THEN a - b ELSE a + Modulus - b

\* the difference, read as a signed integer, is not positive
deadline_le(a, b) == Minus(a, b) = 0 \/ Minus(a, b) >= Half

\* to_ticks: a duration of d units, each num/den ticks long, is rounded up; the
\* quotient is narrowed to a Tick before it is compared with the duration.
\* Every interval that clients give as a duration goes through it.
to_ticks(d, num, den) ==
    LET floor == ((d * num) \div den) % Modulus
    IN  CASE d <= 0                   -> 0
          [] d > 0 /\ floor * den < d * num    -> (floor + 1) % Modulus
          [] d > 0 /\ ~(floor * den < d * num) -> floor

-----------------------------------------------------------------------------
(* The stack *)

Activation ==
    [fn : {"run_one", "preempt_handler"},
     task : Tasks \union {NoTask},
     saved_current : Tasks \union {NoTask},
     saved_prio : Priority \union {NoRunningTask},
     pc : {"scan", "exec", "exit"}]

Top == stack[Len(stack)]
TopIs(pc) == stack # <<>> /\ Top.pc = pc

\* PendSV does not preempt itself: the active bit, preempt_active on the host.
HandlerActive ==
    \E i \in 1 .. Len(stack) : stack[i].fn = "preempt_handler"

\* The processor executes thread-level code, or the handler.  A pending
\* PendSV is taken before that code moves on.
Proceeds == ~ticking /\ (pend => HandlerActive)
Executing == Proceeds /\ TopIs("exec")

\* Where an interrupt handler, or code outside all tasks, may run: outside the
\* critical sections, each of which is one step.
Interrupts == ~ticking /\ (ASYNC_ISR \/ (Proceeds /\ (stack = <<>> \/ TopIs("exec"))))

-----------------------------------------------------------------------------
(* Lists and states of tasks *)

\* Mutant: a wakeup that forgets to request PendSV
MakeReadyWithoutPend(t, p) ==
    IF state[t] = "Ready"
    THEN UNCHANGED <<state, ready_lists, pend>>
    ELSE /\ state' = [state EXCEPT ![t] = "Ready"]
         /\ ready_lists' = [ready_lists EXCEPT ![p] = Append(@, t)]
         /\ UNCHANGED pend

\* Mutant: a task that becomes ready goes first in its list
MakeReadyAtHead(t, p) ==
    IF state[t] = "Ready"
    THEN UNCHANGED <<state, ready_lists, pend>>
    ELSE /\ state' = [state EXCEPT ![t] = "Ready"]
         /\ ready_lists' = [ready_lists EXCEPT ![p] = <<t>> \o @]
         /\ pend' = (pend \/ (PREEMPTIVE /\ running_prio # NoRunningTask
                                         /\ p < running_prio))

\* make_ready_locked, for a task of priority p
MakeReady(t, p) ==
    IF state[t] = "Ready"
    THEN UNCHANGED <<state, ready_lists, pend>>
    ELSE /\ state' = [state EXCEPT ![t] = "Ready"]
         /\ ready_lists' = [ready_lists EXCEPT ![p] = Append(@, t)]
         /\ pend' = (pend \/ (PREEMPTIVE /\ running_prio # NoRunningTask
                                         /\ p < running_prio))

\* Mutant: the node stays in the delay list
WakeKeepsTimeout(t, timedOut) ==
    /\ wait_lists' = [l \in Lists |-> Unlink(wait_lists[l], t)]
    /\ timed_out' = [timed_out EXCEPT ![t] = timedOut]
    /\ MakeReady(t, priority[t])
    /\ UNCHANGED delay_list

\* wake_locked: the node leaves both lists in the same critical section.
Wake(t, timedOut) ==
    /\ wait_lists' = [l \in Lists |-> Unlink(wait_lists[l], t)]
    /\ delay_list' = Unlink(delay_list, t)
    /\ timed_out' = [timed_out EXCEPT ![t] = timedOut]
    /\ MakeReady(t, priority[t])

\* Mutant: deadlines are compared without regard to the wrap
IsDelayPositionUnsigned(k, d) ==
    /\ k \in 1 .. Len(delay_list) + 1
    /\ \A j \in 1 .. k - 1 : deadline[delay_list[j]] <= d
    /\ k <= Len(delay_list) => deadline[delay_list[k]] > d

\* The position before the first node that is due after d.
IsDelayPosition(k, d) ==
    /\ k \in 1 .. Len(delay_list) + 1
    /\ \A j \in 1 .. k - 1 : deadline_le(deadline[delay_list[j]], d)
    /\ k <= Len(delay_list) => ~deadline_le(deadline[delay_list[k]], d)

\* delay_insert_locked
DelayInsert(t, d) ==
    /\ deadline' = [deadline EXCEPT ![t] = d]
    /\ \E k \in 1 .. Len(delay_list) + 1 :
          /\ IsDelayPosition(k, d)
          /\ delay_list' = InsertAt(delay_list, k, t)

\* The running coroutine leaves resume(): run_one() goes on to restore what
\* it saved, the handler looks for the next task.
Suspended ==
    [stack EXCEPT ![Len(stack)].pc = IF Top.fn = "run_one" THEN "exit" ELSE "scan"]

\* block_current_locked on a wait list, with a timeout or without
NoTimeout == -1
\* Mutant: the state of the task is not changed
BlockCurrentStaysRunning(l, timeout) ==
    /\ timed_out' = [timed_out EXCEPT ![current] = FALSE]
    /\ wait_lists' = [wait_lists EXCEPT ![l] = Append(@, current)]
    /\ IF timeout = -1
       THEN UNCHANGED <<deadline, delay_list>>
       ELSE DelayInsert(current, Plus(tick_count, timeout))
    /\ stack' = Suspended
    /\ UNCHANGED <<state, priority, ready_lists, tick_count, current, running_prio, pend, ticking>>

BlockCurrent(l, timeout) ==
    /\ state' = [state EXCEPT ![current] = "Blocked"]
    /\ timed_out' = [timed_out EXCEPT ![current] = FALSE]
    /\ wait_lists' = [wait_lists EXCEPT ![l] = Append(@, current)]
    /\ IF timeout = NoTimeout
       THEN UNCHANGED <<deadline, delay_list>>
       ELSE DelayInsert(current, Plus(tick_count, timeout))
    /\ stack' = Suspended
    /\ UNCHANGED <<priority, ready_lists, tick_count, current, running_prio, pend, ticking>>

-----------------------------------------------------------------------------
Init ==
    /\ state = [t \in Tasks |-> "Created"]
    /\ priority = [t \in Tasks |-> NUM_PRIORITIES - 1]
    /\ ready_lists = [p \in Priority |-> <<>>]
    /\ delay_list = <<>>
    /\ wait_lists = [l \in Lists |-> <<>>]
    /\ deadline = [t \in Tasks |-> 0]
    /\ timed_out = [t \in Tasks |-> FALSE]
    /\ tick_count = 0
    /\ current = NoTask
    /\ running_prio = NoRunningTask
    /\ stack = <<>>
    /\ pend = FALSE
    /\ ticking = FALSE

\* Mutant: the priority is not limited
StartUnlimited(t, p) ==
    /\ Proceeds /\ (stack = <<>> \/ TopIs("exec"))
    /\ state[t] = "Created"
    /\ priority' = [priority EXCEPT ![t] = p]
    /\ MakeReady(t, p)
    /\ UNCHANGED <<delay_list, wait_lists, nodes, tick_count, cpu, ticking>>

\* start: from a task or before run(), with any uint8 priority
Start(t, p) ==
    /\ Proceeds /\ (stack = <<>> \/ TopIs("exec"))
    /\ state[t] = "Created"
    /\ LET q == IF p < NUM_PRIORITIES THEN p ELSE NUM_PRIORITIES - 1
       IN  /\ priority' = [priority EXCEPT ![t] = q]
           /\ MakeReady(t, q)
    /\ UNCHANGED <<delay_list, wait_lists, nodes, tick_count, cpu, ticking>>

\* Mutant: the state of the task is not changed
ResumeStaysReady(p) ==
    LET t == Head(ready_lists[p]) IN
    /\ ready_lists' = [ready_lists EXCEPT ![p] = Tail(@)]
    /\ deadline' = [deadline EXCEPT ![t] = 0]
    /\ timed_out' = [timed_out EXCEPT ![t] = FALSE]
    /\ current' = t
    /\ running_prio' = p
    /\ UNCHANGED <<state, priority, delay_list, wait_lists, tick_count, pend, ticking>>

\* The head of list p is taken and resumed; its awaiter is destroyed.
Resume(p) ==
    LET t == Head(ready_lists[p]) IN
    /\ ready_lists' = [ready_lists EXCEPT ![p] = Tail(@)]
    /\ state' = [state EXCEPT ![t] = "Running"]
    /\ deadline' = [deadline EXCEPT ![t] = 0]
    /\ timed_out' = [timed_out EXCEPT ![t] = FALSE]
    /\ current' = t
    /\ running_prio' = p
    /\ UNCHANGED <<priority, delay_list, wait_lists, tick_count, pend, ticking>>

\* Mutant: the lists are searched from the lowest priority
LastReady(p, limit) ==
    /\ p < limit
    /\ ready_lists[p] # <<>>
    /\ \A q \in Priority : p < q /\ q < limit => ready_lists[q] = <<>>

\* p is the first priority below limit that has a ready task
FirstReady(p, limit) ==
    /\ p < limit
    /\ ready_lists[p] # <<>>
    /\ \A q \in Priority : q < p => ready_lists[q] = <<>>

\* run_one, called by run() on an empty stack or by the executing task
RunOne ==
    /\ Proceeds /\ (stack = <<>> \/ (NESTED /\ TopIs("exec")))
    /\ \E p \in Priority :
          /\ FirstReady(p, NUM_PRIORITIES)
          /\ Resume(p)
          /\ stack' = Append(stack, [fn |-> "run_one",
                                     task |-> Head(ready_lists[p]),
                                     saved_current |-> current,
                                     saved_prio |-> running_prio,
                                     pc |-> "exec"])

\* Mutant: the handler preempts itself
PendSVNested ==
    /\ ~ticking /\ pend
    /\ pend' = FALSE
    /\ stack' = Append(stack, [fn |-> "preempt_handler",
                               task |-> NoTask,
                               saved_current |-> current,
                               saved_prio |-> running_prio,
                               pc |-> "scan"])
    /\ UNCHANGED <<state, priority, lists, nodes, tick_count, current, running_prio, ticking>>

\* PendSV is taken: preempt_handler is entered
PendSV ==
    /\ ~ticking /\ pend /\ ~HandlerActive
    /\ pend' = FALSE
    /\ stack' = Append(stack, [fn |-> "preempt_handler",
                               task |-> NoTask,
                               saved_current |-> current,
                               saved_prio |-> running_prio,
                               pc |-> "scan"])
    /\ UNCHANGED <<state, priority, lists, nodes, tick_count, current, running_prio, ticking>>

\* Mutant: equal priorities preempt
ScanLimitInclusive ==
    IF Top.saved_prio < NUM_PRIORITIES THEN Top.saved_prio + 1 ELSE NUM_PRIORITIES

\* One pass of the handler's loop: only strictly higher priorities count.
ScanLimit == IF Top.saved_prio < NUM_PRIORITIES THEN Top.saved_prio ELSE NUM_PRIORITIES

Scan ==
    /\ Proceeds /\ TopIs("scan")
    /\ \E p \in Priority :
          /\ FirstReady(p, ScanLimit)
          /\ Resume(p)
          /\ stack' = [stack EXCEPT ![Len(stack)].pc = "exec",
                                    ![Len(stack)].task = Head(ready_lists[p])]

ScanEmpty ==
    /\ Proceeds /\ TopIs("scan")
    /\ \A p \in Priority : p < ScanLimit => ready_lists[p] = <<>>
    /\ stack' = [stack EXCEPT ![Len(stack)].pc = "exit"]
    /\ UNCHANGED <<state, priority, lists, nodes, tick_count, current, running_prio, pend, ticking>>

\* Mutant: current is not restored
ReturnKeepsCurrent ==
    /\ Proceeds /\ TopIs("exit")
    /\ running_prio' = Top.saved_prio
    /\ stack' = SubSeq(stack, 1, Len(stack) - 1)
    /\ UNCHANGED <<state, priority, lists, nodes, tick_count, current, pend, ticking>>

\* The end of run_one and of preempt_handler: restore and return.
Return ==
    /\ Proceeds /\ TopIs("exit")
    /\ current' = Top.saved_current
    /\ running_prio' = Top.saved_prio
    /\ stack' = SubSeq(stack, 1, Len(stack) - 1)
    /\ UNCHANGED <<state, priority, lists, nodes, tick_count, pend, ticking>>

\* A primitive blocks the executing task on one of its wait lists.
Block(l, timeout) == Executing /\ BlockCurrent(l, timeout)

\* SleepAwaiter: no wait list; zero ticks do not suspend
Sleep(ticks) ==
    /\ Executing
    /\ ticks # 0
    /\ state' = [state EXCEPT ![current] = "Blocked"]
    /\ timed_out' = [timed_out EXCEPT ![current] = FALSE]
    /\ DelayInsert(current, Plus(tick_count, ticks))
    /\ stack' = Suspended
    /\ UNCHANGED <<priority, ready_lists, wait_lists, tick_count, current, running_prio, pend, ticking>>

\* YieldAwaiter
Yield ==
    /\ Executing
    /\ MakeReady(current, priority[current])
    /\ stack' = Suspended
    /\ UNCHANGED <<priority, delay_list, wait_lists, nodes, tick_count, current, running_prio, ticking>>

\* FinalAwaiter destroys the frame; "current" dangles until Return.
Finish ==
    /\ Executing
    /\ state' = [state EXCEPT ![current] = "Created"]
    /\ priority' = [priority EXCEPT ![current] = NUM_PRIORITIES - 1]
    /\ stack' = Suspended
    /\ UNCHANGED <<lists, nodes, tick_count, current, running_prio, pend, ticking>>

\* A primitive wakes one of its waiters, from a task or from an interrupt.
WakeWaiter(l, t) ==
    /\ Interrupts
    /\ Contains(wait_lists[l], t)
    /\ Wake(t, FALSE)
    /\ UNCHANGED <<priority, deadline, tick_count, cpu, ticking>>

\* tick_isr: the loop is one TickWake per expired node, with interrupts
\* masked from the increment to the last of them.
Due(s, now) == s # <<>> /\ deadline_le(deadline[Head(s)], now)

\* Mutant: the tick is counted and nobody is woken
TickIsrOnlyCounts ==
    /\ Interrupts
    /\ tick_count' = Plus(tick_count, 1)
    /\ UNCHANGED <<state, priority, lists, nodes, cpu, pend, ticking>>

TickIsr ==
    /\ Interrupts
    /\ tick_count' = Plus(tick_count, 1)
    /\ ticking' = Due(delay_list, tick_count')
    /\ UNCHANGED <<state, priority, lists, nodes, cpu, pend>>

\* Mutant: one node is woken per tick
TickWakeOne ==
    /\ ticking
    /\ Wake(Head(delay_list), TRUE)
    /\ ticking' = FALSE
    /\ UNCHANGED <<priority, deadline, tick_count, cpu>>

TickWake ==
    /\ ticking
    /\ Wake(Head(delay_list), TRUE)
    /\ ticking' = Due(delay_list', tick_count)
    /\ UNCHANGED <<priority, deadline, tick_count, cpu>>

-----------------------------------------------------------------------------
Timeouts == {NoTimeout} \union 0 .. MaxTimeout

\* A task gets the processor; the awaiter it was suspended in ends.
Dispatch == RunOne \/ Scan

\* Whatever else happens without the primitives
Background ==
    \/ \E t \in Tasks, p \in 0 .. NUM_PRIORITIES : Start(t, p)
    \/ PendSV \/ ScanEmpty \/ Return
    \/ \E n \in 0 .. MaxTimeout : Sleep(n)
    \/ Yield
    \/ Finish
    \/ TickIsr
    \/ TickWake

Next ==
    \/ Dispatch
    \/ Background
    \/ \E l \in Lists, n \in Timeouts : Block(l, n)
    \/ \E l \in Lists, t \in Tasks : WakeWaiter(l, t)

Spec == Init /\ [][Next]_kernelVars

-----------------------------------------------------------------------------
(* Properties *)

\* Everything stays within its type: a priority names an existing ready list
\* whatever start() is given, and a tick wraps.
TypeOK ==
    /\ state \in [Tasks -> {"Created", "Ready", "Running", "Blocked"}]
    /\ priority \in [Tasks -> Priority]
    /\ ready_lists \in [Priority -> Seq(Tasks)]
    /\ delay_list \in Seq(Tasks)
    /\ wait_lists \in [Lists -> Seq(Tasks)]
    /\ deadline \in [Tasks -> Tick]
    /\ timed_out \in [Tasks -> BOOLEAN]
    /\ tick_count \in Tick
    /\ current \in Tasks \union {NoTask}
    /\ running_prio \in Priority \union {NoRunningTask}
    /\ stack \in Seq(Activation)
    /\ pend \in BOOLEAN
    /\ ticking \in BOOLEAN

\* The intrusive links agree with TaskPromise::state: a task is in the ready
\* list of its priority exactly when it is Ready, once, and in no other.
ReadyAgree ==
    /\ \A t \in Tasks, p \in Priority :
          Contains(ready_lists[p], t) <=> (state[t] = "Ready" /\ priority[t] = p)
    /\ \A p \in Priority : NoRepeat(ready_lists[p])

\* The WaitNode of a task is linked exactly when the task is Blocked, into at
\* most one wait list and once into the delay list.  So no wakeup or timeout
\* loses a waiting task, or leaves in a list a node that has died with the
\* awaiter or the frame it lived in.
BlockedAgree ==
    /\ \A t \in Tasks :
          (state[t] = "Blocked") <=>
             (Contains(delay_list, t) \/ \E l \in Lists : Contains(wait_lists[l], t))
    /\ NoRepeat(delay_list)
    /\ \A l \in Lists : NoRepeat(wait_lists[l])
    /\ \A t \in Tasks, l, m \in Lists :
          Contains(wait_lists[l], t) /\ Contains(wait_lists[m], t) => l = m

\* However run_one() and the handler nest, a task is Running exactly while one
\* activation on the stack is in the middle of its body: no task is resumed
\* on top of itself, and none is forgotten in the state Running.
RunningOnStack ==
    /\ \A i, j \in 1 .. Len(stack) :
          stack[i].pc = "exec" /\ stack[j].pc = "exec" /\ stack[i].task = stack[j].task
             => i = j
    /\ \A t \in Tasks :
          (state[t] = "Running") <=>
             \E i \in 1 .. Len(stack) : stack[i].pc = "exec" /\ stack[i].task = t

\* After any nesting and any return, the task body that has the processor is
\* "current" with its priority in running_prio, so that its next co_await
\* blocks itself; with the stack unwound the scheduler is idle and no request
\* for preemption is left over.
CurrentExecutes ==
    /\ TopIs("exec") => current = Top.task /\ running_prio = priority[current]
    /\ stack = <<>> => current = NoTask /\ running_prio = NoRunningTask /\ ~pend

\* What an activation restores when it returns is the task below it, as long
\* as that task is in the middle of its body; the first one restores idleness.
SavedAgree ==
    /\ stack # <<>> => /\ stack[1].saved_current = NoTask
                       /\ stack[1].saved_prio = NoRunningTask
    /\ \A i \in 1 .. Len(stack) - 1 : stack[i].pc = "exec" =>
          /\ stack[i + 1].saved_current = stack[i].task
          /\ stack[i + 1].saved_prio = priority[stack[i].task]
    /\ \A i \in 1 .. Len(stack) : stack[i].pc = "exec" => stack[i].task # NoTask

\* The innermost task body below activation i: the one i has interrupted, or
\* the one that called the run_one() which i has interrupted on its way out
BodyBelow(i) ==
    {j \in 1 .. i - 1 : /\ stack[j].pc = "exec"
                        /\ \A k \in j + 1 .. i - 1 : stack[k].pc # "exec"}

\* Whatever the handler runs is strictly above the running_prio it found at
\* its entry (entry_prio), and it never interrupts an idle scheduler:
\* kernel::start() and wakeups before run() do not execute tasks.
AboveEntry ==
    \A i \in 1 .. Len(stack) : stack[i].fn = "preempt_handler" =>
        /\ i > 1
        /\ stack[i].pc = "exec" => priority[stack[i].task] < stack[i].saved_prio

\* The claim at preempt_handler(): only tasks of a strictly higher priority run
\* on top of the one in mid-body.  It holds on the host and where bodies do
\* not call run_one(); elsewhere HandlerAbove says what is left of it.
StrictlyAbove ==
    \A i \in 1 .. Len(stack) :
        stack[i].fn = "preempt_handler" /\ stack[i].pc = "exec" =>
            \A j \in BodyBelow(i) : priority[stack[i].task] < priority[stack[j].task]

\* What is left of that claim everywhere: the handler runs nothing that is not
\* strictly above entry_prio, nothing on top of an idle scheduler, and nothing
\* that is not strictly above the body in the middle, with one exception.
\* When it was entered between the resume() of a nested run_one() and that
\* call's restore, entry_prio is still that of the task run_one() has run, and
\* the caller of run_one() may be equal to or above what the handler runs.
HandlerAbove ==
    /\ AboveEntry
    /\ \A i \in 1 .. Len(stack) :
          stack[i].fn = "preempt_handler" /\ stack[i].pc = "exec" =>
              \/ \A j \in BodyBelow(i) : priority[stack[i].task] < priority[stack[j].task]
              \/ stack[i - 1].fn = "run_one" /\ stack[i - 1].pc = "exit"

\* What the common machine stack must hold.  Without nested run_one() calls it
\* is two activations, the main loop's run_one() and the handler, however many
\* priorities there are; with them, one for each task besides.
StackBound == Len(stack) <= IF NESTED THEN Cardinality(Tasks) + 2 ELSE 2

\* The delay list is in deadline order across the wrap of the tick counter,
\* and between interrupts no node in it is overdue or further away than a
\* timeout can be.
DelayInOrder ==
    /\ \A i \in 1 .. Len(delay_list) - 1 :
          deadline_le(deadline[delay_list[i]], deadline[delay_list[i + 1]])
    /\ ~ticking => \A i \in 1 .. Len(delay_list) :
          Minus(deadline[delay_list[i]], tick_count) <= MaxTimeout

\* A node that is due has no tick left; a wait of zero ticks is not over before
\* the next tick.
TicksLeft(t) ==
    IF ~Contains(delay_list, t) THEN -1
    ELSE IF ticking
         THEN IF deadline_le(deadline[t], tick_count) THEN 0 ELSE Minus(deadline[t], tick_count)
         ELSE IF deadline[t] = tick_count THEN 1 ELSE Minus(deadline[t], tick_count)

Promise == INSTANCE Timeouts WITH remaining <- [t \in Tasks |-> TicksLeft(t)]

\* The sorted delay list and the wrapping counter keep the promise of module
\* Timeouts: every timeout of tick_isr is at its tick, neither early nor late,
\* unless the wait is cancelled before.
KeepsTimeouts == Promise!Spec

\* A wait that times out does so at the tick of its deadline; the only
\* exception is a timeout of zero ticks, which ends at the next tick.
TimeoutOnTime ==
    [][\A t \in Tasks : timed_out'[t] /\ ~timed_out[t] =>
          Minus(tick_count, deadline[t]) \in {0, 1}]_kernelVars

\* With RTOS_PREEMPTIVE_WAKE no task body keeps the processor while a task of
\* a higher priority is ready: the wakeup has requested PendSV, and PendSV is
\* taken before the body goes on.  A body that the handler runs is excepted:
\* the handler does not preempt itself.
NoInversion ==
    PREEMPTIVE /\ Executing /\ ~HandlerActive =>
        \A p \in Priority : p < priority[Top.task] => ready_lists[p] = <<>>

\* The inductive invariant: neither the lists nor the stack can be kept in
\* order without the other.
CpuAgree == RunningOnStack /\ CurrentExecutes /\ SavedAgree /\ AboveEntry

TickLoop == ticking => delay_list # <<>>

IInv == TypeOK /\ ReadyAgree /\ BlockedAgree /\ CpuAgree /\ TickLoop

\* A wait with a timeout ends.
TimedWaitEnds ==
    \A t \in Tasks :
        (state[t] = "Blocked" /\ Contains(delay_list, t)) ~> (state[t] # "Blocked")

\* A ready task of the highest priority gets the processor.
UrgentRuns ==
    \A t \in Tasks :
        (state[t] = "Ready" /\ priority[t] = 0) ~> (state[t] = "Running")
=============================================================================
