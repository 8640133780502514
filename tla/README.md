# CooRTOS in TLA+

CooRTOS is a header-only real-time kernel of C++20 coroutines: stackless tasks,
static priorities, a tick, and the primitives that tasks wait on. This directory
models its core in TLA+, checks the models with TLC and proves with TLAPS every
safety property that holds of them, the refinements of the abstract specifications
among them. Paths below are relative to the
repository's root; `K` stands for `include/rtos/kernel.hpp`.

## The system

| Component | State | Operations | What makes it correct |
|---|---|---|---|
| Scheduler, `K` | `ready_lists`, `current`, `running_prio`, `TaskPromise::state` and `priority`, the machine stack with the activations of `run_one()` and `preempt_handler()`, the PendSV request | `start`, `run`, `run_one`, `preempt_handler`, `make_ready_locked`, `block_current_locked`, `wake_locked`, `yield` | lists, states and stack agree; `current` is the task that executes; a higher priority preempts, an equal or lower one does not (with exceptions, see findings 2 and 4) |
| Time, `K`, `time.hpp` | `tick_count`, `delay_list`, `WaitNode::deadline`, `timed_out` | `tick_isr`, `delay_insert_locked`, `sleep_for` | each timeout at its tick, across the wrap of the counter |
| Intrusive lists, `intrusive_list.hpp` | `prev`, `next` | `unlink`, `insert_before`, `push_back`, `pop_front` | rings stay rings; `unlink` is idempotent |
| Semaphore, `semaphore.hpp` | `count_`, `waiters_` | `acquire`, `try_acquire_for`, `try_acquire`, `release` | no permit lost or doubled; FIFO |
| Mutex, `mutex.hpp` | `owner_`, `waiters_` | `lock`, `try_lock`, `unlock` | exclusion; direct hand-over, FIFO |
| Queue, `queue.hpp` | `buf_`, `head_`, `count_`, `receivers_`, `senders_`, the storage in awaiters | `send`, `send_for`, `receive`, `receive_for`, `try_send`, `try_receive` | FIFO, nothing lost, nobody stranded, no storage read without an object |
| Event group, `event_group.hpp` | `bits_`, `waiters_`, `WaitInfo` | `set`, `clear`, `wait_any`, `wait_all`, `sync` | no missed event, snapshots, rendezvous |
| Frame pool, `pool.hpp` | `free_`, the chain through the blocks | `allocate`, `deallocate`, `free_count` | every free block in the chain once |
| Task, Async, `task.hpp` | frames, `resume_point`, `continuation` | creation, `start`, `co_await`, final suspension, destruction | every frame has one owner; the innermost coroutine is resumed; the way back is alive |
| Durations, `task.hpp`, `time.hpp` | none | `to_ticks` and the overloads that call it | rounds up |
| sync_wait, `sync_wait.hpp` | result slot | `sync_wait` | the slot outlives the task that writes it; returns, also the outer of two nested calls, if the pump lets it (finding 5) |
| Ports, `port/*.hpp` | interrupt mask, PendSV | critical sections, `pend_preempt`, `idle` | no wakeup is slept through |

How they interact: tasks call the primitives; a primitive that must wait calls
`block_current_locked` with a `WaitNode` that lives in its awaiter, in the task's
frame. The node is linked into the wait list of the primitive, into the delay
list, or into both; the event or the tick takes it out of both and puts the task
into the ready list of its priority. Interrupt handlers call `tick_isr` and the
non-blocking operations. With `RTOS_PREEMPTIVE_WAKE` a wakeup of a higher
priority requests PendSV, whose handler runs those tasks on top of the interrupted
one. A task may itself call `run_one()` (that is what `sync_wait` does). All of
them share one machine stack, and `current` and `running_prio` are saved and
restored by whoever nests.

The hard part is therefore not parallelism in the usual sense, since a critical
section masks all interrupts, but the order in which critical sections of
interrupted, interrupting and nested activations follow one another, a node that
is in two lists and dies with the awaiter it lives in, the wrap of the tick
counter, and hand-offs whose effect the receiving task sees only much later.

## Modules

| Module | Models | Relation |
|---|---|---|
| `ListOps` | a list as the sequence of its nodes; `Unlink`, and `Only` for a pass that picks nodes | used by all |
| `IntrusiveList` | the pointers of `intrusive_list.hpp`, assignment by assignment | `ActsOnSequences` says they are the operations of `ListOps` |
| `Kernel` | `K`, `time.hpp`, the promise's part of `task.hpp`, PendSV of the ports | |
| `Timeouts` | abstract: what a timeout promises | implemented by `Kernel` (`KeepsTimeouts`) |
| `Semaphore`, `Mutex`, `Queue`, `EventGroup` | one primitive each, on the scheduler | each EXTENDS `Kernel` |
| `FairPermits` | abstract: permits in the order of requests | implemented by `Semaphore` (`IsFair`) and `Mutex` (`HandsOver`) |
| `Channel` | abstract: a bounded FIFO channel | implemented by `Queue` (`IsFifo`) |
| `Barrier` | abstract: rounds of a rendezvous | implemented by `EventGroup` (`IsBarrier`) |
| `MainLoop` | `run()` with its masked test and WFI, and interrupts that stay pending | EXTENDS `Semaphore`: the tasks and interrupts of this loop use one |
| `Frames` | `Task` and `Async` of `task.hpp`, `sync_wait.hpp` | EXTENDS `Kernel`; the pool is a number of blocks |
| `FramePool` | `pool.hpp` | which blocks those are |
| `ListOpsProofs` | lemmas about sequences as lists | |
| `KernelProofs`, `SchedulingProofs` | theorems about the scheduler | use `ListOpsProofs` |
| `SemaphoreProofs`, `HandOverProofs`, `EventGroupProofs`, `FramesProofs` | theorems about the semaphore and the main loop, the mutex and the queue, the event group, the frames | use `KernelProofs` |
| `PointersProofs` | theorems about the pointers of the lists and the chain of the pool | uses `ListOpsProofs` |
| `MC*` | instances for TLC | |

### How state and steps correspond to the code

- **A critical section is one step.** Interrupts are masked in it. The one
  exception is the loop of `tick_isr`: `ticking` is set by `TickIsr`, and every
  expired node is a step `TickWake` during which nothing else is enabled. Its
  guard is the condition of the code's loop.
- **The stack.** `stack` is the sequence of activations of `run_one()` and
  `preempt_handler()`. An activation is in the middle of a task's body (`exec`),
  about to restore what it saved (`exit`), or, in the handler, before a pass of
  its loop (`scan`). `Return` happens outside a critical section in the code, so
  an interrupt can come before it: `current` and `running_prio` are stale then, as
  in the code.
- **Task bodies.** A body does whatever a client may do while it `Executes`:
  start tasks, use primitives, block, sleep, yield, finish. `Finish` stands for
  `final_suspend`, which destroys the frame; the frame's address may be used for
  another task, which is the state `Created`.
- **Interrupts.** `ASYNC_ISR = TRUE` is a Cortex-M: an interrupt may come between
  any two critical sections, also in the exit window of `run_one()` and of the
  handler. `FALSE` is the host port, where the tests call `tick_isr()` and the
  `_from_isr` operations from tasks or from outside. A requested PendSV is taken
  before the interrupted code goes on, which is what `Proceeds` says; the handler
  does not preempt itself.
- **Lists.** A sequence per list. In `Kernel` the node of a task is the task
  itself, since a task waits in one awaiter at a time.
- **Time.** `Tick` is `0 .. 2 * Half - 1`; `Half` is 2^31 in the code. `Plus` and
  `Minus` wrap, `deadline_le` reads the difference as a signed number.
- **Awaiters.** `deadline` and `timed_out` of a task are those of the awaiter it
  waits in. They are reset when the task is resumed: `await_resume` reads them at
  once and the awaiter ends; the modules of the primitives read them in that step.
- **The main loop.** `main` says where the code outside all tasks is: before
  `run()`, at the top, at the test of the ready lists, in WFI, or on the way to
  `run_one()`. Between `irq_disable()` and `irq_enable()` an interrupt only sets
  `requested`; it is handled before anything else once interrupts are enabled. WFI
  returns for a requested interrupt, and may return without one (RISC-V allows a
  NOP). In the other modules `run()` is the repeated `RunOne` on an empty stack.
- **Frames.** `at` says where the coroutine of a frame stands, `owner` where the
  `Task` or `Async` object lives that holds the handle (a coroutine, the code outside
  all tasks, or the scheduler after `start()`), `inner` which coroutine of a task has
  the processor. `resume_point` and `continuation` are the code's. Destroying a frame
  clears what was in it. That locals and parameters die before the frame they are in
  is the language's order, and is built in (`Owned(here) = {}`). Objects are destroyed
  in any order before their holder ends, which covers every order of scopes and moves
  that does not cross coroutines; the one move that does, into `sync_wait_task`, is
  part of `SyncWait`. A call without a free block gives an invalid object that nothing
  more can be done with, or traps.
- **sync_wait.** The call is cut at the points where something else can happen:
  the creation of the task, `start()`, every call of `run_one()` from the pump, the
  write of the slot, the return. The priority of the task is any. `serves` is the
  address of the slot that the task got as a parameter. `Pumping` says who may call
  `run_one()`: whoever is in `sync_wait()`, and any code of a client that is not;
  the body of `sync_wait_task` does not by itself. A caller that is in `sync_wait()`
  does nothing else. With `LOOPING_PUMP` one call of the pump goes on until
  `run_one()` has found nobody, whether or not the slot is done by then.
- **Durations.** A unit is `num/den` ticks. `to_ticks` divides, narrows the
  quotient to a `Tick`, compares that with the duration and adds one if it is short,
  as `std::chrono::ceil` does.
- **Priorities** given to `start` may exceed the number of lists; the code limits
  them, and so does `Start`.
- **Contracts.** Clients obey the documented contracts of the mutex: the owner
  alone unlocks, nobody locks twice, an owner does not finish.

Variables that the code does not have are marked as history: `awaiting` and
`credit` (semaphore), `locking` and `inside` (mutex), `receiving` (queue),
`frames` (pool), `root` and `inner` (frames; `inner` stands for the program
counter). No guard of the code's steps depends on them except the client
contracts of the mutex and the ownership of frames.

## The runs

| Run | Instance | What it shows |
|---|---|---|
| `semaphore` | 3 tasks, 2 priorities, a binary semaphore, preemption and nesting on the host, `Half = 3` and timeouts up to 2 | no permit waits beside a waiter, none is lost or doubled, FIFO; a waiter leaves both its lists; the delay list is sorted across the wrap and every timeout comes at its tick; no body runs below a ready task of a higher priority, except those that the handler runs, and those are strictly above the body they interrupt |
| `mutex` | 3 tasks, 2 priorities, interrupts anywhere, preemption, nested `run_one()` | exclusion, `owner_` is a live task that is inside or chosen; FIFO hand-over; types; ready lists agree with the task states; at most one activation per running task; `current` executes; the stack is bounded; the handler runs only what is above the `running_prio` it found, and above the body in the middle except in the exit window of a nested `run_one()` |
| `main_loop` | `run()`, 2 tasks, 2 priorities, interrupts anywhere, preemption | the processor does not sleep on a ready task; a timed wait ends; a ready task of the highest priority runs; waiters are served if permits keep coming |
| `queue` | 3 tasks, 2 slots, 2 values, timeouts, interrupts | in-order channel; nobody stranded; storage holds objects exactly when it should; indices in range |
| `event_group` | 2 tasks, 2 bits, overlapping waits for any and all, clear-on-exit, `sync`, timeouts | no task waits for what is there; snapshots meet the conditions; the bits one task consumes are not hidden from another |
| `rendezvous` | 3 tasks that use nothing but `sync` | a barrier; no bit is left over between rounds; everybody passes |
| `frames` | a client task, 2 tasks of `sync_wait`, 2 Asyncs, 4 blocks, preemption and nesting on the host, a pump of at most one task a call | one owner per frame; the innermost coroutine is resumed; the way back is alive; slots outlive their writers; every `sync_wait` of any priority returns, also the outer of two, unless a client task is ready above another again and again |
| `pointers` | 4 nodes, 2 lists; 4 blocks | rings intact, pointer operations act as sequence operations; the free chain holds exactly the free blocks, an allocation takes one of them, `free_count()` counts them |
| `kernel_long` | intervals up to the whole range of `Tick` | **violated**, see below |
| `kernel_exit` | 3 priorities, interrupts anywhere | **violated**, see below |
| `frames_pump` | the pump of `sync_wait.hpp`:22, a client task and one of `sync_wait` | **violated**, see below |
| `pool_race` | preemption during `free_count()` | **violated**, see below |

Every property also has a deliberately broken variant of the code's step, kept
beside the original with the comment `Mutant:`, under which the same run finds it
violated.

**Why the bounds are enough.** Three tasks of two priorities give an
interrupted task, one that preempts it and a third that equals one of them; a
middle one needs the three priorities of `kernel_exit`. Three tasks in a wait list are the least that have
a middle from which a timeout removes. `Half = 3` and timeouts up to 2 let
deadlines on both sides of the wrap be in the list at once, with a pair of equal
ones; `Half = 2` is the smallest counter on which the comparison makes sense, and
is used where time does not matter beyond the race of event and timeout. Two slots
and three tasks fill the queue with a sender behind it; the ring wraps. The tick
counter itself wraps, so no bound on time is needed. `MaxCount` of `FramePool`
stops a walk of `free_count()` that has been led astray. In `frames`, two Asyncs and
two tasks of `sync_wait` are the least with which a nest of coroutines has a middle
and `sync_wait` is called on top of itself, from a task and from outside; 4 blocks
leave room for two nested calls with an Async each, and calls that find no block free;
`MaxHeld = 1` limits the objects a coroutine holds, not their order of death. The
frames are proved for any numbers.

Symmetry in tasks (and values) is used for safety runs only; no operator of the
modules chooses among tasks.

**Fairness.** `MainFairSpec`: strong fairness of what the processor does between
interrupts (the steps of `run()`, `run_one()`, the PendSV handler, and the next
`co_await` or end of the body that runs), because each interrupt disables it for a
while, and an interrupt source that leaves no time to the processor is outside the
code's promise. A sleeping processor is owed nothing: `Idle` is fair only with an
interrupt requested, so that a wakeup slept through would be seen. The timer and
the interrupt that releases a permit come again and again: strong fairness, because
masked sections keep them away; the loop of `tick_isr` ends. Bodies are
cooperative: they reach a `co_await` that suspends them, or their end.

`MeetProcessor` is the same for the rendezvous, in which tasks start, do not end, and
each comes back to `sync`. `FrameFairSpec`: the library goes on, events come, a
client's task gives the processor away now and then, and an Async drops what it holds
and ends. `SyncReturns` needs no fairness of creation, starting or awaiting: the task
made by `sync_wait` does its work by itself. It does assume a pump that runs at most
one task a call (or else stops when `done` is set), see finding 5. Lower priorities
get no promise: a busy higher one starves them by design. `SyncReturns` therefore lets
a call off whenever a client task is ready above another task (`Outranked`); a client
at the same priority, or the tasks of other calls at any, are no excuse.

## What the runs found

1. **Long intervals** (`kernel_long`). `deadline_le` (`K`:18) compares a signed
   difference. An interval of more than 2^31 ticks, 24.8 days at 1 kHz, counts as past
   and ends at the next tick (one of exactly 2^31 does not), while README.md:194-195,
   README.md:410 and `config.hpp`:13 promise 49.7 days.
2. **The exit window of the handler** (`kernel_exit`). `preempt_handler` restores
   `running_prio` (`K`:221) after the critical section that found nothing more to
   run. A wakeup by an interrupt in this window is compared with the priority of
   the task that has just left. A task that is not above that priority, perhaps the
   one that has just blocked itself, but is above the interrupted task, is made
   ready without a request for PendSV and waits for the interrupted task's next
   `co_await`. The comment `K`:42-44 calls the stale value safe because it is
   only more conservative; README.md:170-173 promises immediate preemption. The
   comment is right about memory safety (`current` is not used), and in the same
   window of `run_one()` the caller's loop soon looks at the ready lists again.
3. **`free_count()` races** (`pool_race`). It walks the chain without a critical
   section (`pool.hpp`:59); a preempting task that allocates overwrites the link
   it stands on.
4. **The exit window of a nested `run_one()`**. A task A calls `run_one()`, which runs
   a task B of a lower priority until it blocks. Before `run_one()` restores
   `running_prio` (`K`:180) that is still the priority of B. An interrupt that wakes a
   task C above B, but not above A, requests PendSV, and the handler, which takes the
   stale value for its `entry_prio` (`K`:194), runs C on top of A, in the middle of
   A's body. C may have the priority of A, and with three priorities a lower one.
   `K`:186-187 says that the handler runs strictly higher priorities only,
   README.md:173-174 that equal and lower ones stay cooperative, and `K`:42-44 that
   the stale value makes the threshold only more conservative. The claim is
   `StrictlyAbove`. It holds on the host (run `semaphore`) and without nesting
   (`PreemptionIsUpward`). Run `mutex`, where the exception occurs, checks what is
   left of it, `HandlerAbove`: strictly above `entry_prio` always, strictly above the
   body in the middle in every other place. A has called `run_one()` and so must
   expect other tasks to run there, but the handler goes on until nobody is above B.
5. **The pump of the example** (`frames_pump`). `sync_wait.hpp`:22 gives `while
   (kernel::run_one()) {} idle();` as the pump, and `sync_wait.hpp`:18-20 promises the
   result. `slot.done` is looked at only between two calls of the pump, and one call
   goes on while any task is ready. With a task that polls with `yield()` at the
   priority of the call, the slot is done and `sync_wait` does not return. The safety
   properties of `frames` do not depend on the pump: they are proved for either.

Also seen: `free_count()` returns 0 before the first allocation, because the chain is
built there (`CountExact` says so). A wait of `n` ticks begun between two ticks ends
at the `n`-th tick, up to one tick early against a clock: rounding a duration up to
ticks (`task.hpp`:19-20, "not less than requested") does not make up for that. A
duration of 2^32 ticks or more is narrowed to 32 bits: of exactly 2^32 ticks
`to_ticks` makes one. README.md:176 and `K`:192 speak of a nesting of
`RTOS_NUM_PRIORITIES` levels, while `StackBound` shows two activations unless tasks
call `run_one()` themselves.

## What is proved

All theorems hold for every value of the constants that the named assumptions admit:
any set of tasks (finite where permits or activations are counted), any number of
priorities below 255, any width of `Tick`, any capacity, bits and conditions,
preemptive or not, with interrupts anywhere or not, nested or not. What needs more
says so: finitely many list nodes, `MaxTimeout < Half` for the deadlines, `ASYNC_ISR =
FALSE` for the absence of inversion, one of `ASYNC_ISR` and `NESTED` false for
strictly upward preemption, and `Bits = Tasks`, a bit per participant, for the
rendezvous.

**Lists as sequences** (`ListOpsProofs`). What `Append`, `Tail`, `InsertAt`, `Unlink`
and concatenation do to membership, order and repetition, used by all the others.
`OnlyProperties` is about a pass that picks nodes, which is a recursive function of the
place in the list. It is proved by natural induction without a theorem that takes
an operator: a set of counterexamples has a least element (`LeastNumber`), and the
place before it is none.

**The scheduler** (`KernelProofs`). `Invariance` proves `Spec => []IInv`; the
named results follow from it: `TypeCorrect`, `ReadyListsAgree`, `WaitListsAgree`,
`NestingIsSound`, `CurrentIsExecuting`. None of these invariants is inductive
alone:

- that a blocked task is in no ready list depends on the state being right, and
  `BlockCurrent` changes the state of `current`, so the lists depend on `current`
  being the Running task on top of the stack (`CpuAgree`);
- `current` is right after a `Return` only because what an activation saved is
  what is below it, which is `SavedAgree`, said of every two neighbours on the
  stack of which the lower is in the middle of a body;
- a Running task has one activation only because the tasks resumed come from
  ready lists, so the stack depends on the lists again;
- `TickLoop` says that the loop of `tick_isr` is entered with a node to wake.

The proof has a lemma per kind of change (a push on a ready list, a pop, a node
that leaves both lists, an activation that is pushed, suspended or popped), stated
for the primed and unprimed variables only, and a lemma per action that combines
them. `DurationsRoundUp` is about the operator `to_ticks`
alone: as long as the ticks fit a `Tick`, it is the least number that covers the
duration. TLC compares it with that reference on small durations
(`DurationsAreCovered` of `MCSemaphore`).

**Depth, inversion, deadlines** (`SchedulingProofs`). Properties with an inductive
invariant each, on top of `IInv`:

- `StackIsBounded`, for finitely many tasks. `StackShape`: an activation that is not
  in the middle of a body is the innermost, or it is the one that PendSV has
  interrupted, and the handler is on the stack once. The others hold distinct tasks
  (`RunningOnStack`), so that there are no more of them than tasks.
- `HandlerIsAbove`. That what the handler runs is above its `entry_prio` is part of
  `IInv` (`AboveEntry`). By `StackShape` what lies directly below the handler is a
  body, or the `run_one()` whose exit window it has interrupted; a body is the running
  one, and `entry_prio` is its priority.
- `PreemptionIsUpward`, unless interrupts are asynchronous and `run_one()` nests: the
  two together are finding 4. Without nesting the exit window belongs to the outermost
  `run_one()`, with no body below. Without asynchronous interrupts nobody is woken in
  the window, and the handler enters on top of bodies only (`EntersBodies`).
- `NobodyIsInverted`, for `ASYNC_ISR = FALSE` only; with asynchronous interrupts the
  property is false and run `kernel_exit` shows it. `Calm`: while no handler is on
  the stack PendSV is requested or nobody is ready above the running priority;
  nested `run_one()` calls run ever lower priorities, so that a return finds nobody
  left above what it restores; and between the last pass of the handler and its
  return nobody becomes ready, which is the part that an interrupt breaks.
- `DeadlinesInOrder`, for `MaxTimeout < Half`. `DelaySorted` measures every deadline
  from the last tick whose nodes have all been woken, one before `tick_count` while
  `tick_isr` is in its loop: the distances are at most `MaxTimeout` and ascend. A
  comparison of raw deadlines is then the comparison of distances (`Compare`), and
  the loop ends only when every distance can shrink by one without wrapping.
- `TimeoutsAreKept`, with the same bound: the scheduler implements `Timeouts`.
  `TimeoutInv` adds that only a Ready task is marked as timed out, and that
  `tick_isr` stays in its loop exactly as long as somebody is due. Every step is then
  a tick, the start, end or expiry of a timeout, a task that notices, or none of them
  (`NextShows`). That a wait ends neither early nor late is `LeftOf`, ticks left in
  terms of distance, with `NobodyLeft`: after the loop nobody is due.
  `TimeoutsAreOnTime` says it of the deadline itself; that it needs the bound is what
  run `kernel_long` shows.

**The semaphore** (`SemaphoreProofs`). `RunsOnKernel` shows that the semaphore
with its clients implements the scheduler's specification, so the scheduler's
theorems hold of it; `NoPermitIsIdle` and `NoPermitIsLost` add `AwaitAgree`: a
task suspended in an acquire is in the wait list, or Ready, and nobody in the wait
list has timed out. The conservation of permits counts the tasks in flight with
the theorems on finite sets. `PermitsAreFair` is the refinement of `FairPermits`: a
permit is taken from the counter only when nobody waits (`NoIdlePermit`), `release`
removes the first of the list, and of everything else only a timeout of `tick_isr`
changes the list, at whatever place the task stands.

**The mutex** (`HandOverProofs`). `OneInside` proves `MutualExclusion`. It is not
inductive: that `unlock` hands the mutex to a task that is not inside needs
`LockAgree`, the wait list holds tasks in `lock()` only, none of them in the delay
list, so that no timeout makes one of them look chosen; and `owner_` is taken from
`current`, so that it names the task that is inside only by `CpuAgree`.
`HandOverIsFair` is the refinement of `FairPermits` with one permit: by `OwnerAgree`
nobody waits for a free mutex, and by `LockAgree` no timeout changes the wait list.

**The queue** (`HandOverProofs`). `RunsOnKernel`: every step is a step of the
scheduler or leaves it alone. `QueueInv` joins `QueueTypeOK`, `NobodyStranded` and
`StorageAgrees`, which need one another and a fourth, `ReceiveAgree`:

- a sender's value goes into the slot that a receiver has just freed only because a
  sender blocks when all slots are in use, and a receiver takes from an empty buffer
  only because then nobody sends, which is `NobodyStranded`;
- that storage handed a value was empty before needs the task to be in `receive()`
  (`ReceiveAgree`): a blocked sender's storage is full, and both are `payload`;
- a task that goes on leaves its awaiter, so one that executes holds no value, and
  neither `await_suspend` overwrites one.

The ring is reasoned about by place: `PlaceOfSlot` is the distance of a slot from
`head`, in use are the places below `count`, and a pop moves all of them by one.
`QueueIsFifo` is the refinement of `Channel`: the buffered values from `head` on and
then those of the blocked senders, `Items`, are one sequence. Values join it at its
end and leave it at its front; a hand-off to a waiting receiver passes the sequence
by, which is in order because it is empty then; a refill moves a value across the
border of the two parts (`HeadOfSecond`), which leaves the sequence as it is, and only
a sender's timeout removes one from the middle (`RemoveFromSecond`).

**The event group** (`EventGroupProofs`). One `set()` wakes any number of tasks in a
critical section, which no single step of `Kernel` does, so that `IInv` is proved for
it anew: `GroupRunsSoundly`, by `SetLockedStep`, which says of the whole pass what the
lemmas of `KernelProofs` say of one wakeup. `EventsAreNotMissed` and `ResultsMeet`
rest on `InfoAgree`, a task has an unfinished wait exactly from the moment it joins
the list until it is resumed, and on `FewerBits`: a condition not met by some bits is
not met by fewer, so that the clear-on-exit after the pass leaves nobody behind whom
the pass passed over. `SnapshotIsShared` is the other half, of a single pass: whoever
stays in the list did not meet the bits that the others were woken with, since a
result is assigned to those only whom this pass takes out of the list
(`ResultIsAssigned`). For the rendezvous `MeetInv` adds that all wait for the same and
without a timeout. It follows that a pass wakes all or nobody (`MeetEffect`), that the
bits are always those of the tasks that wait (`BitsAreClean`), and that `sync()`
implements `Barrier` (`SyncIsBarrier`): the last to come releases all that wait and
passes, and one who comes back before the others have gone on belongs to the next
round. The theorems about the scheduler beyond `IInv` are not carried over to the
event group.

**The lists** (`PointersProofs`). `RingsStayIntact`: `prev` and `next` stay inverse to
each other, whichever of the nodes involved coincide. `PointersActOnSequences`:
`Holds` says that a walk along `next` from a head passes a given sequence and comes
back. For finitely many nodes every head holds one sequence, without repetition
(`WalkExists`, `WalkDistinct`), and it is what the recursive `Walked` collects
(`WalkedHolds`, by induction on its length). A node that is unlinked is in at most one
of the sequences, because the walks are inverse to each other step by step
(`OneStepBefore`); `UnlinkHolds` and `InsertHolds` give the sequences after an
assignment to four pointers, and the operations of `ListOps` are those.

**The main loop** (`SemaphoreProofs`). `LoopRunsSemaphore` shows that the loop
implements the semaphore on the scheduler; `NeverSleepsOnReady` needs `LoopAgree`:
interrupts stay out of the masked section and nothing else changes the ready lists
while the stack is empty, so that what the test saw is still true at WFI and at
`run_one()`.

**The frames** (`FramesProofs`). `FramesOnKernel` shows that everything tasks,
Asyncs and `sync_wait()` do to the scheduler is a step of `Kernel`, so `IInv` holds
and `current` is the task whose coroutine executes. `FrameInv` joins the four
checked properties, which need one another: that nobody else destroys the awaited
Async needs its owner to be the coroutine that waits (`WayBack`), which is there
only if its own frame is owned by something alive (`FramesOwned`); that the
executing coroutine waits for nobody, so that its end or its drop cuts no way back,
is `ResumesInnermost`; that one task stands in one place and no two tasks in the
same is in it through `root`. `Standing`, `Holding` and `Serving` add what no
property asks for: when a task is before its first resumption, who may hold
objects at all, and that a task of `sync_wait()` exists exactly while it serves
somebody. The lemma `Here` collects what is known of the code that has the
processor; every action has a lemma with a step per part of `FrameInv`.

**The pool** (`PointersProofs`). `ChainStaysIntact`: the witness of the chain is
the old one without its first block, or with a block before it, and for the first
allocation the blocks in their order. `AllocatesWhileFree` follows from it;
`CountIsExact` needs that the walk has passed as many blocks as it has counted.

**Only model-checked.** Liveness: `TimedWaitEnds`, `UrgentRuns`, `Served`, `AllPass`
and `SyncReturns` are beyond the prover, as is ENABLED, on which fairness rests. TLC
also compares `to_ticks` with its reference on small durations.

## What is not modelled

- The wording of traps, the hook for a failed allocation and its choice between a
  trap and an invalid object; the check of a frame's size and the heap variant of
  the allocator.
- The values that an `Async` returns and a slot carries: that there is one is the
  final suspension, or `done`.
- Durations whose product with the ratio leaves 64 bits.
- The host's `idle()`, which ends the program when there is nothing to do, and its
  count of nested critical sections.
- Registers of the ports, start-up code, build files, tests.
- Read-only getters, and the destructor of `Queue`, which empties a buffer that
  nobody uses any more.

## Plan

Done: all modules of the table above with their runs and proofs.

Left, in order of worth: the theorems of `SchedulingProofs` for the event group, whose
`set_locked` would have to be shown to do what a sequence of single wakeups does
(`StackBound` and `DelayInOrder` depend on the stack and the delay list, of which a
pass only removes nodes, so that their lemmas apply); what the liveness properties
rest on that is safety, such as that a released permit shortens the list in front of
everyone behind.
