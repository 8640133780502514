------------------------------- MODULE Frames -------------------------------
(***************************************************************************)
(* Coroutine frames on the scheduler: Task and Async (include/rtos/        *)
(* task.hpp) own frames, co_await of an Async transfers control into it    *)
(* and its end transfers it back, the scheduler resumes the innermost      *)
(* coroutine of a task, and sync_wait() (include/rtos/sync_wait.hpp) turns *)
(* an Async into a detached task and pumps the scheduler until it is done. *)
(*                                                                         *)
(* A frame is in use while "at" says where its coroutine stands.  In which *)
(* block of memory it lives is the business of module FramePool; here the  *)
(* memory is a number of blocks.  Blocking is a wait without a timeout:    *)
(* frames do not tell the awaiters apart.                                  *)
(***************************************************************************)
EXTENDS Kernel

CONSTANTS
    Asyncs,        \* frames of Async coroutines; Tasks are those of Task
    SyncTasks,     \* the tasks made by sync_wait(): frames of sync_wait_task
    BlockCount,    \* how many frames there is memory for
    MaxHeld,       \* the most objects that a coroutine of a client holds
    LOOPING_PUMP,  \* the pump of sync_wait() runs tasks until none is ready,
                   \* as in the example of sync_wait.hpp; FALSE: one a call
    Scheduler,     \* owner of a frame whose Task has been started
    Nobody         \* no owner, no caller

Coroutines == Tasks \union Asyncs
Outside == NoTask      \* the code outside all tasks, where it calls

ASSUME FramesAssumption ==
    /\ IsFiniteSet(Coroutines)
    /\ Tasks \cap Asyncs = {} /\ NoTask \notin Asyncs
    /\ SyncTasks \subseteq Tasks
    /\ Scheduler \notin Coroutines \union {Outside}
    /\ Nobody \notin Coroutines \union {Outside, Scheduler}
    /\ BlockCount \in Nat /\ MaxHeld \in Nat
    /\ LOOPING_PUMP \in BOOLEAN
    /\ NESTED

VARIABLES
    at,            \* "none": no frame; "initial": initial_suspend; "body";
                   \* "final": final_suspend
    owner,         \* where the Task or Async object lives that has the handle
    continuation,  \* AsyncPromiseBase::continuation
    resume_point,  \* TaskPromise::resume_point
    inner,         \* the coroutine of a task that executes, or was interrupted
    serves,        \* the caller whose slot a sync_wait_task fills
    slot,          \* per caller of sync_wait(): its SyncSlot
    root           \* history: the task in which an Async was awaited

frames == <<at, owner, continuation, root>>
calls == <<serves, slot>>
frameVars == <<kernelVars, frames, resume_point, inner, calls>>

Callers == Coroutines \union {Outside}

FrameInit ==
    /\ Init
    /\ at = [c \in Coroutines |-> "none"]
    /\ owner = [c \in Coroutines |-> Nobody]
    /\ continuation = [a \in Asyncs |-> Nobody]
    /\ root = [a \in Asyncs |-> Nobody]
    /\ resume_point = [t \in Tasks |-> Nobody]
    /\ inner = [t \in Tasks |-> Nobody]
    /\ serves = [w \in SyncTasks |-> Nobody]
    /\ slot = [c \in Callers |-> "none"]

-----------------------------------------------------------------------------
HasRoom == Cardinality({c \in Coroutines : at[c] # "none"}) < BlockCount

\* The coroutine, or the code outside, that has the processor
here == IF stack = <<>> THEN Outside ELSE inner[current]
HasProcessor == Proceeds /\ (stack = <<>> \/ TopIs("exec"))

\* The code of a coroutine, or outside all tasks, runs and is not in
\* sync_wait().
InBody == HasProcessor /\ slot[here] = "none" /\ (stack # <<>> => at[here] = "body")

Owned(c) == {d \in Coroutines : owner[d] = c}

\* coroutine_handle::destroy: the frame is gone, and the promise in it.
Destroy(c) ==
    /\ at' = [at EXCEPT ![c] = "none"]
    /\ owner' = [owner EXCEPT ![c] = Nobody]
    /\ continuation' = [a \in Asyncs |-> IF a = c THEN Nobody ELSE continuation[a]]
    /\ root' = [a \in Asyncs |-> IF a = c THEN Nobody ELSE root[a]]
    /\ resume_point' = [t \in Tasks |-> IF t = c THEN Nobody ELSE resume_point[t]]
    /\ inner' = [t \in Tasks |-> IF t = c THEN Nobody ELSE inner[t]]
    /\ serves' = [w \in SyncTasks |-> IF w = c THEN Nobody ELSE serves[w]]

-----------------------------------------------------------------------------
(* Task and Async *)

\* A coroutine is called: lazily, it stays at its initial suspension.  Without
\* a block the object is invalid, and nothing else happens.
Create(c) ==
    /\ InBody
    /\ at[c] = "none" /\ HasRoom
    /\ stack # <<>> => Cardinality(Owned(here)) < MaxHeld
    /\ at' = [at EXCEPT ![c] = "initial"]
    /\ owner' = [owner EXCEPT ![c] = here]
    /\ UNCHANGED <<kernelVars, continuation, root, resume_point, inner, calls>>

\* Mutant: the Task keeps the handle
StartWithoutRelease(t, p) ==
    /\ InBody
    /\ owner[t] = here /\ at[t] = "initial"
    /\ Start(t, p)
    /\ resume_point' = [resume_point EXCEPT ![t] = t]
    /\ UNCHANGED <<frames, inner, calls>>

\* kernel::start: the Task gives up the handle.
StartTask(t, p) ==
    /\ InBody
    /\ owner[t] = here /\ at[t] = "initial"
    /\ Start(t, p)
    /\ owner' = [owner EXCEPT ![t] = Scheduler]
    /\ resume_point' = [resume_point EXCEPT ![t] = t]
    /\ UNCHANGED <<at, continuation, root, inner, calls>>

\* ~Task, ~Async: whatever the handle leads to is destroyed.
Drop(c) ==
    /\ InBody
    /\ owner[c] = here
    /\ Destroy(c)
    /\ UNCHANGED <<kernelVars, slot>>

\* Mutant: the task is remembered instead of the awaiting coroutine
AwaitFromTask(a) ==
    /\ InBody /\ stack # <<>>
    /\ owner[a] = here /\ at[a] = "initial"
    /\ continuation' = [continuation EXCEPT ![a] = current]
    /\ root' = [root EXCEPT ![a] = current]
    /\ at' = [at EXCEPT ![a] = "body"]
    /\ inner' = [inner EXCEPT ![current] = a]
    /\ UNCHANGED <<kernelVars, owner, resume_point, calls>>

\* co_await of an Async: symmetric transfer into it
Await(a) ==
    /\ InBody /\ stack # <<>>
    /\ owner[a] = here /\ at[a] = "initial"
    /\ continuation' = [continuation EXCEPT ![a] = here]
    /\ root' = [root EXCEPT ![a] = current]
    /\ at' = [at EXCEPT ![a] = "body"]
    /\ inner' = [inner EXCEPT ![current] = a]
    /\ UNCHANGED <<kernelVars, owner, resume_point, calls>>

\* An Async ends: its locals are gone, control goes back to the coroutine that
\* awaits it, the frame stays until the Async object dies.
CoReturn ==
    /\ InBody /\ stack # <<>>
    /\ here \in Asyncs /\ Owned(here) = {}
    /\ at' = [at EXCEPT ![here] = "final"]
    /\ inner' = [inner EXCEPT ![current] = continuation[here]]
    /\ UNCHANGED <<kernelVars, owner, continuation, root, resume_point, calls>>

\* Mutant: the task is remembered instead of the innermost coroutine
SuspendTask ==
    /\ InBody
    /\ Yield \/ \E l \in Lists : Block(l, NoTimeout)
    /\ resume_point' = [resume_point EXCEPT ![current] = current]
    /\ UNCHANGED <<frames, inner, calls>>

\* A blocking awaiter, wherever in the nest of coroutines it is awaited
Suspend ==
    /\ InBody
    /\ Yield \/ \E l \in Lists : Block(l, NoTimeout)
    /\ resume_point' = [resume_point EXCEPT ![current] = here]
    /\ UNCHANGED <<frames, inner, calls>>

\* run_one is called by the pump of sync_wait(), by run(), or by the code of
\* any client; the pump looks at done, if at all, only between two calls.
Pumping ==
    {"open"} \union (IF here \in SyncTasks THEN {} ELSE {"none"})
             \union (IF LOOPING_PUMP THEN {"done"} ELSE {})

\* run_one or the handler resumes a task where it was suspended.
FrameDispatch ==
    /\ \/ RunOne /\ slot[here] \in Pumping
       \/ Scan
    /\ LET r == resume_point[current'] IN
       /\ inner' = [inner EXCEPT ![current'] = r]
       /\ at' = [at EXCEPT ![r] = "body"]
    /\ UNCHANGED <<owner, continuation, root, resume_point, calls>>

\* A task ends: FinalAwaiter destroys the frame.  A parameter in it is gone
\* before.
FinishTask ==
    /\ Executing /\ here = current /\ slot[here] = "none"
    /\ at[here] = IF here \in SyncTasks THEN "final" ELSE "body"
    /\ Owned(here) = {}
    /\ Finish
    /\ Destroy(here)
    /\ UNCHANGED slot

-----------------------------------------------------------------------------
(* sync_wait *)

\* The Async moves into the frame of a new task; without a block for it the
\* program traps.
SyncWait(a, w) ==
    /\ InBody
    /\ owner[a] = here /\ at[a] = "initial"
    /\ at[w] = "none" /\ HasRoom
    /\ at' = [at EXCEPT ![w] = "initial"]
    /\ owner' = [owner EXCEPT ![w] = here, ![a] = w]
    /\ serves' = [serves EXCEPT ![w] = here]
    /\ slot' = [slot EXCEPT ![here] = "starting"]
    /\ UNCHANGED <<kernelVars, continuation, root, resume_point, inner>>

\* kernel::start with the priority given to sync_wait(); the default is 0
SyncStart(w, p) ==
    /\ HasProcessor /\ slot[here] = "starting"
    /\ owner[w] = here /\ at[w] = "initial"
    /\ Start(w, p)
    /\ owner' = [owner EXCEPT ![w] = Scheduler]
    /\ resume_point' = [resume_point EXCEPT ![w] = w]
    /\ slot' = [slot EXCEPT ![here] = "open"]
    /\ UNCHANGED <<at, continuation, root, inner, serves>>

\* Mutant: done is set before the Async has ended
WriteSlotEarly(w) ==
    /\ HasProcessor /\ stack # <<>> /\ here = w
    /\ at[w] = "body" /\ slot[serves[w]] = "open"
    /\ slot' = [slot EXCEPT ![serves[w]] = "done"]
    /\ at' = [at EXCEPT ![w] = IF \E a \in Owned(w) : at[a] = "final" THEN "final" ELSE @]
    /\ UNCHANGED <<kernelVars, owner, continuation, root, resume_point, inner, serves>>

\* sync_wait_task after its co_await: value and done are written.
WriteSlot(w) ==
    /\ HasProcessor /\ stack # <<>> /\ here = w
    /\ at[w] = "body" /\ \E a \in Owned(w) : at[a] = "final"
    /\ slot' = [slot EXCEPT ![serves[w]] = "done"]
    /\ at' = [at EXCEPT ![w] = "final"]
    /\ UNCHANGED <<kernelVars, owner, continuation, root, resume_point, inner, serves>>

\* The parameter of sync_wait_task dies with its frame, before it.
DropArgument(a) ==
    /\ HasProcessor /\ stack # <<>>
    /\ at[here] = "final" /\ owner[a] = here
    /\ Destroy(a)
    /\ UNCHANGED <<kernelVars, slot>>

\* The caller sees done and takes the value; its slot is gone.  A looping pump
\* has come back because it found nobody ready.
SyncReturn ==
    /\ HasProcessor /\ slot[here] = "done"
    /\ LOOPING_PUMP => \A p \in Priority : ready_lists[p] = <<>>
    /\ slot' = [slot EXCEPT ![here] = "none"]
    /\ UNCHANGED <<kernelVars, frames, resume_point, inner, serves>>

-----------------------------------------------------------------------------
\* What clients do; sync_wait_task awaits its parameter, writes the slot and
\* ends.
Client ==
    /\ here \notin SyncTasks
    /\ \/ \E c \in Coroutines \ SyncTasks : Create(c)
       \/ \E c \in Coroutines : Drop(c)
       \/ \E t \in Tasks, p \in Priority : StartTask(t, p)
       \/ \E a \in Asyncs, w \in SyncTasks : SyncWait(a, w)
       \/ \E a \in Asyncs : Await(a)

SyncTask ==
    /\ here \in SyncTasks
    /\ \/ \E a \in Asyncs : Await(a) \/ DropArgument(a)
       \/ \E w \in SyncTasks : WriteSlot(w)
       \/ FinishTask

\* What is left to the code of the library
Library ==
    \/ SyncTask
    \/ \E w \in SyncTasks, p \in Priority : SyncStart(w, p)
    \/ SyncReturn
    \/ FrameDispatch
    \/ (PendSV \/ ScanEmpty \/ Return) /\ UNCHANGED <<frames, resume_point, inner, calls>>

\* A coroutine of a client gives the processor away, or ends.
Ends(c) == here = c /\ (CoReturn \/ FinishTask)
Rests(c) == here = c /\ Suspend

Event(t) ==
    /\ \E l \in Lists : WakeWaiter(l, t)
    /\ UNCHANGED <<frames, resume_point, inner, calls>>

FrameNext ==
    \/ Client
    \/ Library
    \/ \E c \in Coroutines \ SyncTasks : Ends(c) \/ Rests(c)
    \/ \E t \in Tasks : Event(t)

FrameSpec == FrameInit /\ [][FrameNext]_frameVars

\* The library goes on, the events that tasks wait for come at last, a task
\* that has the processor again and again gives it away, and an Async gives up
\* what it holds and ends.
FrameFairSpec ==
    /\ FrameSpec
    /\ SF_frameVars(Library)
    /\ SF_frameVars(\E l \in Lists : wait_lists[l] # <<>> /\ Event(Head(wait_lists[l])))
    /\ \A t \in Tasks \ SyncTasks : SF_frameVars(Ends(t) \/ Rests(t))
    /\ \A a \in Asyncs : /\ SF_frameVars(here = a /\ \E c \in Coroutines : Drop(c))
                         /\ SF_frameVars(Ends(a))

-----------------------------------------------------------------------------
(* Properties *)

FrameTypeOK ==
    /\ at \in [Coroutines -> {"none", "initial", "body", "final"}]
    /\ owner \in [Coroutines -> Callers \union {Scheduler, Nobody}]
    /\ continuation \in [Asyncs -> Coroutines \union {Nobody}]
    /\ root \in [Asyncs -> Tasks \union {Nobody}]
    /\ resume_point \in [Tasks -> Coroutines \union {Nobody}]
    /\ inner \in [Tasks -> Coroutines \union {Nobody}]
    /\ serves \in [SyncTasks -> Callers \union {Nobody}]
    /\ slot \in [Callers -> {"none", "starting", "open", "done"}]

\* Every frame has exactly one owner that will destroy it: the scheduler owns
\* the tasks that it knows and no others, everything else is held by code that
\* is still there.  So no frame is destroyed under the scheduler or under a
\* coroutine that waits for it, and none is forgotten.
FramesOwned ==
    /\ \A t \in Tasks : state[t] # "Created" <=> owner[t] = Scheduler
    /\ \A c \in Coroutines :
          IF at[c] = "none" THEN owner[c] = Nobody
          ELSE \/ owner[c] \in {Outside, Scheduler}
               \/ owner[c] \in Coroutines /\ at[owner[c]] # "none"

\* Where a task stands: the coroutine that executes or will be resumed
Stands(t) == IF state[t] = "Running" THEN inner[t] ELSE resume_point[t]

\* c waits for an Async to end.
Awaits(c, a) == a \in Asyncs /\ at[a] = "body" /\ continuation[a] = c

RootOf(c) == IF c \in Asyncs THEN root[c] ELSE c

\* What the scheduler resumes is the innermost coroutine of the task itself:
\* alive, and waiting for no other coroutine.
ResumesInnermost ==
    \A t \in Tasks : state[t] # "Created" =>
        /\ Stands(t) \in Coroutines /\ RootOf(Stands(t)) = t
        /\ at[Stands(t)] = "body" \/ (Stands(t) = t /\ at[t] # "none")
        /\ ~\E a \in Asyncs : Awaits(Stands(t), a)

\* The continuation of an Async that has begun is alive, waits for this Async
\* alone, holds it, and belongs to the same task: the way back leads through
\* the coroutines that are waiting, to the task.
WayBack ==
    /\ \A a \in Asyncs : at[a] = "body" =>
          /\ continuation[a] \in Coroutines /\ at[continuation[a]] = "body"
          /\ owner[a] = continuation[a]
          /\ root[a] \in Tasks /\ RootOf(continuation[a]) = root[a]
    /\ \A a, b \in Asyncs, c \in Coroutines : Awaits(c, a) /\ Awaits(c, b) => a = b

\* A call of sync_wait() does not return before the task that has the address
\* of its slot has written it, and that task is the only one; the caller, in
\* whose frame or on whose stack the slot lives, stays.
SlotOutlives ==
    /\ \A w \in SyncTasks : serves[w] # Nobody /\ at[w] # "final" =>
          slot[serves[w]] \in {"starting", "open"}
    /\ \A v, w \in SyncTasks : serves[v] # Nobody /\ serves[v] = serves[w]
                               /\ at[v] # "final" /\ at[w] # "final" => v = w
    /\ \A c \in Callers : slot[c] \in {"starting", "open"} =>
          \E w \in SyncTasks : serves[w] = c /\ at[w] # "final"
    /\ \A c \in Coroutines : slot[c] # "none" => at[c] = "body"

\* A client task keeps the processor from a task below it that is not over.
Outranked ==
    \E t \in Tasks \ SyncTasks, u \in Tasks :
        state[t] = "Ready" /\ state[u] # "Created" /\ priority[t] < priority[u]

\* A sync_wait() whose pump runs at most one task a call returns, although
\* calls that were made later, on top of it, must return before it; unless a
\* client task comes back again and again above another task, which starves
\* what is below it by design.
SyncReturns ==
    \A c \in Callers : slot[c] # "none" ~> slot[c] = "none" \/ Outranked
=============================================================================
