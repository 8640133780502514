----------------------------- MODULE EventGroup -----------------------------
(***************************************************************************)
(* EventGroup (include/rtos/event_group.hpp) used by tasks and interrupts  *)
(* of the scheduler of module Kernel: a word of event bits, waits for any  *)
(* or all of some bits, with clear-on-exit and timeouts, and the           *)
(* rendezvous sync().  One call of set() wakes any number of tasks in one  *)
(* critical section.                                                       *)
(***************************************************************************)
EXTENDS Kernel

CONSTANTS
    Bits,       \* the bit numbers in use; EventBits is SUBSET Bits
    Requests,   \* the WaitInfo that clients pass: [want, all, clear]
    None        \* no WaitInfo, or one whose result is not assigned

WaitInfo == [want : SUBSET Bits, all : BOOLEAN, clear : BOOLEAN]

ASSUME EventGroupAssumption ==
    /\ "waiters" \in Lists
    /\ Requests \subseteq WaitInfo
    /\ None \notin WaitInfo /\ \A b \in SUBSET Bits : b # None

VARIABLES
    bits,       \* bits_
    info,       \* WaitInfo of the awaiter a task is suspended in
    result      \* WaitInfo::result of that awaiter

groupVars == <<kernelVars, bits, info, result>>

waiters == wait_lists["waiters"]

GroupInit ==
    /\ Init
    /\ bits = {}
    /\ info = [t \in Tasks |-> None]
    /\ result = [t \in Tasks |-> None]

met(i, b) == IF i.all THEN i.want \subseteq b ELSE i.want \cap b # {}

\* Mutant: only the first waiter is looked at
WokenFirst(new) ==
    Only(waiters, {t \in Range(waiters) : t = Head(waiters) /\ met(info[t], bits \union new)})

\* Mutant: a waiter that is woken hides the bits it clears from those after it
WokenInTurn(new) ==
    LET hidden(k) == UNION {info[waiters[j]].want : j \in
            {n \in 1 .. k - 1 : info[waiters[n]].clear /\ met(info[waiters[n]], bits \union new)}}
    IN  Only(waiters, {waiters[k] : k \in
            {n \in 1 .. Len(waiters) : met(info[waiters[n]], (bits \union new) \ hidden(n))}})

\* The waiters whose condition the raised bits meet, in list order
Woken(new) == Only(waiters, {t \in Range(waiters) : met(info[t], bits \union new)})

ToClear(new) == UNION {info[t].want : t \in {u \in Range(Woken(new)) : info[u].clear}}

\* Mutant: the snapshot is taken after the clear-on-exit
SnapshotLate(new) == (bits \union new) \ ToClear(new)

Snapshot(new) == bits \union new

\* Mutant: no clear-on-exit
ClearedNever(new, more) == bits \union new

Cleared(new, more) == (bits \union new) \ (ToClear(new) \union more)

\* set_locked: all those waiters are woken with the same snapshot, and only
\* then the bits they asked to clear are cleared.  In the same critical section
\* sync() clears more bits, or its task joins the list (blocked).
set_locked(new, more, blocked) ==
    LET woken == Range(Woken(new)) IN
    /\ bits' = Cleared(new, more)
    /\ result' = [t \in Tasks |-> IF t \in woken THEN Snapshot(new) ELSE result[t]]
    /\ state' = [t \in Tasks |-> IF t \in woken THEN "Ready"
                                 ELSE IF t \in Range(blocked) THEN "Blocked" ELSE state[t]]
    /\ wait_lists' = [wait_lists EXCEPT !["waiters"] =
                         Only(@, Tasks \ woken) \o blocked]
    /\ delay_list' = Only(delay_list, Tasks \ woken)
    /\ ready_lists' = [p \in Priority |->
          ready_lists[p] \o Only(Woken(new), {t \in woken : priority[t] = p})]
    /\ pend' = (pend \/ (PREEMPTIVE /\ running_prio # NoRunningTask
                           /\ \E t \in woken : priority[t] < running_prio))
    /\ UNCHANGED <<priority, deadline, tick_count, current, running_prio, ticking>>

\* set, set_from_isr
Set(new) ==
    /\ Interrupts
    /\ set_locked(new, {}, <<>>)
    /\ UNCHANGED <<info, timed_out, stack>>

\* clear, from a task or an interrupt
Clear(old) ==
    /\ Interrupts
    /\ bits' = bits \ old
    /\ UNCHANGED <<kernelVars, info, result>>

\* WaitAwaiter, WaitForAwaiter: await_suspend, with try_take_locked
Wait(i, timeout) ==
    /\ Executing
    /\ \/ /\ met(i, bits)
          /\ bits' = IF i.clear THEN bits \ i.want ELSE bits
          /\ UNCHANGED <<kernelVars, info, result>>
       \/ /\ ~met(i, bits)
          /\ info' = [info EXCEPT ![current] = i]
          /\ BlockCurrent("waiters", timeout)
          /\ UNCHANGED <<bits, result>>

AllOf(want) == [want |-> want, all |-> TRUE, clear |-> TRUE]

\* Mutant: the condition is tested after the clear-on-exit of the others
PassesLate(new, want) == want \subseteq (bits \union new) \ ToClear(new)

Passes(new, want) == want \subseteq bits \union new

\* SyncAwaiter::await_suspend: the bits are set and wake whoever they meet; the
\* task passes when the bits before any clear-on-exit are all it waits for.
Sync(new, want) ==
    /\ Executing
    /\ \/ /\ Passes(new, want)
          /\ set_locked(new, want, <<>>)
          /\ UNCHANGED <<info, timed_out, stack>>
       \/ /\ ~Passes(new, want)
          /\ set_locked(new, {}, <<current>>)
          /\ info' = [info EXCEPT ![current] = AllOf(want)]
          /\ timed_out' = [timed_out EXCEPT ![current] = FALSE]
          /\ stack' = Suspended

\* await_resume, and the awaiter ends
GroupDispatch ==
    /\ Dispatch
    /\ info' = [info EXCEPT ![current'] = None]
    /\ result' = [result EXCEPT ![current'] = None]
    /\ UNCHANGED bits

GroupNext ==
    \/ \E b \in SUBSET Bits : Set(b) \/ Clear(b)
    \/ \E i \in Requests, n \in Timeouts : Wait(i, n)
    \/ \E i \in Requests, b \in Bits : i.all /\ i.clear /\ Sync({b}, i.want)
    \/ GroupDispatch
    \/ Background /\ UNCHANGED <<bits, info, result>>

GroupSpec == GroupInit /\ [][GroupNext]_groupVars

-----------------------------------------------------------------------------
(* Tasks that use the group for nothing but a rendezvous: each has a bit of *)
(* its own (Bits = Tasks) and waits for all of them.                        *)

Meet == Sync({current}, Bits)

MeetNext ==
    \/ Meet
    \/ GroupDispatch
    \/ Background /\ UNCHANGED <<bits, info, result>>

MeetProcessor ==
    \/ GroupDispatch
    \/ Meet
    \/ (PendSV \/ ScanEmpty \/ Return \/ Yield) /\ UNCHANGED <<bits, info, result>>

\* Tasks that start, do not end, and come back to the rendezvous.
MeetFairSpec ==
    /\ GroupInit
    /\ [][MeetNext /\ \A t \in Tasks : state[t] # "Created" => state'[t] # "Created"]_groupVars
    /\ SF_groupVars(MeetProcessor)
    /\ WF_groupVars(TickIsr /\ UNCHANGED <<bits, info, result>>)
    /\ WF_groupVars(TickWake /\ UNCHANGED <<bits, info, result>>)
    /\ \A t \in Tasks :
          /\ SF_groupVars(Start(t, 0) /\ UNCHANGED <<bits, info, result>>)
          /\ SF_groupVars(Meet /\ current = t)

-----------------------------------------------------------------------------
(* Properties *)

\* No task waits for an event that is there: whatever sets and clears bits,
\* and whoever wakes first, no wakeup is missed.
NoMissedEvent == \A t \in Range(waiters) : ~met(info[t], bits)

\* A wait that did not time out returns bits that met its condition, also when
\* they have been cleared before the task gets the processor.
SnapshotMeets ==
    \A t \in Tasks : info[t] # None /\ state[t] = "Ready" /\ ~timed_out[t] =>
        result[t] # None /\ met(info[t], result[t])

\* The bits that one task consumes are not hidden from another: whoever stays in
\* the list while others are woken did not meet the snapshot they were woken
\* with, in whatever order they wait.
NobodyPassedOver ==
    [][\A t, u \in Tasks :
          result[t] = None /\ result'[t] # None
          /\ Contains(waiters, u) /\ Contains(waiters', u)
             => ~met(info[u], result'[t])]_groupVars

\* The inductive invariant: a task has an unfinished wait exactly from the moment
\* it joins the list until it is resumed.
GroupTypeOK ==
    /\ bits \in SUBSET Bits
    /\ info \in [Tasks -> WaitInfo \union {None}]
    /\ result \in [Tasks -> (SUBSET Bits) \union {None}]

InfoAgree ==
    \A t \in Tasks :
        /\ info[t] # None => state[t] \in {"Ready", "Blocked"}
        /\ Contains(waiters, t) <=> (info[t] # None /\ state[t] = "Blocked")

GroupInv == IInv /\ GroupTypeOK /\ InfoAgree /\ NoMissedEvent /\ SnapshotMeets

\* Woken, and not resumed yet
LetThrough == {t \in Tasks : info[t] # None /\ state[t] = "Ready"}

Meeting == INSTANCE Barrier WITH
    Participants <- Tasks, arrived <- Range(waiters), released <- LetThrough

\* sync() keeps the promise of module Barrier: nobody passes before the last has
\* come, then all pass, and a quick one that comes back joins the next round.
IsBarrier == Meeting!Spec

\* Between the rounds no bit is left over and none is lost.
RoundsAreClean == bits = Range(waiters)

\* The inductive invariant of the rendezvous: all wait for the same, without a
\* timeout.
MeetInv ==
    /\ GroupInv
    /\ \A t \in Tasks : /\ info[t] # None => info[t] = AllOf(Bits)
                        /\ Contains(waiters, t) => ~Contains(delay_list, t)
    /\ RoundsAreClean

\* Everybody who arrives passes.
AllPass == \A t \in Tasks : Contains(waiters, t) ~> ~Contains(waiters, t)
=============================================================================
