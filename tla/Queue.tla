------------------------------- MODULE Queue --------------------------------
(***************************************************************************)
(* Queue<T, N> (include/rtos/queue.hpp) used by tasks and interrupts of    *)
(* the scheduler of module Kernel: a ring buffer of N slots, a wait list   *)
(* of receivers and one of senders, and the direct hand-off in both        *)
(* directions: a sender constructs the value in the awaiter of the first   *)
(* receiver, a receiver moves the value of the first sender into the       *)
(* buffer.                                                                 *)
(***************************************************************************)
EXTENDS Kernel

CONSTANTS
    N,         \* capacity
    Values,
    NoValue    \* storage without an object

ASSUME QueueAssumption ==
    /\ {"receivers", "senders"} \subseteq Lists
    /\ N \in Nat \ {0}
    /\ NoValue \notin Values

VARIABLES
    buf,       \* the slots, 0 .. N - 1
    head,      \* head_
    count,     \* count_
    payload,   \* the value or the storage in the awaiter of a suspended task
    receiving  \* history: the tasks suspended in receive() or receive_for()

queueVars == <<kernelVars, buf, head, count, payload, receiving>>

receivers == wait_lists["receivers"]
senders == wait_lists["senders"]

QueueInit ==
    /\ Init
    /\ buf = [i \in 0 .. N - 1 |-> NoValue]
    /\ head = 0
    /\ count = 0
    /\ payload = [t \in Tasks |-> NoValue]
    /\ receiving = {}

\* Mutant: the receiver is woken before a value is constructed for it
DeliverNothing(v) ==
    \/ /\ receivers # <<>>
       /\ WakeWaiter("receivers", Head(receivers))
       /\ UNCHANGED <<buf, head, count, payload, receiving>>
    \/ /\ receivers = <<>> /\ count < N
       /\ buf' = [buf EXCEPT ![(head + count) % N] = v]
       /\ count' = count + 1
       /\ UNCHANGED <<kernelVars, head, payload, receiving>>

\* deliver_or_push_locked, when it succeeds
DeliverOrPush(v) ==
    \/ /\ receivers # <<>>
       /\ payload' = [payload EXCEPT ![Head(receivers)] = v]
       /\ WakeWaiter("receivers", Head(receivers))
       /\ UNCHANGED <<buf, head, count, receiving>>
    \/ /\ receivers = <<>> /\ count < N
       /\ buf' = [buf EXCEPT ![(head + count) % N] = v]
       /\ count' = count + 1
       /\ UNCHANGED <<kernelVars, head, payload, receiving>>

\* Mutant: the last one
LastSender == senders[Len(senders)]

FirstSender == Head(senders)

\* Mutant: blocked senders are forgotten
PopOnly ==
    /\ count > 0
    /\ head' = (head + 1) % N
    /\ buf' = [buf EXCEPT ![head] = NoValue]
    /\ count' = count - 1
    /\ UNCHANGED <<kernelVars, payload, receiving>>

\* Mutant: the index does not wrap
PopPastEnd ==
    /\ count > 0 /\ senders = <<>>
    /\ head' = head + 1
    /\ buf' = [buf EXCEPT ![head] = NoValue]
    /\ count' = count - 1
    /\ UNCHANGED <<kernelVars, payload, receiving>>

\* pop_slot_locked and wake_one_sender_locked: the freed slot takes the value
\* of the first sender.
PopAndRefill ==
    /\ count > 0
    /\ head' = (head + 1) % N
    /\ IF senders = <<>>
       THEN /\ buf' = [buf EXCEPT ![head] = NoValue]
            /\ count' = count - 1
            /\ UNCHANGED <<kernelVars, payload>>
       ELSE /\ buf' = [buf EXCEPT ![head] = NoValue,
                                  ![(head + count) % N] = payload[FirstSender]]
            /\ payload' = [payload EXCEPT ![FirstSender] = NoValue]
            /\ WakeWaiter("senders", FirstSender)
            /\ UNCHANGED count
    /\ UNCHANGED receiving

\* SendAwaiter, SendForAwaiter: await_suspend
Send(v, timeout) ==
    /\ Executing
    /\ \/ DeliverOrPush(v)
       \/ /\ receivers = <<>> /\ count = N
          /\ payload' = [payload EXCEPT ![current] = v]
          /\ BlockCurrent("senders", timeout)
          /\ UNCHANGED <<buf, head, count, receiving>>

\* ReceiveAwaiter, ReceiveForAwaiter: await_suspend
Receive(timeout) ==
    /\ Executing
    /\ \/ PopAndRefill
       \/ /\ count = 0
          /\ BlockCurrent("receivers", timeout)
          /\ receiving' = receiving \union {current}
          /\ UNCHANGED <<buf, head, count, payload>>

\* from a task, an interrupt or code outside all tasks; a call that fails
\* changes nothing
TrySend(v) == Interrupts /\ DeliverOrPush(v)
TryReceive == Interrupts /\ PopAndRefill

\* await_resume moves the value out; a timed-out awaiter is destroyed with the
\* value it still holds.
QueueDispatch ==
    /\ Dispatch
    /\ receiving' = receiving \ {current'}
    /\ payload' = [payload EXCEPT ![current'] = NoValue]
    /\ UNCHANGED <<buf, head, count>>

QueueNext ==
    \/ \E v \in Values, n \in Timeouts : Send(v, n)
    \/ \E n \in Timeouts : Receive(n)
    \/ \E v \in Values : TrySend(v)
    \/ TryReceive
    \/ QueueDispatch
    \/ Background /\ UNCHANGED <<buf, head, count, payload, receiving>>

QueueSpec == QueueInit /\ [][QueueNext]_queueVars

-----------------------------------------------------------------------------
(* Properties *)

\* The ring buffer stays within its bounds and holds nothing but values.
QueueTypeOK ==
    /\ buf \in [0 .. N - 1 -> Values \union {NoValue}]
    /\ head \in 0 .. N - 1
    /\ count \in 0 .. N
    /\ payload \in [Tasks -> Values \union {NoValue}]
    /\ receiving \subseteq Tasks

\* Receivers wait only while there is nothing to receive and senders only
\* while there is no room, whatever wakes, timeouts and hand-offs happen in
\* between: no sequence of them parks both sides at once or strands one.
NobodyStranded ==
    /\ receivers # <<>> => count = 0 /\ senders = <<>>
    /\ senders # <<>> => count = N

\* t has been handed a value and has not been resumed yet
Handed(t) == t \in receiving /\ state[t] = "Ready" /\ ~timed_out[t]

\* Exactly the occupied slots and the awaiters that should hold an object hold
\* one: the moves of the hand-offs read no storage that was never constructed
\* and leak no object into a slot that is used again.
StorageAgrees ==
    /\ \A i \in 0 .. N - 1 :
          (buf[i] # NoValue) <=> (\E k \in 0 .. count - 1 : i = (head + k) % N)
    /\ \A t \in Tasks : t \in receiving => ((payload[t] # NoValue) <=> Handed(t))
    /\ \A t \in Tasks : Contains(senders, t) => payload[t] # NoValue

\* The inductive invariant: a task in receive() waits in the list or has been
\* woken, and a task that executes is in no awaiter that holds a value.
ReceiveAgree ==
    /\ \A t \in receiving : Contains(receivers, t) \/ state[t] = "Ready"
    /\ \A t \in Tasks : Contains(receivers, t) => t \in receiving
    /\ \A t \in Tasks : state[t] = "Running" => payload[t] = NoValue

QueueInv == IInv /\ QueueTypeOK /\ ReceiveAgree /\ NobodyStranded /\ StorageAgrees

\* What the queue has accepted, what blocked senders offer, and what receivers
\* have been handed
Stored == [k \in 1 .. count |-> buf[(head + k - 1) % N]]
Offered == [k \in 1 .. Len(senders) |-> payload[senders[k]]]
Items == Stored \o Offered
Delivered == [t \in Tasks |-> IF Handed(t) THEN payload[t] ELSE NoValue]

Chan == INSTANCE Channel WITH
    Capacity <- N,
    items <- Items,
    asking <- receivers,
    handed <- Delivered

\* The queue keeps the promise of module Channel: FIFO over the buffer and the
\* blocked senders behind it, nothing lost, nothing delivered twice.
IsFifo == Chan!Spec
=============================================================================
