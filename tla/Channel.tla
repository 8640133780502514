------------------------------ MODULE Channel -------------------------------
(***************************************************************************)
(* What a bounded queue promises, without a ring buffer or wait lists:     *)
(* values come out in the order in which they were offered, each of them   *)
(* once.  The first Capacity of them are accepted for good; the ones behind*)
(* belong to senders that wait and may still take them back.  Receivers    *)
(* that find nothing are handed values in the order in which they asked.   *)
(***************************************************************************)
EXTENDS Integers, Sequences, SequencesExt

CONSTANTS
    Tasks,
    Values,
    NoValue,
    Capacity

VARIABLES
    items,      \* values offered and not received, oldest first
    asking,     \* receivers without a value, in the order of their requests
    handed      \* per task, the value it was handed and has not noticed yet

vars == <<items, asking, handed>>

Init ==
    /\ items = <<>>
    /\ asking = <<>>
    /\ handed = [t \in Tasks |-> NoValue]

Offer(v) ==
    /\ asking = <<>>
    /\ items' = Append(items, v)
    /\ UNCHANGED <<asking, handed>>

Hand(v) ==
    /\ asking # <<>>
    /\ handed' = [handed EXCEPT ![Head(asking)] = v]
    /\ asking' = Tail(asking)
    /\ UNCHANGED items

Receive ==
    /\ items # <<>>
    /\ items' = Tail(items)
    /\ UNCHANGED <<asking, handed>>

Ask(t) ==
    /\ items = <<>>
    /\ ~Contains(asking, t) /\ handed[t] = NoValue
    /\ asking' = Append(asking, t)
    /\ UNCHANGED <<items, handed>>

\* A sender takes back a value that was not accepted yet.
Withdraw(i) ==
    /\ i > Capacity
    /\ items' = RemoveAt(items, i)
    /\ UNCHANGED <<asking, handed>>

GiveUp(i) ==
    /\ asking' = RemoveAt(asking, i)
    /\ UNCHANGED <<items, handed>>

Notice(t) ==
    /\ handed[t] # NoValue
    /\ handed' = [handed EXCEPT ![t] = NoValue]
    /\ UNCHANGED <<items, asking>>

Next ==
    \/ \E v \in Values : Offer(v) \/ Hand(v)
    \/ Receive
    \/ \E t \in Tasks : Ask(t) \/ Notice(t)
    \/ \E i \in 1 .. Len(items) : Withdraw(i)
    \/ \E i \in 1 .. Len(asking) : GiveUp(i)

Spec == Init /\ [][Next]_vars
=============================================================================
