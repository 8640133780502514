---------------------------- MODULE FairPermits -----------------------------
(***************************************************************************)
(* What a counting semaphore promises: permits go to the tasks that asked  *)
(* for them in the order in which they asked, nobody overtakes a waiting   *)
(* task, a permit that has been granted is not taken back, and a task      *)
(* whose wait has timed out consumes none.                                 *)
(***************************************************************************)
EXTENDS Integers, Sequences, SequencesExt

CONSTANTS
    Tasks,
    Initial,    \* permits available at the start
    MaxCount    \* permits that can be kept

VARIABLES
    available,  \* permits nobody has asked for
    waiting,    \* the tasks without a permit, in the order of their requests
    granted,    \* tasks that have been given a permit and have not noticed yet
    expired     \* tasks that have given up and have not noticed yet

vars == <<available, waiting, granted, expired>>

Init ==
    /\ available = Initial
    /\ waiting = <<>>
    /\ granted = {}
    /\ expired = {}

Take ==
    /\ waiting = <<>> /\ available > 0
    /\ available' = available - 1
    /\ UNCHANGED <<waiting, granted, expired>>

Wait(t) ==
    /\ available = 0
    /\ ~Contains(waiting, t) /\ t \notin granted \union expired
    /\ waiting' = Append(waiting, t)
    /\ UNCHANGED <<available, granted, expired>>

Grant ==
    /\ waiting # <<>>
    /\ granted' = granted \union {Head(waiting)}
    /\ waiting' = Tail(waiting)
    /\ UNCHANGED <<available, expired>>

Keep ==
    /\ waiting = <<>> /\ available < MaxCount
    /\ available' = available + 1
    /\ UNCHANGED <<waiting, granted, expired>>

GiveUp(i) ==
    /\ waiting' = RemoveAt(waiting, i)
    /\ expired' = expired \union {waiting[i]}
    /\ UNCHANGED <<available, granted>>

Notice(t) ==
    /\ t \in granted \union expired
    /\ granted' = granted \ {t}
    /\ expired' = expired \ {t}
    /\ UNCHANGED <<available, waiting>>

Next ==
    \/ Take \/ Grant \/ Keep
    \/ \E t \in Tasks : Wait(t) \/ Notice(t)
    \/ \E i \in 1 .. Len(waiting) : GiveUp(i)

Spec == Init /\ [][Next]_vars
=============================================================================
