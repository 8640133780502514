------------------------------ MODULE Barrier -------------------------------
(***************************************************************************)
(* What a rendezvous promises: nobody passes before everybody of the round *)
(* has arrived, the arrival of the last lets all of them pass, and a task  *)
(* that passed quickly and comes back belongs to the next round.           *)
(***************************************************************************)
CONSTANT Participants

VARIABLES
    arrived,    \* the tasks held by the present round
    released    \* tasks let through by an earlier round that have not moved yet

vars == <<arrived, released>>

Init == arrived = {} /\ released = {}

Hold(t) ==
    /\ t \notin arrived \union released
    /\ arrived \union {t} # Participants
    /\ arrived' = arrived \union {t}
    /\ UNCHANGED released

Complete(t) ==
    /\ t \notin arrived \union released
    /\ arrived \union {t} = Participants
    /\ arrived' = {}
    /\ released' = released \union arrived

Leave(t) ==
    /\ t \in released
    /\ released' = released \ {t}
    /\ UNCHANGED arrived

Next == \E t \in Participants : Hold(t) \/ Complete(t) \/ Leave(t)

Spec == Init /\ [][Next]_vars
=============================================================================
