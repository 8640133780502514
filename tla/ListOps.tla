------------------------------ MODULE ListOps -------------------------------
(***************************************************************************)
(* The intrusive list of include/rtos/intrusive_list.hpp seen from         *)
(* outside: a list is the sequence of its nodes from front to back, each   *)
(* node at most once.  push_back is Append, front and pop_front are Head   *)
(* and Tail, insert_before is InsertAt.                                    *)
(***************************************************************************)
EXTENDS Integers, Sequences, SequencesExt

\* ListNode::unlink: idempotent, whatever list the node is in.
Unlink(s, n) == IF Contains(s, n)
                THEN RemoveAt(s, CHOOSE i \in 1 .. Len(s) : s[i] = n)
                ELSE s

\* The nodes of s that are in W, in order: what one pass over a list picks.
Only(s, W) ==
    LET only[i \in 0 .. Len(s)] ==
            IF i = 0 THEN <<>>
            ELSE IF s[i] \in W THEN Append(only[i - 1], s[i]) ELSE only[i - 1]
    IN  only[Len(s)]

NoRepeat(s) == \A i, j \in 1 .. Len(s) : s[i] = s[j] => i = j
=============================================================================
