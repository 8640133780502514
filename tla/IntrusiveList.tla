---------------------------- MODULE IntrusiveList ---------------------------
(***************************************************************************)
(* ListNode and List (include/rtos/intrusive_list.hpp): circular doubly    *)
(* linked lists with a sentinel, made of the nodes themselves.  A node that*)
(* points to itself is in no list.  The assignments of an operation follow *)
(* one another as in the code, because the nodes involved may coincide.    *)
(***************************************************************************)
EXTENDS Integers, Sequences, FiniteSets, SequencesExt, ListOps

CONSTANTS
    Nodes,    \* the ready_link, wait_link and delay_link objects
    Heads     \* the sentinels of the lists

ASSUME ListAssumption ==
    /\ Nodes \cap Heads = {}
    /\ IsFiniteSet(Nodes \union Heads)

VARIABLES
    prev,
    next

links == <<prev, next>>

All == Nodes \union Heads

Init ==
    /\ prev = [n \in All |-> n]
    /\ next = [n \in All |-> n]

linked(n) == next[n] # n
empty(h) == ~linked(h)

\* Mutant: the link back from the next node is forgotten
unlinkOneWay(n) ==
    /\ next' = [next EXCEPT ![prev[n]] = next[n], ![n] = n]
    /\ prev' = [prev EXCEPT ![n] = n]

\* prev->next = next;  next->prev = prev;  prev = next = this
unlink(n) ==
    LET p == prev[n]
        next1 == [next EXCEPT ![p] = next[n]]
        prev1 == [prev EXCEPT ![next1[n]] = p]
    IN  /\ next' = [next1 EXCEPT ![n] = n]
        /\ prev' = [prev1 EXCEPT ![n] = n]

\* Mutant: the node is put behind pos
insert_after(n, pos) ==
    /\ next' = [next EXCEPT ![n] = next[pos], ![pos] = n]
    /\ prev' = [prev EXCEPT ![n] = pos, ![next[pos]] = n]

\* prev = pos.prev;  next = &pos;  pos.prev->next = this;  pos.prev = this
insert_before(n, pos) ==
    /\ next' = [next EXCEPT ![n] = pos, ![prev[pos]] = n]
    /\ prev' = [prev EXCEPT ![n] = prev[pos], ![pos] = n]

push_back(n, h) == insert_before(n, h)

pop_front(h) == ~empty(h) /\ unlink(next[h])

\* Callers insert only nodes that are in no list, and only before a sentinel
\* or a node that is in one.
Next ==
    \/ \E n \in Nodes : unlink(n)
    \/ \E n \in Nodes, pos \in Nodes :
          n # pos /\ ~linked(n) /\ linked(pos) /\ insert_before(n, pos)
    \/ \E n \in Nodes, h \in Heads : ~linked(n) /\ push_back(n, h)
    \/ \E h \in Heads : pop_front(h)

Spec == Init /\ [][Next]_links

-----------------------------------------------------------------------------
(* Properties *)

TypeOK ==
    /\ prev \in [All -> All]
    /\ next \in [All -> All]

\* The links are inverse to each other, so a node can be taken out without
\* knowing its list, twice if need be, and no sentinel is ever lost: the links
\* of no operation leave a node that one neighbour has forgotten.
RingIntact ==
    \A n \in All : next[prev[n]] = n /\ prev[next[n]] = n

\* Whatever is inserted and unlinked, in whatever order, every link leads to a
\* node and the links are inverse to each other.
RingInv == TypeOK /\ RingIntact

\* The nodes met on the way from a sentinel along the links l, until it is met
\* again
Walked(l, h) ==
    LET at[k \in 0 .. Cardinality(All)] == IF k = 0 THEN h ELSE l[at[k - 1]]
        size == CHOOSE k \in 0 .. Cardinality(Nodes) :
                    at[k + 1] = h /\ \A j \in 1 .. k : at[j] # h
    IN  [i \in 1 .. size |-> at[i]]

Contents(h) == Walked(next, h)

ListsAct ==
    /\ \A n \in Nodes : unlink(n) =>
          \A h \in Heads : Contents(h)' = Unlink(Contents(h), n)
    /\ \A n \in Nodes, h \in Heads : ~linked(n) /\ push_back(n, h) =>
          \A g \in Heads : Contents(g)' = IF g = h THEN Append(Contents(g), n)
                                          ELSE Contents(g)
    /\ \A n, pos \in Nodes : n # pos /\ ~linked(n) /\ linked(pos) /\ insert_before(n, pos) =>
          \A g \in Heads : \/ /\ ~Contains(Contents(g), pos)
                              /\ Contents(g)' = Contents(g)
                           \/ \E i \in 1 .. Len(Contents(g)) :
                                 /\ Contents(g)[i] = pos
                                 /\ Contents(g)' = InsertAt(Contents(g), i, n)
    /\ \A h \in Heads : pop_front(h) =>
          \A g \in Heads : Contents(g)' = IF g = h THEN Tail(Contents(g))
                                          ELSE Contents(g)

\* On the sequences that the rest of the project works with, the operations are
\* those of module ListOps, and they leave every other list alone.
ActsOnSequences == [][ListsAct]_links
=============================================================================
