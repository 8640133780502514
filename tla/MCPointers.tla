----------------------------- MODULE MCPointers -----------------------------
(***************************************************************************)
(* An instance of the two structures that are made of pointers for TLC: the*)
(* intrusive lists and the chain of free blocks, side by side.  They share *)
(* no memory: a step belongs to one of them.                               *)
(***************************************************************************)
EXTENDS IntrusiveList, FramePool

CONSTANTS n1, n2, n3, n4, h1, h2

PointersInit == Init /\ PoolInit

PointersNext ==
    \/ Next /\ UNCHANGED poolVars
    \/ PoolNext /\ UNCHANGED links

PointersSpec == PointersInit /\ [][PointersNext]_<<links, poolVars>>
=============================================================================
