-------------------------- MODULE PointersProofs ---------------------------
(***************************************************************************)
(* The two pointer structures of the code.  The rings of module            *)
(* IntrusiveList stay intact for any set of nodes and any number of lists; *)
(* the chain of free blocks of module FramePool stays intact for any       *)
(* number of blocks, however frames come and go.                           *)
(***************************************************************************)
EXTENDS IntrusiveList, FramePool, ListOpsProofs, FiniteSetTheorems

-----------------------------------------------------------------------------
(* The rings of nodes *)

\* unlink() keeps the rings intact, wherever the node is, also when it is in
\* no list and when its two neighbours are the same node.
LEMMA UnlinkKeepsRings ==
    ASSUME RingInv, NEW n \in All, unlink(n)
    PROVE  RingInv'
<1> DEFINE p == prev[n]
           q == next[n]
           next1 == [next EXCEPT ![p] = q]
           prev1 == [prev EXCEPT ![next1[n]] = p]
<1>1. p \in All /\ q \in All /\ next[p] = n /\ prev[q] = n
  BY DEF RingInv, TypeOK, RingIntact
<1>2. next1[n] = q
  BY <1>1 DEF RingInv, TypeOK
<1>3. /\ next' = [x \in All |-> IF x = n THEN n ELSE IF x = p THEN q ELSE next[x]]
      /\ prev' = [x \in All |-> IF x = n THEN n ELSE IF x = q THEN p ELSE prev[x]]
  <2>1. next' = [next1 EXCEPT ![n] = n] /\ prev' = [prev1 EXCEPT ![n] = n]
    BY DEF unlink
  <2> QED BY <2>1, <1>1, <1>2 DEF RingInv, TypeOK
<1>4. TypeOK'
  BY <1>1, <1>3 DEF TypeOK, RingInv
<1>5. \A x \in All : next'[prev'[x]] = x /\ prev'[next'[x]] = x
  BY <1>1, <1>3 DEF RingInv, TypeOK, RingIntact
<1> QED BY <1>4, <1>5 DEF RingInv, RingIntact

\* insert_before() keeps them intact when the node was in no list.
LEMMA InsertKeepsRings ==
    ASSUME RingInv, NEW n \in All, NEW pos \in All, n # pos, ~linked(n),
           insert_before(n, pos)
    PROVE  RingInv'
<1> DEFINE p == prev[pos]
<1>1. p \in All /\ next[p] = pos /\ next[n] = n /\ prev[n] = n /\ p # n
  BY DEF RingInv, TypeOK, RingIntact, linked
<1>2. /\ next' = [x \in All |-> IF x = p THEN n ELSE IF x = n THEN pos ELSE next[x]]
      /\ prev' = [x \in All |-> IF x = pos THEN n ELSE IF x = n THEN p ELSE prev[x]]
  BY <1>1 DEF insert_before, RingInv, TypeOK
<1>3. TypeOK'
  BY <1>1, <1>2 DEF TypeOK, RingInv
<1>4. \A x \in All : next'[prev'[x]] = x /\ prev'[next'[x]] = x
  BY <1>1, <1>2 DEF RingInv, TypeOK, RingIntact
<1> QED BY <1>3, <1>4 DEF RingInv, RingIntact

\* Whatever the kernel and the primitives do with the lists, every link has
\* its counterpart.
THEOREM RingsStayIntact == Spec => []RingInv
<1>1. Init => RingInv
  BY DEF Init, RingInv, TypeOK, RingIntact
<1>2. RingInv /\ [Next]_links => RingInv'
  <2> SUFFICES ASSUME RingInv, [Next]_links PROVE RingInv'
    OBVIOUS
  <2>1. ASSUME NEW n \in Nodes, unlink(n) PROVE RingInv'
    BY <2>1, UnlinkKeepsRings DEF All
  <2>2. ASSUME NEW n \in Nodes, NEW pos \in Nodes, n # pos, ~linked(n), insert_before(n, pos)
        PROVE  RingInv'
    BY <2>2, InsertKeepsRings DEF All
  <2>3. ASSUME NEW n \in Nodes, NEW h \in Heads, ~linked(n), push_back(n, h) PROVE RingInv'
    BY <2>3, InsertKeepsRings, ListAssumption DEF All, push_back
  <2>4. ASSUME NEW h \in Heads, pop_front(h) PROVE RingInv'
    <3>1. next[h] \in All
      BY DEF RingInv, TypeOK, All
    <3> QED BY <2>4, <3>1, UnlinkKeepsRings DEF pop_front
  <2>5. CASE UNCHANGED links
    BY <2>5 DEF links, RingInv, TypeOK, RingIntact
  <2> QED BY <2>1, <2>2, <2>3, <2>4, <2>5 DEF Next
<1> QED BY <1>1, <1>2, PTL DEF Spec

-----------------------------------------------------------------------------
(* From the rings to the sequences of the rest of the project *)

\* What is met after k steps on the way round a list that holds c
At(h, c, k) == IF k \in 1 .. Len(c) THEN c[k] ELSE h

\* Along the links l, the list of sentinel h holds the nodes c.
Holds(l, h, c) ==
    /\ c \in Seq(Nodes)
    /\ NoRepeat(c)
    /\ \A k \in 0 .. Len(c) : l[At(h, c, k)] = At(h, c, k + 1)

\* f[k] is what is met after k steps along l
IsWalk(f, l, h, n) == f = [k \in 0 .. n |-> IF k = 0 THEN h ELSE l[f[k - 1]]]

LEMMA WalkExtends ==
    ASSUME NEW l, NEW h, NEW n \in Nat, \E f : IsWalk(f, l, h, n)
    PROVE  \E f : IsWalk(f, l, h, n + 1)
<1>1. PICK f : IsWalk(f, l, h, n)
  OBVIOUS
<1> DEFINE g == [k \in 0 .. n + 1 |-> IF k = n + 1 THEN l[f[n]] ELSE f[k]]
<1>2. \A k \in 0 .. n : f[k] = IF k = 0 THEN h ELSE l[f[k - 1]]
  BY <1>1 DEF IsWalk
<1>3. ASSUME NEW k \in 0 .. n + 1 PROVE g[k] = IF k = 0 THEN h ELSE l[g[k - 1]]
  <2>1. CASE k = n + 1
    <3>1. k # 0 /\ k - 1 = n /\ n \in 0 .. n + 1 /\ n # n + 1
      BY <2>1
    <3>2. g[k] = l[f[n]] /\ g[k - 1] = f[n]
      BY <2>1, <3>1
    <3> QED BY <3>1, <3>2
  <2>2. CASE k # n + 1
    <3>1. k \in 0 .. n /\ (k # 0 => k - 1 \in 0 .. n + 1 /\ k - 1 # n + 1)
      BY <2>2
    <3>2. g[k] = f[k] /\ (k # 0 => g[k - 1] = f[k - 1])
      BY <2>2, <3>1
    <3> QED BY <1>2, <3>1, <3>2
  <2> QED BY <2>1, <2>2
<1>4. g = [k \in 0 .. n + 1 |-> IF k = 0 THEN h ELSE l[g[k - 1]]]
  BY <1>3
<1>5. IsWalk(g, l, h, n + 1)
  BY <1>4 DEF IsWalk
<1> QED BY <1>5

LEMMA WalkExists ==
    ASSUME NEW l, NEW h, NEW n \in Nat
    PROVE  \E f : IsWalk(f, l, h, n)
<1> DEFINE T == {k \in Nat : ~ \E f : IsWalk(f, l, h, k)}
<1>1. SUFFICES ASSUME T # {} PROVE FALSE
  OBVIOUS
<1>2. PICK m \in T : \A k \in T : m <= k
  <2>1. T \in SUBSET Nat
    OBVIOUS
  <2> HIDE DEF T
  <2> QED BY <1>1, <2>1, LeastNumber
<1>3. CASE m = 0
  <2>1. IsWalk([k \in 0 .. 0 |-> h], l, h, 0)
    BY DEF IsWalk
  <2> QED BY <1>3, <2>1
<1>4. CASE m # 0
  <2>1. m - 1 \in Nat /\ ~(m <= m - 1)
    BY <1>4
  <2>2. \E f : IsWalk(f, l, h, m - 1)
    BY <1>2, <2>1
  <2>3. \E f : IsWalk(f, l, h, (m - 1) + 1)
    BY <2>1, <2>2, WalkExtends
  <2>4. (m - 1) + 1 = m
    OBVIOUS
  <2> QED BY <2>3, <2>4, Zenon
<1> QED BY <1>3, <1>4

\* A list is not longer than there are nodes.
LEMMA ListLength ==
    ASSUME NEW c \in Seq(Nodes), NoRepeat(c), NEW h \in Heads
    PROVE  /\ Cardinality(Nodes) \in Nat /\ Cardinality(All) \in Nat
           /\ Len(c) \in 0 .. Cardinality(Nodes)
           /\ Cardinality(Nodes) + 1 <= Cardinality(All)
<1>1. IsFiniteSet(All) /\ IsFiniteSet(Nodes) /\ Nodes \subseteq All
  BY ListAssumption, FS_Subset DEF All
<1>2. Cardinality(Nodes) \in Nat /\ Cardinality(All) \in Nat
  BY <1>1, FS_CardinalityType
<1>3. Len(c) \in Nat /\ c \in [1 .. Len(c) -> Nodes]
  BY LenProperties
<1>4. Len(c) <= Cardinality(Nodes)
  <2>1. c \in Injection(1 .. Len(c), Nodes)
    BY <1>3 DEF Injection, IsInjective, NoRepeat
  <2>2. Cardinality(1 .. Len(c)) = Len(c)
    BY <1>3, FS_Interval
  <2> QED BY <1>1, <2>1, <2>2, FS_Injection
<1>5. Cardinality(Nodes) + 1 <= Cardinality(All)
  <2>1. Nodes \union {h} \subseteq All /\ h \notin Nodes
    BY ListAssumption DEF All
  <2>2. /\ IsFiniteSet(Nodes \union {h})
        /\ Cardinality(Nodes \union {h}) = Cardinality(Nodes) + 1
    BY <1>1, <2>1, FS_AddElement
  <2> QED BY <1>1, <2>1, <2>2, FS_Subset
<1> QED BY <1>2, <1>3, <1>4, <1>5

\* The nodes met on the way round are those the list holds.
LEMMA WalkedHolds ==
    ASSUME NEW l, NEW h \in Heads, NEW c, Holds(l, h, c)
    PROVE  Walked(l, h) = c
<1> DEFINE N == Cardinality(All)
           W == Cardinality(Nodes)
           m == Len(c)
           Round(f, k) == f[k + 1] = h /\ \A j \in 1 .. k : f[j] # h
           size(f) == CHOOSE k \in 0 .. W : Round(f, k)
<1>1. /\ c \in Seq(Nodes) /\ NoRepeat(c) /\ N \in Nat /\ W \in Nat
      /\ m \in 0 .. W /\ W + 1 <= N
      /\ \A k \in 1 .. m : c[k] \in Nodes /\ c[k] # h
      /\ c = [i \in 1 .. m |-> c[i]]
  BY ListLength, LenProperties, ListAssumption DEF Holds
<1>2. PICK f : IsWalk(f, l, h, N) /\ Walked(l, h) = [i \in 1 .. size(f) |-> f[i]]
  <2> DEFINE g == CHOOSE f : IsWalk(f, l, h, N)
  <2>1. IsWalk(g, l, h, N)
    BY <1>1, WalkExists, Zenon
  <2>2. Walked(l, h) = [i \in 1 .. size(g) |-> g[i]]
    BY Zenon DEF Walked, IsWalk
  <2> QED BY <2>1, <2>2
<1>3. \A k \in 0 .. N : f[k] = IF k = 0 THEN h ELSE l[f[k - 1]]
  BY <1>2 DEF IsWalk
<1> HIDE DEF N, W, m
<1> DEFINE T == {k \in 0 .. m + 1 : f[k] # At(h, c, k)}
<1>4. T = {}
  <2>1. SUFFICES ASSUME T # {} PROVE FALSE
    OBVIOUS
  <2>2. PICK k \in T : \A j \in T : k <= j
    <3>1. T \in SUBSET Nat
      BY <1>1
    <3> HIDE DEF T
    <3> QED BY <2>1, <3>1, LeastNumber
  <2>3. k \in 0 .. m + 1 /\ f[k] # At(h, c, k)
    OBVIOUS
  <2>4. k # 0
    BY <1>1, <1>3, <2>3 DEF At
  <2>5. k \in 0 .. N /\ k - 1 \in 0 .. m /\ k - 1 \in 0 .. m + 1 /\ ~(k <= k - 1) /\ (k - 1) + 1 = k
    BY <1>1, <2>3, <2>4
  <2>6. f[k - 1] = At(h, c, k - 1)
    BY <2>2, <2>5
  <2>7. l[At(h, c, k - 1)] = At(h, c, k)
    BY <2>5 DEF Holds, m
  <2> QED BY <1>3, <2>3, <2>4, <2>5, <2>6, <2>7, Zenon
<1>5. \A k \in 1 .. m : f[k] = c[k]
  BY <1>1, <1>4 DEF At, m
<1>6. f[m + 1] = h
  BY <1>1, <1>4 DEF At, m
<1>7. size(f) = m
  <2>1. m \in 0 .. W /\ Round(f, m)
    BY <1>1, <1>5, <1>6
  <2>2. ASSUME NEW k \in 0 .. W, Round(f, k) PROVE k = m
    <3>1. ~(k < m)
      <4>1. ASSUME k < m PROVE FALSE
        <5>1. k + 1 \in 1 .. m
          BY <1>1, <4>1
        <5> QED BY <1>1, <1>5, <2>2, <5>1
      <4> QED BY <4>1
    <3>2. ~(m < k)
      <4>1. ASSUME m < k PROVE FALSE
        <5>1. m + 1 \in 1 .. k
          BY <1>1, <4>1
        <5> QED BY <1>6, <2>2, <5>1
      <4> QED BY <4>1
    <3> QED BY <1>1, <3>1, <3>2
  <2> HIDE DEF Round
  <2>3. size(f) \in 0 .. W /\ Round(f, size(f))
    BY <2>1, Zenon
  <2> QED BY <2>2, <2>3
<1> HIDE DEF size
<1>8. Walked(l, h) = [i \in 1 .. m |-> f[i]]
  BY <1>2, <1>7
<1> QED BY <1>1, <1>5, <1>8

\* On the way round nothing is met twice.
LEMMA WalkDistinct ==
    ASSUME NEW l, NEW h \in Heads, NEW c, Holds(l, h, c)
    PROVE  /\ Len(c) \in Nat
           /\ \A k \in 0 .. Len(c) + 1 : At(h, c, k) \in All
           /\ \A j, k \in 0 .. Len(c) : At(h, c, j) = At(h, c, k) => j = k
           /\ \A k \in 0 .. Len(c) + 1 : At(h, c, k) \in Nodes => k \in 1 .. Len(c)
<1>1. Len(c) \in Nat /\ \A k \in 1 .. Len(c) : c[k] \in Nodes /\ c[k] # h
  BY LenProperties, ElementOfSeq, ListAssumption DEF Holds
<1>2. \A j, k \in 1 .. Len(c) : c[j] = c[k] => j = k
  BY DEF Holds, NoRepeat
<1>3. h \notin Nodes
  BY ListAssumption
<1>4. ASSUME NEW j \in 0 .. Len(c), NEW k \in 0 .. Len(c), At(h, c, j) = At(h, c, k) PROVE j = k
  BY <1>1, <1>2, <1>4 DEF At
<1> QED BY <1>1, <1>3, <1>4 DEF At, All

\* A node or sentinel that leads to something on the way round is on it, one
\* step before.
LEMMA OneStepBefore ==
    ASSUME RingInv, NEW h \in Heads, NEW c, Holds(next, h, c),
           NEW x \in All, NEW k \in 1 .. Len(c) + 1, next[x] = At(h, c, k)
    PROVE  x = At(h, c, k - 1)
<1>1. Len(c) \in Nat /\ k - 1 \in 0 .. Len(c) /\ (k - 1) + 1 = k /\ k - 1 \in 0 .. Len(c) + 1
  BY WalkDistinct
<1>2. next[At(h, c, k - 1)] = At(h, c, k) /\ At(h, c, k - 1) \in All
  BY <1>1, WalkDistinct DEF Holds
<1> QED BY <1>2 DEF RingInv, RingIntact

\* unlink() takes the node out of the list it is in, and no other changes.
LEMMA UnlinkHolds ==
    ASSUME RingInv, NEW h \in Heads, NEW c, Holds(next, h, c), NEW n \in Nodes, unlink(n)
    PROVE  Holds(next', h, Unlink(c, n))
<1> DEFINE p == prev[n]
           q == next[n]
           m == Len(c)
           next1 == [next EXCEPT ![p] = q]
<1>1. /\ p \in All /\ q \in All /\ next[p] = n /\ n \in All
      /\ \A x \in All : next'[x] = IF x = n THEN n ELSE IF x = p THEN q ELSE next[x]
  <2>1. n \in All /\ p \in All /\ q \in All /\ next[p] = n
    BY DEF RingInv, TypeOK, RingIntact, All
  <2>2. next' = [next1 EXCEPT ![n] = n]
    BY DEF unlink
  <2> QED BY <2>1, <2>2 DEF RingInv, TypeOK
<1>2. /\ c \in Seq(Nodes) /\ NoRepeat(c) /\ m \in Nat
      /\ \A k \in 0 .. m : next[At(h, c, k)] = At(h, c, k + 1)
      /\ \A k \in 0 .. m + 1 : At(h, c, k) \in All
      /\ \A j, k \in 0 .. m : At(h, c, j) = At(h, c, k) => j = k
      /\ \A k \in 0 .. m + 1 : At(h, c, k) = n => k \in 1 .. m /\ c[k] = n
  <2>1. \A k \in 0 .. m + 1 : At(h, c, k) = n => k \in 1 .. m
    BY WalkDistinct
  <2> QED BY <2>1, WalkDistinct DEF Holds, At
<1>3. Unlink(c, n) \in Seq(Nodes) /\ NoRepeat(Unlink(c, n))
  BY <1>2, UnlinkProperties
<1> HIDE DEF p, q, m
<1>4. CASE ~Contains(c, n)
  <2>1. Unlink(c, n) = c
    BY <1>4 DEF Unlink
  <2>2. ASSUME NEW k \in 0 .. m PROVE next'[At(h, c, k)] = At(h, c, k + 1)
    <3>1. k \in 0 .. m + 1 /\ k + 1 \in 0 .. m + 1
      BY <1>2
    <3>2. At(h, c, k) # n /\ At(h, c, k + 1) # n
      BY <1>2, <1>4, <3>1 DEF Contains, m
    <3>3. At(h, c, k) # p
      BY <1>1, <1>2, <3>2
    <3> QED BY <1>1, <1>2, <3>1, <3>2, <3>3
  <2> QED BY <1>2, <2>1, <2>2 DEF Holds, m
<1>5. CASE Contains(c, n)
  <2>1. PICK i \in 1 .. m : c[i] = n /\ Unlink(c, n) = RemoveAt(c, i)
    BY <1>5, UnlinkIsRemoveAt DEF m
  <2> DEFINE d == Unlink(c, n)
  <2>2. /\ Len(d) = m - 1
        /\ \A j \in 1 .. m - 1 : d[j] = IF j < i THEN c[j] ELSE c[j + 1]
    BY <1>2, <2>1, RemoveAtProperties DEF m
  <2> HIDE DEF d
  <2>3. ASSUME NEW k \in 0 .. m
        PROVE  At(h, d, k) = IF k < i THEN At(h, c, k) ELSE At(h, c, k + 1)
    BY <1>2, <2>2 DEF At, m
  <2>4. At(h, c, i) = n /\ p = At(h, c, i - 1) /\ q = At(h, c, i + 1)
    <3>1. At(h, c, i) = n /\ i \in 1 .. Len(c) + 1 /\ i \in 0 .. m
      BY <1>2, <2>1 DEF At, m
    <3>2. p = At(h, c, i - 1)
      BY <1>1, <3>1, OneStepBefore
    <3>3. q = At(h, c, i + 1)
      BY <1>2, <3>1 DEF q
    <3> QED BY <3>1, <3>2, <3>3
  <2>5. ASSUME NEW k \in 0 .. m, k # i, k # i - 1
        PROVE  next'[At(h, c, k)] = At(h, c, k + 1)
    <3>1. At(h, c, k) # n /\ At(h, c, k) # p /\ At(h, c, k) \in All
      <4>1. i \in 0 .. m /\ i - 1 \in 0 .. m /\ k \in 0 .. m + 1
        BY <1>2, <2>1
      <4> QED BY <1>2, <2>4, <2>5, <4>1
    <3> QED BY <1>1, <1>2, <3>1
  <2>6. next'[At(h, c, i - 1)] = At(h, c, i + 1)
    <3>1. p # n
      <4>1. i \in 0 .. m /\ i - 1 \in 0 .. m /\ i # i - 1
        BY <1>2, <2>1
      <4> QED BY <1>2, <2>4, <4>1
    <3> QED BY <1>1, <2>4, <3>1
  <2>7. ASSUME NEW k \in 0 .. m - 1 PROVE next'[At(h, d, k)] = At(h, d, k + 1)
    <3>1. k \in 0 .. m /\ k + 1 \in 0 .. m
      BY <1>2
    <3>2. /\ At(h, d, k) = IF k < i THEN At(h, c, k) ELSE At(h, c, k + 1)
          /\ At(h, d, k + 1) = IF k + 1 < i THEN At(h, c, k + 1) ELSE At(h, c, k + 2)
      <4>1. (k + 1) + 1 = k + 2
        BY <3>1
      <4> QED BY <2>3, <3>1, <4>1, Zenon
    <3>3. CASE k < i - 1
      <4>1. k < i /\ k + 1 < i /\ k # i /\ k # i - 1
        BY <1>2, <2>1, <3>1, <3>3
      <4> QED BY <2>5, <3>1, <3>2, <4>1
    <3>4. CASE k = i - 1
      <4>1. k < i /\ ~(k + 1 < i) /\ k + 2 = i + 1
        BY <1>2, <2>1, <3>1, <3>4
      <4> QED BY <2>6, <3>2, <3>4, <4>1, Zenon
    <3>5. CASE k > i - 1
      <4>1. ~(k < i) /\ ~(k + 1 < i) /\ k + 1 # i /\ k + 1 # i - 1 /\ (k + 1) + 1 = k + 2
        BY <1>2, <2>1, <3>1, <3>5
      <4> QED BY <2>5, <3>1, <3>2, <4>1
    <3>6. k < i - 1 \/ k = i - 1 \/ k > i - 1
      BY <1>2, <2>1, <3>1
    <3> QED BY <3>3, <3>4, <3>5, <3>6, Zenon
  <2> QED BY <1>3, <2>2, <2>7 DEF Holds, d, m
<1> QED BY <1>4, <1>5

\* insert_before() puts the node where pos is met, and no other list changes.
LEMMA InsertHolds ==
    ASSUME RingInv, NEW h \in Heads, NEW c, Holds(next, h, c), NEW n \in Nodes, ~linked(n),
           NEW pos \in All, n # pos, insert_before(n, pos)
    PROVE  /\ \A i \in 1 .. Len(c) + 1 : At(h, c, i) = pos => Holds(next', h, InsertAt(c, i, n))
           /\ (\A i \in 1 .. Len(c) + 1 : At(h, c, i) # pos) => Holds(next', h, c)
<1> DEFINE p == prev[pos]
           m == Len(c)
<1>1. /\ p \in All /\ next[p] = pos /\ n \in All /\ p # n
      /\ \A x \in All : next'[x] = IF x = n THEN pos ELSE IF x = p THEN n ELSE next[x]
  <2>1. n \in All /\ p \in All /\ next[p] = pos /\ next[n] = n
    BY DEF RingInv, TypeOK, RingIntact, All, linked
  <2> QED BY <2>1 DEF RingInv, TypeOK, insert_before
<1>2. /\ c \in Seq(Nodes) /\ NoRepeat(c) /\ m \in Nat
      /\ \A k \in 0 .. m : next[At(h, c, k)] = At(h, c, k + 1)
      /\ \A k \in 0 .. m + 1 : At(h, c, k) \in All
      /\ \A j, k \in 0 .. m : At(h, c, j) = At(h, c, k) => j = k
  BY WalkDistinct DEF Holds
<1> HIDE DEF p
<1>3. \A k \in 0 .. m : At(h, c, k) # n
  <2>1. ASSUME NEW k \in 0 .. m, At(h, c, k) = n PROVE FALSE
    <3>1. k \in 1 .. m /\ At(h, c, k + 1) = n
      BY <1>2, <2>1, WalkDistinct DEF linked
    <3>2. k + 1 \in 1 .. m
      BY <1>2, <3>1, WalkDistinct
    <3>3. k + 1 \in 0 .. m /\ k + 1 # k
      BY <3>1, <3>2
    <3> QED BY <1>2, <2>1, <3>1, <3>3
  <2> QED BY <2>1
<1>4. ~Contains(c, n)
  <2>1. \A k \in 1 .. m : k \in 0 .. m /\ At(h, c, k) = c[k]
    BY <1>2 DEF At
  <2> QED BY <1>3, <2>1 DEF Contains
<1>5. ASSUME NEW i \in 1 .. m + 1, At(h, c, i) = pos PROVE Holds(next', h, InsertAt(c, i, n))
  <2> DEFINE d == InsertAt(c, i, n)
  <2>1. /\ d \in Seq(Nodes) /\ NoRepeat(d) /\ Len(d) = m + 1
        /\ \A j \in 1 .. m + 1 : d[j] = IF j < i THEN c[j] ELSE IF j = i THEN n ELSE c[j - 1]
    BY <1>2, <1>4, InsertAtProperties, InsertBeforeProperties
  <2> HIDE DEF d
  <2>2. ASSUME NEW k \in 0 .. m + 2
        PROVE  At(h, d, k) = IF k < i THEN At(h, c, k)
                             ELSE IF k = i THEN n ELSE At(h, c, k - 1)
    BY <1>2, <2>1 DEF At
  <2>3. p = At(h, c, i - 1)
    BY <1>1, <1>5, OneStepBefore
  <2>4. ASSUME NEW k \in 0 .. m, k # i - 1 PROVE next'[At(h, c, k)] = At(h, c, k + 1)
    <3>1. At(h, c, k) # n /\ At(h, c, k) # p /\ At(h, c, k) \in All
      <4>1. i - 1 \in 0 .. m /\ k \in 0 .. m + 1
        BY <1>2
      <4> QED BY <1>2, <1>3, <2>3, <2>4, <4>1
    <3> QED BY <1>1, <1>2, <3>1
  <2>5. ASSUME NEW k \in 0 .. m + 1 PROVE next'[At(h, d, k)] = At(h, d, k + 1)
    <3>1. /\ At(h, d, k) = IF k < i THEN At(h, c, k)
                           ELSE IF k = i THEN n ELSE At(h, c, k - 1)
          /\ At(h, d, k + 1) = IF k + 1 < i THEN At(h, c, k + 1)
                               ELSE IF k + 1 = i THEN n ELSE At(h, c, k)
      <4>1. k \in 0 .. m + 2 /\ k + 1 \in 0 .. m + 2 /\ (k + 1) - 1 = k
        BY <1>2
      <4> QED BY <2>2, <4>1, Zenon
    <3>2. CASE k < i - 1
      <4>1. k < i /\ k + 1 < i /\ k \in 0 .. m /\ k # i - 1
        BY <1>2, <3>2
      <4> QED BY <2>4, <3>1, <4>1
    <3>3. CASE k = i - 1
      <4>1. k < i /\ ~(k + 1 < i) /\ k + 1 = i
        BY <1>2, <3>3
      <4> QED BY <1>1, <2>3, <3>1, <3>3, <4>1, Zenon
    <3>4. CASE k = i
      <4>1. ~(k < i) /\ ~(k + 1 < i) /\ k + 1 # i
        BY <1>2, <3>4
      <4> QED BY <1>1, <1>5, <3>1, <3>4, <4>1, Zenon
    <3>5. CASE k > i
      <4>1. /\ ~(k < i) /\ ~(k + 1 < i) /\ k # i /\ k + 1 # i
            /\ k - 1 \in 0 .. m /\ k - 1 # i - 1 /\ (k - 1) + 1 = k
        BY <1>2, <3>5
      <4> QED BY <2>4, <3>1, <4>1
    <3>6. k < i - 1 \/ k = i - 1 \/ k = i \/ k > i
      BY <1>2
    <3> QED BY <3>2, <3>3, <3>4, <3>5, <3>6, Zenon
  <2> QED BY <2>1, <2>5 DEF Holds, d
<1>6. ASSUME \A i \in 1 .. m + 1 : At(h, c, i) # pos PROVE Holds(next', h, c)
  <2>1. ASSUME NEW k \in 0 .. m PROVE next'[At(h, c, k)] = At(h, c, k + 1)
    <3>1. k \in 0 .. m + 1 /\ k + 1 \in 1 .. m + 1
      BY <1>2
    <3>2. At(h, c, k) # p
      BY <1>1, <1>2, <1>6, <3>1
    <3> QED BY <1>1, <1>2, <1>3, <3>1, <3>2
  <2> QED BY <1>2, <2>1 DEF Holds
<1> QED BY <1>5, <1>6

\* push_back() is the insertion before the sentinel, that is, at the end.
LEMMA InsertAtEnd ==
    ASSUME NEW S, NEW c \in Seq(S), NEW n \in S
    PROVE  InsertAt(c, Len(c) + 1, n) = Append(c, n)
<1>1. Len(c) \in Nat /\ Len(c) + 1 \in 1 .. Len(c) + 1
  BY LenProperties
<1>2. ASSUME NEW i \in 1 .. Len(c) + 1
      PROVE  /\ InsertAt(c, i, n) \in Seq(S) /\ Len(InsertAt(c, i, n)) = Len(c) + 1
             /\ \A j \in 1 .. Len(c) + 1 :
                   InsertAt(c, i, n)[j] = IF j < i THEN c[j] ELSE IF j = i THEN n ELSE c[j - 1]
  <2>1. InsertAt(c, i, n) \in Seq(S) /\ Len(InsertAt(c, i, n)) = Len(c) + 1
    BY InsertAtProperties
  <2>2. \A j \in 1 .. Len(c) + 1 :
           InsertAt(c, i, n)[j] = IF j < i THEN c[j] ELSE IF j = i THEN n ELSE c[j - 1]
    BY InsertAtProperties
  <2> QED BY <2>1, <2>2
<1> DEFINE d == InsertAt(c, Len(c) + 1, n)
<1>3. /\ d \in Seq(S) /\ Len(d) = Len(c) + 1
      /\ \A j \in 1 .. Len(c) + 1 :
            d[j] = IF j < Len(c) + 1 THEN c[j] ELSE IF j = Len(c) + 1 THEN n ELSE c[j - 1]
  BY <1>1, <1>2, Zenon
<1> HIDE DEF d
<1>4. /\ Append(c, n) \in Seq(S) /\ Len(Append(c, n)) = Len(c) + 1
      /\ \A j \in 1 .. Len(c) : Append(c, n)[j] = c[j]
      /\ Append(c, n)[Len(c) + 1] = n
  BY AppendProperties
<1>5. \A j \in 1 .. Len(c) + 1 : d[j] = Append(c, n)[j]
  BY <1>1, <1>3, <1>4
<1>6. d = Append(c, n)
  BY <1>3, <1>4, <1>5, SeqEqual
<1> QED BY <1>6 DEF d

\* The invariant: the rings are intact, and each list holds some sequence.
ListInv == RingInv /\ \A h \in Heads : \E c : Holds(next, h, c)

\* What a list holds is its contents.
LEMMA HoldsContents ==
    ASSUME ListInv, NEW h \in Heads
    PROVE  Holds(next, h, Contents(h))
BY WalkedHolds DEF ListInv, Contents

LEMMA UnlinkActs ==
    ASSUME ListInv, NEW n \in Nodes, unlink(n)
    PROVE  ListInv' /\ \A h \in Heads : Contents(h)' = Unlink(Contents(h), n)
<1>1. RingInv /\ RingInv'
  BY UnlinkKeepsRings DEF ListInv, All
<1>2. ASSUME NEW h \in Heads PROVE Holds(next', h, Unlink(Contents(h), n))
  BY <1>1, HoldsContents, UnlinkHolds
<1>3. ASSUME NEW h \in Heads PROVE Contents(h)' = Unlink(Contents(h), n)
  BY <1>2, WalkedHolds DEF Contents
<1> QED BY <1>1, <1>2, <1>3 DEF ListInv

LEMMA InsertActs ==
    ASSUME ListInv, NEW n \in Nodes, NEW pos \in Nodes, n # pos, ~linked(n), insert_before(n, pos)
    PROVE  /\ ListInv'
           /\ \A g \in Heads : \/ ~Contains(Contents(g), pos) /\ Contents(g)' = Contents(g)
                               \/ \E i \in 1 .. Len(Contents(g)) :
                                     /\ Contents(g)[i] = pos
                                     /\ Contents(g)' = InsertAt(Contents(g), i, n)
<1>1. RingInv /\ RingInv' /\ pos \in All
  BY InsertKeepsRings DEF ListInv, All
<1>2. ASSUME NEW g \in Heads
      PROVE  \/ ~Contains(Contents(g), pos) /\ Holds(next', g, Contents(g))
             \/ \E i \in 1 .. Len(Contents(g)) :
                   /\ Contents(g)[i] = pos
                   /\ Holds(next', g, InsertAt(Contents(g), i, n))
  <2> DEFINE c == Contents(g)
  <2>1. Holds(next, g, c)
    BY HoldsContents
  <2> HIDE DEF c
  <2>2. /\ Len(c) \in Nat
        /\ \A i \in 1 .. Len(c) + 1 : At(g, c, i) = pos => i \in 1 .. Len(c)
    BY <2>1, WalkDistinct
  <2>3. \A i \in 1 .. Len(c) : At(g, c, i) = c[i] /\ i \in 1 .. Len(c) + 1
    BY <2>2 DEF At
  <2>4. CASE Contains(c, pos)
    <3>1. PICK i \in 1 .. Len(c) : c[i] = pos
      BY <2>4 DEF Contains
    <3>2. Holds(next', g, InsertAt(c, i, n))
      BY <1>1, <2>1, <2>3, <3>1, InsertHolds
    <3> QED BY <3>1, <3>2 DEF c
  <2>5. CASE ~Contains(c, pos)
    <3>1. \A i \in 1 .. Len(c) + 1 : At(g, c, i) # pos
      BY <2>2, <2>3, <2>5 DEF Contains
    <3>2. Holds(next', g, c)
      BY <1>1, <2>1, <3>1, InsertHolds
    <3> QED BY <2>5, <3>2 DEF c
  <2> QED BY <2>4, <2>5
<1>3. \A g \in Heads : \A d : Holds(next', g, d) => Contents(g)' = d
  BY WalkedHolds DEF Contents
<1>4. ListInv'
  BY <1>1, <1>2, Zenon DEF ListInv
<1> QED BY <1>2, <1>3, <1>4, Zenon

LEMMA PushBackActs ==
    ASSUME ListInv, NEW n \in Nodes, NEW h \in Heads, ~linked(n), push_back(n, h)
    PROVE  /\ ListInv'
           /\ \A g \in Heads : Contents(g)' = IF g = h THEN Append(Contents(g), n)
                                              ELSE Contents(g)
<1>1. RingInv /\ n # h /\ h \in All /\ n \in All /\ insert_before(n, h)
  BY ListAssumption DEF ListInv, All, push_back
<1>2. RingInv'
  BY <1>1, InsertKeepsRings
<1>3. ASSUME NEW g \in Heads
      PROVE  Holds(next', g, IF g = h THEN Append(Contents(g), n) ELSE Contents(g))
  <2> DEFINE c == Contents(g)
  <2>1. Holds(next, g, c)
    BY HoldsContents
  <2> HIDE DEF c
  <2>2. /\ c \in Seq(Nodes) /\ Len(c) \in Nat
        /\ \A i \in 1 .. Len(c) : c[i] \in Nodes /\ c[i] # h
    BY <2>1, LenProperties, ElementOfSeq, ListAssumption DEF Holds
  <2>3. CASE g = h
    <3>1. Len(c) + 1 \in 1 .. Len(c) + 1 /\ At(g, c, Len(c) + 1) = h
      BY <2>2, <2>3 DEF At
    <3>2. Holds(next', g, InsertAt(c, Len(c) + 1, n))
      BY <1>1, <2>1, <3>1, InsertHolds
    <3> QED BY <2>2, <2>3, <3>2, InsertAtEnd DEF c
  <2>4. CASE g # h
    <3>1. \A i \in 1 .. Len(c) + 1 : At(g, c, i) # h
      BY <2>2, <2>4 DEF At
    <3>2. Holds(next', g, c)
      BY <1>1, <2>1, <3>1, InsertHolds
    <3> QED BY <2>4, <3>2 DEF c
  <2> QED BY <2>3, <2>4
<1>4. \A g \in Heads : \A d : Holds(next', g, d) => Contents(g)' = d
  BY WalkedHolds DEF Contents
<1>5. ListInv'
  BY <1>2, <1>3, Zenon DEF ListInv
<1> QED BY <1>3, <1>4, <1>5, Zenon

LEMMA PopFrontActs ==
    ASSUME ListInv, NEW h \in Heads, pop_front(h)
    PROVE  /\ ListInv'
           /\ \A g \in Heads : Contents(g)' = IF g = h THEN Tail(Contents(g))
                                              ELSE Contents(g)
<1> DEFINE c == Contents(h)
<1>1. RingInv /\ Holds(next, h, c) /\ next[h] # h /\ unlink(next[h]) /\ h \in All
  BY HoldsContents DEF ListInv, pop_front, empty, linked, All
<1> HIDE DEF c
<1>2. Len(c) \in Nat /\ 0 \in 0 .. Len(c) /\ At(h, c, 0) = h /\ next[h] = At(h, c, 1)
  BY <1>1, WalkDistinct DEF Holds, At
<1>3. 1 \in 1 .. Len(c) /\ next[h] = c[1]
  BY <1>1, <1>2 DEF At
<1>4. /\ c \in Seq(Nodes) /\ NoRepeat(c) /\ c # <<>> /\ next[h] = Head(c) /\ next[h] \in Nodes
  BY <1>1, <1>3, ElementOfSeq DEF Holds
<1>5. ListInv' /\ \A g \in Heads : Contents(g)' = Unlink(Contents(g), next[h])
  BY <1>1, <1>4, UnlinkActs
<1>6. Unlink(c, next[h]) = Tail(c)
  BY <1>4, UnlinkHead
<1>7. ASSUME NEW g \in Heads, g # h PROVE Unlink(Contents(g), next[h]) = Contents(g)
  <2> DEFINE d == Contents(g)
  <2>1. Holds(next, g, d)
    BY HoldsContents
  <2> HIDE DEF d
  <2>2. ASSUME NEW k \in 1 .. Len(d), d[k] = next[h] PROVE FALSE
    <3>1. /\ k \in 1 .. Len(d) + 1 /\ next[h] = At(g, d, k)
          /\ k - 1 \in 0 .. Len(d) /\ k - 1 \in 0 .. Len(d) + 1
      BY <2>1, <2>2, WalkDistinct DEF At
    <3>2. h = At(g, d, k - 1)
      BY <1>1, <2>1, <3>1, OneStepBefore
    <3>3. k - 1 \in 1 .. Len(d) => d[k - 1] \in Nodes
      BY <2>1, ElementOfSeq DEF Holds
    <3> QED BY <1>7, <3>2, <3>3, ListAssumption DEF At
  <2>3. ~Contains(d, next[h])
    BY <2>2 DEF Contains
  <2> QED BY <2>3 DEF Unlink, d
<1> QED BY <1>5, <1>6, <1>7 DEF c

\* The pointer operations do to each list what the models of the kernel and of
\* the primitives let them do to a sequence, for any number of nodes and lists,
\* and leave the other lists alone.
THEOREM PointersActOnSequences == Spec => ActsOnSequences
<1>1. Init => ListInv
  <2> SUFFICES ASSUME Init PROVE ListInv
    OBVIOUS
  <2>1. RingInv /\ \A h \in Heads : next[h] = h
    BY DEF Init, RingInv, TypeOK, RingIntact, All
  <2>2. ASSUME NEW h \in Heads PROVE Holds(next, h, <<>>)
    BY <2>1 DEF Holds, At, NoRepeat
  <2> QED BY <2>1, <2>2 DEF ListInv
<1>2. ListInv /\ [Next]_links => ListInv'
  <2> SUFFICES ASSUME ListInv, [Next]_links PROVE ListInv'
    OBVIOUS
  <2>1. CASE Next
    BY <2>1, UnlinkActs, InsertActs, PushBackActs, PopFrontActs DEF Next
  <2>2. CASE UNCHANGED links
    BY <2>2 DEF links, ListInv, RingInv, TypeOK, RingIntact
  <2> QED BY <2>1, <2>2
<1>3. ListInv => [ListsAct]_links
  BY UnlinkActs, InsertActs, PushBackActs, PopFrontActs DEF ListsAct
<1> QED BY <1>1, <1>2, <1>3, PTL DEF Spec, ActsOnSequences

-----------------------------------------------------------------------------
(* The chain of free blocks *)

\* A chain of the m blocks in S, in the order c, that starts at h with the
\* links l
Chain(m, c, h, l, S) ==
    /\ {c[i] : i \in 1 .. m} = S
    /\ \A i, j \in 1 .. m : c[i] = c[j] => i = j
    /\ h = IF m = 0 THEN Null ELSE c[1]
    /\ \A i \in 1 .. m : l[c[i]] = IF i = m THEN Null ELSE c[i + 1]

\* Where nobody preempts it, free_count() stands on the chain.
Walks(m, c) ==
    counting => /\ counted \in 0 .. m
                /\ cursor = IF counted = m THEN Null ELSE c[counted + 1]

\* Before the first allocation there is no frame; the links are pointers or
\* overwritten; there is a chain.
PoolTypes ==
    /\ initialized \in BOOLEAN
    /\ counting \in BOOLEAN
    /\ frames \subseteq Blocks
    /\ ~initialized => frames = {}
    /\ link \in [Blocks -> Blocks \union {Null, FrameData}]

PoolInv ==
    /\ PoolTypes
    /\ \E m \in Nat : \E c \in [1 .. m -> Blocks] :
          Chain(m, c, free, link, FreeBlocks) /\ (~PREEMPTIVE => Walks(m, c))

LEMMA NullIsNoBlock == Null \notin Blocks /\ FrameData \notin Blocks
  BY DEF Null, FrameData, Blocks

\* A chain is as long as there are free blocks.
LEMMA ChainLength ==
    ASSUME NEW m \in Nat, NEW c \in [1 .. m -> Blocks], NEW h, NEW l, NEW S,
           Chain(m, c, h, l, S)
    PROVE  m = Cardinality(S) /\ m \in 0 .. BlockCount
<1>1. S \in SUBSET Blocks
  BY DEF Chain
<1>2. c \in Bijection(1 .. m, S)
  <2>1. \A i \in 1 .. m : c[i] \in S
    BY DEF Chain
  <2>2. \A s \in S : \E i \in 1 .. m : c[i] = s
    BY DEF Chain
  <2>3. c \in [1 .. m -> S]
    BY <2>1
  <2>4. \A i, j \in 1 .. m : c[i] = c[j] => i = j
    BY DEF Chain
  <2> QED BY <2>2, <2>3, <2>4 DEF Bijection, Injection, Surjection, IsInjective
<1>3. Cardinality(S) = m
  BY <1>2, FS_CountingElements DEF ExistsBijection
<1>4. IsFiniteSet(Blocks) /\ Cardinality(Blocks) = BlockCount
  <2>1. 1 \in Int /\ BlockCount \in Int /\ ~(1 > BlockCount) /\ BlockCount - 1 + 1 = BlockCount
    BY PoolAssumption
  <2> QED BY <2>1, FS_Interval DEF Blocks
<1>5. Cardinality(S) <= Cardinality(Blocks)
  BY <1>1, <1>4, FS_Subset
<1>6. m <= BlockCount
  BY <1>3, <1>4, <1>5
<1> QED BY <1>3, <1>6, PoolAssumption

\* The head of a chain is taken away.
LEMMA TakeHead ==
    ASSUME NEW m \in Nat, NEW c \in [1 .. m -> Blocks], NEW h, NEW S,
           NEW l \in [Blocks -> Blocks \union {Null, FrameData}],
           Chain(m, c, h, l, S), h # Null
    PROVE  \E k \in Nat : \E d \in [1 .. k -> Blocks] :
              Chain(k, d, l[h], [l EXCEPT ![h] = FrameData], S \ {h})
<1> DEFINE k == m - 1
           d == [i \in 1 .. k |-> c[i + 1]]
           l2 == [l EXCEPT ![h] = FrameData]
<1>1. m \in Nat \ {0} /\ h = c[1] /\ 1 \in 1 .. m /\ k \in Nat
  BY DEF Chain
<1>2. \A i \in 1 .. k : i + 1 \in 2 .. m /\ i + 1 \in 1 .. m
  BY <1>1
<1>3. d \in [1 .. k -> Blocks]
  BY <1>2
<1>4. \A i \in 1 .. k : d[i] = c[i + 1] /\ c[i + 1] # h
  BY <1>1, <1>2 DEF Chain
<1>5. {d[i] : i \in 1 .. k} = S \ {h}
  <2>1. \A i \in 1 .. k : d[i] \in S \ {h}
    BY <1>2, <1>4 DEF Chain
  <2>2. ASSUME NEW s \in S \ {h} PROVE \E i \in 1 .. k : d[i] = s
    <3>1. PICK j \in 1 .. m : c[j] = s
      BY DEF Chain
    <3>2. j # 1
      BY <3>1, <1>1
    <3>3. j - 1 \in 1 .. k /\ j - 1 + 1 = j
      BY <3>2, <1>1
    <3>4. d[j - 1] = s
      BY <3>1, <3>3, <1>4
    <3> QED BY <3>3, <3>4
  <2> QED BY <2>1, <2>2
<1>6. \A i, j \in 1 .. k : d[i] = d[j] => i = j
  <2> TAKE i, j \in 1 .. k
  <2> HAVE d[i] = d[j]
  <2>1. c[i + 1] = c[j + 1] /\ i + 1 \in 1 .. m /\ j + 1 \in 1 .. m
    BY <1>2, <1>4
  <2>2. i + 1 = j + 1
    BY <2>1 DEF Chain
  <2> QED BY <2>2
<1>7. l[h] = IF k = 0 THEN Null ELSE d[1]
  BY <1>1, <1>4 DEF Chain
<1>8. \A i \in 1 .. k : l2[d[i]] = IF i = k THEN Null ELSE d[i + 1]
  <2> TAKE i \in 1 .. k
  <2>1. l2[d[i]] = l[c[i + 1]]
    BY <1>3, <1>4
  <2>2. l[c[i + 1]] = IF i + 1 = m THEN Null ELSE c[i + 1 + 1]
    BY <1>2 DEF Chain
  <2>3. i # k => i + 1 \in 1 .. k
    BY <1>1
  <2>4. i # k => d[i + 1] = c[i + 1 + 1]
    BY <2>3, <1>4
  <2>5. i = k <=> i + 1 = m
    BY <1>1
  <2> QED BY <2>1, <2>2, <2>4, <2>5
<1>9. Chain(k, d, l[h], l2, S \ {h})
  BY <1>5, <1>6, <1>7, <1>8 DEF Chain
<1> QED BY <1>1, <1>3, <1>9

\* A block is put before a chain.
LEMMA PutHead ==
    ASSUME NEW m \in Nat, NEW c \in [1 .. m -> Blocks], NEW h, NEW S,
           NEW l \in [Blocks -> Blocks \union {Null, FrameData}],
           NEW b \in Blocks, b \notin S, Chain(m, c, h, l, S)
    PROVE  \E k \in Nat : \E d \in [1 .. k -> Blocks] :
              Chain(k, d, b, [l EXCEPT ![b] = h], S \union {b})
<1> DEFINE k == m + 1
           d == [i \in 1 .. k |-> IF i = 1 THEN b ELSE c[i - 1]]
           l2 == [l EXCEPT ![b] = h]
<1>1. k \in Nat /\ k # 0 /\ 1 \in 1 .. k
  OBVIOUS
<1>2. \A i \in 1 .. k : i # 1 => i - 1 \in 1 .. m
  OBVIOUS
<1>3. d \in [1 .. k -> Blocks]
  BY <1>2
<1>4. d[1] = b /\ \A i \in 1 .. k : i # 1 => d[i] = c[i - 1] /\ c[i - 1] \in S /\ d[i] # b
  BY <1>1, <1>2 DEF Chain
<1>5. {d[i] : i \in 1 .. k} = S \union {b}
  <2>1. \A i \in 1 .. k : d[i] \in S \union {b}
    BY <1>4
  <2>2. ASSUME NEW s \in S PROVE \E i \in 1 .. k : d[i] = s
    <3>1. PICK j \in 1 .. m : c[j] = s
      BY DEF Chain
    <3>2. j + 1 \in 1 .. k /\ j + 1 # 1 /\ j + 1 - 1 = j
      OBVIOUS
    <3>3. d[j + 1] = s
      BY <3>1, <3>2, <1>4
    <3> QED BY <3>2, <3>3
  <2> QED BY <2>1, <2>2, <1>1, <1>4
<1>6. \A i, j \in 1 .. k : d[i] = d[j] => i = j
  <2> TAKE i, j \in 1 .. k
  <2> HAVE d[i] = d[j]
  <2>1. CASE i = 1 \/ j = 1
    BY <2>1, <1>4
  <2>2. CASE i # 1 /\ j # 1
    <3>1. c[i - 1] = c[j - 1] /\ i - 1 \in 1 .. m /\ j - 1 \in 1 .. m
      BY <2>2, <1>2, <1>4
    <3>2. i - 1 = j - 1
      BY <3>1 DEF Chain
    <3> QED BY <3>2
  <2> QED BY <2>1, <2>2
<1>7. \A i \in 1 .. k : l2[d[i]] = IF i = k THEN Null ELSE d[i + 1]
  <2> TAKE i \in 1 .. k
  <2>1. CASE i = 1
    <3>1. l2[d[i]] = h
      BY <2>1, <1>4
    <3>2. h = IF m = 0 THEN Null ELSE c[1]
      BY DEF Chain
    <3>3. m # 0 => 2 \in 1 .. k /\ 2 # 1 /\ 2 - 1 = 1
      OBVIOUS
    <3>4. m # 0 => d[2] = c[1]
      BY <3>3, <1>4
    <3> QED BY <2>1, <3>1, <3>2, <3>4
  <2>2. CASE i # 1
    <3>1. l2[d[i]] = l[c[i - 1]]
      BY <2>2, <1>3, <1>4
    <3>2. l[c[i - 1]] = IF i - 1 = m THEN Null ELSE c[i - 1 + 1]
      BY <2>2, <1>2 DEF Chain
    <3>3. i # k => i + 1 \in 1 .. k /\ i + 1 # 1 /\ i + 1 - 1 = i /\ i - 1 + 1 = i
      OBVIOUS
    <3>4. i # k => d[i + 1] = c[i]
      BY <3>3, <1>4
    <3> QED BY <3>1, <3>2, <3>3, <3>4
  <2> QED BY <2>1, <2>2
<1>8. Chain(k, d, b, l2, S \union {b})
  BY <1>1, <1>4, <1>5, <1>6, <1>7 DEF Chain
<1> QED BY <1>1, <1>3, <1>8

\* The first allocation chains all blocks in their order.
LEMMA FirstChain ==
    LET l == [b \in Blocks |-> IF b = BlockCount THEN Null ELSE b + 1]
    IN  /\ l \in [Blocks -> Blocks \union {Null, FrameData}]
        /\ \E m \in Nat : \E c \in [1 .. m -> Blocks] : Chain(m, c, 1, l, Blocks)
<1> DEFINE l == [b \in Blocks |-> IF b = BlockCount THEN Null ELSE b + 1]
           c == [i \in 1 .. BlockCount |-> i]
<1>1. BlockCount \in Nat /\ BlockCount # 0 /\ 1 \in 1 .. BlockCount
  BY PoolAssumption
<1>2. l \in [Blocks -> Blocks \union {Null, FrameData}]
  BY <1>1 DEF Blocks
<1>3. c \in [1 .. BlockCount -> Blocks] /\ \A i \in 1 .. BlockCount : c[i] = i
  BY DEF Blocks
<1>4. \A i \in 1 .. BlockCount : l[c[i]] = IF i = BlockCount THEN Null ELSE c[i + 1]
  BY <1>1, <1>3 DEF Blocks
<1>5. {c[i] : i \in 1 .. BlockCount} = Blocks
  BY <1>3 DEF Blocks
<1>6. Chain(BlockCount, c, 1, l, Blocks)
  BY <1>1, <1>3, <1>4, <1>5 DEF Chain
<1> QED BY <1>1, <1>2, <1>3, <1>6

LEMMA AllocateStep ==
    ASSUME PoolInv, allocate, UNCHANGED <<counting, cursor, counted>>, counting => PREEMPTIVE
    PROVE  PoolInv'
<1> DEFINE chain == IF initialized THEN link
                    ELSE [b \in Blocks |-> IF b = BlockCount THEN Null ELSE b + 1]
<1>1. /\ chain \in [Blocks -> Blocks \union {Null, FrameData}]
      /\ \E m \in Nat : \E c \in [1 .. m -> Blocks] :
            Chain(m, c, first, chain, Blocks \ frames)
  <2>1. CASE initialized
    BY <2>1 DEF PoolInv, PoolTypes, first, FreeBlocks
  <2>2. CASE ~initialized
    BY <2>2, FirstChain DEF PoolInv, PoolTypes, first
  <2> QED BY <2>1, <2>2
<1> HIDE DEF chain
<1>2. PICK m \in Nat : \E c \in [1 .. m -> Blocks] : Chain(m, c, first, chain, Blocks \ frames)
  BY <1>1
<1>2a. PICK c \in [1 .. m -> Blocks] : Chain(m, c, first, chain, Blocks \ frames)
  BY <1>2
<1> USE DEF chain
<1>3. ~PREEMPTIVE => ~counting'
  BY PoolAssumption
<1>4. CASE first # Null /\ free' = chain[first] /\ link' = [chain EXCEPT ![first] = FrameData]
           /\ frames' = frames \union {first}
  <2>1. first \in Blocks \ frames
    <3>1. m # 0 /\ 1 \in 1 .. m /\ first = c[1]
      BY <1>2a, <1>4 DEF Chain
    <3> QED BY <1>2a, <3>1 DEF Chain
  <2>2. initialized' = TRUE
    BY DEF allocate
  <2>3. FreeBlocks' = (Blocks \ frames) \ {first}
    BY <1>4, <2>2 DEF FreeBlocks
  <2>4. \E k \in Nat : \E d \in [1 .. k -> Blocks] : Chain(k, d, free', link', FreeBlocks')
    <3> HIDE DEF chain
    <3> QED BY <1>1, <1>2a, <1>4, <2>3, TakeHead
  <2>5. PoolTypes'
    BY <1>1, <1>4, <2>1, <2>2 DEF PoolInv, PoolTypes
  <2> QED BY <1>3, <2>4, <2>5 DEF PoolInv, Walks
<1>5. CASE first = Null /\ UNCHANGED <<free, link, frames>>
  <2>1. initialized
    BY <1>5 DEF first, Null
  <2>2. initialized' = initialized
    BY <2>1 DEF allocate
  <2> QED BY <1>3, <1>5, <2>2 DEF PoolInv, PoolTypes, FreeBlocks, Walks
<1> QED BY <1>4, <1>5 DEF allocate

LEMMA DeallocateStep ==
    ASSUME PoolInv, NEW b \in Blocks, deallocate(b), UNCHANGED <<counting, cursor, counted>>,
           counting => PREEMPTIVE
    PROVE  PoolInv'
<1>1. initialized /\ b \in frames /\ b \notin FreeBlocks
  BY DEF PoolInv, PoolTypes, deallocate, FreeBlocks
<1>2. /\ link' = [link EXCEPT ![b] = free] /\ free' = b
      /\ frames' = frames \ {b} /\ initialized' = initialized
  BY DEF deallocate
<1>3. FreeBlocks' = FreeBlocks \union {b}
  BY <1>1, <1>2 DEF FreeBlocks
<1>4. PICK m \in Nat : \E c \in [1 .. m -> Blocks] : Chain(m, c, free, link, FreeBlocks)
  BY DEF PoolInv
<1>4a. PICK c \in [1 .. m -> Blocks] : Chain(m, c, free, link, FreeBlocks)
  BY <1>4
<1>5. free \in Blocks \union {Null}
  <2>1. m # 0 => 1 \in 1 .. m
    OBVIOUS
  <2> QED BY <1>4a, <2>1 DEF Chain
<1>6. \E k \in Nat : \E d \in [1 .. k -> Blocks] : Chain(k, d, free', link', FreeBlocks')
  BY <1>1, <1>2, <1>3, <1>4a, PutHead DEF PoolInv, PoolTypes
<1>7. PoolTypes'
  BY <1>1, <1>2, <1>5 DEF PoolInv, PoolTypes
<1>8. ~PREEMPTIVE => ~counting'
  BY PoolAssumption
<1> QED BY <1>6, <1>7, <1>8 DEF PoolInv, Walks

LEMMA CountStep ==
    ASSUME PoolInv, free_count
    PROVE  PoolInv'
<1>1. UNCHANGED <<free, link, initialized, frames, FreeBlocks>>
  BY DEF free_count, FreeBlocks
<1>2. PoolTypes'
  <2>1. counting' \in BOOLEAN
    BY DEF PoolInv, PoolTypes, free_count, BeginCount, CountOne, EndCount
  <2> QED BY <1>1, <2>1 DEF PoolInv, PoolTypes
<1>3. PICK m \in Nat : \E c \in [1 .. m -> Blocks] :
         Chain(m, c, free, link, FreeBlocks) /\ (~PREEMPTIVE => Walks(m, c))
  BY DEF PoolInv
<1>3a. PICK c \in [1 .. m -> Blocks] : Chain(m, c, free, link, FreeBlocks) /\ (~PREEMPTIVE => Walks(m, c))
  BY <1>3
<1>4. ASSUME ~PREEMPTIVE PROVE Walks(m, c)'
  <2>1. CASE BeginCount
    <3>1. 0 \in 0 .. m /\ (m # 0 => 1 \in 1 .. m)
      OBVIOUS
    <3> QED BY <2>1, <3>1, <1>3a DEF BeginCount, Walks, Chain
  <2>2. CASE CountOne
    <3>1. /\ counting /\ cursor \in Blocks /\ counting' = counting
          /\ cursor' = link[cursor] /\ counted' = counted + 1
      BY <2>2 DEF CountOne
    <3>2. counted \in 0 .. m /\ cursor = IF counted = m THEN Null ELSE c[counted + 1]
      BY <1>3a, <1>4, <3>1 DEF Walks
    <3>3. counted # m /\ cursor = c[counted + 1]
      BY <3>1, <3>2, NullIsNoBlock
    <3>4. counted + 1 \in 1 .. m /\ counted + 1 \in 0 .. m
      BY <3>2, <3>3
    <3>5. link[c[counted + 1]] = IF counted + 1 = m THEN Null ELSE c[counted + 1 + 1]
      BY <1>3a, <3>4 DEF Chain
    <3> QED BY <3>1, <3>3, <3>4, <3>5 DEF Walks
  <2>3. CASE EndCount
    BY <2>3 DEF EndCount, Walks
  <2> QED BY <2>1, <2>2, <2>3 DEF free_count
<1> QED BY <1>1, <1>2, <1>3a, <1>4 DEF PoolInv

LEMMA PoolInvariance == PoolSpec => []PoolInv
<1>1. PoolInit => PoolInv
  <2> SUFFICES ASSUME PoolInit PROVE PoolInv
    OBVIOUS
  <2> DEFINE c == [i \in 1 .. 0 |-> 1]
  <2>1. c \in [1 .. 0 -> Blocks] /\ 1 .. 0 = {}
    OBVIOUS
  <2>2. FreeBlocks = {} /\ free = Null /\ ~counting
    BY DEF PoolInit, FreeBlocks
  <2>3. Chain(0, c, free, link, FreeBlocks)
    BY <2>1, <2>2 DEF Chain
  <2>4. PoolTypes
    BY DEF PoolInit, PoolTypes
  <2>5. Walks(0, c)
    BY <2>2 DEF Walks
  <2>6. 0 \in Nat
    OBVIOUS
  <2> QED BY <2>1, <2>3, <2>4, <2>5, <2>6 DEF PoolInv
<1>2. PoolInv /\ [PoolNext]_poolVars => PoolInv'
  <2> SUFFICES ASSUME PoolInv, [PoolNext]_poolVars PROVE PoolInv'
    OBVIOUS
  <2>1. CASE UNCHANGED poolVars
    BY <2>1 DEF poolVars, PoolInv, PoolTypes, FreeBlocks, Walks
  <2> QED BY <2>1, AllocateStep, DeallocateStep, CountStep DEF PoolNext
<1> QED BY <1>1, <1>2, PTL DEF PoolSpec

\* The chain of free blocks holds every block without a frame, once, and
\* nothing else, for any number of blocks and any order of calls.
THEOREM ChainStaysIntact == PoolSpec => []ChainIntact
<1>1. PoolInv => ChainIntact
  <2> SUFFICES ASSUME PoolInv PROVE ChainIntact
    OBVIOUS
  <2>1. PICK m \in Nat : \E c \in [1 .. m -> Blocks] :
           Chain(m, c, free, link, FreeBlocks)
    BY DEF PoolInv
  <2>1a. PICK c \in [1 .. m -> Blocks] : Chain(m, c, free, link, FreeBlocks)
    BY <2>1
  <2>2. m \in 0 .. BlockCount
    BY <2>1a, ChainLength
  <2> QED BY <2>1a, <2>2 DEF Chain, ChainIntact, IsChain
<1> QED BY <1>1, PoolInvariance, PTL

\* allocate() hands out only blocks without a frame, and fails only when there
\* is none: what module Frames assumes of the memory.
THEOREM AllocatesWhileFree == PoolSpec => []AllocatesFree
<1>1. PoolInv => AllocatesFree
  <2> SUFFICES ASSUME PoolInv PROVE AllocatesFree
    OBVIOUS
  <2>1. CASE ~initialized
    BY <2>1, PoolAssumption DEF PoolInv, PoolTypes, AllocatesFree, first, Null, Blocks
  <2>2. CASE initialized
    <3>1. PICK m \in Nat : \E c \in [1 .. m -> Blocks] :
             Chain(m, c, first, link, Blocks \ frames)
      BY <2>2 DEF PoolInv, first, FreeBlocks
    <3>1a. PICK c \in [1 .. m -> Blocks] : Chain(m, c, first, link, Blocks \ frames)
      BY <3>1
    <3>2. CASE m = 0
      <4>1. Blocks \ frames = {} /\ first = Null
        BY <3>1a, <3>2 DEF Chain
      <4> QED BY <4>1 DEF AllocatesFree, PoolInv, PoolTypes
    <3>3. CASE m # 0
      <4>1. 1 \in 1 .. m
        BY <3>3
      <4> QED BY <3>1a, <3>3, <4>1, NullIsNoBlock DEF Chain, AllocatesFree
    <3> QED BY <3>2, <3>3
  <2> QED BY <2>1, <2>2
<1> QED BY <1>1, PoolInvariance, PTL

\* Without preemption free_count() is exact, for any number of blocks.
THEOREM CountIsExact == PoolSpec => []CountExact
<1>1. PoolInv => CountExact
  <2> SUFFICES ASSUME PoolInv, ~PREEMPTIVE, counting, cursor = Null
               PROVE  counted = Cardinality(FreeBlocks)
    BY DEF CountExact
  <2>1. PICK m \in Nat : \E c \in [1 .. m -> Blocks] :
           Chain(m, c, free, link, FreeBlocks) /\ Walks(m, c)
    BY DEF PoolInv
  <2>1a. PICK c \in [1 .. m -> Blocks] : Chain(m, c, free, link, FreeBlocks) /\ Walks(m, c)
    BY <2>1
  <2>2. counted \in 0 .. m /\ cursor = IF counted = m THEN Null ELSE c[counted + 1]
    BY <2>1a DEF Walks
  <2>3. counted # m => counted + 1 \in 1 .. m
    BY <2>2
  <2>4. counted = m
    BY <2>2, <2>3, NullIsNoBlock
  <2> QED BY <2>1a, <2>4, ChainLength
<1> QED BY <1>1, PoolInvariance, PTL
=============================================================================
