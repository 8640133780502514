--------------------------- MODULE ListOpsProofs ---------------------------
(***************************************************************************)
(* What the operations on lists do to their elements, for lists of any     *)
(* length.  The proofs about the scheduler, its primitives and the         *)
(* pointers of a list use no other property of sequences.                  *)
(***************************************************************************)
EXTENDS ListOps, SequenceTheorems, WellFoundedInduction, TLAPS

-----------------------------------------------------------------------------
(* One node is put in or taken out *)

\* Taking the element at a position out of a sequence (unlink).
LEMMA RemoveAtProperties ==
    ASSUME NEW S, NEW s \in Seq(S), NEW i \in 1 .. Len(s)
    PROVE  /\ RemoveAt(s, i) \in Seq(S)
           /\ Len(RemoveAt(s, i)) = Len(s) - 1
           /\ \A j \in 1 .. Len(s) - 1 :
                 RemoveAt(s, i)[j] = IF j < i THEN s[j] ELSE s[j + 1]
  <1> DEFINE a == SubSeq(s, 1, i - 1)
             b == SubSeq(s, i + 1, Len(s))
  <1>1. Len(s) \in Nat /\ \A k \in 1 .. Len(s) : s[k] \in S
    BY LenProperties, ElementOfSeq
  <1>2. /\ a \in Seq(S) /\ Len(a) = i - 1
        /\ \A k \in 1 .. i - 1 : a[k] = s[k]
    <2>1. \A k \in 1 .. i - 1 : s[k] \in S
      BY <1>1
    <2> QED BY <1>1, <2>1, SubSeqProperties
  <1>3. /\ b \in Seq(S) /\ Len(b) = Len(s) - i
        /\ \A k \in 1 .. Len(s) - i : b[k] = s[i + k]
    <2>1. \A k \in i + 1 .. Len(s) : s[k] \in S
      BY <1>1
    <2> QED BY <1>1, <2>1, SubSeqProperties
  <1>4. RemoveAt(s, i) = a \o b
    BY DEF RemoveAt
  <1> HIDE DEF a, b
  <1>5. /\ a \o b \in Seq(S)
        /\ Len(a \o b) = Len(a) + Len(b)
        /\ \A k \in 1 .. Len(a) + Len(b) :
              (a \o b)[k] = IF k <= Len(a) THEN a[k] ELSE b[k - Len(a)]
    BY <1>2, <1>3, ConcatProperties
  <1>6. Len(a) + Len(b) = Len(s) - 1
    BY <1>1, <1>2, <1>3
  <1>7. ASSUME NEW j \in 1 .. Len(s) - 1
        PROVE  (a \o b)[j] = IF j < i THEN s[j] ELSE s[j + 1]
    <2>1. CASE j < i
      BY <1>1, <1>2, <1>5, <1>6, <2>1
    <2>2. CASE j >= i
      <3>1. j - Len(a) \in 1 .. Len(s) - i
        BY <1>1, <1>2, <2>2
      <3>2. (a \o b)[j] = b[j - Len(a)]
        BY <1>1, <1>2, <1>5, <1>6, <2>2
      <3>3. b[j - Len(a)] = s[i + (j - Len(a))]
        BY <3>1, <1>3
      <3>4. i + (j - Len(a)) = j + 1
        BY <1>1, <1>2
      <3> QED BY <1>1, <2>2, <3>2, <3>3, <3>4
    <2>3. j < i \/ j >= i
      BY <1>1
    <2> QED BY <2>1, <2>2, <2>3, Zenon
  <1> QED BY <1>4, <1>5, <1>6, <1>7

\* Putting an element before a position (insert_before).
LEMMA InsertAtProperties ==
    ASSUME NEW S, NEW s \in Seq(S), NEW i \in 1 .. Len(s) + 1, NEW e \in S
    PROVE  /\ InsertAt(s, i, e) \in Seq(S)
           /\ Len(InsertAt(s, i, e)) = Len(s) + 1
           /\ \A j \in 1 .. Len(s) + 1 :
                 InsertAt(s, i, e)[j] = IF j < i THEN s[j]
                                        ELSE IF j = i THEN e ELSE s[j - 1]
  <1> DEFINE a == SubSeq(s, 1, i - 1)
             b == SubSeq(s, i, Len(s))
             c == a \o <<e>>
  <1>1. Len(s) \in Nat /\ \A k \in 1 .. Len(s) : s[k] \in S
    BY LenProperties, ElementOfSeq
  <1>2. /\ a \in Seq(S) /\ Len(a) = i - 1
        /\ \A k \in 1 .. i - 1 : a[k] = s[k]
    <2>1. \A k \in 1 .. i - 1 : s[k] \in S
      BY <1>1
    <2> QED BY <1>1, <2>1, SubSeqProperties
  <1>3. /\ b \in Seq(S) /\ Len(b) = Len(s) - i + 1
        /\ \A k \in 1 .. Len(s) - i + 1 : b[k] = s[i + k - 1]
    <2>1. \A k \in i .. Len(s) : s[k] \in S
      BY <1>1
    <2> QED BY <1>1, <2>1, SubSeqProperties
  <1>4. InsertAt(s, i, e) = c \o b
    BY DEF InsertAt
  <1>5. <<e>> \in Seq(S) /\ Len(<<e>>) = 1 /\ <<e>>[1] = e
    OBVIOUS
  <1> HIDE DEF a, b
  <1>6. /\ c \in Seq(S) /\ Len(c) = i
        /\ \A k \in 1 .. i : c[k] = IF k <= i - 1 THEN s[k] ELSE e
    <2>1. /\ c \in Seq(S)
          /\ Len(c) = Len(a) + Len(<<e>>)
          /\ \A k \in 1 .. Len(a) + Len(<<e>>) :
                c[k] = IF k <= Len(a) THEN a[k] ELSE <<e>>[k - Len(a)]
      BY <1>2, <1>5, ConcatProperties
    <2>2. Len(a) + Len(<<e>>) = i
      BY <1>1, <1>2, <1>5
    <2> HIDE DEF c
    <2>3. ASSUME NEW k \in 1 .. i
          PROVE  c[k] = IF k <= i - 1 THEN s[k] ELSE e
      <3>1. c[k] = IF k <= Len(a) THEN a[k] ELSE <<e>>[k - Len(a)]
        BY <2>1, <2>2
      <3>2. CASE k <= i - 1
        BY <1>1, <1>2, <3>1, <3>2
      <3>3. CASE k = i
        <4>1. k - Len(a) = 1 /\ ~(k <= Len(a)) /\ ~(k <= i - 1)
          BY <1>1, <1>2, <3>3
        <4> QED BY <1>5, <3>1, <4>1, Zenon
      <3>4. k <= i - 1 \/ k = i
        BY <1>1
      <3> QED BY <3>2, <3>3, <3>4, Zenon
    <2> QED BY <2>1, <2>2, <2>3
  <1> HIDE DEF c
  <1>7. /\ c \o b \in Seq(S)
        /\ Len(c \o b) = Len(c) + Len(b)
        /\ \A k \in 1 .. Len(c) + Len(b) :
              (c \o b)[k] = IF k <= Len(c) THEN c[k] ELSE b[k - Len(c)]
    BY <1>3, <1>6, ConcatProperties
  <1>8. Len(c) + Len(b) = Len(s) + 1
    BY <1>1, <1>3, <1>6
  <1>9. ASSUME NEW j \in 1 .. Len(s) + 1
        PROVE  (c \o b)[j] = IF j < i THEN s[j] ELSE IF j = i THEN e ELSE s[j - 1]
    <2>1. CASE j <= i
      BY <1>1, <1>6, <1>7, <1>8, <2>1
    <2>2. CASE j > i
      <3>1. j - Len(c) \in 1 .. Len(s) - i + 1
        BY <1>1, <1>6, <2>2
      <3>2. (c \o b)[j] = b[j - Len(c)]
        BY <1>1, <1>6, <1>7, <1>8, <2>2
      <3>3. b[j - Len(c)] = s[i + (j - Len(c)) - 1]
        BY <3>1, <1>3
      <3>4. i + (j - Len(c)) - 1 = j - 1
        BY <1>1, <1>6
      <3> QED BY <1>1, <2>2, <3>2, <3>3, <3>4
    <2>3. j <= i \/ j > i
      BY <1>1
    <2> QED BY <2>1, <2>2, <2>3, Zenon
  <1> QED BY <1>4, <1>7, <1>8, <1>9

\* An unlinked node is gone, the others stay, and none is doubled.
LEMMA UnlinkProperties ==
    ASSUME NEW S, NEW s \in Seq(S), NEW n, NoRepeat(s)
    PROVE  /\ Unlink(s, n) \in Seq(S)
           /\ NoRepeat(Unlink(s, n))
           /\ \A x : Contains(Unlink(s, n), x) <=> (Contains(s, x) /\ x # n)
  <1>1. CASE ~Contains(s, n)
    BY <1>1 DEF Unlink, Contains
  <1>2. CASE Contains(s, n)
    <2> DEFINE i == CHOOSE k \in 1 .. Len(s) : s[k] = n
               r == RemoveAt(s, i)
    <2>1. i \in 1 .. Len(s) /\ s[i] = n
      BY <1>2 DEF Contains
    <2>2. Unlink(s, n) = r
      BY <1>2 DEF Unlink
    <2> HIDE DEF i
    <2>3. /\ r \in Seq(S)
          /\ Len(r) = Len(s) - 1
          /\ \A j \in 1 .. Len(s) - 1 : r[j] = IF j < i THEN s[j] ELSE s[j + 1]
      BY <2>1, RemoveAtProperties
    <2> HIDE DEF r
    <2>4. Len(s) \in Nat
      BY LenProperties
    <2>5. NoRepeat(r)
      <3>1. ASSUME NEW j \in 1 .. Len(s) - 1
            PROVE  \/ r[j] = s[j] /\ j < i
                   \/ r[j] = s[j + 1] /\ j >= i
        <4>1. r[j] = IF j < i THEN s[j] ELSE s[j + 1]
          BY <2>3
        <4>2. ~(j < i) => j >= i
          BY <2>1, <2>4
        <4> QED BY <4>1, <4>2
      <3> QED BY <2>1, <2>3, <2>4, <3>1 DEF NoRepeat
    <2>6. ASSUME NEW x, Contains(r, x)
          PROVE  Contains(s, x) /\ x # n
      <3>1. PICK j \in 1 .. Len(s) - 1 : r[j] = x
        BY <2>3, <2>6 DEF Contains
      <3> DEFINE k == IF j < i THEN j ELSE j + 1
      <3>2. k \in 1 .. Len(s) /\ k # i /\ s[k] = x
        BY <2>1, <2>3, <2>4, <3>1
      <3> QED BY <2>1, <3>2 DEF Contains, NoRepeat
    <2>7. ASSUME NEW x, Contains(s, x), x # n
          PROVE  Contains(r, x)
      <3>1. PICK k \in 1 .. Len(s) : s[k] = x
        BY <2>7 DEF Contains
      <3>2. k # i
        BY <2>1, <2>7, <3>1
      <3>3. CASE k < i
        <4>1. k \in 1 .. Len(s) - 1 /\ r[k] = x
          BY <2>1, <2>3, <2>4, <3>1, <3>3
        <4> QED BY <2>3, <4>1 DEF Contains
      <3>4. CASE k > i
        <4>1. k - 1 \in 1 .. Len(s) - 1 /\ ~(k - 1 < i) /\ (k - 1) + 1 = k
          BY <2>1, <2>4, <3>4
        <4>2. r[k - 1] = s[(k - 1) + 1]
          BY <2>3, <4>1
        <4>3. r[k - 1] = x
          BY <3>1, <4>1, <4>2
        <4> QED BY <2>3, <4>1, <4>3 DEF Contains
      <3> QED BY <2>1, <3>2, <3>3, <3>4
    <2> QED BY <2>2, <2>3, <2>5, <2>6, <2>7
  <1> QED BY <1>1, <1>2

\* Taking the first node out of a list
LEMMA UnlinkHead ==
    ASSUME NEW S, NEW s \in Seq(S), NoRepeat(s), s # <<>>
    PROVE  Unlink(s, Head(s)) = Tail(s)
  <1>1. /\ Len(s) \in Nat \ {0} /\ Head(s) = s[1]
        /\ Tail(s) \in Seq(S) /\ Len(Tail(s)) = Len(s) - 1
        /\ \A i \in 1 .. Len(Tail(s)) : Tail(s)[i] = s[i + 1]
    BY HeadTailProperties, LenProperties, EmptySeq
  <1> DEFINE c == CHOOSE i \in 1 .. Len(s) : s[i] = Head(s)
  <1>2. 1 \in 1 .. Len(s)
    BY <1>1
  <1>3. c = 1
    <2>1. c \in 1 .. Len(s) /\ s[c] = Head(s)
      BY <1>1, <1>2
    <2> QED BY <1>1, <1>2, <2>1 DEF NoRepeat
  <1>4. Unlink(s, Head(s)) = RemoveAt(s, 1)
    <2>1. Contains(s, Head(s))
      BY <1>1, <1>2 DEF Contains
    <2> QED BY <1>3, <2>1 DEF Unlink
  <1>5. /\ RemoveAt(s, 1) \in Seq(S) /\ Len(RemoveAt(s, 1)) = Len(s) - 1
        /\ \A j \in 1 .. Len(s) - 1 : RemoveAt(s, 1)[j] = s[j + 1]
    <2>1. /\ RemoveAt(s, 1) \in Seq(S) /\ Len(RemoveAt(s, 1)) = Len(s) - 1
          /\ \A j \in 1 .. Len(s) - 1 :
                RemoveAt(s, 1)[j] = IF j < 1 THEN s[j] ELSE s[j + 1]
      BY <1>2, RemoveAtProperties
    <2>2. \A j \in 1 .. Len(s) - 1 : ~(j < 1)
      BY <1>1
    <2> QED BY <2>1, <2>2
  <1>6. RemoveAt(s, 1) = Tail(s)
    BY <1>1, <1>5, SeqEqual
  <1> QED BY <1>4, <1>6

\* Where a node is taken out
LEMMA UnlinkIsRemoveAt ==
    ASSUME NEW s, NEW n, Contains(s, n)
    PROVE  \E i \in 1 .. Len(s) : s[i] = n /\ Unlink(s, n) = RemoveAt(s, i)
<1> DEFINE c == CHOOSE i \in 1 .. Len(s) : s[i] = n
<1>1. c \in 1 .. Len(s) /\ s[c] = n
  BY DEF Contains
<1> QED BY <1>1 DEF Unlink

\* push_back of a node that is in no list
LEMMA PushBackProperties ==
    ASSUME NEW S, NEW s \in Seq(S), NEW n \in S
    PROVE  /\ Append(s, n) \in Seq(S)
           /\ \A x : Contains(Append(s, n), x) <=> (Contains(s, x) \/ x = n)
           /\ NoRepeat(s) /\ ~Contains(s, n) => NoRepeat(Append(s, n))
  <1>1. /\ Append(s, n) \in Seq(S)
        /\ Len(Append(s, n)) = Len(s) + 1
        /\ \A j \in 1 .. Len(s) : Append(s, n)[j] = s[j]
        /\ Append(s, n)[Len(s) + 1] = n
        /\ Len(s) \in Nat
    BY AppendProperties, LenProperties
  <1> QED BY <1>1 DEF Contains, NoRepeat

\* pop_front
LEMMA PopFrontProperties ==
    ASSUME NEW S, NEW s \in Seq(S), s # <<>>
    PROVE  /\ Head(s) \in S /\ Contains(s, Head(s))
           /\ Tail(s) \in Seq(S)
           /\ NoRepeat(s) =>
                /\ NoRepeat(Tail(s))
                /\ \A x : Contains(Tail(s), x) <=> (Contains(s, x) /\ x # Head(s))
  <1>1. /\ Head(s) \in S /\ Head(s) = s[1]
        /\ Tail(s) \in Seq(S)
        /\ Len(Tail(s)) = Len(s) - 1
        /\ \A j \in 1 .. Len(s) - 1 : Tail(s)[j] = s[j + 1]
        /\ Len(s) \in Nat /\ Len(s) >= 1
    BY HeadTailProperties, EmptySeq, LenProperties
  <1>2. Contains(s, Head(s))
    BY <1>1 DEF Contains
  <1>3. ASSUME NoRepeat(s)
        PROVE  /\ NoRepeat(Tail(s))
               /\ \A x : Contains(Tail(s), x) <=> (Contains(s, x) /\ x # Head(s))
    <2>1. NoRepeat(Tail(s))
      BY <1>1, <1>3 DEF NoRepeat
    <2>2. ASSUME NEW x, Contains(Tail(s), x)
          PROVE  Contains(s, x) /\ x # Head(s)
      <3>1. PICK j \in 1 .. Len(s) - 1 : Tail(s)[j] = x
        BY <1>1, <2>2 DEF Contains
      <3>2. j + 1 \in 1 .. Len(s) /\ j + 1 # 1 /\ s[j + 1] = x
        BY <1>1, <3>1
      <3> QED BY <1>1, <1>3, <3>2 DEF Contains, NoRepeat
    <2>3. ASSUME NEW x, Contains(s, x), x # Head(s)
          PROVE  Contains(Tail(s), x)
      <3>1. PICK k \in 1 .. Len(s) : s[k] = x
        BY <2>3 DEF Contains
      <3>2. k - 1 \in 1 .. Len(s) - 1 /\ Tail(s)[k - 1] = x
        BY <1>1, <2>3, <3>1
      <3> QED BY <1>1, <3>2 DEF Contains
    <2> QED BY <2>1, <2>2, <2>3
  <1> QED BY <1>1, <1>2, <1>3

\* insert_before of a node that is in no list
LEMMA InsertBeforeProperties ==
    ASSUME NEW S, NEW s \in Seq(S), NEW i \in 1 .. Len(s) + 1, NEW n \in S
    PROVE  /\ InsertAt(s, i, n) \in Seq(S)
           /\ \A x : Contains(InsertAt(s, i, n), x) <=> (Contains(s, x) \/ x = n)
           /\ NoRepeat(s) /\ ~Contains(s, n) => NoRepeat(InsertAt(s, i, n))
  <1> DEFINE r == InsertAt(s, i, n)
  <1>1. /\ r \in Seq(S)
        /\ Len(r) = Len(s) + 1
        /\ \A j \in 1 .. Len(s) + 1 :
              r[j] = IF j < i THEN s[j] ELSE IF j = i THEN n ELSE s[j - 1]
        /\ Len(s) \in Nat
    BY InsertAtProperties, LenProperties
  <1> HIDE DEF r
  <1>2. ASSUME NEW x, Contains(r, x)
        PROVE  Contains(s, x) \/ x = n
    <2>1. PICK j \in 1 .. Len(s) + 1 : r[j] = x
      BY <1>1, <1>2 DEF Contains
    <2>2. CASE j = i
      BY <1>1, <2>1, <2>2
    <2>3. CASE j # i
      <3> DEFINE k == IF j < i THEN j ELSE j - 1
      <3>1. k \in 1 .. Len(s) /\ s[k] = x
        BY <1>1, <2>1, <2>3
      <3> QED BY <3>1 DEF Contains
    <2> QED BY <2>2, <2>3
  <1>3. ASSUME NEW x, Contains(s, x) \/ x = n
        PROVE  Contains(r, x)
    <2>1. CASE x = n
      BY <1>1, <2>1 DEF Contains
    <2>2. CASE Contains(s, x)
      <3>1. PICK k \in 1 .. Len(s) : s[k] = x
        BY <2>2 DEF Contains
      <3> DEFINE j == IF k < i THEN k ELSE k + 1
      <3>2. j \in 1 .. Len(s) + 1 /\ r[j] = x
        BY <1>1, <3>1
      <3> QED BY <1>1, <3>2 DEF Contains
    <2> QED BY <1>3, <2>1, <2>2
  <1>4. NoRepeat(s) /\ ~Contains(s, n) => NoRepeat(r)
    <2>1. ASSUME NoRepeat(s), ~Contains(s, n),
                 NEW j \in 1 .. Len(r), NEW k \in 1 .. Len(r), r[j] = r[k], j < k
          PROVE  FALSE
      <3>1. \A m \in 1 .. Len(s) : s[m] # n
        BY <2>1 DEF Contains
      <3> QED BY <1>1, <2>1, <3>1 DEF NoRepeat
    <2>2. \A j, k \in 1 .. Len(r) : j = k \/ j < k \/ k < j
      BY <1>1
    <2> QED BY <2>1, <2>2 DEF NoRepeat
  <1>5. r = InsertAt(s, i, n)
    BY DEF r
  <1> QED BY <1>1, <1>2, <1>3, <1>4, <1>5

\* What is below the last element of a sequence
LEMMA FrontProperties ==
    ASSUME NEW S, NEW s \in Seq(S), s # <<>>
    PROVE  /\ SubSeq(s, 1, Len(s) - 1) \in Seq(S)
           /\ Len(SubSeq(s, 1, Len(s) - 1)) = Len(s) - 1
           /\ \A i \in 1 .. Len(s) - 1 : SubSeq(s, 1, Len(s) - 1)[i] = s[i]
  <1> DEFINE m == Len(s) - 1
             r == SubSeq(s, 1, m)
  <1>1. m \in Nat /\ \A i \in 1 .. m : s[i] \in S
    BY EmptySeq, LenProperties, ElementOfSeq
  <1> HIDE DEF m
  <1>2. /\ r \in Seq(S)
        /\ Len(r) = IF 1 <= m THEN m - 1 + 1 ELSE 0
        /\ \A i \in 1 .. m - 1 + 1 : r[i] = s[1 + i - 1]
    BY <1>1, SubSeqProperties
  <1> HIDE DEF r
  <1>3. Len(r) = m /\ \A i \in 1 .. m : r[i] = s[i]
    BY <1>1, <1>2
  <1> QED BY <1>2, <1>3 DEF m, r

-----------------------------------------------------------------------------
(* What one pass over a list picks *)

LEMMA LessPair ==
    ASSUME NEW x \in Nat, NEW y \in Nat, x < y
    PROVE  <<x, y>> \in OpToRel(<, Nat)
BY Zenon DEF OpToRel

\* Induction over the naturals, for a set of counterexamples: it has a least one.
LEMMA LeastNumber ==
    ASSUME NEW T \in SUBSET Nat, T # {}
    PROVE  \E m \in T : \A k \in T : m <= k
<1>1. PICK m \in T : \A k \in T : ~(<<k, m>> \in OpToRel(<, Nat))
  BY NatLessThanWellFounded, WFMin, Zenon
<1>2. ASSUME NEW k \in T PROVE ~(k < m)
  BY <1>1, LessPair, Zenon
<1> QED BY <1>2

\* f[i] is what the pass has picked after i nodes
IsPass(f, s, W, n) ==
    f = [i \in 0 .. n |-> IF i = 0 THEN <<>>
                          ELSE IF s[i] \in W THEN Append(f[i - 1], s[i]) ELSE f[i - 1]]

LEMMA PassExtends ==
    ASSUME NEW s, NEW W, NEW n \in Nat, \E f : IsPass(f, s, W, n)
    PROVE  \E f : IsPass(f, s, W, n + 1)
<1>1. PICK f : IsPass(f, s, W, n)
  OBVIOUS
<1> DEFINE last == IF s[n + 1] \in W THEN Append(f[n], s[n + 1]) ELSE f[n]
           g == [i \in 0 .. n + 1 |-> IF i = n + 1 THEN last ELSE f[i]]
<1>2. \A i \in 0 .. n : f[i] = IF i = 0 THEN <<>>
                               ELSE IF s[i] \in W THEN Append(f[i - 1], s[i]) ELSE f[i - 1]
  BY <1>1 DEF IsPass
<1>3. ASSUME NEW i \in 0 .. n + 1
      PROVE  g[i] = IF i = 0 THEN <<>>
                    ELSE IF s[i] \in W THEN Append(g[i - 1], s[i]) ELSE g[i - 1]
  <2>1. CASE i = n + 1
    <3>1. i # 0 /\ i - 1 = n /\ n \in 0 .. n + 1 /\ n # n + 1
      BY <2>1
    <3>2. g[i] = last /\ g[i - 1] = f[n]
      BY <2>1, <3>1
    <3> QED BY <2>1, <3>1, <3>2, Zenon
  <2>2. CASE i # n + 1
    <3>1. /\ i \in 0 .. n
          /\ i # 0 => i - 1 \in 0 .. n + 1 /\ i - 1 # n + 1
      BY <2>2
    <3>2. g[i] = f[i] /\ (i # 0 => g[i - 1] = f[i - 1])
      BY <2>2, <3>1
    <3> QED BY <1>2, <3>1, <3>2
  <2> QED BY <2>1, <2>2
<1>4. g = [i \in 0 .. n + 1 |-> IF i = 0 THEN <<>>
                                ELSE IF s[i] \in W THEN Append(g[i - 1], s[i]) ELSE g[i - 1]]
  <2> HIDE DEF last
  <2> QED BY <1>3
<1>5. IsPass(g, s, W, n + 1)
  BY <1>4 DEF IsPass
<1> QED BY <1>5

LEMMA PassExists ==
    ASSUME NEW s, NEW W, NEW n \in Nat
    PROVE  \E f : IsPass(f, s, W, n)
<1> DEFINE T == {k \in Nat : ~ \E f : IsPass(f, s, W, k)}
<1>1. SUFFICES ASSUME T # {} PROVE FALSE
  OBVIOUS
<1>2. PICK m \in T : \A k \in T : m <= k
  <2>1. T \in SUBSET Nat
    OBVIOUS
  <2> HIDE DEF T
  <2> QED BY <1>1, <2>1, LeastNumber
<1>3. CASE m = 0
  <2>1. IsPass([i \in 0 .. 0 |-> <<>>], s, W, 0)
    BY DEF IsPass
  <2> QED BY <1>3, <2>1
<1>4. CASE m # 0
  <2>1. m - 1 \in Nat /\ ~(m <= m - 1)
    BY <1>4
  <2>2. \E f : IsPass(f, s, W, m - 1)
    BY <1>2, <2>1
  <2>3. \E f : IsPass(f, s, W, (m - 1) + 1)
    BY <2>1, <2>2, PassExtends
  <2>4. (m - 1) + 1 = m
    OBVIOUS
  <2> QED BY <2>3, <2>4, Zenon
<1> QED BY <1>3, <1>4

LEMMA OnlyIsPass ==
    ASSUME NEW s, NEW W, Len(s) \in Nat
    PROVE  \E f : IsPass(f, s, W, Len(s)) /\ Only(s, W) = f[Len(s)]
<1>1. \E f : IsPass(f, s, W, Len(s))
  BY PassExists
<1> DEFINE g == CHOOSE f : IsPass(f, s, W, Len(s))
<1>2. IsPass(g, s, W, Len(s))
  BY <1>1, Zenon
<1>3. Only(s, W) = g[Len(s)]
  BY Zenon DEF Only, IsPass
<1> QED BY <1>2, <1>3

\* What a pass over a list picks: the nodes of W, each as often as it was there.
LEMMA OnlyProperties ==
    ASSUME NEW S, NEW s \in Seq(S), NEW W
    PROVE  /\ Only(s, W) \in Seq(S)
           /\ \A x : Contains(Only(s, W), x) <=> (Contains(s, x) /\ x \in W)
           /\ NoRepeat(s) => NoRepeat(Only(s, W))
<1>1. Len(s) \in Nat /\ \A i \in 1 .. Len(s) : s[i] \in S
  OBVIOUS
<1>2. PICK f : IsPass(f, s, W, Len(s)) /\ Only(s, W) = f[Len(s)]
  BY <1>1, OnlyIsPass
<1>3. \A i \in 0 .. Len(s) : f[i] = IF i = 0 THEN <<>>
                                    ELSE IF s[i] \in W THEN Append(f[i - 1], s[i]) ELSE f[i - 1]
  BY <1>2 DEF IsPass
<1> DEFINE Picked(i) == /\ f[i] \in Seq(S)
                        /\ \A x : Contains(f[i], x) <=> (x \in W /\ \E j \in 1 .. i : s[j] = x)
                        /\ NoRepeat(s) => NoRepeat(f[i])
           T == {i \in 0 .. Len(s) : ~Picked(i)}
<1>4. Picked(0)
  <2>1. f[0] = <<>> /\ Len(f[0]) = 0
    BY <1>1, <1>3
  <2> QED BY <2>1 DEF Contains, NoRepeat
<1>5. ASSUME NEW i \in 1 .. Len(s), Picked(i - 1) PROVE Picked(i)
  <2>1. /\ i \in 0 .. Len(s) /\ i # 0 /\ s[i] \in S
        /\ f[i] = IF s[i] \in W THEN Append(f[i - 1], s[i]) ELSE f[i - 1]
    BY <1>1, <1>3
  <2>2. \A x : (\E j \in 1 .. i : s[j] = x) <=> ((\E j \in 1 .. i - 1 : s[j] = x) \/ s[i] = x)
    <3>1. 1 .. i = 1 .. i - 1 \union {i}
      OBVIOUS
    <3> QED BY <3>1
  <2>3. CASE s[i] \in W
    <3>1. /\ f[i] \in Seq(S)
          /\ \A x : Contains(f[i], x) <=> (Contains(f[i - 1], x) \/ x = s[i])
          /\ NoRepeat(f[i - 1]) /\ ~Contains(f[i - 1], s[i]) => NoRepeat(f[i])
      BY <1>5, <2>1, <2>3, PushBackProperties
    <3>2. NoRepeat(s) => ~ \E j \in 1 .. i - 1 : s[j] = s[i]
      BY DEF NoRepeat
    <3> QED BY <1>5, <2>2, <2>3, <3>1, <3>2, Zenon
  <2>4. CASE s[i] \notin W
    BY <1>5, <2>1, <2>2, <2>4, Zenon
  <2> QED BY <2>3, <2>4
<1>6. ASSUME T # {} PROVE FALSE
  <2>1. T \in SUBSET Nat
    OBVIOUS
  <2>2. PICK m \in T : \A k \in T : m <= k
    <3> HIDE DEF T
    <3> QED BY <1>6, <2>1, LeastNumber
  <2>3. m \in 0 .. Len(s) /\ ~Picked(m)
    OBVIOUS
  <2> HIDE DEF Picked
  <2>4. m # 0
    BY <1>4, <2>3
  <2>5. m \in 1 .. Len(s) /\ m - 1 \in 0 .. Len(s) /\ ~(m <= m - 1)
    BY <1>1, <2>3, <2>4
  <2>6. Picked(m - 1)
    BY <2>2, <2>5
  <2> QED BY <1>5, <2>3, <2>5, <2>6
<1>7. Picked(Len(s))
  <2>1. Len(s) \in 0 .. Len(s)
    BY <1>1
  <2> HIDE DEF Picked
  <2> QED BY <1>6, <2>1
<1> QED BY <1>2, <1>7 DEF Contains

\* One list put after another.
LEMMA ConcatKeeps ==
    ASSUME NEW S, NEW s \in Seq(S), NEW r \in Seq(S)
    PROVE  /\ s \o r \in Seq(S)
           /\ \A x : Contains(s \o r, x) <=> (Contains(s, x) \/ Contains(r, x))
           /\ NoRepeat(s) /\ NoRepeat(r) /\ (\A x \in S : ~(Contains(s, x) /\ Contains(r, x)))
                => NoRepeat(s \o r)
<1> DEFINE c == s \o r
           m == Len(s)
           n == Len(r)
<1>1. /\ c \in Seq(S) /\ m \in Nat /\ n \in Nat /\ Len(c) = m + n
      /\ \A i \in 1 .. m : c[i] = s[i] /\ s[i] \in S
      /\ \A i \in 1 .. n : c[m + i] = r[i] /\ r[i] \in S
  OBVIOUS
<1> HIDE DEF c
<1>2. ASSUME NEW i \in 1 .. m + n
      PROVE  i \in 1 .. m \/ \E j \in 1 .. n : i = m + j
  <2>1. CASE i <= m
    BY <1>1, <2>1
  <2>2. CASE i > m
    <3>1. i - m \in 1 .. n /\ i = m + (i - m)
      BY <1>1, <2>2
    <3> QED BY <3>1
  <2> QED BY <1>1, <2>1, <2>2
<1>3. (\A i \in 1 .. m : i \in 1 .. m + n) /\ (\A i \in 1 .. n : m + i \in 1 .. m + n)
  BY <1>1
<1>4. ASSUME NEW x PROVE Contains(c, x) <=> (Contains(s, x) \/ Contains(r, x))
  <2>1. ASSUME NEW i \in 1 .. m + n, c[i] = x PROVE Contains(s, x) \/ Contains(r, x)
    BY <1>1, <1>2, <2>1 DEF Contains
  <2>2. ASSUME Contains(s, x) PROVE Contains(c, x)
    BY <1>1, <1>3, <2>2 DEF Contains
  <2>3. ASSUME Contains(r, x) PROVE Contains(c, x)
    BY <1>1, <1>3, <2>3 DEF Contains
  <2> QED BY <1>1, <2>1, <2>2, <2>3 DEF Contains
<1>5. ASSUME NoRepeat(s), NoRepeat(r), \A x \in S : ~(Contains(s, x) /\ Contains(r, x)),
             NEW i \in 1 .. m + n, NEW j \in 1 .. m + n, c[i] = c[j]
      PROVE  i = j
  <2>1. CASE i \in 1 .. m /\ j \in 1 .. m
    BY <1>1, <1>5, <2>1 DEF NoRepeat
  <2>2. ASSUME NEW a \in 1 .. m, NEW b \in 1 .. n, c[a] = c[m + b] PROVE FALSE
    BY <1>1, <1>5, <2>2 DEF Contains
  <2>3. ASSUME NEW a \in 1 .. n, NEW b \in 1 .. n, i = m + a, j = m + b PROVE i = j
    BY <1>1, <1>5, <2>3 DEF NoRepeat
  <2> QED BY <1>2, <1>5, <2>1, <2>2, <2>3, Zenon
<1> QED BY <1>1, <1>4, <1>5 DEF c, NoRepeat

-----------------------------------------------------------------------------
(* Two sequences, one behind the other *)

\* What happens at the end of the second
LEMMA AppendToSecond ==
    ASSUME NEW S, NEW a \in Seq(S), NEW b \in Seq(S), NEW x \in S
    PROVE  a \o Append(b, x) = Append(a \o b, x)
<1>1. Len(a) \in Nat /\ Len(b) \in Nat
  BY LenProperties
<1>2. /\ Append(b, x) \in Seq(S) /\ Len(Append(b, x)) = Len(b) + 1
      /\ \A k \in 1 .. Len(b) : Append(b, x)[k] = b[k]
      /\ Append(b, x)[Len(b) + 1] = x
  BY AppendProperties
<1> DEFINE c == Append(b, x)
           ab == a \o b
<1> HIDE DEF c
<1>3. /\ a \o c \in Seq(S) /\ Len(a \o c) = Len(a) + Len(c)
      /\ \A i \in 1 .. Len(a) + Len(c) :
            (a \o c)[i] = IF i <= Len(a) THEN a[i] ELSE c[i - Len(a)]
  BY <1>2, ConcatProperties DEF c
<1>4. /\ ab \in Seq(S) /\ Len(ab) = Len(a) + Len(b)
      /\ \A i \in 1 .. Len(a) + Len(b) : ab[i] = IF i <= Len(a) THEN a[i] ELSE b[i - Len(a)]
  BY ConcatProperties
<1> HIDE DEF ab
<1>5. /\ Append(ab, x) \in Seq(S) /\ Len(Append(ab, x)) = Len(ab) + 1
      /\ \A k \in 1 .. Len(ab) : Append(ab, x)[k] = ab[k]
      /\ Append(ab, x)[Len(ab) + 1] = x
  BY <1>4, AppendProperties
<1>6. Len(a \o c) = Len(Append(ab, x))
  BY <1>1, <1>2, <1>3, <1>4, <1>5 DEF c
<1>7. ASSUME NEW i \in 1 .. Len(a \o c) PROVE (a \o c)[i] = Append(ab, x)[i]
  <2>1. CASE i <= Len(a)
    BY <1>1, <1>2, <1>3, <1>4, <1>5, <2>1 DEF c
  <2>2. CASE i > Len(a) /\ i <= Len(a) + Len(b)
    BY <1>1, <1>2, <1>3, <1>4, <1>5, <2>2 DEF c
  <2>3. CASE i = Len(a) + Len(b) + 1
    BY <1>1, <1>2, <1>3, <1>4, <1>5, <2>3 DEF c
  <2>4. \/ i <= Len(a)
        \/ i > Len(a) /\ i <= Len(a) + Len(b)
        \/ i = Len(a) + Len(b) + 1
    BY <1>1, <1>2, <1>3 DEF c
  <2> QED BY <2>1, <2>2, <2>3, <2>4, Zenon
<1>8. a \o c = Append(ab, x)
  BY <1>3, <1>5, <1>6, <1>7, SeqEqual
<1> QED BY <1>8 DEF c, ab

\* What happens at the front of the first
LEMMA TailOfFirst ==
    ASSUME NEW S, NEW a \in Seq(S), NEW b \in Seq(S), a # <<>>
    PROVE  a \o b # <<>> /\ Tail(a \o b) = Tail(a) \o b
<1>1. Len(a) \in Nat \ {0} /\ Len(b) \in Nat
  BY LenProperties, EmptySeq
<1>2. /\ Tail(a) \in Seq(S) /\ Len(Tail(a)) = Len(a) - 1
      /\ \A i \in 1 .. Len(a) - 1 : Tail(a)[i] = a[i + 1]
  BY HeadTailProperties
<1> DEFINE ta == Tail(a)
           ab == a \o b
<1>3. /\ ab \in Seq(S) /\ Len(ab) = Len(a) + Len(b)
      /\ \A i \in 1 .. Len(a) + Len(b) : ab[i] = IF i <= Len(a) THEN a[i] ELSE b[i - Len(a)]
  BY ConcatProperties
<1> HIDE DEF ta, ab
<1>4. /\ ta \o b \in Seq(S) /\ Len(ta \o b) = Len(ta) + Len(b)
      /\ \A i \in 1 .. Len(ta) + Len(b) :
            (ta \o b)[i] = IF i <= Len(ta) THEN ta[i] ELSE b[i - Len(ta)]
  BY <1>2, ConcatProperties DEF ta
<1>5. ab # <<>>
  BY <1>1, <1>3, EmptySeq
<1>6. /\ Tail(ab) \in Seq(S) /\ Len(Tail(ab)) = Len(ab) - 1
      /\ \A i \in 1 .. Len(ab) - 1 : Tail(ab)[i] = ab[i + 1]
  BY <1>3, <1>5, HeadTailProperties
<1>7. Len(Tail(ab)) = Len(ta \o b)
  BY <1>1, <1>2, <1>3, <1>4, <1>6 DEF ta
<1>8. ASSUME NEW i \in 1 .. Len(Tail(ab)) PROVE Tail(ab)[i] = (ta \o b)[i]
  <2>1. Tail(ab)[i] = ab[i + 1] /\ i + 1 \in 1 .. Len(a) + Len(b)
    BY <1>1, <1>3, <1>6
  <2>2. i \in 1 .. Len(ta) + Len(b) /\ Len(ta) = Len(a) - 1
    BY <1>1, <1>2, <1>4, <1>7 DEF ta
  <2>3. CASE i <= Len(a) - 1
    <3>1. ab[i + 1] = a[i + 1]
      BY <1>1, <1>3, <2>1, <2>3
    <3>2. (ta \o b)[i] = ta[i] /\ i \in 1 .. Len(a) - 1
      BY <1>1, <1>4, <2>2, <2>3
    <3> QED BY <1>2, <2>1, <3>1, <3>2 DEF ta
  <2>4. CASE i > Len(a) - 1
    <3>1. ab[i + 1] = b[(i + 1) - Len(a)]
      BY <1>1, <1>3, <2>1, <2>4
    <3>2. (ta \o b)[i] = b[i - Len(ta)]
      BY <1>1, <1>4, <2>2, <2>4
    <3>3. (i + 1) - Len(a) = i - Len(ta)
      BY <1>1, <2>2
    <3> QED BY <2>1, <3>1, <3>2, <3>3
  <2> QED BY <1>1, <2>2, <2>3, <2>4
<1>9. Tail(ab) = ta \o b
  BY <1>4, <1>6, <1>7, <1>8, SeqEqual
<1> QED BY <1>5, <1>9 DEF ta, ab

\* What happens at the front of the second moves to the end of the first.
LEMMA HeadOfSecond ==
    ASSUME NEW S, NEW a \in Seq(S), NEW b \in Seq(S), b # <<>>
    PROVE  Append(a, Head(b)) \o Tail(b) = a \o b
<1>1. /\ Len(a) \in Nat /\ Len(b) \in Nat \ {0}
  BY LenProperties, EmptySeq
<1>2. /\ Head(b) \in S /\ Head(b) = b[1]
      /\ Tail(b) \in Seq(S) /\ Len(Tail(b)) = Len(b) - 1
      /\ \A i \in 1 .. Len(b) - 1 : Tail(b)[i] = b[i + 1]
  BY HeadTailProperties
<1> DEFINE c == Append(a, Head(b))
           d == Tail(b)
<1>3. /\ c \in Seq(S) /\ Len(c) = Len(a) + 1
      /\ \A i \in 1 .. Len(a) : c[i] = a[i]
      /\ c[Len(a) + 1] = Head(b)
  BY <1>2, AppendProperties
<1>4. /\ d \in Seq(S) /\ Len(d) = Len(b) - 1
      /\ \A i \in 1 .. Len(b) - 1 : d[i] = b[i + 1]
  BY <1>2
<1> HIDE DEF c, d
<1>5. /\ c \o d \in Seq(S) /\ Len(c \o d) = Len(c) + Len(d)
      /\ \A i \in 1 .. Len(c) + Len(d) : (c \o d)[i] = IF i <= Len(c) THEN c[i] ELSE d[i - Len(c)]
  BY <1>3, <1>4, ConcatProperties
<1>6. /\ a \o b \in Seq(S) /\ Len(a \o b) = Len(a) + Len(b)
      /\ \A i \in 1 .. Len(a) + Len(b) : (a \o b)[i] = IF i <= Len(a) THEN a[i] ELSE b[i - Len(a)]
  BY ConcatProperties
<1>7. ASSUME NEW i \in 1 .. Len(a) + Len(b) PROVE (c \o d)[i] = (a \o b)[i]
  <2>1. i \in 1 .. Len(c) + Len(d)
    BY <1>1, <1>3, <1>4
  <2>2. CASE i <= Len(a)
    <3>1. (c \o d)[i] = c[i] /\ (a \o b)[i] = a[i] /\ c[i] = a[i]
      BY <1>1, <1>3, <1>5, <1>6, <2>1, <2>2
    <3> QED BY <3>1
  <2>3. CASE i = Len(a) + 1
    <3>1. (c \o d)[i] = c[i] /\ (a \o b)[i] = b[i - Len(a)] /\ i - Len(a) = 1
      BY <1>1, <1>3, <1>5, <1>6, <2>1, <2>3
    <3> QED BY <1>2, <1>3, <2>3, <3>1
  <2>4. CASE i > Len(a) + 1
    <3>1. (c \o d)[i] = d[i - Len(c)] /\ (a \o b)[i] = b[i - Len(a)]
      BY <1>1, <1>3, <1>5, <1>6, <2>1, <2>4
    <3>2. i - Len(c) \in 1 .. Len(b) - 1 /\ (i - Len(c)) + 1 = i - Len(a)
      BY <1>1, <1>3, <2>4
    <3> QED BY <1>4, <3>1, <3>2
  <2>5. i <= Len(a) \/ i = Len(a) + 1 \/ i > Len(a) + 1
    BY <1>1
  <2> QED BY <2>2, <2>3, <2>4, <2>5, Zenon
<1>8. Len(c \o d) = Len(a) + Len(b) /\ Len(a \o b) = Len(a) + Len(b)
  BY <1>1, <1>3, <1>4, <1>5, <1>6
<1>9. c \o d = a \o b
  BY <1>5, <1>6, <1>7, <1>8, SeqEqual
<1> QED BY <1>9 DEF c, d

\* What is taken out of the second
LEMMA RemoveFromSecond ==
    ASSUME NEW S, NEW a \in Seq(S), NEW b \in Seq(S), NEW i \in 1 .. Len(b)
    PROVE  /\ Len(a) + i \in 1 .. Len(a \o b)
           /\ RemoveAt(a \o b, Len(a) + i) = a \o RemoveAt(b, i)
<1>1. Len(a) \in Nat /\ Len(b) \in Nat
  BY LenProperties
<1> DEFINE ab == a \o b
           r == RemoveAt(b, i)
           q == RemoveAt(ab, Len(a) + i)
<1>2. /\ ab \in Seq(S) /\ Len(ab) = Len(a) + Len(b)
      /\ \A j \in 1 .. Len(a) + Len(b) : ab[j] = IF j <= Len(a) THEN a[j] ELSE b[j - Len(a)]
  BY ConcatProperties
<1>3. /\ r \in Seq(S) /\ Len(r) = Len(b) - 1
      /\ \A j \in 1 .. Len(b) - 1 : r[j] = IF j < i THEN b[j] ELSE b[j + 1]
  BY RemoveAtProperties
<1> HIDE DEF ab, r
<1>4. Len(a) + i \in 1 .. Len(ab)
  BY <1>1, <1>2
<1>5. /\ q \in Seq(S) /\ Len(q) = Len(ab) - 1
      /\ \A j \in 1 .. Len(ab) - 1 : q[j] = IF j < Len(a) + i THEN ab[j] ELSE ab[j + 1]
  BY <1>2, <1>4, RemoveAtProperties
<1>6. /\ a \o r \in Seq(S) /\ Len(a \o r) = Len(a) + Len(r)
      /\ \A j \in 1 .. Len(a) + Len(r) : (a \o r)[j] = IF j <= Len(a) THEN a[j] ELSE r[j - Len(a)]
  BY <1>3, ConcatProperties
<1> HIDE DEF q
<1>7. ASSUME NEW j \in 1 .. Len(a) + Len(b) - 1 PROVE q[j] = (a \o r)[j]
  <2>1. j \in 1 .. Len(ab) - 1 /\ j \in 1 .. Len(a) + Len(r)
    BY <1>1, <1>2, <1>3
  <2>2. CASE j <= Len(a)
    <3>1. q[j] = ab[j] /\ ab[j] = a[j] /\ (a \o r)[j] = a[j]
      BY <1>1, <1>2, <1>5, <1>6, <2>1, <2>2
    <3> QED BY <3>1
  <2>3. CASE j > Len(a) /\ j < Len(a) + i
    <3>1. q[j] = ab[j] /\ ab[j] = b[j - Len(a)] /\ (a \o r)[j] = r[j - Len(a)]
      BY <1>1, <1>2, <1>5, <1>6, <2>1, <2>3
    <3>2. j - Len(a) \in 1 .. Len(b) - 1 /\ j - Len(a) < i
      BY <1>1, <2>3
    <3> QED BY <1>3, <3>1, <3>2
  <2>4. CASE j >= Len(a) + i
    <3>1. q[j] = ab[j + 1] /\ (a \o r)[j] = r[j - Len(a)]
      BY <1>1, <1>2, <1>5, <1>6, <2>1, <2>4
    <3>2. ab[j + 1] = b[(j + 1) - Len(a)]
      BY <1>1, <1>2, <2>4
    <3>3. j - Len(a) \in 1 .. Len(b) - 1 /\ ~(j - Len(a) < i)
      BY <1>1, <2>4
    <3>4. r[j - Len(a)] = b[(j - Len(a)) + 1]
      BY <1>3, <3>3
    <3>5. (j - Len(a)) + 1 = (j + 1) - Len(a)
      BY <1>1
    <3> QED BY <3>1, <3>2, <3>4, <3>5
  <2>5. j <= Len(a) \/ (j > Len(a) /\ j < Len(a) + i) \/ j >= Len(a) + i
    BY <1>1
  <2> QED BY <2>2, <2>3, <2>4, <2>5, Zenon
<1>8. Len(q) = Len(a) + Len(b) - 1 /\ Len(a \o r) = Len(a) + Len(b) - 1
  BY <1>1, <1>2, <1>3, <1>5, <1>6
<1>9. q = a \o r
  BY <1>5, <1>6, <1>7, <1>8, SeqEqual
<1> QED BY <1>4, <1>9 DEF ab, r, q

=============================================================================
