---------------------------- MODULE ListTheorems ----------------------------
(***************************************************************************)
(* What the list operations of module NachosList return, for lists of any  *)
(* length: which elements the new list has, where, and that a sorted list  *)
(* stays sorted.  And facts about queues of threads and the statuses of    *)
(* the threads on them, for the proofs about the clients of                *)
(* threads/synch.cc; they are stated about values, not about the variables *)
(* of one module: st maps a thread of T to its status, q and w map the     *)
(* semaphores S and the conditions C to their queues.  And some facts      *)
(* about division.                                                         *)
(***************************************************************************)
EXTENDS NachosList, Integers, FiniteSets, Functions, SequenceTheorems,
        FiniteSetTheorems, TLAPS

Element(I) == [item : I, key : Int]

\* The keys of l do not decrease.
Sorted(l) == \A i, j \in DOMAIN l : i < j => l[i].key <= l[j].key

\* The item e is on l.
Contains(l, e) == \E i \in DOMAIN l : l[i].item = e

\* l holds the items of X, each once.
Placed(l, I, X) ==
  /\ l \in Seq(Element(I))
  /\ \A i, j \in DOMAIN l : l[i].item = l[j].item => i = j
  /\ \A x \in I : x \in X <=> Contains(l, x)

\* r is l with the element e put in at place p.
PutAt(l, r, p, e) ==
  /\ p \in 1 .. Len(l) + 1 /\ Len(r) = Len(l) + 1
  /\ r[p] = e
  /\ \A i \in 1 .. p - 1 : r[i] = l[i]
  /\ \A i \in p .. Len(l) : r[i + 1] = l[i]

\* A set of natural numbers that is not empty has a least element.
LEMMA LeastIndex ==
  ASSUME NEW S \in SUBSET Nat, S # {}
  PROVE  LET m == CHOOSE i \in S : \A j \in S : i <= j
         IN  m \in S /\ \A j \in S : m <= j
<1> DEFINE less == OpToRel(<, Nat)
<1>1. IsWellFoundedOn(less, Nat)
  BY NatLessThanWellFounded
<1>2. \A x, y \in Nat : x < y => <<x, y>> \in less
  BY DEF OpToRel
<1> HIDE DEF less
<1>3. PICK x \in S : \A y \in S : ~ (<<y, x>> \in less)
  BY <1>1, WFMin
<1>4. ASSUME NEW y \in S PROVE x <= y
  <2>1. x \in Nat /\ y \in Nat
    OBVIOUS
  <2>2. ~ (y < x)
    BY <1>2, <1>3, <2>1, Zenon
  <2> QED
    BY <2>1, <2>2
<1> QED
  BY <1>4

\* The elements of a typed list are items with integer keys.
LEMMA KeyType ==
  ASSUME NEW I, NEW l \in Seq(Element(I))
  PROVE  /\ Len(l) \in Nat /\ DOMAIN l = 1 .. Len(l)
         /\ \A i \in 1 .. Len(l) : l[i].item \in I /\ l[i].key \in Int
<1>1. Len(l) \in Nat /\ DOMAIN l = 1 .. Len(l) /\ \A i \in 1 .. Len(l) : l[i] \in Element(I)
  OBVIOUS
<1>2. \A e \in Element(I) : e.item \in I /\ e.key \in Int
  BY DEF Element
<1> QED
  BY <1>1, <1>2

\* Where SortedInsert puts the new element: behind the elements whose keys are not
\* bigger, and before the first whose key is.
LEMMA InsertAt ==
  ASSUME NEW I, NEW l \in Seq(Element(I)), NEW x \in I, NEW k \in Int
  PROVE  /\ SortedInsert(l, x, k) \in Seq(Element(I))
         /\ \E p \in 1 .. Len(l) + 1 :
              /\ PutAt(l, SortedInsert(l, x, k), p, Elem(x, k))
              /\ \A i \in 1 .. p - 1 : l[i].key <= k
              /\ p <= Len(l) => k < l[p].key
<1> DEFINE bigger == {i \in DOMAIN l : k < l[i].key}
           p == IF bigger = {} THEN Len(l) + 1
                ELSE CHOOSE i \in bigger : \A j \in bigger : i <= j
           e == Elem(x, k)
           a == SubSeq(l, 1, p - 1)
           b == SubSeq(l, p, Len(l))
           r == a \o <<e>> \o b
<1>1. Len(l) \in Nat /\ DOMAIN l = 1 .. Len(l) /\ \A i \in 1 .. Len(l) : l[i].key \in Int
  BY KeyType
<1>2. /\ p \in 1 .. Len(l) + 1 /\ \A i \in 1 .. p - 1 : l[i].key <= k
      /\ p <= Len(l) => k < l[p].key
  <2>1. CASE bigger = {}
    BY <1>1, <2>1
  <2>2. CASE bigger # {}
    <3>1. bigger \in SUBSET Nat
      BY <1>1
    <3> DEFINE m == CHOOSE i \in bigger : \A j \in bigger : i <= j
    <3>2. m \in bigger /\ \A j \in bigger : m <= j
      BY <2>2, <3>1, LeastIndex
    <3>3. p = m
      BY <2>2
    <3> HIDE DEF m, p
    <3>4. m \in 1 .. Len(l) /\ k < l[m].key
      BY <1>1, <3>2
    <3>5. ASSUME NEW i \in 1 .. m - 1 PROVE l[i].key <= k
      BY <1>1, <3>2, <3>4
    <3> QED
      BY <1>1, <3>3, <3>4, <3>5
  <2> QED
    BY <2>1, <2>2
<1>3. SortedInsert(l, x, k) = r
  BY DEF SortedInsert
<1>4. e \in Element(I)
  BY DEF Elem, Element
<1> HIDE DEF p, e, bigger
<1>5. /\ a \in Seq(Element(I)) /\ Len(a) = p - 1 /\ \A i \in 1 .. p - 1 : a[i] = l[i]
  BY <1>1, <1>2
<1>6. /\ b \in Seq(Element(I)) /\ Len(b) = Len(l) - p + 1
      /\ \A i \in 1 .. Len(l) - p + 1 : b[i] = l[i + p - 1]
  BY <1>1, <1>2
<1> HIDE DEF a, b
<1> DEFINE n == Len(l)
<1>7. n \in Nat /\ p \in 1 .. n + 1
  BY <1>1, <1>2
<1>8. /\ r \in Seq(Element(I)) /\ Len(r) = n + 1
      /\ r[p] = e
      /\ \A i \in 1 .. p - 1 : r[i] = a[i]
      /\ \A i \in p .. n : r[i + 1] = b[i - p + 1]
  <2> HIDE DEF n
  <2>1. Len(a) = p - 1 /\ Len(b) = n - p + 1 /\ a \in Seq(Element(I)) /\ b \in Seq(Element(I))
    BY <1>5, <1>6 DEF n
  <2> DEFINE c == a \o <<e>>
  <2>2. /\ c \in Seq(Element(I)) /\ Len(c) = p /\ c[p] = e
        /\ \A i \in 1 .. p - 1 : c[i] = a[i]
    BY <1>4, <1>7, <2>1
  <2> HIDE DEF c
  <2>3. /\ c \o b \in Seq(Element(I)) /\ Len(c \o b) = n + 1
        /\ \A i \in 1 .. p : (c \o b)[i] = c[i]
        /\ \A i \in p .. n : (c \o b)[i + 1] = b[i - p + 1]
    <3>1. n \in Nat /\ p \in 1 .. n + 1 /\ Len(c) = p /\ Len(b) = n - p + 1
      BY <1>7, <2>1, <2>2
    <3>2. c \in Seq(Element(I)) /\ b \in Seq(Element(I))
      BY <2>1, <2>2
    <3>3. c \o b \in Seq(Element(I)) /\ Len(c \o b) = Len(c) + Len(b)
      BY <3>2
    <3>4. \A i \in 1 .. p : (c \o b)[i] = c[i]
      BY <3>1, <3>2
    <3>5. \A i \in p .. n : (c \o b)[i + 1] = b[i - p + 1]
      BY <3>1, <3>2
    <3> QED
      BY <3>1, <3>3, <3>4, <3>5
  <2>4. p \in 1 .. p /\ \A i \in 1 .. p - 1 : i \in 1 .. p
    BY <1>7
  <2> QED
    BY <2>2, <2>3, <2>4 DEF c
<1> HIDE DEF r
<1>9. PutAt(l, r, p, e)
  <2>1. \A i \in p .. n : i - p + 1 \in 1 .. n - p + 1 /\ (i - p + 1) + p - 1 = i
    BY <1>7
  <2>2. \A i \in p .. n : r[i + 1] = l[i]
    BY <1>6, <1>8, <2>1
  <2> QED
    BY <1>5, <1>7, <1>8, <2>2 DEF PutAt
<1> QED
  BY <1>2, <1>3, <1>8, <1>9 DEF e

\* SortedInsert keeps a list sorted.
LEMMA InsertSorted ==
  ASSUME NEW I, NEW l \in Seq(Element(I)), NEW x \in I, NEW k \in Int, Sorted(l)
  PROVE  Sorted(SortedInsert(l, x, k))
<1> DEFINE r == SortedInsert(l, x, k)
           n == Len(l)
<1>1. r \in Seq(Element(I))
  BY InsertAt
<1>2. PICK p \in 1 .. n + 1 :
        /\ PutAt(l, r, p, Elem(x, k))
        /\ \A i \in 1 .. p - 1 : l[i].key <= k
        /\ p <= n => k < l[p].key
  BY InsertAt
<1>3. n \in Nat /\ DOMAIN l = 1 .. n /\ \A i \in 1 .. n : l[i].key \in Int
  BY KeyType
<1>4. Elem(x, k).key = k
  BY DEF Elem
<1>5. /\ DOMAIN r = 1 .. n + 1 /\ r[p].key = k
      /\ \A i \in 1 .. p - 1 : r[i] = l[i]
      /\ \A i \in p .. n : r[i + 1] = l[i]
  BY <1>1, <1>2, <1>4 DEF PutAt
<1> HIDE DEF r, n
<1>6. \A i \in p .. n : k < l[i].key
  <2> SUFFICES ASSUME NEW i \in p .. n PROVE k < l[i].key
    OBVIOUS
  <2>1. p <= n /\ p \in 1 .. n /\ i \in 1 .. n
    BY <1>2, <1>3
  <2>2. k < l[p].key /\ l[p].key <= l[i].key
    BY <1>2, <1>3, <2>1 DEF Sorted
  <2> QED
    BY <1>3, <2>1, <2>2
<1>7. \A i \in p + 1 .. n + 1 : i - 1 \in p .. n /\ r[i] = l[i - 1]
  <2> SUFFICES ASSUME NEW i \in p + 1 .. n + 1 PROVE i - 1 \in p .. n /\ r[i] = l[i - 1]
    OBVIOUS
  <2>1. i - 1 \in p .. n /\ (i - 1) + 1 = i
    BY <1>3
  <2> QED
    BY <1>5, <2>1
<1> SUFFICES ASSUME NEW i \in 1 .. n + 1, NEW j \in 1 .. n + 1, i < j
             PROVE  r[i].key <= r[j].key
  BY <1>5 DEF Sorted, r
<1>8. CASE i < p /\ j < p
  <2>1. i \in 1 .. n /\ j \in 1 .. n /\ r[i] = l[i] /\ r[j] = l[j]
    BY <1>2, <1>3, <1>5, <1>8
  <2> QED
    BY <1>3, <2>1 DEF Sorted
<1>9. CASE i < p /\ j = p
  BY <1>2, <1>3, <1>5, <1>9
<1>10. CASE i < p /\ j > p
  <2>1. r[i] = l[i] /\ i \in 1 .. n /\ l[i].key <= k
    BY <1>2, <1>3, <1>5, <1>10
  <2>2. j - 1 \in p .. n /\ r[j] = l[j - 1] /\ k < l[j - 1].key /\ j - 1 \in 1 .. n
    BY <1>2, <1>3, <1>6, <1>7, <1>10
  <2>3. l[i].key \in Int /\ l[j - 1].key \in Int
    BY <1>3, <2>1, <2>2
  <2> QED
    BY <2>1, <2>2, <2>3
<1>11. CASE i = p /\ j > p
  <2>2. j - 1 \in p .. n /\ r[j] = l[j - 1] /\ k < l[j - 1].key /\ j - 1 \in 1 .. n
    BY <1>2, <1>3, <1>6, <1>7, <1>11
  <2> QED
    BY <1>3, <1>5, <1>11, <2>2
<1>12. CASE i > p /\ j > p
  <2>1. i - 1 \in 1 .. n /\ j - 1 \in 1 .. n /\ i - 1 < j - 1
    BY <1>3, <1>12
  <2>2. r[i] = l[i - 1] /\ r[j] = l[j - 1]
    BY <1>7, <1>12
  <2> QED
    BY <1>3, <2>1, <2>2 DEF Sorted
<1> QED
  BY <1>2, <1>8, <1>9, <1>10, <1>11, <1>12

\* What is on the list after SortedInsert.
LEMMA InsertItems ==
  ASSUME NEW I, NEW l \in Seq(Element(I)), NEW x \in I, NEW k \in Int,
         NEW r, r = SortedInsert(l, x, k)
  PROVE  /\ \A i \in DOMAIN r : r[i] = Elem(x, k) \/ \E j \in DOMAIN l : r[i] = l[j]
         /\ \A j \in DOMAIN l : \E i \in DOMAIN r : r[i] = l[j]
         /\ \E i \in DOMAIN r : r[i] = Elem(x, k)
<1> DEFINE n == Len(l)
<1>1. r \in Seq(Element(I))
  BY InsertAt
<1>2. PICK p \in 1 .. n + 1 : PutAt(l, r, p, Elem(x, k))
  BY InsertAt
<1>3. n \in Nat /\ DOMAIN l = 1 .. n
  OBVIOUS
<1>4. /\ DOMAIN r = 1 .. n + 1 /\ r[p] = Elem(x, k)
      /\ \A i \in 1 .. p - 1 : r[i] = l[i]
      /\ \A i \in p .. n : r[i + 1] = l[i]
  BY <1>1, <1>2 DEF PutAt
<1> HIDE DEF n
<1>5. \A i \in 1 .. n + 1 : i # p => \E j \in 1 .. n : r[i] = l[j]
  <2> SUFFICES ASSUME NEW i \in 1 .. n + 1, i # p PROVE \E j \in 1 .. n : r[i] = l[j]
    OBVIOUS
  <2>1. CASE i < p
    BY <1>2, <1>3, <1>4, <2>1
  <2>2. CASE i > p
    <3>1. i - 1 \in p .. n /\ i - 1 \in 1 .. n /\ (i - 1) + 1 = i
      BY <1>2, <1>3, <2>2
    <3> QED
      BY <1>4, <3>1
  <2> QED
    BY <1>2, <1>3, <2>1, <2>2
<1>6. \A j \in 1 .. n : \E i \in 1 .. n + 1 : r[i] = l[j]
  <2> SUFFICES ASSUME NEW j \in 1 .. n PROVE \E i \in 1 .. n + 1 : r[i] = l[j]
    OBVIOUS
  <2>1. CASE j < p
    BY <1>2, <1>3, <1>4, <2>1
  <2>2. CASE j >= p
    <3>1. j \in p .. n /\ j + 1 \in 1 .. n + 1
      BY <1>2, <1>3, <2>2
    <3> QED
      BY <1>4, <3>1
  <2> QED
    BY <1>2, <1>3, <2>1, <2>2
<1>7. \A i \in DOMAIN r : r[i] = Elem(x, k) \/ \E j \in DOMAIN l : r[i] = l[j]
  BY <1>3, <1>4, <1>5
<1>8. \A j \in DOMAIN l : \E i \in DOMAIN r : r[i] = l[j]
  BY <1>3, <1>4, <1>6
<1>9. \E i \in DOMAIN r : r[i] = Elem(x, k)
  BY <1>2, <1>4
<1> QED
  BY <1>7, <1>8, <1>9

\* Removing the first element.
LEMMA RemoveFirst ==
  ASSUME NEW I, NEW l \in Seq(Element(I)), l # <<>>
  PROVE  /\ Head(l) \in Element(I) /\ Head(l).item \in I /\ Head(l).key \in Int
         /\ 1 \in DOMAIN l /\ l[1] = Head(l)
         /\ Tail(l) \in Seq(Element(I))
         /\ \A i \in DOMAIN Tail(l) : i + 1 \in DOMAIN l /\ Tail(l)[i] = l[i + 1]
         /\ \A i \in DOMAIN l : i = 1 \/ (i - 1 \in DOMAIN Tail(l) /\ Tail(l)[i - 1] = l[i])
         /\ Sorted(l) => /\ Sorted(Tail(l))
                         /\ \A i \in DOMAIN l : Head(l).key <= l[i].key
<1>1. Len(l) \in Nat \ {0} /\ DOMAIN l = 1 .. Len(l)
  OBVIOUS
<1>2. Head(l) \in Element(I) /\ 1 \in DOMAIN l /\ l[1] = Head(l)
  BY <1>1
<1>3. Head(l).item \in I /\ Head(l).key \in Int
  BY <1>2 DEF Element
<1>4. Tail(l) \in Seq(Element(I)) /\ DOMAIN Tail(l) = 1 .. Len(l) - 1
  BY <1>1
<1>5. \A i \in DOMAIN Tail(l) : i + 1 \in DOMAIN l /\ Tail(l)[i] = l[i + 1]
  BY <1>1, <1>4
<1>6. \A i \in DOMAIN l : i = 1 \/ (i - 1 \in DOMAIN Tail(l) /\ Tail(l)[i - 1] = l[i])
  BY <1>1, <1>4
<1> DEFINE r == Tail(l)
<1> HIDE DEF r
<1>7. ASSUME Sorted(l) PROVE Sorted(r)
  <2>1. DOMAIN r = 1 .. Len(l) - 1 /\ \A i \in DOMAIN r : i + 1 \in DOMAIN l /\ r[i] = l[i + 1]
    BY <1>4, <1>5 DEF r
  <2> SUFFICES ASSUME NEW i \in DOMAIN r, NEW j \in DOMAIN r, i < j
               PROVE  r[i].key <= r[j].key
    BY DEF Sorted
  <2>2. i + 1 < j + 1
    BY <1>1, <2>1
  <2> QED
    BY <1>7, <2>1, <2>2 DEF Sorted
<1>8. ASSUME Sorted(l) PROVE \A i \in DOMAIN l : Head(l).key <= l[i].key
  <2> SUFFICES ASSUME NEW i \in DOMAIN l PROVE Head(l).key <= l[i].key
    OBVIOUS
  <2>1. CASE i = 1
    BY <1>2, <1>3, <2>1
  <2>2. CASE i # 1
    <3>1. 1 < i
      BY <1>1, <2>2
    <3> QED
      BY <1>2, <1>8, <3>1 DEF Sorted
  <2> QED
    BY <2>1, <2>2
<1> QED
  BY <1>2, <1>3, <1>4, <1>5, <1>6, <1>7, <1>8 DEF r

-----------------------------------------------------------------------------
(* Which items are on a list *)

\* The empty list holds nothing.
LEMMA PlacedEmpty ==
  ASSUME NEW I PROVE Placed(<<>>, I, {})
<1>1. DOMAIN <<>> = {} /\ <<>> \in Seq(Element(I))
  OBVIOUS
<1> QED
  BY <1>1 DEF Placed, Contains

\* A list with one more element, wherever it was put in.
LEMMA PlacedPut ==
  ASSUME NEW I, NEW X, NEW l, Placed(l, I, X), NEW r \in Seq(Element(I)), NEW p, NEW e \in Element(I),
         PutAt(l, r, p, e), e.item \notin X
  PROVE  Placed(r, I, X \cup {e.item})
<1> DEFINE n == Len(l)
           x == e.item
<1>1. /\ n \in Nat /\ DOMAIN l = 1 .. n /\ DOMAIN r = 1 .. n + 1 /\ p \in 1 .. n + 1 /\ x \in I
      /\ r[p] = e
      /\ \A i \in 1 .. p - 1 : r[i] = l[i]
      /\ \A i \in p .. n : r[i + 1] = l[i]
  BY DEF Placed, PutAt, Element
<1>2. /\ \A i, j \in 1 .. n : l[i].item = l[j].item => i = j
      /\ \A y \in I : y \in X <=> \E i \in 1 .. n : l[i].item = y
  BY <1>1 DEF Placed, Contains
<1>3. r[p].item = x /\ \A i \in 1 .. n : l[i].item # x
  BY <1>1, <1>2
<1> DEFINE old(i) == IF i < p THEN i ELSE i - 1
<1>4. \A i \in 1 .. n + 1 : i # p => old(i) \in 1 .. n /\ r[i] = l[old(i)]
  <2> SUFFICES ASSUME NEW i \in 1 .. n + 1, i # p PROVE old(i) \in 1 .. n /\ r[i] = l[old(i)]
    OBVIOUS
  <2> HIDE DEF n
  <2>1. CASE i < p
    BY <1>1, <2>1
  <2>2. CASE i > p
    <3>1. i - 1 \in p .. n /\ i - 1 \in 1 .. n /\ (i - 1) + 1 = i /\ old(i) = i - 1
      BY <1>1, <2>2
    <3> QED
      BY <1>1, <3>1
  <2> QED
    BY <1>1, <2>1, <2>2
<1>5. \A i \in 1 .. n : \E j \in 1 .. n + 1 : r[j] = l[i]
  <2> SUFFICES ASSUME NEW i \in 1 .. n PROVE \E j \in 1 .. n + 1 : r[j] = l[i]
    OBVIOUS
  <2> HIDE DEF n
  <2>1. CASE i < p
    BY <1>1, <2>1
  <2>2. CASE i >= p
    <3>1. i \in p .. n /\ i + 1 \in 1 .. n + 1
      BY <1>1, <2>2
    <3> QED
      BY <1>1, <3>1
  <2> QED
    BY <1>1, <2>1, <2>2
<1>6. \A i, j \in 1 .. n + 1 : i # p /\ j # p /\ old(i) = old(j) => i = j
  <2> HIDE DEF n
  <2> QED
    BY <1>1
<1> HIDE DEF n, x, old
<1>7. ASSUME NEW i \in 1 .. n + 1, NEW j \in 1 .. n + 1, r[i].item = r[j].item
      PROVE  i = j
  <2>1. CASE i = p \/ j = p
    BY <1>3, <1>4, <1>7, <2>1
  <2>2. CASE i # p /\ j # p
    BY <1>2, <1>4, <1>6, <1>7, <2>2
  <2> QED
    BY <2>1, <2>2
<1>8. ASSUME NEW y \in I
      PROVE  y \in X \cup {x} <=> \E i \in 1 .. n + 1 : r[i].item = y
  <2>1. ASSUME y \in X PROVE \E i \in 1 .. n + 1 : r[i].item = y
    BY <1>2, <1>5, <2>1
  <2>2. ASSUME NEW i \in 1 .. n + 1, r[i].item = y PROVE y \in X \cup {x}
    BY <1>2, <1>3, <1>4, <2>2
  <2> QED
    BY <1>1, <1>3, <2>1, <2>2
<1> QED
  BY <1>1, <1>7, <1>8 DEF Placed, Contains, x

\* SortedInsert of a thread not on the list puts it there once.
LEMMA PlacedInsert ==
  ASSUME NEW I, NEW X, NEW l, Placed(l, I, X), NEW x \in I, x \notin X, NEW k \in Int
  PROVE  Placed(SortedInsert(l, x, k), I, X \cup {x})
<1>1. l \in Seq(Element(I))
  BY DEF Placed
<1> DEFINE r == SortedInsert(l, x, k)
           e == Elem(x, k)
<1>2. r \in Seq(Element(I)) /\ \E p \in 1 .. Len(l) + 1 : PutAt(l, r, p, e)
  BY <1>1, InsertAt
<1>3. e \in Element(I) /\ e.item = x
  BY DEF Elem, Element
<1> HIDE DEF r, e
<1>4. Placed(r, I, X \cup {e.item})
  BY <1>2, <1>3, PlacedPut
<1> QED
  BY <1>3, <1>4 DEF r

\* Append of a thread not on the list puts it there once.
LEMMA PlacedAppend ==
  ASSUME NEW I, NEW X, NEW l, Placed(l, I, X), NEW x \in I, x \notin X
  PROVE  Placed(ListAppend(l, x), I, X \cup {x})
<1>1. l \in Seq(Element(I))
  BY DEF Placed
<1> DEFINE e == Elem(x, 0)
           r == Append(l, e)
<1>2. e \in Element(I) /\ e.item = x
  BY DEF Elem, Element
<1> HIDE DEF e
<1>3. r \in Seq(Element(I)) /\ Len(r) = Len(l) + 1 /\ Len(l) \in Nat /\ r[Len(l) + 1] = e
      /\ \A i \in 1 .. Len(l) : r[i] = l[i]
  BY <1>1, <1>2
<1>4. PutAt(l, r, Len(l) + 1, e)
  BY <1>3 DEF PutAt
<1> HIDE DEF r
<1>5. Placed(r, I, X \cup {e.item})
  BY <1>2, <1>3, <1>4, PlacedPut
<1> QED
  BY <1>2, <1>5 DEF r, e, ListAppend

\* Remove takes the first thread off, which is then not on the list any more.
LEMMA PlacedRemove ==
  ASSUME NEW I, NEW X, NEW l, Placed(l, I, X), l # <<>>
  PROVE  /\ Head(l).item \in X /\ Head(l).item \in I
         /\ Placed(Tail(l), I, X \ {Head(l).item})
<1>1. /\ l \in Seq(Element(I))
      /\ \A i, j \in DOMAIN l : l[i].item = l[j].item => i = j
      /\ \A x \in I : x \in X <=> \E i \in DOMAIN l : l[i].item = x
  BY DEF Placed, Contains
<1> DEFINE r == Tail(l)
           h == Head(l).item
<1>2. /\ h \in I /\ 1 \in DOMAIN l /\ l[1].item = h
      /\ r \in Seq(Element(I))
      /\ \A i \in DOMAIN r : i + 1 \in DOMAIN l /\ r[i] = l[i + 1]
      /\ \A i \in DOMAIN l : i = 1 \/ (i - 1 \in DOMAIN r /\ r[i - 1] = l[i])
  BY <1>1, RemoveFirst
<1>3. DOMAIN r \subseteq Nat \ {0}
  BY <1>2
<1> HIDE DEF r, h
<1>4. ASSUME NEW i \in DOMAIN r, NEW j \in DOMAIN r, r[i].item = r[j].item
      PROVE  i = j
  <2>1. i + 1 = j + 1
    BY <1>1, <1>2, <1>4
  <2> QED
    BY <1>3, <2>1
<1>5. ASSUME NEW i \in DOMAIN r PROVE r[i].item # h
  <2>1. i + 1 # 1 /\ i + 1 \in DOMAIN l /\ r[i] = l[i + 1]
    BY <1>2, <1>3
  <2> QED
    BY <1>1, <1>2, <2>1
<1>6. ASSUME NEW x \in I
      PROVE  x \in X \ {h} <=> \E i \in DOMAIN r : r[i].item = x
  <2>1. ASSUME x \in X, x # h PROVE \E i \in DOMAIN r : r[i].item = x
    <3>1. PICK i \in DOMAIN l : l[i].item = x
      BY <1>1, <2>1
    <3>2. i # 1
      BY <1>2, <2>1, <3>1
    <3> QED
      BY <1>2, <3>1, <3>2
  <2>2. ASSUME NEW i \in DOMAIN r, r[i].item = x PROVE x \in X \ {h}
    BY <1>1, <1>2, <1>5, <2>2
  <2> QED
    BY <2>1, <2>2
<1>7. h \in X
  BY <1>1, <1>2
<1> QED
  BY <1>2, <1>4, <1>6, <1>7 DEF Placed, Contains, r, h

-----------------------------------------------------------------------------
(* Queues of threads *)

\* A thread on a queue is asleep, and on no other queue; no queue holds it twice.
QueuesOK(T, S, C, st, q, w) ==
  /\ st \in [T -> {"READY", "BLOCKED"}]
  /\ q \in [S -> Seq(T)] /\ w \in [C -> Seq(T)]
  /\ \A s \in S : IsInjective(q[s]) /\ \A t \in Range(q[s]) : st[t] = "BLOCKED"
  /\ \A c \in C : IsInjective(w[c]) /\ \A t \in Range(w[c]) : st[t] = "BLOCKED"
  /\ \A s, r \in S : s # r => Range(q[s]) \cap Range(q[r]) = {}
  /\ \A c, d \in C : c # d => Range(w[c]) \cap Range(w[d]) = {}
  /\ \A s \in S, c \in C : Range(q[s]) \cap Range(w[c]) = {}

\* What List::Append and List::Remove do to what a queue holds.
LEMMA RangeOfAppend ==
  ASSUME NEW T, NEW q \in Seq(T), NEW t \in T
  PROVE  /\ Append(q, t) \in Seq(T)
         /\ Range(Append(q, t)) = Range(q) \cup {t}
         /\ IsInjective(q) /\ t \notin Range(q) => IsInjective(Append(q, t))
<1> DEFINE a == Append(q, t)
<1>1. /\ DOMAIN q = 1 .. Len(q) /\ Len(q) \in Nat
      /\ DOMAIN a = 1 .. Len(q) + 1
      /\ \A i \in 1 .. Len(q) : a[i] = q[i]
      /\ a[Len(q) + 1] = t
      /\ a \in Seq(T)
  OBVIOUS
<1> HIDE DEF a
<1>2. \A i \in DOMAIN a : i \in DOMAIN q \/ i = Len(q) + 1
  BY <1>1
<1>3. Range(a) = Range(q) \cup {t}
  BY <1>1, <1>2 DEF Range
<1>4. ASSUME IsInjective(q), t \notin Range(q) PROVE IsInjective(a)
  BY <1>1, <1>2, <1>4 DEF Range, IsInjective
<1> QED
  BY <1>1, <1>3, <1>4 DEF a

\* Remove takes the first sleeper and leaves the others, once each.
LEMMA RangeOfTail ==
  ASSUME NEW T, NEW q \in Seq(T), q # <<>>
  PROVE  /\ Tail(q) \in Seq(T) /\ Len(q) = Len(Tail(q)) + 1
         /\ Head(q) \in T /\ Head(q) \in Range(q)
         /\ Range(q) = Range(Tail(q)) \cup {Head(q)}
         /\ IsInjective(q) => IsInjective(Tail(q)) /\ Head(q) \notin Range(Tail(q))
<1>1. /\ Head(q) = q[1] /\ 1 \in DOMAIN q /\ Len(Tail(q)) = Len(q) - 1 /\ Len(q) \in Nat
      /\ Tail(q) \in Seq(T) /\ DOMAIN Tail(q) = 1 .. Len(Tail(q))
      /\ \A i \in 1 .. Len(Tail(q)) : i + 1 \in DOMAIN q /\ Tail(q)[i] = q[i + 1]
      /\ \A i \in DOMAIN q : i # 1 => i - 1 \in 1 .. Len(Tail(q)) /\ Tail(q)[i - 1] = q[i]
  OBVIOUS
<1>2. Range(q) = Range(Tail(q)) \cup {Head(q)}
  <2>1. Range(Tail(q)) \subseteq Range(q)
    BY <1>1 DEF Range
  <2>2. \A i \in DOMAIN q : i # 1 => q[i] \in Range(Tail(q))
    BY <1>1 DEF Range
  <2> QED
    BY <1>1, <2>1, <2>2 DEF Range
<1>3. ASSUME IsInjective(q) PROVE IsInjective(Tail(q)) /\ Head(q) \notin Range(Tail(q))
  <2>1. Head(q) \notin Range(Tail(q))
    BY <1>1, <1>3 DEF Range, IsInjective
  <2>2. ASSUME NEW i \in 1 .. Len(Tail(q)), NEW j \in 1 .. Len(Tail(q)),
               Tail(q)[i] = Tail(q)[j]
        PROVE  i = j
    <3>1. i + 1 = j + 1
      BY <1>1, <1>3, <2>2 DEF IsInjective
    <3> QED
      BY <3>1, <1>1
  <2> QED
    BY <1>1, <2>1, <2>2 DEF IsInjective
<1>4. Head(q) \in T /\ Head(q) \in Range(q) /\ Len(q) = Len(Tail(q)) + 1
  BY <1>1 DEF Range
<1> QED
  BY <1>1, <1>2, <1>3, <1>4

\* Items that move from the front of one sequence to the end of another.
LEMMA MoveOne ==
  ASSUME NEW T, NEW g \in Seq(T), NEW l \in Seq(T)
  PROVE  /\ g \o l \in Seq(T)
         /\ l # <<>> => /\ Append(g, Head(l)) \o Tail(l) = g \o l
                        /\ (g \o l)[Len(g) + 1] = Head(l) /\ Len(g) < Len(g \o l)
<1>1. g \o l \in Seq(T) /\ Len(g \o l) = Len(g) + Len(l) /\ Len(g) \in Nat /\ Len(l) \in Nat
  OBVIOUS
<1>2. ASSUME l # <<>>
      PROVE  /\ Append(g, Head(l)) \o Tail(l) = g \o l
             /\ (g \o l)[Len(g) + 1] = Head(l) /\ Len(g) < Len(g \o l)
  <2>1. Len(l) > 0 /\ Head(l) = l[1] /\ Head(l) \in T /\ Tail(l) \in Seq(T) /\ Len(Tail(l)) = Len(l) - 1
    BY <1>2
  <2>2. (g \o l)[Len(g) + 1] = Head(l) /\ Len(g) < Len(g \o l)
    BY <1>1, <2>1
  <2>3. Append(g, Head(l)) \o Tail(l) = g \o l
    <3> DEFINE a == Append(g, Head(l))
               b == Tail(l)
    <3>1. a \in Seq(T) /\ b \in Seq(T) /\ Len(a) = Len(g) + 1 /\ Len(b) = Len(l) - 1
      BY <2>1
    <3>2. a \o b \in Seq(T) /\ Len(a \o b) = Len(g \o l)
      BY <1>1, <3>1
    <3>3. ASSUME NEW i \in 1 .. Len(g \o l) PROVE (a \o b)[i] = (g \o l)[i]
      BY <1>1, <1>2, <2>1, <3>1
    <3> QED
      BY <1>1, <3>2, <3>3, SeqEqual
  <2> QED
    BY <2>2, <2>3
<1> QED
  BY <1>1, <1>2

\* The empty queue holds nothing, and nothing twice.
LEMMA EmptyRange == Range(<<>>) = {} /\ IsInjective(<<>>)
  BY DEF Range, IsInjective

\* A set that is numbered from 1 to n has n elements.
LEMMA Numbered ==
  ASSUME NEW n \in Nat, NEW R, NEW q \in [1 .. n -> R],
         \A i, j \in 1 .. n : q[i] = q[j] => i = j, \A t \in R : \E i \in 1 .. n : q[i] = t
  PROVE  IsFiniteSet(R) /\ Cardinality(R) = n
<1>1. q \in Bijection(1 .. n, R)
  BY DEF Bijection, Injection, Surjection, IsInjective
<1>2. ExistsBijection(1 .. n, R)
  BY <1>1 DEF ExistsBijection
<1>3. IsFiniteSet(1 .. n) /\ Cardinality(1 .. n) = n
  BY FS_Interval
<1> QED
  BY <1>2, <1>3, FS_Bijection

\* Counting a set that gains or loses one element.
LEMMA CountOne ==
  ASSUME NEW X, IsFiniteSet(X), NEW x
  PROVE  /\ Cardinality(X) \in Nat
         /\ Cardinality(X \cup {x}) = Cardinality(X) + (IF x \in X THEN 0 ELSE 1)
         /\ Cardinality(X \ {x}) = Cardinality(X) - (IF x \in X THEN 1 ELSE 0)
  BY FS_CardinalityType, FS_AddElement, FS_RemoveElement

\* No thread sleeps when the primitives have just been made.
LEMMA QueuesInit ==
  ASSUME NEW T, NEW S, NEW C
  PROVE  \A st, q, w : /\ st = [t \in T |-> "READY"]
                       /\ q = [s \in S |-> <<>>] /\ w = [c \in C |-> <<>>]
                       => QueuesOK(T, S, C, st, q, w)
  BY EmptySeq, EmptyRange DEF QueuesOK

\* P() that finds the value 0: a thread that runs goes to sleep on the queue.
LEMMA QueuesP ==
  ASSUME NEW T, NEW S, NEW C, NEW st, NEW q, NEW w, QueuesOK(T, S, C, st, q, w),
         NEW t \in T, st[t] = "READY", NEW s \in S,
         NEW st1, st1 = [st EXCEPT ![t] = "BLOCKED"],
         NEW q1, q1 = [q EXCEPT ![s] = Append(q[s], t)]
  PROVE  QueuesOK(T, S, C, st1, q1, w)
<1>1. /\ \A r \in S : t \notin Range(q[r])
      /\ \A c \in C : t \notin Range(w[c])
  BY DEF QueuesOK
<1>2. /\ q1 \in [S -> Seq(T)]
      /\ IsInjective(q1[s]) /\ Range(q1[s]) = Range(q[s]) \cup {t}
      /\ \A r \in S : r # s => q1[r] = q[r]
  BY <1>1, RangeOfAppend DEF QueuesOK
<1> QED
  <2>1. \A r \in S : IsInjective(q1[r])
    BY <1>2 DEF QueuesOK
  <2>2. \A r \in S : Range(q1[r]) \subseteq Range(q[r]) \cup {t}
    BY <1>2
  <2>3. \A r, p \in S : r # p => Range(q1[r]) \cap Range(q1[p]) = {}
    BY <1>1, <1>2 DEF QueuesOK
  <2> QED
    BY <1>1, <1>2, <2>1, <2>2, <2>3 DEF QueuesOK

\* List::Remove and ReadyToRun on a queue: the thread taken off it is ready.
LEMMA QueuesV ==
  ASSUME NEW T, NEW S, NEW C, NEW st, NEW q, NEW w, QueuesOK(T, S, C, st, q, w), NEW s \in S,
         NEW st1, st1 = IF q[s] = <<>> THEN st ELSE [st EXCEPT ![Head(q[s])] = "READY"],
         NEW q1, q1 = [q EXCEPT ![s] = IF q[s] = <<>> THEN q[s] ELSE Tail(q[s])]
  PROVE  QueuesOK(T, S, C, st1, q1, w)
<1>1. CASE q[s] = <<>>
  <2>1. q1 = q
    BY <1>1 DEF QueuesOK
  <2> QED
    BY <1>1, <2>1
<1>2. CASE q[s] # <<>>
  <2>1. /\ q1 \in [S -> Seq(T)] /\ Head(q[s]) \in T /\ Head(q[s]) \in Range(q[s])
        /\ IsInjective(q1[s]) /\ Range(q[s]) = Range(q1[s]) \cup {Head(q[s])}
        /\ Head(q[s]) \notin Range(q1[s])
        /\ \A r \in S : r # s => q1[r] = q[r]
    BY <1>2, RangeOfTail DEF QueuesOK
  <2>2. /\ \A r \in S : Head(q[s]) \notin Range(q1[r]) /\ Range(q1[r]) \subseteq Range(q[r])
        /\ \A c \in C : Head(q[s]) \notin Range(w[c])
        /\ \A r \in S : IsInjective(q1[r])
    BY <2>1 DEF QueuesOK
  <2> QED
    BY <1>2, <2>1, <2>2 DEF QueuesOK
<1> QED
  BY <1>1, <1>2

\* Conditions and semaphores play the same part in QueuesOK.
LEMMA QueuesSwap ==
  ASSUME NEW T, NEW S, NEW C, NEW st, NEW q, NEW w
  PROVE  QueuesOK(T, S, C, st, q, w) <=> QueuesOK(T, C, S, st, w, q)
  BY DEF QueuesOK

\* Signal(): List::Remove on a condition's queue.
LEMMA QueuesSignal ==
  ASSUME NEW T, NEW S, NEW C, NEW st, NEW q, NEW w, QueuesOK(T, S, C, st, q, w), NEW c \in C,
         NEW st1, st1 = IF w[c] = <<>> THEN st ELSE [st EXCEPT ![Head(w[c])] = "READY"],
         NEW w1, w1 = [w EXCEPT ![c] = IF w[c] = <<>> THEN w[c] ELSE Tail(w[c])]
  PROVE  QueuesOK(T, S, C, st1, q, w1)
  BY QueuesV, QueuesSwap

\* Wait(): the thread that holds the lock l wakes the next one that wants it and
\* sleeps on the condition c.
LEMMA QueuesWait ==
  ASSUME NEW T, NEW S, NEW C, NEW st, NEW q, NEW w, QueuesOK(T, S, C, st, q, w),
         NEW t \in T, st[t] = "READY", NEW l \in S, NEW c \in C,
         NEW st1, st1 = IF q[l] = <<>> THEN st ELSE [st EXCEPT ![Head(q[l])] = "READY"],
         NEW q1, q1 = [q EXCEPT ![l] = IF q[l] = <<>> THEN q[l] ELSE Tail(q[l])],
         NEW w1, w1 = [w EXCEPT ![c] = Append(w[c], t)]
  PROVE  QueuesOK(T, S, C, [st1 EXCEPT ![t] = "BLOCKED"], q1, w1)
<1>1. QueuesOK(T, C, S, st1, w, q1)
  BY QueuesV, QueuesSwap
<1>2. st1[t] = "READY"
  BY DEF QueuesOK
<1> QED
  BY <1>1, <1>2, QueuesP, QueuesSwap

\* Broadcast(): Signal() until the queue is empty.
LEMMA QueuesBroadcast ==
  ASSUME NEW T, NEW S, NEW C, NEW st, NEW q, NEW w, QueuesOK(T, S, C, st, q, w), NEW c \in C,
         NEW st1, st1 = [u \in T |-> IF u \in Range(w[c]) THEN "READY" ELSE st[u]],
         NEW w1, w1 = [w EXCEPT ![c] = <<>>]
  PROVE  QueuesOK(T, S, C, st1, q, w1)
<1>1. /\ w1 \in [C -> Seq(T)] /\ IsInjective(w1[c]) /\ Range(w1[c]) = {}
      /\ \A d \in C : d # c => w1[d] = w[d]
  BY EmptySeq, EmptyRange DEF QueuesOK
<1>2. /\ \A d \in C : Range(w1[d]) \subseteq Range(w[d]) /\ IsInjective(w1[d])
      /\ \A d \in C : Range(w1[d]) \cap Range(w[c]) = {}
      /\ \A s \in S : Range(q[s]) \cap Range(w[c]) = {}
  BY <1>1 DEF QueuesOK
<1>3. /\ \A s \in S : Range(q[s]) \subseteq T
      /\ \A d \in C : Range(w1[d]) \subseteq T
  BY <1>1 DEF QueuesOK, Range
<1> QED
  BY <1>1, <1>2, <1>3 DEF QueuesOK

-----------------------------------------------------------------------------
(* Numbers *)

\* Division with remainder.
LEMMA DivMod ==
  ASSUME NEW a \in Int, NEW d \in Nat \ {0}
  PROVE  a \div d \in Int /\ a % d \in 0 .. d - 1 /\ a = (a \div d) * d + (a % d)
  OBVIOUS

\* Quotient and remainder are the ones that fit.
LEMMA DivModUnique ==
  ASSUME NEW q \in Int, NEW r \in Nat, NEW d \in Nat \ {0}, r < d
  PROVE  (q * d + r) \div d = q /\ (q * d + r) % d = r
  OBVIOUS

\* Products of natural numbers, at most as large as their factors allow.
LEMMA TimesBound ==
  ASSUME NEW a \in Nat, NEW b \in Nat, a <= b, NEW c \in Nat
  PROVE  a * c \in Nat /\ a * c <= b * c
OBVIOUS
=============================================================================
