--------------------------- MODULE ListImplProofs ---------------------------
(***************************************************************************)
(* Proof that the pointers of class List implement the sequences that the  *)
(* other modules use, for any number of elements, items and keys.          *)
(***************************************************************************)
EXTENDS ListImpl, ListTheorems

Cell == [item : Item, key : Int, next : Node \cup {NULL}]

\* The chain c of addresses, from f to l through the heap h.
Linked(c, f, l, h) ==
  /\ c \in Seq(Node)
  /\ h \in [{c[i] : i \in 1 .. Len(c)} -> Cell]
  /\ \A i, j \in 1 .. Len(c) : c[i] = c[j] => i = j
  /\ f = IF Len(c) = 0 THEN NULL ELSE c[1]
  /\ l = IF Len(c) = 0 THEN NULL ELSE c[Len(c)]
  /\ \A i \in 1 .. Len(c) : h[c[i]].next = IF i = Len(c) THEN NULL ELSE c[i + 1]

\* The walk of Chain on the heap h from f.
ChainOf(f, h) ==
  LET at[i \in 1 .. Cardinality(DOMAIN h) + 1] ==
        IF i = 1 THEN f
        ELSE IF at[i - 1] = NULL THEN NULL ELSE h[at[i - 1]].next
      linked == {i \in DOMAIN at : at[i] # NULL}
  IN  [i \in linked |-> at[i]]

\* Chain walks the heap from first, in the old state and in the new one.
LEMMA ChainValue == Chain = ChainOf(first, heap) /\ Chain' = ChainOf(first', heap')
<1>1. Chain = ChainOf(first, heap)
  BY DEF Chain, ChainOf, Allocated
<1>2. Chain' = ChainOf(first', heap')
  BY DEF Chain, ChainOf, Allocated
<1> QED
  BY <1>1, <1>2

\* The walk from first over a linked chain returns that chain, and no cell is outside it.
LEMMA ChainLinked ==
  ASSUME NEW c, NEW f, NEW l, NEW h, Linked(c, f, l, h)
  PROVE  ChainOf(f, h) = c /\ Cardinality(DOMAIN h) = Len(c)
<1> DEFINE n == Len(c)
           at[i \in 1 .. Cardinality(DOMAIN h) + 1] ==
             IF i = 1 THEN f ELSE IF at[i - 1] = NULL THEN NULL ELSE h[at[i - 1]].next
           step(a) == [i \in 1 .. Cardinality(DOMAIN h) + 1 |->
             IF i = 1 THEN f ELSE IF a[i - 1] = NULL THEN NULL ELSE h[a[i - 1]].next]
           w == [i \in 1 .. n + 1 |-> IF i <= n THEN c[i] ELSE NULL]
<1>1. /\ n \in Nat /\ c \in [1 .. n -> Node] /\ DOMAIN h = {c[i] : i \in 1 .. n}
      /\ c \in [1 .. n -> DOMAIN h]
  BY DEF Linked
<1>2. Cardinality(DOMAIN h) = n
  <2>1. c \in Bijection(1 .. n, DOMAIN h)
    BY <1>1 DEF Linked, Bijection, Injection, Surjection, IsInjective
  <2>2. ExistsBijection(1 .. n, DOMAIN h)
    BY <2>1 DEF ExistsBijection
  <2> QED
    BY <1>1, <2>2, FS_CountingElements
<1>3. ChainOf(f, h) = [i \in {j \in DOMAIN at : at[j] # NULL} |-> at[i]]
  BY DEF ChainOf
<1>4. w = step(w)
  <2>1. /\ f = IF n = 0 THEN NULL ELSE c[1]
        /\ \A i \in 1 .. n : h[c[i]].next = IF i = n THEN NULL ELSE c[i + 1]
    BY DEF Linked
  <2>2. \A i \in 1 .. n : c[i] # NULL
    BY <1>1, ListAssumption
  <2>3. ASSUME NEW i \in 1 .. n + 1
        PROVE  w[i] = IF i = 1 THEN f ELSE IF w[i - 1] = NULL THEN NULL ELSE h[w[i - 1]].next
    <3>1. CASE i = 1
      <4>1. w[1] = IF 1 <= n THEN c[1] ELSE NULL
        BY <1>1
      <4>2. 1 <= n <=> n # 0
        BY <1>1
      <4> QED
        BY <2>1, <3>1, <4>1, <4>2
    <3>2. CASE i > 1
      <4>1. i - 1 \in 1 .. n /\ i - 1 \in 1 .. n + 1 /\ i - 1 <= n /\ i = (i - 1) + 1
        BY <1>1, <3>2
      <4>2. w[i - 1] = c[i - 1]
        BY <4>1
      <4>3. c[i - 1] # NULL /\ h[c[i - 1]].next = IF i - 1 = n THEN NULL ELSE c[(i - 1) + 1]
        BY <2>1, <2>2, <4>1
      <4>4. w[i] = IF i - 1 = n THEN NULL ELSE c[i]
        BY <1>1, <4>1
      <4> QED
        BY <3>2, <4>1, <4>2, <4>3, <4>4
    <3> QED
      BY <1>1, <3>1, <3>2
  <2> HIDE DEF n
  <2> QED
    BY <1>2, <2>3
<1>5. at = step(at)
  BY <1>4
<1> HIDE DEF at, w, n
<1>6. /\ \A i \in 1 .. n + 1 : w[i] = IF i = 1 THEN f ELSE IF w[i - 1] = NULL THEN NULL ELSE h[w[i - 1]].next
      /\ \A i \in 1 .. n + 1 : at[i] = IF i = 1 THEN f ELSE IF at[i - 1] = NULL THEN NULL ELSE h[at[i - 1]].next
      /\ DOMAIN at = 1 .. n + 1
  BY <1>2, <1>4, <1>5
<1>7. \A i \in 1 .. n + 1 : at[i] = w[i]
  <2> DEFINE S == {i \in 1 .. n + 1 : at[i] # w[i]}
             m == CHOOSE i \in S : \A j \in S : i <= j
  <2> SUFFICES ASSUME S # {} PROVE FALSE
    OBVIOUS
  <2>1. S \in SUBSET Nat
    BY <1>1
  <2>2. m \in S /\ \A j \in S : m <= j
    BY <2>1, LeastIndex
  <2> HIDE DEF m
  <2>3. m # 1 /\ m \in 1 .. n + 1
    BY <1>1, <1>6, <2>2
  <2>4. m - 1 \in 1 .. n + 1 /\ m - 1 \notin S
    BY <1>1, <2>2, <2>3
  <2>5. at[m - 1] = w[m - 1]
    BY <2>4
  <2>6. at[m] = w[m]
    BY <1>6, <2>3, <2>5
  <2> QED
    BY <2>2, <2>6
<1>8. /\ \A i \in 1 .. n : w[i] = c[i] /\ c[i] # NULL
      /\ w[n + 1] = NULL
  BY <1>1, ListAssumption DEF w
<1>9. {j \in DOMAIN at : at[j] # NULL} = 1 .. n
  <2>1. \A j \in 1 .. n : j \in 1 .. n + 1 /\ at[j] # NULL
    <3>1. \A j \in 1 .. n : j \in 1 .. n + 1
      BY <1>1
    <3> QED
      BY <1>7, <1>8, <3>1
  <2>2. at[n + 1] = NULL
    <3>1. n + 1 \in 1 .. n + 1
      BY <1>1
    <3> QED
      BY <1>7, <1>8, <3>1
  <2>3. \A j \in 1 .. n + 1 : j \in 1 .. n \/ j = n + 1
    BY <1>1
  <2>4. DOMAIN at = 1 .. n + 1
    BY <1>6
  <2> QED
    BY <2>1, <2>2, <2>3, <2>4
<1>10. [i \in 1 .. n |-> at[i]] = c
  <2>1. \A i \in 1 .. n : i \in 1 .. n + 1
    BY <1>1
  <2>2. \A i \in 1 .. n : at[i] = c[i]
    BY <1>7, <1>8, <2>1
  <2>3. c = [i \in 1 .. n |-> c[i]]
    BY <1>1
  <2> QED
    BY <2>2, <2>3
<1> QED
  BY <1>2, <1>3, <1>9, <1>10 DEF n

\* The sequence the chain c stands for.
ListOf(c, h) == [i \in DOMAIN c |-> Elem(h[c[i]].item, h[c[i]].key)]

\* A linked chain represents a list of the same length, element by element.
LEMMA ListOfType ==
  ASSUME NEW c, NEW f, NEW l, NEW h, Linked(c, f, l, h)
  PROVE  /\ Len(c) \in Nat /\ DOMAIN c = 1 .. Len(c)
         /\ ListOf(c, h) \in Seq(Element(Item)) /\ Len(ListOf(c, h)) = Len(c)
         /\ \A i \in 1 .. Len(c) : /\ c[i] \in Node /\ c[i] # NULL
                                   /\ c[i] \in DOMAIN h /\ h[c[i]] \in Cell
                                   /\ ListOf(c, h)[i] = Elem(h[c[i]].item, h[c[i]].key)
<1> DEFINE n == Len(c)
<1>1. n \in Nat /\ DOMAIN c = 1 .. n /\ \A i \in 1 .. n : c[i] \in Node /\ c[i] # NULL
  BY ListAssumption DEF Linked
<1>2. \A i \in 1 .. n : c[i] \in DOMAIN h /\ h[c[i]] \in Cell
  BY DEF Linked
<1>3. \A i \in 1 .. n : Elem(h[c[i]].item, h[c[i]].key) \in Element(Item)
  BY <1>2 DEF Cell, Elem, Element
<1> HIDE DEF n
<1>4. ListOf(c, h) \in [1 .. n -> Element(Item)]
  BY <1>1, <1>3 DEF ListOf
<1>5. ListOf(c, h) \in Seq(Element(Item)) /\ Len(ListOf(c, h)) = n
  BY <1>1, <1>4
<1>6. \A i \in 1 .. n : ListOf(c, h)[i] = Elem(h[c[i]].item, h[c[i]].key)
  BY <1>1 DEF ListOf
<1> QED
  BY <1>1, <1>2, <1>5, <1>6 DEF n

\* The heap h2 is h with a new cell a, linked in at place p of the chain c.
NewCell(c, h, h2, p, a, item, key) ==
  /\ h2 \in [DOMAIN h \cup {a} -> Cell]
  /\ h2[a] = [item |-> item, key |-> key, next |-> IF p = Len(c) + 1 THEN NULL ELSE c[p]]
  /\ \A i \in 1 .. Len(c) : /\ h2[c[i]].item = h[c[i]].item /\ h2[c[i]].key = h[c[i]].key
                            /\ h2[c[i]].next = IF i = p - 1 THEN a ELSE h[c[i]].next

\* Wherever an element is linked in, the new chain stands for the list with the new
\* element at that place.
LEMMA LinkIn ==
  ASSUME NEW c, NEW f, NEW l, NEW h, Linked(c, f, l, h),
         NEW a \in Node \ DOMAIN h, NEW item \in Item, NEW key \in Int,
         NEW p \in 1 .. Len(c) + 1, NEW h2, NewCell(c, h, h2, p, a, item, key),
         NEW f2, f2 = IF p = 1 THEN a ELSE f,
         NEW l2, l2 = IF p = Len(c) + 1 THEN a ELSE l
  PROVE  \E d : /\ Linked(d, f2, l2, h2)
                /\ PutAt(ListOf(c, h), ListOf(d, h2), p, Elem(item, key))
<1> DEFINE n == Len(c)
           d == [i \in 1 .. n + 1 |-> IF i < p THEN c[i] ELSE IF i = p THEN a ELSE c[i - 1]]
<1>1. /\ n \in Nat /\ DOMAIN c = 1 .. n /\ p \in 1 .. n + 1
      /\ \A i \in 1 .. n : c[i] \in Node /\ c[i] # a /\ c[i] \in DOMAIN h
      /\ ListOf(c, h) \in Seq(Element(Item)) /\ Len(ListOf(c, h)) = n
      /\ \A i \in 1 .. n : ListOf(c, h)[i] = Elem(h[c[i]].item, h[c[i]].key)
  BY ListOfType
<1>2. /\ DOMAIN h = {c[i] : i \in 1 .. n}
      /\ \A i, j \in 1 .. n : c[i] = c[j] => i = j
      /\ f = IF n = 0 THEN NULL ELSE c[1]
      /\ l = IF n = 0 THEN NULL ELSE c[n]
      /\ \A i \in 1 .. n : h[c[i]].next = IF i = n THEN NULL ELSE c[i + 1]
  BY DEF Linked
<1>3. /\ h2 \in [DOMAIN h \cup {a} -> Cell]
      /\ h2[a] = [item |-> item, key |-> key, next |-> IF p = n + 1 THEN NULL ELSE c[p]]
      /\ \A i \in 1 .. n : /\ h2[c[i]].item = h[c[i]].item /\ h2[c[i]].key = h[c[i]].key
                           /\ h2[c[i]].next = IF i = p - 1 THEN a ELSE h[c[i]].next
  BY DEF NewCell
<1>4. f2 = IF p = 1 THEN a ELSE f
  OBVIOUS
<1>5. l2 = IF p = n + 1 THEN a ELSE l
  OBVIOUS
<1> HIDE DEF n
<1>6. /\ \A i \in 1 .. p - 1 : i \in 1 .. n /\ i \in 1 .. n + 1 /\ d[i] = c[i]
      /\ d[p] = a
      /\ \A i \in p + 1 .. n + 1 : i - 1 \in p .. n /\ i - 1 \in 1 .. n /\ d[i] = c[i - 1]
  BY <1>1
<1>7. d \in [1 .. n + 1 -> Node]
  BY <1>1
<1>8. d \in Seq(Node) /\ Len(d) = n + 1 /\ DOMAIN d = 1 .. n + 1
  <2> HIDE DEF d
  <2> QED
    BY <1>1, <1>7
<1> HIDE DEF d
<1>9. \A i \in 1 .. n + 1 : i \in 1 .. p - 1 \/ i = p \/ i \in p + 1 .. n + 1
  BY <1>1
<1>10. DOMAIN h \cup {a} = {d[i] : i \in 1 .. n + 1}
  <2>1. ASSUME NEW i \in 1 .. n + 1 PROVE d[i] \in DOMAIN h \cup {a}
    BY <1>1, <1>6, <1>9
  <2>2. ASSUME NEW i \in 1 .. n PROVE \E j \in 1 .. n + 1 : d[j] = c[i]
    <3>1. CASE i < p
      <4>1. i \in 1 .. p - 1
        BY <1>1, <3>1
      <4> QED
        BY <1>6, <4>1
    <3>2. CASE i >= p
      <4>1. i + 1 \in p + 1 .. n + 1 /\ i + 1 \in 1 .. n + 1 /\ (i + 1) - 1 = i
        BY <1>1, <3>2
      <4>2. d[i + 1] = c[i]
        BY <1>6, <4>1
      <4> QED
        BY <4>1, <4>2
    <3> QED
      BY <1>1, <3>1, <3>2
  <2>3. \E j \in 1 .. n + 1 : d[j] = a
    BY <1>1, <1>6
  <2>4. ASSUME NEW x \in DOMAIN h \cup {a} PROVE x \in {d[i] : i \in 1 .. n + 1}
    <3>1. CASE x = a
      BY <2>3, <3>1
    <3>2. CASE x # a
      <4>1. PICK i \in 1 .. n : x = c[i]
        BY <1>2, <2>4, <3>2
      <4> QED
        BY <2>2, <4>1
    <3> QED
      BY <3>1, <3>2
  <2> QED
    BY <2>1, <2>4
<1>11. ASSUME NEW i \in 1 .. n + 1, NEW j \in 1 .. n + 1, d[i] = d[j] PROVE i = j
  <2> DEFINE old(k) == IF k < p THEN k ELSE k - 1
  <2>1. \A k \in 1 .. n + 1 : k # p => old(k) \in 1 .. n /\ d[k] = c[old(k)]
    <3>1. ASSUME NEW k \in 1 .. n + 1, k # p PROVE old(k) \in 1 .. n /\ d[k] = c[old(k)]
      <4>1. CASE k < p
        <5>1. k \in 1 .. p - 1 /\ old(k) = k
          BY <1>1, <4>1
        <5> QED
          BY <1>6, <5>1
      <4>2. CASE k > p
        <5>1. k \in p + 1 .. n + 1 /\ old(k) = k - 1
          BY <1>1, <4>2
        <5> QED
          BY <1>6, <5>1
      <4> QED
        BY <1>1, <3>1, <4>1, <4>2
    <3> QED
      BY <3>1
  <2>2. \A k, m \in 1 .. n + 1 : k # p /\ m # p /\ old(k) = old(m) => k = m
    BY <1>1
  <2> HIDE DEF old
  <2>3. \A k \in 1 .. n + 1 : k # p => d[k] # a
    BY <1>1, <2>1
  <2>4. i = p <=> j = p
    BY <1>6, <1>11, <2>3
  <2>5. CASE i # p
    BY <1>2, <1>11, <2>1, <2>2, <2>4, <2>5
  <2> QED
    BY <2>4, <2>5
<1>12. f2 = d[1] /\ l2 = d[n + 1]
  <2>1. f2 = d[1]
    <3>1. CASE p = 1
      BY <1>4, <1>6, <3>1
    <3>2. CASE p # 1
      <4>1. 1 \in 1 .. p - 1 /\ n # 0
        BY <1>1, <3>2
      <4> QED
        BY <1>2, <1>4, <1>6, <3>2, <4>1
    <3> QED
      BY <3>1, <3>2
  <2>2. l2 = d[n + 1]
    <3>1. CASE p = n + 1
      BY <1>5, <1>6, <3>1
    <3>2. CASE p # n + 1
      <4>1. n + 1 \in p + 1 .. n + 1 /\ n # 0 /\ (n + 1) - 1 = n
        BY <1>1, <3>2
      <4>2. d[n + 1] = c[n]
        BY <1>6, <4>1
      <4> QED
        BY <1>2, <1>5, <3>2, <4>1, <4>2
    <3> QED
      BY <3>1, <3>2
  <2> QED
    BY <2>1, <2>2
<1>13. ASSUME NEW i \in 1 .. n + 1 PROVE h2[d[i]].next = IF i = n + 1 THEN NULL ELSE d[i + 1]
  <2>1. CASE i = p
    <3>1. h2[d[i]].next = IF p = n + 1 THEN NULL ELSE c[p]
      BY <1>3, <1>6, <2>1
    <3>2. CASE p = n + 1
      BY <2>1, <3>1, <3>2
    <3>3. CASE p # n + 1
      <4>1. p + 1 \in p + 1 .. n + 1 /\ (p + 1) - 1 = p
        BY <1>1, <3>3
      <4>2. d[p + 1] = c[p]
        BY <1>6, <4>1
      <4> QED
        BY <2>1, <3>1, <3>3, <4>2
    <3> QED
      BY <3>2, <3>3
  <2>2. CASE i \in 1 .. p - 1
    <3>1. i \in 1 .. n /\ d[i] = c[i] /\ i # n + 1 /\ i + 1 \in 1 .. n + 1
      BY <1>1, <1>6, <2>2
    <3>2. h2[d[i]].next = IF i = p - 1 THEN a ELSE h[c[i]].next
      BY <1>3, <3>1
    <3>3. CASE i = p - 1
      <4>1. d[i + 1] = a
        BY <1>1, <1>6, <3>3
      <4> QED
        BY <3>1, <3>2, <3>3, <4>1
    <3>4. CASE i # p - 1
      <4>1. i + 1 \in 1 .. p - 1 /\ i # n
        BY <1>1, <2>2, <3>4
      <4>2. d[i + 1] = c[i + 1]
        BY <1>6, <4>1
      <4>3. h[c[i]].next = c[i + 1]
        BY <1>2, <3>1, <4>1
      <4> QED
        BY <3>1, <3>2, <3>4, <4>2, <4>3
    <3> QED
      BY <3>3, <3>4
  <2>3. CASE i \in p + 1 .. n + 1
    <3>1. i - 1 \in 1 .. n /\ d[i] = c[i - 1] /\ i - 1 # p - 1 /\ (i - 1) + 1 = i
      BY <1>1, <1>6, <2>3
    <3>2. h2[d[i]].next = IF i - 1 = n THEN NULL ELSE c[i]
      <4>1. h2[c[i - 1]].next = h[c[i - 1]].next
        BY <1>3, <3>1
      <4>2. h[c[i - 1]].next = IF i - 1 = n THEN NULL ELSE c[(i - 1) + 1]
        BY <1>2, <3>1
      <4> QED
        BY <3>1, <4>1, <4>2
    <3>3. CASE i = n + 1
      <4>1. i - 1 = n
        BY <1>1, <3>3
      <4> QED
        BY <3>2, <3>3, <4>1
    <3>4. CASE i # n + 1
      <4>1. i + 1 \in p + 1 .. n + 1 /\ (i + 1) - 1 = i /\ i - 1 # n
        BY <1>1, <2>3, <3>4
      <4>2. d[i + 1] = c[i]
        BY <1>6, <4>1
      <4> QED
        BY <3>2, <3>4, <4>1, <4>2
    <3> QED
      BY <3>3, <3>4
  <2> QED
    BY <1>9, <2>1, <2>2, <2>3
<1>14. Linked(d, f2, l2, h2)
  <2>1. h2 \in [{d[i] : i \in 1 .. Len(d)} -> Cell]
    BY <1>3, <1>8, <1>10
  <2>2. f2 = IF Len(d) = 0 THEN NULL ELSE d[1]
    BY <1>1, <1>8, <1>12
  <2>3. l2 = IF Len(d) = 0 THEN NULL ELSE d[Len(d)]
    BY <1>1, <1>8, <1>12
  <2>4. \A i \in 1 .. Len(d) : h2[d[i]].next = IF i = Len(d) THEN NULL ELSE d[i + 1]
    BY <1>8, <1>13
  <2>5. \A i, j \in 1 .. Len(d) : d[i] = d[j] => i = j
    BY <1>8, <1>11
  <2> QED
    BY <1>8, <2>1, <2>2, <2>3, <2>4, <2>5 DEF Linked
<1>15. PutAt(ListOf(c, h), ListOf(d, h2), p, Elem(item, key))
  <2>1. /\ Len(ListOf(d, h2)) = n + 1
        /\ \A i \in 1 .. n + 1 : ListOf(d, h2)[i] = Elem(h2[d[i]].item, h2[d[i]].key)
    BY <1>8, <1>14, ListOfType
  <2>2. ListOf(d, h2)[p] = Elem(item, key)
    BY <1>1, <1>3, <1>6, <2>1
  <2>3. ASSUME NEW i \in 1 .. p - 1 PROVE ListOf(d, h2)[i] = ListOf(c, h)[i]
    <3>1. i \in 1 .. n /\ i \in 1 .. n + 1 /\ d[i] = c[i]
      BY <1>6
    <3> QED
      BY <1>1, <1>3, <2>1, <3>1
  <2>4. ASSUME NEW i \in p .. n PROVE ListOf(d, h2)[i + 1] = ListOf(c, h)[i]
    <3>1. i + 1 \in p + 1 .. n + 1 /\ i + 1 \in 1 .. n + 1 /\ i \in 1 .. n /\ (i + 1) - 1 = i
      BY <1>1
    <3>2. d[i + 1] = c[i]
      BY <1>6, <3>1
    <3> QED
      BY <1>1, <1>3, <2>1, <3>1, <3>2
  <2> QED
    BY <1>1, <2>1, <2>2, <2>3, <2>4 DEF PutAt
<1> QED
  BY <1>14, <1>15

\* The heap h without the element at f.
Freed(h, f) == [n \in DOMAIN h \ {f} |-> h[n]]

\* Removing the first element.
LEMMA LinkOut ==
  ASSUME NEW c, NEW f, NEW l, NEW h, Linked(c, f, l, h), Len(c) # 0,
         NEW h2, h2 = Freed(h, f),
         NEW f2, f2 = IF f = l THEN NULL ELSE h[f].next,
         NEW l2, l2 = IF f = l THEN NULL ELSE l
  PROVE  /\ Linked(Tail(c), f2, l2, h2)
         /\ ListOf(Tail(c), h2) = Tail(ListOf(c, h))
<1> DEFINE n == Len(c)
           d == Tail(c)
<1>1. /\ n \in Nat \ {0} /\ DOMAIN c = 1 .. n
      /\ \A i \in 1 .. n : c[i] \in Node /\ c[i] \in DOMAIN h /\ h[c[i]] \in Cell
      /\ ListOf(c, h) \in Seq(Element(Item)) /\ Len(ListOf(c, h)) = n
      /\ \A i \in 1 .. n : ListOf(c, h)[i] = Elem(h[c[i]].item, h[c[i]].key)
  BY ListOfType
<1>2. /\ DOMAIN h = {c[i] : i \in 1 .. n}
      /\ \A i, j \in 1 .. n : c[i] = c[j] => i = j
      /\ f = c[1] /\ l = c[n]
      /\ \A i \in 1 .. n : h[c[i]].next = IF i = n THEN NULL ELSE c[i + 1]
  BY DEF Linked
<1>3. c \in Seq(Node) /\ c # <<>>
  BY DEF Linked
<1>4. d \in Seq(Node) /\ Len(d) = n - 1 /\ \A i \in 1 .. n - 1 : d[i] = c[i + 1]
  BY <1>3
<1>5. /\ f2 = IF f = l THEN NULL ELSE h[f].next
      /\ l2 = IF f = l THEN NULL ELSE l
  OBVIOUS
<1> HIDE DEF n, d
<1>6. f = l <=> n = 1
  BY <1>1, <1>2
<1>7. \A i \in 1 .. n - 1 : i \in 1 .. n /\ i + 1 \in 1 .. n /\ c[i + 1] # f
  BY <1>1, <1>2
<1>8. DOMAIN h \ {f} = {d[i] : i \in 1 .. n - 1}
  <2>1. ASSUME NEW i \in 1 .. n - 1 PROVE d[i] \in DOMAIN h \ {f}
    BY <1>1, <1>4, <1>7
  <2>2. ASSUME NEW x \in DOMAIN h \ {f} PROVE x \in {d[i] : i \in 1 .. n - 1}
    <3>1. PICK i \in 1 .. n : x = c[i]
      BY <1>2, <2>2
    <3>2. i # 1
      BY <1>2, <2>2, <3>1
    <3>3. i - 1 \in 1 .. n - 1 /\ (i - 1) + 1 = i
      BY <1>1, <3>2
    <3>4. d[i - 1] = c[i]
      BY <1>4, <3>3
    <3> QED
      BY <3>1, <3>3, <3>4
  <2> QED
    BY <2>1, <2>2
<1>9. \A i \in 1 .. n - 1 : h2[d[i]] = h[c[i + 1]]
  BY <1>4, <1>8 DEF Freed
<1>10. Linked(d, f2, l2, h2)
  <2>1. h2 \in [{d[i] : i \in 1 .. Len(d)} -> Cell]
    <3>1. h \in [DOMAIN h -> Cell]
      BY DEF Linked
    <3>2. h2 \in [DOMAIN h \ {f} -> Cell]
      BY <3>1 DEF Freed
    <3> QED
      BY <1>4, <1>8, <3>2
  <2>2. \A i, j \in 1 .. n - 1 : d[i] = d[j] => i = j
    <3>1. ASSUME NEW i \in 1 .. n - 1, NEW j \in 1 .. n - 1, d[i] = d[j] PROVE i = j
      <4>1. i + 1 = j + 1
        BY <1>2, <1>4, <1>7, <3>1
      <4> QED
        BY <1>1, <4>1
    <3> QED
      BY <3>1
  <2>3. f2 = IF Len(d) = 0 THEN NULL ELSE d[1]
    <3>1. CASE n = 1
      BY <1>4, <1>5, <1>6, <3>1
    <3>2. CASE n # 1
      <4>1. 1 \in 1 .. n - 1 /\ 1 \in 1 .. n /\ n - 1 # 0
        BY <1>1, <3>2
      <4>2. h[c[1]].next = c[1 + 1] /\ d[1] = c[1 + 1]
        BY <1>2, <1>4, <3>2, <4>1
      <4> QED
        BY <1>2, <1>4, <1>5, <1>6, <3>2, <4>1, <4>2
    <3> QED
      BY <3>1, <3>2
  <2>4. l2 = IF Len(d) = 0 THEN NULL ELSE d[Len(d)]
    <3>1. CASE n = 1
      BY <1>4, <1>5, <1>6, <3>1
    <3>2. CASE n # 1
      <4>1. n - 1 \in 1 .. n - 1 /\ (n - 1) + 1 = n /\ n - 1 # 0
        BY <1>1, <3>2
      <4>2. d[n - 1] = c[n]
        BY <1>4, <4>1
      <4> QED
        BY <1>2, <1>4, <1>5, <1>6, <3>2, <4>1, <4>2
    <3> QED
      BY <3>1, <3>2
  <2>5. ASSUME NEW i \in 1 .. n - 1 PROVE h2[d[i]].next = IF i = n - 1 THEN NULL ELSE d[i + 1]
    <3>1. h2[d[i]].next = IF i + 1 = n THEN NULL ELSE c[(i + 1) + 1]
      BY <1>2, <1>7, <1>9
    <3>2. i = n - 1 <=> i + 1 = n
      BY <1>1
    <3>3. CASE i = n - 1
      BY <3>1, <3>2, <3>3
    <3>4. CASE i # n - 1
      <4>1. i + 1 \in 1 .. n - 1
        BY <1>1, <3>4
      <4>2. d[i + 1] = c[(i + 1) + 1]
        BY <1>4, <4>1
      <4> QED
        BY <3>1, <3>2, <3>4, <4>2
    <3> QED
      BY <3>3, <3>4
  <2> QED
    BY <1>4, <2>1, <2>2, <2>3, <2>4, <2>5 DEF Linked
<1>11. ListOf(d, h2) = Tail(ListOf(c, h))
  <2> DEFINE s == ListOf(c, h)
             r == ListOf(d, h2)
  <2>1. /\ r \in Seq(Element(Item)) /\ Len(r) = n - 1
        /\ \A i \in 1 .. n - 1 : r[i] = Elem(h2[d[i]].item, h2[d[i]].key)
    BY <1>4, <1>10, ListOfType
  <2>2. \A i \in 1 .. n - 1 : s[i + 1] = Elem(h[c[i + 1]].item, h[c[i + 1]].key)
    BY <1>1, <1>7
  <2>3. \A i \in 1 .. n - 1 : r[i] = s[i + 1]
    BY <1>9, <2>1, <2>2
  <2>4. s \in Seq(Element(Item)) /\ s # <<>> /\ Len(s) = n
    BY <1>1
  <2> HIDE DEF s, r
  <2>5. /\ Tail(s) \in Seq(Element(Item)) /\ Len(Tail(s)) = n - 1
        /\ \A i \in 1 .. n - 1 : Tail(s)[i] = s[i + 1]
    BY <2>4
  <2>6. r = Tail(s)
    BY <2>1, <2>3, <2>5, SeqEqual
  <2> QED
    BY <2>6 DEF s, r
<1> QED
  BY <1>10, <1>11 DEF d

\* What the code writes into the heap when it links a new element in behind the
\* element at place p - 1, or in front.
LEMMA CellOfNew ==
  ASSUME NEW c, NEW f, NEW l, NEW h, Linked(c, f, l, h),
         NEW a \in Node \ DOMAIN h, NEW item \in Item, NEW key \in Int,
         NEW p \in 1 .. Len(c) + 1, NEW nx, nx = IF p = Len(c) + 1 THEN NULL ELSE c[p],
         NEW h2, h2 = IF p = 1 THEN New(h, a, item, key, nx)
                      ELSE [New(h, a, item, key, nx) EXCEPT ![c[p - 1]].next = a]
  PROVE  NewCell(c, h, h2, p, a, item, key)
<1> DEFINE n == Len(c)
           g == New(h, a, item, key, nx)
<1>1. /\ n \in Nat /\ p \in 1 .. n + 1
      /\ \A i \in 1 .. n : c[i] \in Node /\ c[i] # a /\ c[i] \in DOMAIN h /\ h[c[i]] \in Cell
      /\ \A i, j \in 1 .. n : c[i] = c[j] => i = j
      /\ h \in [DOMAIN h -> Cell] /\ a \in Node
  BY ListOfType DEF Linked
<1>2. nx = IF p = n + 1 THEN NULL ELSE c[p]
  OBVIOUS
<1> HIDE DEF n
<1>3. nx \in Node \cup {NULL}
  <2>1. p # n + 1 => p \in 1 .. n
    BY <1>1
  <2> QED
    BY <1>1, <1>2, <2>1
<1>4. [item |-> item, key |-> key, next |-> nx] \in Cell
  BY <1>3 DEF Cell
<1>5. /\ g \in [DOMAIN h \cup {a} -> Cell] /\ g[a] = [item |-> item, key |-> key, next |-> nx]
      /\ \A i \in 1 .. n : g[c[i]] = h[c[i]]
  <2>1. g = [m \in DOMAIN h \cup {a} |-> IF m = a THEN [item |-> item, key |-> key, next |-> nx] ELSE h[m]]
    BY DEF New
  <2>2. \A m \in DOMAIN h : h[m] \in Cell
    BY <1>1
  <2> HIDE DEF g
  <2>3. g \in [DOMAIN h \cup {a} -> Cell]
    BY <1>4, <2>1, <2>2
  <2>4. g[a] = [item |-> item, key |-> key, next |-> nx]
    BY <2>1
  <2>5. \A i \in 1 .. n : g[c[i]] = h[c[i]]
    BY <1>1, <2>1
  <2> QED
    BY <2>3, <2>4, <2>5
<1>6. h2 = IF p = 1 THEN g ELSE [g EXCEPT ![c[p - 1]].next = a]
  OBVIOUS
<1> HIDE DEF g
<1>7. CASE p = 1
  <2>1. h2 = g /\ \A i \in 1 .. n : i # p - 1
    BY <1>6, <1>7
  <2> QED
    BY <1>2, <1>5, <2>1 DEF NewCell, n
<1>8. CASE p # 1
  <2>1. p - 1 \in 1 .. n
    BY <1>1, <1>8
  <2> DEFINE b == c[p - 1]
  <2>2. b \in DOMAIN h /\ b # a /\ g[b] \in Cell
    BY <1>1, <1>5, <2>1
  <2>3. h2 = [g EXCEPT ![b] = [g[b] EXCEPT !.next = a]]
    BY <1>6, <1>8
  <2>4. /\ [g[b] EXCEPT !.next = a] \in Cell
        /\ [g[b] EXCEPT !.next = a].item = g[b].item /\ [g[b] EXCEPT !.next = a].key = g[b].key
        /\ [g[b] EXCEPT !.next = a].next = a
    BY <1>1, <2>2 DEF Cell
  <2> HIDE DEF b
  <2>5. h2 \in [DOMAIN h \cup {a} -> Cell]
    BY <1>5, <2>2, <2>3, <2>4
  <2>6. h2[a] = [item |-> item, key |-> key, next |-> nx]
    BY <1>5, <2>2, <2>3
  <2>7. ASSUME NEW i \in 1 .. n
        PROVE  /\ h2[c[i]].item = h[c[i]].item /\ h2[c[i]].key = h[c[i]].key
               /\ h2[c[i]].next = IF i = p - 1 THEN a ELSE h[c[i]].next
    <3>1. c[i] \in DOMAIN h \cup {a} /\ g[c[i]] = h[c[i]]
      BY <1>1, <1>5
    <3>2. CASE i = p - 1
      <4>1. c[i] = b /\ h2[c[i]] = [g[b] EXCEPT !.next = a]
        BY <1>5, <2>2, <2>3, <3>1, <3>2 DEF b
      <4> QED
        BY <2>4, <3>1, <3>2, <4>1
    <3>3. CASE i # p - 1
      <4>1. c[i] # b
        BY <1>1, <2>1, <3>3 DEF b
      <4>2. h2[c[i]] = h[c[i]]
        BY <1>5, <2>3, <3>1, <4>1
      <4>3. (IF i = p - 1 THEN a ELSE h[c[i]].next) = h[c[i]].next
        BY <3>3
      <4>4. h2[c[i]].item = h[c[i]].item /\ h2[c[i]].key = h[c[i]].key
        BY <4>2
      <4>5. h2[c[i]].next = h[c[i]].next
        BY <4>2
      <4> QED
        BY <4>3, <4>4, <4>5
    <3> QED
      BY <3>2, <3>3
  <2> QED
    BY <1>2, <2>5, <2>6, <2>7 DEF NewCell, n
<1> QED
  BY <1>7, <1>8

-----------------------------------------------------------------------------
(* The places at which the operations on sequences put an element *)

\* An element put at a given place of a list leaves one result.
LEMMA PutAtUnique ==
  ASSUME NEW I, NEW l \in Seq(Element(I)), NEW p, NEW e,
         NEW r \in Seq(Element(I)), PutAt(l, r, p, e),
         NEW s \in Seq(Element(I)), PutAt(l, s, p, e)
  PROVE  r = s
<1>1. Len(l) \in Nat /\ p \in 1 .. Len(l) + 1 /\ Len(r) = Len(l) + 1 /\ Len(s) = Len(l) + 1
  BY DEF PutAt
<1>2. ASSUME NEW i \in 1 .. Len(l) + 1 PROVE r[i] = s[i]
  <2>1. CASE i < p
    <3>1. i \in 1 .. p - 1
      BY <1>1, <2>1
    <3> QED
      BY <3>1 DEF PutAt
  <2>2. CASE i = p
    BY <2>2 DEF PutAt
  <2>3. CASE i > p
    <3>1. i - 1 \in p .. Len(l) /\ (i - 1) + 1 = i
      BY <1>1, <2>3
    <3>2. r[(i - 1) + 1] = l[i - 1] /\ s[(i - 1) + 1] = l[i - 1]
      BY <3>1 DEF PutAt
    <3> QED
      BY <3>1, <3>2
  <2> QED
    BY <1>1, <2>1, <2>2, <2>3
<1> QED
  BY <1>1, <1>2, SeqEqual

\* Append puts the item, with key 0, after the last element.
LEMMA AppendPuts ==
  ASSUME NEW I, NEW l \in Seq(Element(I)), NEW x \in I
  PROVE  ListAppend(l, x) \in Seq(Element(I)) /\ PutAt(l, ListAppend(l, x), Len(l) + 1, Elem(x, 0))
<1> DEFINE e == Elem(x, 0)
           r == Append(l, e)
<1>1. e \in Element(I)
  BY DEF Elem, Element
<1> HIDE DEF e
<1>2. r \in Seq(Element(I)) /\ Len(r) = Len(l) + 1 /\ Len(l) \in Nat /\ r[Len(l) + 1] = e
      /\ \A i \in 1 .. Len(l) : r[i] = l[i]
  BY <1>1
<1>3. PutAt(l, r, Len(l) + 1, e)
  BY <1>2 DEF PutAt
<1> QED
  BY <1>2, <1>3 DEF ListAppend, e

\* Prepend puts the item, with key 0, before the first element.
LEMMA PrependPuts ==
  ASSUME NEW I, NEW l \in Seq(Element(I)), NEW x \in I
  PROVE  ListPrepend(l, x) \in Seq(Element(I)) /\ PutAt(l, ListPrepend(l, x), 1, Elem(x, 0))
<1> DEFINE e == Elem(x, 0)
           r == <<e>> \o l
<1>1. e \in Element(I)
  BY DEF Elem, Element
<1> HIDE DEF e
<1>2. <<e>> \in Seq(Element(I)) /\ Len(<<e>>) = 1 /\ <<e>>[1] = e
  BY <1>1
<1>3. /\ r \in Seq(Element(I)) /\ Len(r) = Len(l) + 1 /\ Len(l) \in Nat /\ r[1] = e
      /\ \A i \in 1 .. Len(l) : r[i + 1] = l[i]
  BY <1>2
<1>4. PutAt(l, r, 1, e)
  BY <1>3 DEF PutAt
<1> QED
  BY <1>3, <1>4 DEF ListPrepend, e

\* The place of SortedInsert is the only one behind keys that are not bigger and
\* before the first bigger one.
LEMMA SortedPuts ==
  ASSUME NEW I, NEW l \in Seq(Element(I)), NEW x \in I, NEW k \in Int,
         NEW p \in 1 .. Len(l) + 1, \A i \in 1 .. p - 1 : l[i].key <= k,
         p <= Len(l) => k < l[p].key
  PROVE  SortedInsert(l, x, k) \in Seq(Element(I)) /\ PutAt(l, SortedInsert(l, x, k), p, Elem(x, k))
<1>1. PICK q \in 1 .. Len(l) + 1 :
        /\ PutAt(l, SortedInsert(l, x, k), q, Elem(x, k))
        /\ \A i \in 1 .. q - 1 : l[i].key <= k
        /\ q <= Len(l) => k < l[q].key
  BY InsertAt
<1>2. Len(l) \in Nat /\ \A i \in 1 .. Len(l) : l[i].key \in Int
  BY KeyType
<1>3. ~(p < q)
  BY <1>1, <1>2
<1>4. ~(q < p)
  BY <1>1, <1>2
<1>5. p = q
  BY <1>2, <1>3, <1>4
<1> QED
  BY <1>1, <1>5, InsertAt

-----------------------------------------------------------------------------
(* The operations *)

\* There is a chain for the new state, and it stands for the list r.
Becomes(r) == \E d : Linked(d, first', last', heap') /\ ListOf(d, heap') = r

\* Linking a in at place p of the chain c.
LEMMA LinkAt ==
  ASSUME NEW c, Linked(c, first, last, heap), NEW a \in Node \ Allocated,
         NEW item \in Item, NEW key \in Int, NEW p \in 1 .. Len(c) + 1,
         NEW nx, nx = IF p = Len(c) + 1 THEN NULL ELSE c[p],
         heap' = IF p = 1 THEN New(heap, a, item, key, nx)
                 ELSE [New(heap, a, item, key, nx) EXCEPT ![c[p - 1]].next = a],
         first' = IF p = 1 THEN a ELSE first, last' = IF p = Len(c) + 1 THEN a ELSE last,
         NEW r \in Seq(Element(Item)), PutAt(ListOf(c, heap), r, p, Elem(item, key))
  PROVE  Becomes(r)
<1>1. a \in Node \ DOMAIN heap
  BY DEF Allocated
<1>2. NewCell(c, heap, heap', p, a, item, key)
  BY <1>1, CellOfNew
<1>3. PICK d : /\ Linked(d, first', last', heap')
               /\ PutAt(ListOf(c, heap), ListOf(d, heap'), p, Elem(item, key))
  BY <1>1, <1>2, LinkIn
<1>4. ListOf(c, heap) \in Seq(Element(Item)) /\ ListOf(d, heap') \in Seq(Element(Item))
  BY <1>3, ListOfType
<1>5. ListOf(d, heap') = r
  BY <1>3, <1>4, PutAtUnique
<1> QED
  BY <1>3, <1>5 DEF Becomes

\* PutLast and PutFirst.
LEMMA PutLastBecomes ==
  ASSUME NEW c, Linked(c, first, last, heap), NEW a \in Node \ Allocated,
         NEW item \in Item, NEW key \in Int, PutLast(a, item, key),
         NEW r \in Seq(Element(Item)), PutAt(ListOf(c, heap), r, Len(c) + 1, Elem(item, key))
  PROVE  Becomes(r)
<1> DEFINE p == Len(c) + 1
<1>1. Len(c) \in Nat /\ \A i \in 1 .. Len(c) : c[i] # NULL
  BY ListOfType
<1>2. /\ first = IF Len(c) = 0 THEN NULL ELSE c[1]
      /\ last = IF Len(c) = 0 THEN NULL ELSE c[Len(c)]
  BY DEF Linked
<1>3. IsEmpty <=> p = 1
  BY <1>1, <1>2 DEF IsEmpty
<1>4. p \in 1 .. Len(c) + 1 /\ (p # 1 => last = c[p - 1])
  BY <1>1, <1>2
<1>5. p = Len(c) + 1 /\ PutAt(ListOf(c, heap), r, p, Elem(item, key))
  OBVIOUS
<1> HIDE DEF p
<1>6. heap' = IF p = 1 THEN New(heap, a, item, key, NULL)
              ELSE [New(heap, a, item, key, NULL) EXCEPT ![c[p - 1]].next = a]
  BY <1>3, <1>4 DEF PutLast
<1>7. first' = (IF p = 1 THEN a ELSE first) /\ last' = a
  BY <1>3 DEF PutLast
<1> QED
  BY <1>4, <1>5, <1>6, <1>7, LinkAt

\* The pointer writes that link a new cell in front make the list the one with the element put first.
LEMMA PutFirstBecomes ==
  ASSUME NEW c, Linked(c, first, last, heap), NEW a \in Node \ Allocated,
         NEW item \in Item, NEW key \in Int, PutFirst(a, item, key),
         NEW r \in Seq(Element(Item)), PutAt(ListOf(c, heap), r, 1, Elem(item, key))
  PROVE  Becomes(r)
<1>1. Len(c) \in Nat /\ \A i \in 1 .. Len(c) : c[i] # NULL
  BY ListOfType
<1>2. first = IF Len(c) = 0 THEN NULL ELSE c[1]
  BY DEF Linked
<1>3. IsEmpty <=> Len(c) = 0
  BY <1>1, <1>2 DEF IsEmpty
<1>4. 1 \in 1 .. Len(c) + 1 /\ (1 = Len(c) + 1 <=> Len(c) = 0)
  BY <1>1
<1>5. first = IF 1 = Len(c) + 1 THEN NULL ELSE c[1]
  BY <1>2, <1>4
<1>6. /\ heap' = New(heap, a, item, key, first) /\ first' = a
      /\ last' = IF 1 = Len(c) + 1 THEN a ELSE last
  BY <1>3, <1>4 DEF PutFirst
<1> QED
  BY <1>4, <1>5, <1>6, LinkAt

\* SortedInsert: the loop stops at the place that the reference definition names.
LEMMA SortedBecomes ==
  ASSUME NEW c, Linked(c, first, last, heap), NEW a \in Node \ Allocated,
         NEW item \in Item, NEW key \in Int, DoSortedInsert(item, key, a)
  PROVE  Becomes(SortedInsert(ListOf(c, heap), item, key))
<1> DEFINE n == Len(c)
           s == ListOf(c, heap)
           r == SortedInsert(s, item, key)
<1>1. /\ n \in Nat /\ DOMAIN c = 1 .. n /\ Len(s) = n /\ s \in Seq(Element(Item))
      /\ \A i \in 1 .. n : c[i] # NULL
      /\ \A i \in 1 .. n : s[i] = Elem(heap[c[i]].item, heap[c[i]].key)
  BY ListOfType
<1>2. /\ first = IF n = 0 THEN NULL ELSE c[1]
      /\ last = IF n = 0 THEN NULL ELSE c[n]
      /\ \A i \in 1 .. n : heap[c[i]].next = IF i = n THEN NULL ELSE c[i + 1]
  BY DEF Linked
<1>3. Chain = c
  BY ChainValue, ChainLinked
<1>4. \A i \in 1 .. n : s[i].key = heap[c[i]].key /\ s[i].key \in Int
  <2>1. \A i \in 1 .. n : s[i].key \in Int
    BY <1>1, KeyType
  <2>2. \A x, k : Elem(x, k).key = k
    BY DEF Elem
  <2>3. \A i \in 1 .. n : s[i].key = heap[c[i]].key
    <3> HIDE DEF n, s
    <3> QED
      BY <1>1, <2>2
  <2> QED
    BY <2>1, <2>3
<1> HIDE DEF n, s, r
<1>5. IsEmpty <=> n = 0
  BY <1>1, <1>2 DEF IsEmpty
<1>6. \A i \in 1 .. n : Bigger(key, c[i]) <=> (i # n /\ key < s[i + 1].key)
  <2>1. ASSUME NEW i \in 1 .. n PROVE Bigger(key, c[i]) <=> (i # n /\ key < s[i + 1].key)
    <3>1. CASE i = n
      BY <1>2, <3>1 DEF Bigger
    <3>2. CASE i # n
      <4>1. i + 1 \in 1 .. n
        BY <1>1, <3>2
      <4>2. heap[c[i]].next = c[i + 1] /\ c[i + 1] # NULL /\ s[i + 1].key = heap[c[i + 1]].key
        BY <1>1, <1>2, <1>4, <3>2, <4>1
      <4> QED
        BY <3>2, <4>2 DEF Bigger
    <3> QED
      BY <3>1, <3>2
  <2> QED
    BY <2>1
<1>7. ASSUME NEW p \in 1 .. n + 1, \A i \in 1 .. p - 1 : s[i].key <= key,
             p <= n => key < s[p].key
      PROVE  r \in Seq(Element(Item)) /\ PutAt(s, r, p, Elem(item, key))
  BY <1>1, <1>7, SortedPuts DEF r
<1>8. CASE IsEmpty /\ PutLast(a, item, key)
  <2>1. n = 0 /\ 1 \in 1 .. n + 1 /\ n + 1 = 1
    BY <1>5, <1>8
  <2>2. r \in Seq(Element(Item)) /\ PutAt(s, r, n + 1, Elem(item, key))
    BY <1>7, <2>1
  <2> QED
    BY <1>8, <2>2, PutLastBecomes DEF n, s, r
<1>9. CASE ~IsEmpty /\ key < heap[first].key /\ PutFirst(a, item, key)
  <2>1. 1 \in 1 .. n /\ 1 \in 1 .. n + 1 /\ first = c[1]
    BY <1>1, <1>2, <1>5, <1>9
  <2>2. key < s[1].key
    BY <1>4, <1>9, <2>1
  <2>3. r \in Seq(Element(Item)) /\ PutAt(s, r, 1, Elem(item, key))
    BY <1>7, <2>1, <2>2
  <2> QED
    BY <1>9, <2>3, PutFirstBecomes DEF s, r
<1>10. ASSUME ~IsEmpty, key >= heap[first].key, NEW i \in 1 .. n,
              \A j \in 1 .. i - 1 : ~Bigger(key, c[j])
       PROVE  \A j \in 1 .. i : s[j].key <= key
  <2> SUFFICES ASSUME NEW j \in 1 .. i PROVE s[j].key <= key
    OBVIOUS
  <2>1. CASE j = 1
    <3>1. 1 \in 1 .. n /\ first = c[1]
      BY <1>1, <1>2, <1>5, <1>10
    <3> QED
      BY <1>4, <1>10, <2>1, <3>1
  <2>2. CASE j # 1
    <3>1. j - 1 \in 1 .. i - 1 /\ j - 1 \in 1 .. n /\ j - 1 # n /\ (j - 1) + 1 = j /\ j \in 1 .. n
      BY <1>1, <2>2
    <3>2. ~(key < s[j].key)
      BY <1>6, <1>10, <3>1
    <3> QED
      BY <1>4, <3>1, <3>2
  <2> QED
    BY <2>1, <2>2
<1>11. CASE /\ ~IsEmpty /\ key >= heap[first].key /\ UNCHANGED <<first, last>>
            /\ \E i \in DOMAIN Chain :
                 /\ Bigger(key, Chain[i]) /\ \A j \in 1 .. i - 1 : ~Bigger(key, Chain[j])
                 /\ heap' = [New(heap, a, item, key, heap[Chain[i]].next) EXCEPT ![Chain[i]].next = a]
  <2>1. PICK i \in 1 .. n :
          /\ Bigger(key, c[i]) /\ \A j \in 1 .. i - 1 : ~Bigger(key, c[j])
          /\ heap' = [New(heap, a, item, key, heap[c[i]].next) EXCEPT ![c[i]].next = a]
    BY <1>1, <1>3, <1>11
  <2>2. i # n /\ key < s[i + 1].key /\ heap[c[i]].next = c[i + 1]
    BY <1>2, <1>6, <2>1
  <2>3. \A j \in 1 .. i : s[j].key <= key
    BY <1>10, <1>11, <2>1
  <2> DEFINE p == i + 1
  <2>4. /\ p \in 1 .. n + 1 /\ p - 1 = i /\ p # 1 /\ p # n + 1 /\ p <= n
    BY <1>1, <2>2
  <2>5. key < s[p].key
    BY <2>2
  <2>6. heap[c[i]].next = IF p = n + 1 THEN NULL ELSE c[p]
    BY <2>2, <2>4
  <2> HIDE DEF p
  <2>7. r \in Seq(Element(Item)) /\ PutAt(s, r, p, Elem(item, key))
    BY <1>7, <2>3, <2>4, <2>5
  <2>8. /\ heap' = IF p = 1 THEN New(heap, a, item, key, heap[c[i]].next)
                   ELSE [New(heap, a, item, key, heap[c[i]].next) EXCEPT ![c[p - 1]].next = a]
        /\ first' = (IF p = 1 THEN a ELSE first)
        /\ last' = (IF p = n + 1 THEN a ELSE last)
    BY <1>11, <2>1, <2>4
  <2> QED
    BY <2>4, <2>6, <2>7, <2>8, LinkAt DEF n, s, r
<1>12. CASE /\ ~IsEmpty /\ key >= heap[first].key
            /\ \A i \in DOMAIN Chain : ~Bigger(key, Chain[i])
            /\ PutLast(a, item, key)
  <2>1. \A i \in 1 .. n : ~Bigger(key, c[i])
    BY <1>1, <1>3, <1>12
  <2>2. n \in 1 .. n /\ \A j \in 1 .. n - 1 : ~Bigger(key, c[j])
    BY <1>1, <1>5, <1>12, <2>1
  <2>3. \A j \in 1 .. n : s[j].key <= key
    BY <1>10, <1>12, <2>2
  <2>4. n + 1 \in 1 .. n + 1 /\ (n + 1) - 1 = n /\ ~(n + 1 <= n)
    BY <1>1
  <2>5. r \in Seq(Element(Item)) /\ PutAt(s, r, n + 1, Elem(item, key))
    BY <1>7, <2>3, <2>4
  <2> QED
    BY <1>12, <2>5, PutLastBecomes DEF n, s, r
<1> QED
  BY <1>8, <1>9, <1>11, <1>12 DEF DoSortedInsert, n, s, r

\* Remove takes the first element.
LEMMA RemoveBecomes ==
  ASSUME NEW c, Linked(c, first, last, heap), DoSortedRemove
  PROVE  /\ Becomes(ListRemove(ListOf(c, heap)))
         /\ returned' = IF ListOf(c, heap) = <<>> THEN Elem(NULL, 0) ELSE Head(ListOf(c, heap))
<1> DEFINE n == Len(c)
           s == ListOf(c, heap)
<1>1. /\ n \in Nat /\ Len(s) = n /\ s \in Seq(Element(Item))
      /\ \A i \in 1 .. n : c[i] # NULL
      /\ \A i \in 1 .. n : s[i] = Elem(heap[c[i]].item, heap[c[i]].key)
  BY ListOfType
<1>2. /\ first = IF n = 0 THEN NULL ELSE c[1]
  BY DEF Linked
<1>3. IsEmpty <=> n = 0
  BY <1>1, <1>2 DEF IsEmpty
<1>4. s = <<>> <=> n = 0
  <2> HIDE DEF n, s
  <2> QED
    BY <1>1
<1>5. CASE n = 0
  <2>1. returned' = Nothing /\ UNCHANGED <<first, last, heap>>
    BY <1>3, <1>5 DEF DoSortedRemove
  <2>2. s = <<>> /\ ListRemove(s) = s
    BY <1>4, <1>5 DEF ListRemove
  <2>3. Linked(c, first', last', heap') /\ ListOf(c, heap') = s
    BY <2>1
  <2> HIDE DEF n, s
  <2>4. Becomes(ListRemove(s))
    BY <2>2, <2>3 DEF Becomes
  <2>5. returned' = Elem(NULL, 0)
    BY <2>1 DEF Nothing, Elem
  <2> QED
    BY <2>2, <2>4, <2>5 DEF s
<1>6. CASE n # 0
  <2>1. /\ returned' = Elem(heap[first].item, heap[first].key)
        /\ heap' = Freed(heap, first)
        /\ first' = (IF first = last THEN NULL ELSE heap[first].next)
        /\ last' = (IF first = last THEN NULL ELSE last)
    BY <1>3, <1>6 DEF DoSortedRemove, Allocated, Freed
  <2>2. Linked(Tail(c), first', last', heap') /\ ListOf(Tail(c), heap') = Tail(ListOf(c, heap))
    <3>1. Len(c) # 0
      BY <1>6
    <3> HIDE DEF n, s
    <3> QED
      BY <2>1, <3>1, LinkOut
  <2>3. 1 \in 1 .. n /\ first = c[1] /\ s # <<>>
    BY <1>1, <1>2, <1>4, <1>6
  <2>4. s[1] = Elem(heap[first].item, heap[first].key)
    BY <1>1, <2>3
  <2>5. Head(s) = s[1]
    <3> HIDE DEF n, s
    <3> QED
      BY <1>1, <2>3
  <2> HIDE DEF n, s
  <2>6. Becomes(ListRemove(s))
    <3>1. ListRemove(s) = Tail(s)
      BY <2>3 DEF ListRemove
    <3>2. ListOf(Tail(c), heap') = Tail(s)
      BY <2>2 DEF s
    <3> QED
      BY <2>2, <3>1, <3>2 DEF Becomes
  <2> QED
    BY <2>1, <2>3, <2>4, <2>5, <2>6 DEF s
<1> QED
  BY <1>5, <1>6

-----------------------------------------------------------------------------
(* The theorems *)

HasChain == \E c : Linked(c, first, last, heap)

\* The mapped list is the one that the linked chain represents.
LEMMA ListOfChain ==
  ASSUME NEW c, Linked(c, first, last, heap)
  PROVE  list = ListOf(c, heap)
<1>1. Chain = c
  BY ChainValue, ChainLinked
<1> QED
  BY <1>1 DEF list, ListOf

\* A step that leaves a chain for r keeps the invariant and makes r the mapped list.
LEMMA ListOfNewChain ==
  ASSUME NEW r, Becomes(r)
  PROVE  HasChain' /\ list' = r
<1>1. PICK d : Linked(d, first', last', heap') /\ ListOf(d, heap') = r
  BY DEF Becomes
<1>2. Chain' = d
  BY <1>1, ChainValue, ChainLinked
<1>3. list' = ListOf(d, heap')
  BY <1>2 DEF list, ListOf
<1> QED
  BY <1>1, <1>3 DEF HasChain

\* The empty list is linked by the empty chain.
LEMMA ListInit == Init => HasChain /\ list = <<>>
<1> SUFFICES ASSUME Init PROVE HasChain /\ list = <<>>
  OBVIOUS
<1>1. Linked(<<>>, first, last, heap)
  <2>1. /\ <<>> \in Seq(Node) /\ Len(<<>>) = 0 /\ 1 .. 0 = {}
    OBVIOUS
  <2>2. heap \in [{} -> Cell]
    BY DEF Init
  <2> QED
    BY <2>1, <2>2 DEF Linked, Init
<1>2. ListOf(<<>>, heap) = <<>>
  BY DEF ListOf
<1> QED
  BY <1>1, <1>2, ListOfChain DEF HasChain

\* ListSpec has the operations of NachosList under names of its own.
LEMMA SpecOperators ==
  /\ \A l, x : ListSpec!ListAppend(l, x) = ListAppend(l, x)
  /\ \A l, x : ListSpec!ListPrepend(l, x) = ListPrepend(l, x)
  /\ \A l, x, k : ListSpec!SortedInsert(l, x, k) = SortedInsert(l, x, k)
  /\ \A l : ListSpec!ListRemove(l) = ListRemove(l)
  /\ \A x, k : ListSpec!Elem(x, k) = Elem(x, k)
<1>1. \A x, k : ListSpec!Elem(x, k) = Elem(x, k)
  BY DEF ListSpec!Elem, Elem
<1>2. \A l, x : ListSpec!ListAppend(l, x) = ListAppend(l, x)
  BY <1>1 DEF ListSpec!ListAppend, ListAppend
<1>3. \A l, x : ListSpec!ListPrepend(l, x) = ListPrepend(l, x)
  BY <1>1 DEF ListSpec!ListPrepend, ListPrepend
<1>4. \A l, x, k : ListSpec!SortedInsert(l, x, k) = SortedInsert(l, x, k)
  BY DEF ListSpec!SortedInsert, SortedInsert, ListSpec!Elem, Elem
<1>5. \A l : ListSpec!ListRemove(l) = ListRemove(l)
  BY DEF ListSpec!ListRemove, ListRemove
<1> QED
  BY <1>1, <1>2, <1>3, <1>4, <1>5

\* Each step of the pointer code is a step of the sequence.
LEMMA ListStep ==
  ASSUME HasChain, [Next]_vars
  PROVE  HasChain' /\ [ListSpec!Next]_<<list, returned, call>>
<1> DEFINE Goal == HasChain' /\ [ListSpec!Next]_<<list, returned, call>>
<1> SUFFICES Goal
  OBVIOUS
<1>1. PICK c : Linked(c, first, last, heap)
  BY DEF HasChain
<1> DEFINE s == ListOf(c, heap)
<1>2. list = s /\ s \in Seq(Element(Item)) /\ Len(s) = Len(c)
  BY <1>1, ListOfChain, ListOfType
<1> HIDE DEF s
<1>3. ASSUME NEW r, Becomes(r) PROVE HasChain' /\ list' = r
  BY <1>3, ListOfNewChain
<1>4. ASSUME NEW item \in Item, NEW a \in Node \ Allocated, DoAppend(item, a) PROVE Goal
  <2>1. ListAppend(s, item) \in Seq(Element(Item)) /\ PutAt(s, ListAppend(s, item), Len(c) + 1, Elem(item, 0))
    BY <1>2, AppendPuts
  <2>2. Becomes(ListAppend(s, item))
    BY <1>1, <1>4, <2>1, PutLastBecomes DEF DoAppend, s
  <2>3. HasChain' /\ list' = ListAppend(s, item)
    BY <1>3, <2>2
  <2>4. ListSpec!DoAppend(item)
    BY <1>2, <1>4, <2>3, SpecOperators DEF DoAppend, ListSpec!DoAppend
  <2> QED
    BY <2>3, <2>4 DEF ListSpec!Next
<1>5. ASSUME NEW item \in Item, NEW a \in Node \ Allocated, DoPrepend(item, a) PROVE Goal
  <2>1. ListPrepend(s, item) \in Seq(Element(Item)) /\ PutAt(s, ListPrepend(s, item), 1, Elem(item, 0))
    BY <1>2, PrependPuts
  <2>2. Becomes(ListPrepend(s, item))
    BY <1>1, <1>5, <2>1, PutFirstBecomes DEF DoPrepend, s
  <2>3. HasChain' /\ list' = ListPrepend(s, item)
    BY <1>3, <2>2
  <2>4. ListSpec!DoPrepend(item)
    BY <1>2, <1>5, <2>3, SpecOperators DEF DoPrepend, ListSpec!DoPrepend
  <2> QED
    BY <2>3, <2>4 DEF ListSpec!Next
<1>6. ASSUME NEW item \in Item, NEW a \in Node \ Allocated, NEW key \in Key,
             DoSortedInsert(item, key, a)
      PROVE  Goal
  <2>1. key \in Int
    BY ListAssumption
  <2>2. Becomes(SortedInsert(s, item, key))
    BY <1>1, <1>6, <2>1, SortedBecomes DEF s
  <2>3. HasChain' /\ list' = SortedInsert(s, item, key)
    BY <1>3, <2>2
  <2>4. ListSpec!DoSortedInsert(item, key)
    BY <1>2, <1>6, <2>3, SpecOperators DEF DoSortedInsert, ListSpec!DoSortedInsert
  <2> QED
    BY <2>3, <2>4 DEF ListSpec!Next
<1>7. ASSUME DoSortedRemove PROVE Goal
  <2>1. /\ Becomes(ListRemove(s))
        /\ returned' = IF s = <<>> THEN Elem(NULL, 0) ELSE Head(s)
    BY <1>1, <1>7, RemoveBecomes DEF s
  <2>2. HasChain' /\ list' = ListRemove(s)
    BY <1>3, <2>1
  <2>3. ListSpec!DoSortedRemove
    BY <1>2, <1>7, <2>1, <2>2, SpecOperators DEF DoSortedRemove, ListSpec!DoSortedRemove
  <2> QED
    BY <2>2, <2>3 DEF ListSpec!Next
<1>8. CASE UNCHANGED vars
  <2>1. /\ first' = first /\ last' = last /\ heap' = heap
        /\ returned' = returned /\ call' = call
    BY <1>8 DEF vars
  <2>2. Linked(c, first', last', heap') /\ ListOf(c, heap') = s
    BY <1>1, <2>1 DEF s
  <2>3. Becomes(s)
    BY <2>2 DEF Becomes
  <2>4. HasChain' /\ list' = s
    BY <2>3, ListOfNewChain
  <2> QED
    BY <1>2, <2>1, <2>4
<1> HIDE DEF Goal
<1>9. CASE Next
  <2>1. ASSUME NEW item \in Item, NEW a \in Node \ Allocated,
               DoAppend(item, a) \/ DoPrepend(item, a)
                 \/ \E key \in Key : DoSortedInsert(item, key, a)
        PROVE  Goal
    BY <1>4, <1>5, <1>6, <2>1
  <2> QED
    BY <1>7, <1>9, <2>1 DEF Next
<1> QED
  BY <1>8, <1>9

\* No element of class List is leaked, and none is reached after it was deleted: the
\* chain from first visits every allocated element once and ends in last.
THEOREM ListWellLinked == Spec => []WellLinked
<1>1. Init => HasChain
  BY ListInit
<1>2. HasChain /\ [Next]_vars => HasChain'
  BY ListStep
<1>3. HasChain => WellLinked
  <2> SUFFICES ASSUME NEW c, Linked(c, first, last, heap) PROVE WellLinked
    BY DEF HasChain
  <2>1. Chain = c /\ Cardinality(DOMAIN heap) = Len(c)
    BY ChainValue, ChainLinked
  <2>2. /\ Len(c) \in Nat /\ DOMAIN c = 1 .. Len(c) /\ \A i \in 1 .. Len(c) : c[i] # NULL
    BY ListOfType
  <2>3. /\ DOMAIN heap = {c[i] : i \in 1 .. Len(c)}
        /\ first = IF Len(c) = 0 THEN NULL ELSE c[1]
        /\ last = IF Len(c) = 0 THEN NULL ELSE c[Len(c)]
    BY DEF Linked
  <2>4. IsEmpty <=> Len(c) = 0
    BY <2>2, <2>3 DEF IsEmpty
  <2> QED
    BY <2>1, <2>2, <2>3, <2>4 DEF WellLinked, Allocated
<1> QED
  BY <1>1, <1>2, <1>3, PTL DEF Spec

\* The pointer code of Append, Prepend, SortedInsert and Remove does to the list what
\* the operation of the same name of NachosList says, which every other module builds on.
THEOREM ListImplements == Spec => RefinesList
<1>1. Init => HasChain /\ ListSpec!Init
  <2>1. Init => returned = Elem(NULL, 0) /\ call = <<"List">>
    BY DEF Init, Nothing, Elem
  <2> QED
    BY <2>1, ListInit, SpecOperators DEF ListSpec!Init
<1>2. HasChain /\ [Next]_vars => HasChain'
  BY ListStep
<1>3. HasChain /\ [Next]_vars => [ListSpec!Next]_<<list, returned, call>>
  BY ListStep
<1> QED
  BY <1>1, <1>2, <1>3, PTL DEF Spec, RefinesList, ListSpec!Spec
=============================================================================
