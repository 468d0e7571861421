------------------------------ MODULE ListImpl ------------------------------
(***************************************************************************)
(* class List (threads/list.cc) with its pointers: elements allocated from *)
(* Node, singly linked from first to last.  It implements the sequence     *)
(* operations of module NachosList that the other modules use.             *)
(***************************************************************************)
EXTENDS NachosList, FiniteSets

CONSTANTS Node,               \* the addresses "new ListElement" can return
          Item, Key, NULL

ASSUME ListAssumption == NULL \notin Node \cup Item /\ Key \subseteq Int /\ IsFiniteSet(Node)

VARIABLES first, last,
          heap,               \* the allocated elements: address -> fields
          returned,           \* the last value SortedRemove returned, and its key
          call                \* history: the last operation, with its arguments

vars == <<first, last, heap, returned, call>>

Nothing == [item |-> NULL, key |-> 0]

Init ==
  /\ first = NULL /\ last = NULL /\ heap = <<>> /\ returned = Nothing
  /\ call = <<"List">>

Allocated == DOMAIN heap

\* new ListElement(item, key) at address n, with its next pointer already set.
New(h, n, item, key, next) ==
  [m \in DOMAIN h \cup {n} |->
     IF m = n THEN [item |-> item, key |-> key, next |-> next] ELSE h[m]]

IsEmpty == first = NULL

\* The element becomes the only one, or goes after last.
PutLast(n, item, key) ==
  /\ heap' = IF IsEmpty THEN New(heap, n, item, key, NULL)
             ELSE [New(heap, n, item, key, NULL) EXCEPT ![last].next = n]
  /\ first' = IF IsEmpty THEN n ELSE first
  /\ last' = n

\* Mutant: last is not moved to the new element.
PutFirst_LostLast(n, item, key) ==
  /\ heap' = New(heap, n, item, key, first)
  /\ first' = n /\ UNCHANGED last

\* The element becomes the only one, or goes before first.
PutFirst(n, item, key) ==
  /\ heap' = New(heap, n, item, key, first)
  /\ first' = n /\ last' = IF IsEmpty THEN n ELSE last

\* List::Append
DoAppend(item, n) ==
  PutLast(n, item, 0) /\ call' = <<"Append", item>> /\ UNCHANGED returned

\* List::Prepend
DoPrepend(item, n) ==
  PutFirst(n, item, 0) /\ call' = <<"Prepend", item>> /\ UNCHANGED returned

\* The walk from first: the elements in the order in which they are linked.  A
\* longer chain than there are elements is a cycle.
Chain ==
  LET at[i \in 1 .. Cardinality(Allocated) + 1] ==
        IF i = 1 THEN first
        ELSE IF at[i - 1] = NULL THEN NULL ELSE heap[at[i - 1]].next
      linked == {i \in DOMAIN at : at[i] # NULL}
  IN  [i \in linked |-> at[i]]

\* Mutant: the new element goes before the elements with the same key.
Bigger_OrEqual(key, p) == heap[p].next # NULL /\ key <= heap[heap[p].next].key

\* The test inside the for loop of SortedInsert, with ptr = p.
Bigger(key, p) == heap[p].next # NULL /\ key < heap[heap[p].next].key

\* List::SortedInsert: the front, behind the first element whose successor has a
\* bigger key, or the end.
DoSortedInsert(item, key, n) ==
  /\ \/ /\ IsEmpty /\ PutLast(n, item, key)
     \/ /\ ~IsEmpty /\ key < heap[first].key /\ PutFirst(n, item, key)
     \/ /\ ~IsEmpty /\ key >= heap[first].key
        /\ \E i \in DOMAIN Chain :
             /\ Bigger(key, Chain[i]) /\ \A j \in 1 .. i - 1 : ~Bigger(key, Chain[j])
             /\ heap' = [New(heap, n, item, key, heap[Chain[i]].next)
                           EXCEPT ![Chain[i]].next = n]
        /\ UNCHANGED <<first, last>>
     \/ /\ ~IsEmpty /\ key >= heap[first].key
        /\ \A i \in DOMAIN Chain : ~Bigger(key, Chain[i])
        /\ PutLast(n, item, key)
  /\ call' = <<"SortedInsert", item, key>> /\ UNCHANGED returned

\* List::SortedRemove, and Remove, which ignores the key.
DoSortedRemove ==
  /\ \/ IsEmpty /\ returned' = Nothing /\ UNCHANGED <<first, last, heap>>
     \/ /\ ~IsEmpty
        /\ returned' = Elem(heap[first].item, heap[first].key)
        /\ heap' = [n \in Allocated \ {first} |-> heap[n]]
        /\ IF first = last THEN first' = NULL /\ last' = NULL
           ELSE first' = heap[first].next /\ UNCHANGED last
  /\ call' = <<"SortedRemove">>

Next ==
  \/ DoSortedRemove
  \/ \E item \in Item, n \in Node \ Allocated :
       DoAppend(item, n) \/ DoPrepend(item, n)
         \/ \E key \in Key : DoSortedInsert(item, key, n)

Spec == Init /\ [][Next]_vars

-----------------------------------------------------------------------------
(* Properties *)

\* No element is leaked or reached after it was deleted: the chain from first
\* visits every allocated element once and ends in last.
WellLinked ==
  /\ {Chain[i] : i \in DOMAIN Chain} = Allocated
  /\ Len(Chain) = Cardinality(Allocated)
  /\ last = IF IsEmpty THEN NULL ELSE Chain[Len(Chain)]

\* The sequence the pointers stand for.
list == [i \in DOMAIN Chain |-> Elem(heap[Chain[i]].item, heap[Chain[i]].key)]

\* Each operation does to the sequence what NachosList says of that operation: in particular
\* SortedInsert is stable, also on a list whose keys Append and Prepend have put
\* out of order, and Remove returns the items of the front in order.
ListSpec == INSTANCE ListSpec
RefinesList == ListSpec!Spec
=============================================================================
