----------------------------- MODULE NachosList -----------------------------
(***************************************************************************)
(* The operations of class List (threads/list.cc) as functions on          *)
(* sequences of elements [item, key].  Module ListImpl shows that the      *)
(* pointer code computes them.                                             *)
(***************************************************************************)
EXTENDS Integers, Sequences

Elem(item, key) == [item |-> item, key |-> key]

ListAppend(l, item) == Append(l, Elem(item, 0))

ListPrepend(l, item) == <<Elem(item, 0)>> \o l

\* The new element goes before the first element with a bigger key: behind the
\* elements of the same key, and so also past smaller ones that are out of order.
SortedInsert(l, item, key) ==
  LET bigger == {i \in DOMAIN l : key < l[i].key}
      pos == IF bigger = {} THEN Len(l) + 1
             ELSE CHOOSE i \in bigger : \A j \in bigger : i <= j
  IN  SubSeq(l, 1, pos - 1) \o <<Elem(item, key)>> \o SubSeq(l, pos, Len(l))

\* The item Remove and SortedRemove return: NULL if the list is empty.
FirstItem(l, null) == IF l = <<>> THEN null ELSE Head(l).item

\* The list they leave behind.
ListRemove(l) == IF l = <<>> THEN <<>> ELSE Tail(l)

=============================================================================
