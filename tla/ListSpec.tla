------------------------------ MODULE ListSpec ------------------------------
(* What class List promises: a sequence of items with keys.                 *)
EXTENDS NachosList

CONSTANTS Item, Key, NULL

VARIABLES list, returned,
          call                \* the last operation, with its arguments

Init == list = <<>> /\ returned = Elem(NULL, 0) /\ call = <<"List">>

DoAppend(item) ==
  /\ list' = ListAppend(list, item) /\ call' = <<"Append", item>>
  /\ UNCHANGED returned

DoPrepend(item) ==
  /\ list' = ListPrepend(list, item) /\ call' = <<"Prepend", item>>
  /\ UNCHANGED returned

DoSortedInsert(item, key) ==
  /\ list' = SortedInsert(list, item, key) /\ call' = <<"SortedInsert", item, key>>
  /\ UNCHANGED returned

DoSortedRemove ==
  /\ returned' = IF list = <<>> THEN Elem(NULL, 0) ELSE Head(list)
  /\ list' = ListRemove(list) /\ call' = <<"SortedRemove">>

Next ==
  \/ DoSortedRemove
  \/ \E item \in Item : \/ DoAppend(item) \/ DoPrepend(item)
                        \/ \E key \in Key : DoSortedInsert(item, key)

Spec == Init /\ [][Next]_<<list, returned, call>>
=============================================================================
