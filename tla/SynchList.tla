----------------------------- MODULE SynchList -----------------------------
(***************************************************************************)
(* class SynchList of threads/synchlist.cc: a list as a monitor, with      *)
(* threads that append, threads that remove and threads that walk it.      *)
(*                                                                         *)
(* pc[t] is "idle", "append", "remove" or "mapcar" (called Acquire in that *)
(* operation), "wait" (in listEmpty->Wait) or "leave" (Append has          *)
(* signalled and still holds the lock).  put and got record the items in   *)
(* the order in which they entered and left the list.                      *)
(***************************************************************************)
EXTENDS Synch

CONSTANTS Producer, Consumer, Walker,
          lock, listEmpty,
          Calls               \* calls each thread makes

VARIABLES list, put, got, pc, calls

listVars == <<list, put, got>>

\* The items: what thread t appends in its n-th call.
Item == UNION {{t} \X (0 .. Calls[t] - 1) : t \in Producer}

DataInit == list = <<>> /\ put = <<>> /\ got = <<>>

Init ==
  /\ SynchInit /\ DataInit
  /\ pc = [t \in Thread |-> "idle"]
  /\ calls = [t \in Thread |-> 0]

At(t, loc) == Running(t) /\ pc[t] = loc
Goto(t, loc) == pc' = [pc EXCEPT ![t] = loc]
Returns(t) == Goto(t, "idle") /\ calls' = [calls EXCEPT ![t] = @ + 1]

Operation(t) == IF t \in Producer THEN "append"
                ELSE IF t \in Consumer THEN "remove" ELSE "mapcar"

\* Append, Remove or Mapcar: lock->Acquire().
Call(t) ==
  /\ At(t, "idle") /\ calls[t] < Calls[t]
  /\ Acquire(t, lock) /\ Goto(t, Operation(t))
  /\ UNCHANGED <<listVars, calls>>

\* Mutant: Append signals only when the list was empty.
AppendBody_SignalIfEmpty(t) ==
  /\ At(t, "append")
  /\ list' = Append(list, <<t, calls[t]>>)
  /\ put' = Append(put, <<t, calls[t]>>)
  /\ IF list = <<>> THEN Signal(t, listEmpty, lock) ELSE UNCHANGED synchVars
  /\ Goto(t, "leave") /\ UNCHANGED <<got, calls>>

\* Append with the lock: list->Append(item), then Signal, after which the thread
\* can be preempted.
AppendBody(t) ==
  /\ At(t, "append")
  /\ list' = Append(list, <<t, calls[t]>>)
  /\ put' = Append(put, <<t, calls[t]>>)
  /\ Signal(t, listEmpty, lock)
  /\ Goto(t, "leave") /\ UNCHANGED <<got, calls>>

AppendLeave(t) ==
  /\ At(t, "leave") /\ Release(t, lock) /\ Returns(t)
  /\ UNCHANGED listVars

\* Mutant: "if" instead of "while" around Wait(): List::Remove on an empty list
\* gives NULL, and ASSERT(item != NULL) fails.
RemoveBody_If(t) ==
  /\ \/ /\ At(t, "remove") /\ list = <<>>
        /\ Wait(t, listEmpty, lock) /\ Goto(t, "wait")
        /\ UNCHANGED <<listVars, calls>>
     \/ /\ At(t, "wait") \/ (At(t, "remove") /\ list # <<>>)
        /\ got' = Append(got, IF list = <<>> THEN NULL ELSE Head(list))
        /\ list' = Rest(list)
        /\ Release(t, lock) /\ Returns(t) /\ UNCHANGED put

\* Remove with the lock, on entry and each time Wait() returns.
RemoveBody(t) ==
  /\ At(t, "remove") \/ At(t, "wait")
  /\ \/ /\ list = <<>>
        /\ Wait(t, listEmpty, lock) /\ Goto(t, "wait")
        /\ UNCHANGED <<listVars, calls>>
     \/ /\ list # <<>>
        /\ got' = Append(got, Head(list)) /\ list' = Tail(list)
        /\ Release(t, lock) /\ Returns(t) /\ UNCHANGED put

\* Mapcar with the lock: visits the items and changes nothing.
MapcarBody(t) ==
  /\ At(t, "mapcar") /\ Release(t, lock) /\ Returns(t)
  /\ UNCHANGED listVars

Retry(t) == Resume(t) /\ UNCHANGED <<listVars, pc, calls>>

Step(t) ==
  Call(t) \/ AppendBody(t) \/ AppendLeave(t) \/ RemoveBody(t) \/ MapcarBody(t) \/ Retry(t)

Finished == \A t \in Thread : At(t, "idle") /\ calls[t] = Calls[t]

-----------------------------------------------------------------------------
(* Properties *)

\* While a thread sleeps on listEmpty there is, for each item on the list, a
\* remover that has been signalled and has not run yet: a Signal is never
\* swallowed by a remover that finds the item taken.
WokenRemovers == {t \in Consumer : pc[t] = "wait"} \ Range(waitCondQueue[listEmpty])

NoStrandedRemover ==
  waitCondQueue[listEmpty] # <<>> => Len(list) <= Cardinality(WokenRemovers)
=============================================================================
