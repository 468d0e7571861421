------------------------------ MODULE Barrier ------------------------------
(***************************************************************************)
(* class Barrier and BarrierProcess of threads/synch.cc, driven by the     *)
(* BarrierFunction threads of threads/synchtest.cc.                        *)
(*                                                                         *)
(* The numbers the threads put are abstracted to the set of threads that   *)
(* have put one (memid).  pc[t]:                                           *)
(*   "start"    before BarrierProcess(num)                                 *)
(*   "enter"    in lock->Acquire() of enterBarrier()                       *)
(*   "wait"     in cond->Wait(lock)                                        *)
(*   "leave"    has broadcast, still holds the lock                        *)
(*   "crossed"  enterBarrier() has returned                                *)
(***************************************************************************)
EXTENDS Synch

CONSTANTS lock, cond,
          barrierNum          \* setBarrierNum's argument

VARIABLES remaining, processFunction, memid, report, pc

dataVars == <<remaining, processFunction, memid, report>>

\* BarrierTest: setProcessFunction, setBarrierNum, then the threads are forked.
\* report holds what each call of processFunction(-1) printed.
DataInit ==
  remaining = barrierNum /\ processFunction = TRUE /\ memid = {} /\ report = <<>>

Init ==
  /\ SynchInit /\ DataInit
  /\ pc = [t \in Thread |-> "start"]

At(t, loc) == Running(t) /\ pc[t] = loc
Goto(t, loc) == pc' = [pc EXCEPT ![t] = loc]

\* BarrierFunction: BarrierProcess(num) and enterBarrier() up to the lock; no
\* interrupt can come between the two.
Put(t) ==
  /\ At(t, "start")
  /\ memid' = memid \cup {t}
  /\ Acquire(t, lock) /\ Goto(t, "enter")
  /\ UNCHANGED <<remaining, processFunction, report>>

\* The end of enterBarrier(), once the while loop is over.
Pass(t) ==
  /\ IF processFunction
       THEN report' = Append(report, memid) /\ memid' = {}
       ELSE UNCHANGED <<report, memid>>
  /\ processFunction' = FALSE
  /\ Broadcast(t, cond, lock) /\ Goto(t, "leave")

\* remaining-- is done once, on arrival.
Counted(t) == remaining - (IF pc[t] = "enter" THEN 1 ELSE 0)

\* Mutant: processFunction is not reset, and runs for every thread.
EnterBody_ReportsAgain(t) ==
  /\ At(t, "enter") \/ At(t, "wait")
  /\ remaining' = Counted(t)
  /\ \/ /\ remaining' > 0 /\ Wait(t, cond, lock) /\ Goto(t, "wait")
        /\ UNCHANGED <<processFunction, memid, report>>
     \/ /\ remaining' <= 0 /\ Broadcast(t, cond, lock) /\ Goto(t, "leave")
        /\ report' = Append(report, memid) /\ memid' = {}
        /\ UNCHANGED processFunction

\* enterBarrier() with the lock, on arrival and each time Wait() returns.
EnterBody(t) ==
  /\ At(t, "enter") \/ At(t, "wait")
  /\ remaining' = Counted(t)
  /\ \/ /\ remaining' > 0 /\ Wait(t, cond, lock) /\ Goto(t, "wait")
        /\ UNCHANGED <<processFunction, memid, report>>
     \/ remaining' <= 0 /\ Pass(t)

Leave(t) ==
  /\ At(t, "leave") /\ Release(t, lock) /\ Goto(t, "crossed")
  /\ UNCHANGED dataVars

Retry(t) == Resume(t) /\ UNCHANGED <<dataVars, pc>>

Step(t) == Put(t) \/ EnterBody(t) \/ Leave(t) \/ Retry(t)

Finished == \A t \in Thread : At(t, "crossed")

-----------------------------------------------------------------------------
(* Properties *)

Arrived == {t \in Thread : pc[t] \in {"wait", "leave", "crossed"}}

\* Nobody leaves the barrier, and nobody is woken in it, before barrierNum threads
\* have come to it; processFunction then runs once, however many threads come out
\* of the wait, and its report covers at least the threads that made it open.
OpensOnce ==
  /\ (\E t \in Thread : \/ pc[t] \in {"leave", "crossed"}
                        \/ pc[t] = "wait" /\ t \notin Range(waitCondQueue[cond]))
       => Cardinality(Arrived) >= barrierNum
  /\ Len(report) <= 1
  /\ \A i \in DOMAIN report : Cardinality(report[i]) >= barrierNum
=============================================================================
