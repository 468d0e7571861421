------------------------------- MODULE RWLock -------------------------------
(***************************************************************************)
(* class RWLock of threads/synch.cc, driven by the Reader and Writer       *)
(* threads of threads/synchtest.cc.                                        *)
(*                                                                         *)
(* The monitor's code is cut where it can lose the processor: after each   *)
(* call that restores the interrupt level.  pc[t] is the cut t is at:      *)
(*   "idle"     outside                                                    *)
(*   "enter"    mutex->Acquire() called by readlock() or writelock()       *)
(*   "wait"     in Wait() on conReader or conWriter                        *)
(*   "inside"   readlock() or writelock() has returned                     *)
(*   "unlock"   mutex->Acquire() called by unlock()                        *)
(*   "leave"    unlock() has signalled and still holds the mutex           *)
(* SynchTests runs it.                                                     *)
(***************************************************************************)
EXTENDS Synch

CONSTANTS Reader, Writer,
          mutex, conReader, conWriter,
          Rounds              \* the test's loop count

VARIABLES pendingReaders, activeReaders, pendingWriters, pc, rounds

countVars == <<pendingReaders, activeReaders, pendingWriters>>

DataInit == pendingReaders = 0 /\ pendingWriters = 0 /\ activeReaders = 0

Init ==
  /\ SynchInit /\ DataInit
  /\ pc = [t \in Thread |-> "idle"]
  /\ rounds = [t \in Thread |-> 0]

At(t, loc) == Running(t) /\ pc[t] = loc
Goto(t, loc) == pc' = [pc EXCEPT ![t] = loc]

\* readlock() and writelock(): mutex->Acquire().
Enter(t) ==
  /\ At(t, "idle") /\ rounds[t] < Rounds
  /\ Acquire(t, mutex) /\ Goto(t, "enter")
  /\ UNCHANGED <<countVars, rounds>>

\* Mutant: "if" instead of "while" around Wait().
ReadBody_If(t) ==
  LET pending1 == pendingReaders + (IF pc[t] = "enter" THEN 1 ELSE 0)
  IN /\ t \in Reader /\ (At(t, "enter") \/ At(t, "wait"))
     /\ \/ /\ activeReaders < 0 /\ pc[t] = "enter"
           /\ pendingReaders' = pending1 /\ UNCHANGED activeReaders
           /\ Wait(t, conReader, mutex) /\ Goto(t, "wait")
        \/ /\ activeReaders >= 0 \/ pc[t] = "wait"
           /\ pendingReaders' = pending1 - 1 /\ activeReaders' = activeReaders + 1
           /\ Release(t, mutex) /\ Goto(t, "inside")
     /\ UNCHANGED <<pendingWriters, rounds>>

\* readlock() with the mutex: count the reader, wait for a writer inside, and
\* go in.  The while loop comes back here each time Wait() returns.
ReadBody(t) ==
  LET pending1 == pendingReaders + (IF pc[t] = "enter" THEN 1 ELSE 0)
  IN /\ t \in Reader /\ (At(t, "enter") \/ At(t, "wait"))
     /\ \/ /\ activeReaders < 0
           /\ pendingReaders' = pending1 /\ UNCHANGED activeReaders
           /\ Wait(t, conReader, mutex) /\ Goto(t, "wait")
        \/ /\ activeReaders >= 0
           /\ pendingReaders' = pending1 - 1 /\ activeReaders' = activeReaders + 1
           /\ Release(t, mutex) /\ Goto(t, "inside")
     /\ UNCHANGED <<pendingWriters, rounds>>

\* Mutant: writelock() forgets pendingWriters--.
WriteBody_KeepsPending(t) ==
  LET pending1 == pendingWriters + (IF pc[t] = "enter" THEN 1 ELSE 0)
  IN /\ t \in Writer /\ (At(t, "enter") \/ At(t, "wait"))
     /\ pendingWriters' = pending1
     /\ \/ /\ activeReaders # 0 /\ UNCHANGED activeReaders
           /\ Wait(t, conWriter, mutex) /\ Goto(t, "wait")
        \/ /\ activeReaders = 0 /\ activeReaders' = -1
           /\ Release(t, mutex) /\ Goto(t, "inside")
     /\ UNCHANGED <<pendingReaders, rounds>>

\* writelock() with the mutex.
WriteBody(t) ==
  LET pending1 == pendingWriters + (IF pc[t] = "enter" THEN 1 ELSE 0)
  IN /\ t \in Writer /\ (At(t, "enter") \/ At(t, "wait"))
     /\ \/ /\ activeReaders # 0
           /\ pendingWriters' = pending1 /\ UNCHANGED activeReaders
           /\ Wait(t, conWriter, mutex) /\ Goto(t, "wait")
        \/ /\ activeReaders = 0
           /\ pendingWriters' = pending1 - 1 /\ activeReaders' = -1
           /\ Release(t, mutex) /\ Goto(t, "inside")
     /\ UNCHANGED <<pendingReaders, rounds>>

\* unlock(): mutex->Acquire().
Unlock(t) ==
  /\ At(t, "inside") /\ Acquire(t, mutex) /\ Goto(t, "unlock")
  /\ UNCHANGED <<countVars, rounds>>

Leaves(t) == Goto(t, "idle") /\ rounds' = [rounds EXCEPT ![t] = @ + 1]

\* Mutant: a writer that leaves signals one pending reader only.
UnlockWriter_SignalOne(t) ==
  /\ At(t, "unlock") /\ activeReaders < 0
  /\ activeReaders' = 0
  /\ Signal(t, IF pendingReaders > 0 THEN conReader ELSE conWriter, mutex)
  /\ Goto(t, "leave")
  /\ UNCHANGED <<pendingReaders, pendingWriters, rounds>>

\* unlock() with the mutex, up to the next point where it can be preempted:
\* that is after Broadcast or Signal, or, when neither is called, Release.
UnlockWriter(t) ==
  /\ At(t, "unlock") /\ activeReaders < 0
  /\ activeReaders' = 0
  /\ \/ /\ pendingReaders > 0
        /\ Broadcast(t, conReader, mutex) /\ Goto(t, "leave") /\ UNCHANGED rounds
     \/ /\ pendingReaders = 0 /\ pendingWriters > 0
        /\ Signal(t, conWriter, mutex) /\ Goto(t, "leave") /\ UNCHANGED rounds
     \/ /\ pendingReaders = 0 /\ pendingWriters = 0
        /\ Release(t, mutex) /\ Leaves(t)
  /\ UNCHANGED <<pendingReaders, pendingWriters>>

\* Mutant: the last reader out does not signal the writers.
UnlockReader_NoSignal(t) ==
  /\ At(t, "unlock") /\ activeReaders > 0
  /\ activeReaders' = activeReaders - 1
  /\ Release(t, mutex) /\ Leaves(t)
  /\ UNCHANGED <<pendingReaders, pendingWriters>>

UnlockReader(t) ==
  /\ At(t, "unlock") /\ activeReaders > 0
  /\ activeReaders' = activeReaders - 1
  /\ \/ /\ pendingReaders = 0 /\ activeReaders' = 0
        /\ Signal(t, conWriter, mutex) /\ Goto(t, "leave") /\ UNCHANGED rounds
     \/ /\ ~ (pendingReaders = 0 /\ activeReaders' = 0)
        /\ Release(t, mutex) /\ Leaves(t)
  /\ UNCHANGED <<pendingReaders, pendingWriters>>

\* The end of unlock() after a Signal or Broadcast: mutex->Release().
Leave(t) ==
  /\ At(t, "leave") /\ Release(t, mutex) /\ Leaves(t)
  /\ UNCHANGED countVars

\* A thread woken inside Acquire() or Wait() goes on with it.
Retry(t) == Resume(t) /\ UNCHANGED <<countVars, pc, rounds>>

Finished == \A t \in Thread : At(t, "idle") /\ rounds[t] = Rounds

Step(t) ==
  \/ Enter(t) \/ ReadBody(t) \/ WriteBody(t)
  \/ Unlock(t) \/ UnlockWriter(t) \/ UnlockReader(t) \/ Leave(t) \/ Retry(t)

-----------------------------------------------------------------------------
(* Properties *)

Inside == {t \in Thread : pc[t] \in {"inside", "unlock"}}

\* activeReaders counts the readers inside or is -1 for a writer, so that
\* unlock(), which goes by activeReaders alone, takes the branch that matches
\* the thread calling it; the pending counters count the threads waiting.
CountersExact ==
  /\ activeReaders = IF Inside \cap Writer # {} THEN -1
                     ELSE Cardinality(Inside \cap Reader)
  /\ pendingReaders = Cardinality({t \in Reader : pc[t] = "wait"})
  /\ pendingWriters = Cardinality({t \in Writer : pc[t] = "wait"})

\* No waiter is stranded: a reader sleeps on conReader only while a writer is
\* inside, and a writer sleeps on conWriter only while somebody is inside or a
\* thread already woken will go in, and then signal, in its place.
NoStrandedWaiter ==
  /\ waitCondQueue[conReader] # <<>> => activeReaders < 0
  /\ waitCondQueue[conWriter] # <<>> =>
       \/ activeReaders # 0
       \/ \E t \in Thread :
            /\ pc[t] = "wait"
            /\ t \notin Range(waitCondQueue[conReader]) \cup Range(waitCondQueue[conWriter])

=============================================================================
