------------------------------- MODULE Synch -------------------------------
(***************************************************************************)
(* Semaphores, locks and condition variables: threads/synch.cc.            *)
(*                                                                         *)
(* Nachos runs on a simulated uniprocessor.  Every routine below disables  *)
(* interrupts on entry and puts the old level back on exit, so it executes *)
(* as one step up to the point where it restores the level or goes to      *)
(* sleep; a time slice can follow either.  One operator here is therefore  *)
(* one such step, and the modules that use it interleave the steps of      *)
(* different threads freely.                                               *)
(*                                                                         *)
(* status[t] is "READY" for a thread that is running or on the ready list  *)
(* and "BLOCKED" for one that called Sleep.  pending[t] is what is left of *)
(* the call t is inside: the semaphore whose P() loop it is in, or NULL.   *)
(* A thread in Condition::Wait has the lock pending, because what follows  *)
(* its wake-up is Lock::Acquire.  A lock and its private semaphore         *)
(* "locked" share one name.                                                *)
(***************************************************************************)
EXTENDS Integers, Sequences, FiniteSets, Functions

CONSTANTS Thread, Semaphore, Lock, Condition,
          InitialValue,     \* the constructor's argument, for each semaphore
          NULL

ASSUME SynchAssumption ==
  /\ Lock \subseteq Semaphore
  /\ InitialValue \in [Semaphore -> Nat]
  /\ \A l \in Lock : InitialValue[l] = 1
  /\ NULL \notin Thread /\ NULL \notin Semaphore
  /\ IsFiniteSet(Thread)

VARIABLES status, value, queue, holder, waitCondQueue, condLock, pending

synchVars == <<status, value, queue, holder, waitCondQueue, condLock, pending>>

SynchTypeOK ==
  /\ status \in [Thread -> {"READY", "BLOCKED"}]
  /\ value \in [Semaphore -> Nat]
  /\ queue \in [Semaphore -> Seq(Thread)]
  /\ holder \in [Lock -> Thread \cup {NULL}]
  /\ waitCondQueue \in [Condition -> Seq(Thread)]
  /\ condLock \in [Condition -> Lock \cup {NULL}]
  /\ pending \in [Thread -> Semaphore \cup {NULL}]

SynchInit ==
  /\ status = [t \in Thread |-> "READY"]
  /\ value = InitialValue
  /\ queue = [s \in Semaphore |-> <<>>]
  /\ holder = [l \in Lock |-> NULL]
  /\ waitCondQueue = [c \in Condition |-> <<>>]
  /\ condLock = [c \in Condition |-> NULL]
  /\ pending = [t \in Thread |-> NULL]

(***************************************************************************)
(* List::Remove on a queue of threads followed by Scheduler::ReadyToRun on *)
(* what it returned; both leave everything alone when the queue is empty.  *)
(***************************************************************************)
Rest(q) == IF q = <<>> THEN q ELSE Tail(q)

Wake(st, q) == IF q = <<>> THEN st ELSE [st EXCEPT ![Head(q)] = "READY"]

-----------------------------------------------------------------------------
(* Semaphores *)

\* One turn of the while loop of P(): the thread goes to sleep on the queue,
\* or takes a unit and P() returns.
P(t, s) ==
  /\ status[t] = "READY"
  /\ \/ /\ value[s] = 0
        /\ queue' = [queue EXCEPT ![s] = Append(@, t)]
        /\ status' = [status EXCEPT ![t] = "BLOCKED"]
        /\ pending' = [pending EXCEPT ![t] = s]
        /\ value' = value
     \/ /\ value[s] # 0
        /\ value' = [value EXCEPT ![s] = @ - 1]
        /\ pending' = [pending EXCEPT ![t] = NULL]
        /\ UNCHANGED <<queue, status>>
  /\ UNCHANGED <<waitCondQueue, condLock>>

\* Mutant: V() looks at the head of the queue without removing it.
V_NoRemove(s) ==
  /\ status' = Wake(status, queue[s])
  /\ value' = [value EXCEPT ![s] = @ + 1]
  /\ UNCHANGED <<queue, holder, waitCondQueue, condLock, pending>>

\* Mutant: V() wakes a waiter only when the value was 0.
V_WakeAtZero(s) ==
  LET q == IF value[s] = 0 THEN queue[s] ELSE <<>>
  IN /\ queue' = [queue EXCEPT ![s] = IF q = <<>> THEN @ ELSE Tail(@)]
     /\ status' = Wake(status, q)
     /\ value' = [value EXCEPT ![s] = @ + 1]
     /\ UNCHANGED <<holder, waitCondQueue, condLock, pending>>

\* V() by a thread or by an interrupt handler.
V(s) ==
  /\ queue' = [queue EXCEPT ![s] = Rest(@)]
  /\ status' = Wake(status, queue[s])
  /\ value' = [value EXCEPT ![s] = @ + 1]
  /\ UNCHANGED <<holder, waitCondQueue, condLock, pending>>

-----------------------------------------------------------------------------
(* Locks *)

Acquire(t, l) ==
  /\ P(t, l)
  /\ holder' = IF value[l] = 0 THEN holder ELSE [holder EXCEPT ![l] = t]

\* Mutant: Release() forgets to reset the holder.
Release_KeepsHolder(t, l) ==
  /\ status[t] = "READY"
  /\ holder[l] = t
  /\ value' = [value EXCEPT ![l] = @ + 1]
  /\ queue' = [queue EXCEPT ![l] = Rest(@)]
  /\ status' = Wake(status, queue[l])
  /\ UNCHANGED <<holder, waitCondQueue, condLock, pending>>

\* Release() checks its caller with an ASSERT that aborts Nachos.
Release(t, l) ==
  /\ status[t] = "READY"
  /\ holder[l] = t
  /\ holder' = [holder EXCEPT ![l] = NULL]
  /\ value' = [value EXCEPT ![l] = @ + 1]
  /\ queue' = [queue EXCEPT ![l] = Rest(@)]
  /\ status' = Wake(status, queue[l])
  /\ UNCHANGED <<waitCondQueue, condLock, pending>>

-----------------------------------------------------------------------------
(* Condition variables *)

\* Wait() up to its Sleep: enqueue, release the lock, block, all with
\* interrupts off.
Wait(t, c, l) ==
  /\ status[t] = "READY"
  /\ holder[l] = t
  /\ condLock' = IF waitCondQueue[c] = <<>> THEN [condLock EXCEPT ![c] = l]
                                            ELSE condLock
  /\ condLock'[c] = l
  /\ waitCondQueue' = [waitCondQueue EXCEPT ![c] = Append(@, t)]
  /\ holder' = [holder EXCEPT ![l] = NULL]
  /\ value' = [value EXCEPT ![l] = @ + 1]
  /\ queue' = [queue EXCEPT ![l] = Rest(@)]
  /\ status' = [Wake(status, queue[l]) EXCEPT ![t] = "BLOCKED"]
  /\ pending' = [pending EXCEPT ![t] = l]

Signal(t, c, l) ==
  /\ status[t] = "READY"
  /\ holder[l] = t
  /\ waitCondQueue[c] # <<>> => condLock[c] = l
  /\ waitCondQueue' = [waitCondQueue EXCEPT ![c] = Rest(@)]
  /\ status' = Wake(status, waitCondQueue[c])
  /\ UNCHANGED <<value, queue, holder, condLock, pending>>

\* Broadcast() is Signal() until the queue is empty, in one atomic section.
Broadcast(t, c, l) ==
  /\ status[t] = "READY"
  /\ holder[l] = t
  /\ waitCondQueue[c] # <<>> => condLock[c] = l
  /\ waitCondQueue' = [waitCondQueue EXCEPT ![c] = <<>>]
  /\ status' = [u \in Thread |->
                  IF u \in Range(waitCondQueue[c]) THEN "READY" ELSE status[u]]
  /\ UNCHANGED <<value, queue, holder, condLock, pending>>

-----------------------------------------------------------------------------
\* Mutant: "if" instead of "while" in P(): a woken thread takes a unit
\* without looking at the value again.
Resume_If(t) ==
  LET s == pending[t]
  IN /\ s # NULL /\ status[t] = "READY"
     /\ value' = [value EXCEPT ![s] = IF @ = 0 THEN 0 ELSE @ - 1]
     /\ pending' = [pending EXCEPT ![t] = NULL]
     /\ holder' = IF s \in Lock THEN [holder EXCEPT ![s] = t] ELSE holder
     /\ UNCHANGED <<queue, status, waitCondQueue, condLock>>

\* A thread that has been woken goes round the loop of the P() it is inside;
\* if that P() belongs to Acquire(), Acquire() is completed with it.
Resume(t) ==
  /\ pending[t] # NULL
  /\ \/ /\ pending[t] \in Lock
        /\ Acquire(t, pending[t])
     \/ /\ pending[t] \notin Lock
        /\ P(t, pending[t])
        /\ holder' = holder

\* t is not inside any call: its code runs on from the last one.
Running(t) == status[t] = "READY" /\ pending[t] = NULL
=============================================================================
