---------------------------- MODULE SynchClient ----------------------------
(***************************************************************************)
(* The most general client of threads/synch.cc: any number of threads      *)
(* calling P, V, Acquire, Release, Wait, Signal and Broadcast in any order *)
(* the ASSERTs of synch.cc allow, and interrupt handlers calling V.  What  *)
(* holds here holds for every program that uses these primitives.          *)
(*                                                                         *)
(* held[t] is the client's own view: the locks whose Acquire (or Wait)     *)
(* has returned to t and that t has not given back since.  It is updated   *)
(* from the returns of the calls, never from the lock's "holder".          *)
(***************************************************************************)
EXTENDS Synch

CONSTANT MaxValue           \* bound: no V() beyond this semaphore value

ASSUME MaxValueAssumption == MaxValue \in Nat

VARIABLE held

vars == <<synchVars, held>>

Plain == Semaphore \ Lock   \* a lock's semaphore is private to the lock

Init == SynchInit /\ held = [t \in Thread |-> {}]

\* The call that has just returned to t, if any, gave it lock l.
Returned(t, l) ==
  held' = IF pending'[t] = NULL THEN [held EXCEPT ![t] = @ \cup {l}] ELSE held

CallP(t, s) == Running(t) /\ P(t, s) /\ UNCHANGED <<holder, held>>

CallV(t, s) == Running(t) /\ value[s] < MaxValue /\ V(s) /\ UNCHANGED held

\* V() from a device's interrupt handler, on no thread's behalf.
HandlerV(s) == value[s] < MaxValue /\ V(s) /\ UNCHANGED held

CallAcquire(t, l) ==
  Running(t) /\ l \notin held[t] /\ Acquire(t, l) /\ Returned(t, l)

CallRelease(t, l) ==
  /\ Running(t) /\ l \in held[t] /\ Release(t, l)
  /\ held' = [held EXCEPT ![t] = @ \ {l}]

CallWait(t, c, l) ==
  /\ Running(t) /\ l \in held[t] /\ Wait(t, c, l)
  /\ held' = [held EXCEPT ![t] = @ \ {l}]

CallSignal(t, c, l) ==
  Running(t) /\ l \in held[t] /\ Signal(t, c, l) /\ UNCHANGED held

CallBroadcast(t, c, l) ==
  Running(t) /\ l \in held[t] /\ Broadcast(t, c, l) /\ UNCHANGED held

ResumeP(t) == pending[t] \in Plain /\ Resume(t) /\ UNCHANGED held

ResumeAcquire(t) ==
  pending[t] \in Lock /\ Resume(t) /\ Returned(t, pending[t])

Next ==
  \/ \E s \in Plain : HandlerV(s)
  \/ \E t \in Thread :
       \/ \E s \in Plain : CallP(t, s) \/ CallV(t, s)
       \/ \E l \in Lock :
            \/ CallAcquire(t, l) \/ CallRelease(t, l)
            \/ \E c \in Condition :
                 CallWait(t, c, l) \/ CallSignal(t, c, l) \/ CallBroadcast(t, c, l)
       \/ ResumeP(t) \/ ResumeAcquire(t)

Spec == Init /\ [][Next]_vars

-----------------------------------------------------------------------------
(* Properties *)

TypeOK == SynchTypeOK /\ held \in [Thread -> SUBSET Lock]

\* "Only the thread that acquired the lock may release it": no two threads are
\* ever between the return of Lock::Acquire (or Condition::Wait) and their
\* Release of the same lock, although a woken waiter competes with barging
\* threads for it.
MutualExclusion ==
  \A t, u \in Thread : \A l \in Lock :
    l \in held[t] /\ l \in held[u] => t = u

\* The lock's holder is the thread that believes it holds the lock, so that the
\* ASSERTs of Release, Wait, Signal and Broadcast can never fail for it.
HolderAgrees ==
  \A t \in Thread : \A l \in Lock : l \in held[t] <=> holder[l] = t

\* A lock's private semaphore is 1 when the lock has no holder and 0 when it has
\* one: Acquire and Release keep "locked" and "holder" in step.
LockInv ==
  \A l \in Lock : value[l] = IF holder[l] = NULL THEN 1 ELSE 0

\* The inductive strengthening of MutualExclusion.
MutexInv == TypeOK /\ HolderAgrees /\ LockInv

\* Occurrences of t on the queue of a semaphore or of a condition.
OnSemaphore(t, s) == t \in Range(queue[s])
OnCondition(t, c) == t \in Range(waitCondQueue[c])

NoRepeats(q) == \A i, j \in DOMAIN q : q[i] = q[j] => i = j

\* A thread is asleep exactly when it is on a queue somebody will take it from.
AsleepIffQueued ==
  \A t \in Thread :
    status[t] = "BLOCKED" <=>
      \/ \E s \in Semaphore : OnSemaphore(t, s)
      \/ \E c \in Condition : OnCondition(t, c)

\* It is on one queue only, and once.
OneQueue ==
  /\ \A t \in Thread, s, r \in Semaphore :
       OnSemaphore(t, s) /\ OnSemaphore(t, r) => s = r
  /\ \A t \in Thread, c, d \in Condition :
       OnCondition(t, c) /\ OnCondition(t, d) => c = d
  /\ \A t \in Thread, s \in Semaphore, c \in Condition :
       ~ (OnSemaphore(t, s) /\ OnCondition(t, c))
  /\ \A s \in Semaphore : NoRepeats(queue[s])
  /\ \A c \in Condition : NoRepeats(waitCondQueue[c])

\* Wait() leaves no gap between releasing the lock and blocking, and no wake-up
\* makes a thread ready that is ready already: the scheduler's list would then
\* hold it twice.
BlockedIffQueued == AsleepIffQueued /\ OneQueue

\* A thread on a semaphore's queue is in the P() of that semaphore.
PendingAgrees ==
  \A t \in Thread, s \in Semaphore : OnSemaphore(t, s) => pending[t] = s

\* No lost wake-up: V() makes the head of the queue ready and also raises the
\* value, which a third thread may take first.  While threads sleep on a
\* semaphore, every unit of its value has a woken thread of its own on the way.
Woken(s) == {t \in Thread : status[t] = "READY" /\ pending[t] = s}

NoLostWakeup ==
  \A s \in Semaphore :
    queue[s] # <<>> => value[s] <= Cardinality(Woken(s))

\* The inductive strengthening of BlockedIffQueued and NoLostWakeup.
QueueInv == TypeOK /\ BlockedIffQueued /\ PendingAgrees /\ NoLostWakeup
=============================================================================
