---------------------------- MODULE SynchProofs ----------------------------
(***************************************************************************)
(* Proofs about threads/synch.cc for every number of threads, semaphores,  *)
(* locks and conditions: see SynchClient for the properties.               *)
(***************************************************************************)
EXTENDS SynchClient, SequenceTheorems, FiniteSetTheorems, TLAPS

\* What List::Remove and ReadyToRun do to a queue of threads and to the
\* statuses keeps both well typed.
LEMMA RestType ==
  ASSUME NEW q \in Seq(Thread)
  PROVE  Rest(q) \in Seq(Thread)
  BY DEF Rest

\* ReadyToRun of the first sleeper keeps the statuses typed.
LEMMA WakeType ==
  ASSUME NEW st \in [Thread -> {"READY", "BLOCKED"}], NEW q \in Seq(Thread)
  PROVE  Wake(st, q) \in [Thread -> {"READY", "BLOCKED"}]
  BY DEF Wake

\* P keeps the types, both when it sleeps and when it passes.
LEMMA PType ==
  ASSUME SynchTypeOK, NEW t \in Thread, NEW s \in Semaphore, P(t, s)
  PROVE  /\ status' \in [Thread -> {"READY", "BLOCKED"}]
         /\ value' \in [Semaphore -> Nat]
         /\ queue' \in [Semaphore -> Seq(Thread)]
         /\ waitCondQueue' \in [Condition -> Seq(Thread)]
         /\ condLock' \in [Condition -> Lock \cup {NULL}]
         /\ pending' \in [Thread -> Semaphore \cup {NULL}]
  <1>1. CASE value[s] = 0
    <2>1. Append(queue[s], t) \in Seq(Thread)
      BY DEF SynchTypeOK
    <2>2. /\ queue' = [queue EXCEPT ![s] = Append(queue[s], t)]
          /\ status' = [status EXCEPT ![t] = "BLOCKED"]
          /\ pending' = [pending EXCEPT ![t] = s]
          /\ UNCHANGED <<value, waitCondQueue, condLock>>
      BY <1>1 DEF P
    <2>3. queue' \in [Semaphore -> Seq(Thread)]
      BY <2>1, <2>2 DEF SynchTypeOK
    <2> QED
      BY <2>2, <2>3 DEF SynchTypeOK
  <1>2. CASE value[s] # 0
    <2>1. value[s] - 1 \in Nat
      BY <1>2 DEF SynchTypeOK
    <2> QED
      BY <1>2, <2>1 DEF SynchTypeOK, P
  <1> QED
    BY <1>1, <1>2

\* The type invariant of the semaphores, locks and conditions of synch.cc under
\* the most general client: in particular no value ever drops below 0.
THEOREM Typing == Spec => []TypeOK
<1>1. Init => TypeOK
  BY SynchAssumption, EmptySeq DEF Init, SynchInit, TypeOK, SynchTypeOK
<1>2. TypeOK /\ [Next]_vars => TypeOK'
  <2> SUFFICES ASSUME TypeOK, [Next]_vars PROVE TypeOK'
    OBVIOUS
  <2> USE SynchAssumption
  <2>1. ASSUME NEW s \in Plain, V(s), UNCHANGED held PROVE TypeOK'
    <3>1. s \in Semaphore /\ Rest(queue[s]) \in Seq(Thread) /\ value[s] + 1 \in Nat
      BY RestType DEF TypeOK, SynchTypeOK, Plain
    <3>2. status' \in [Thread -> {"READY", "BLOCKED"}]
      BY <2>1, <3>1, WakeType DEF TypeOK, SynchTypeOK, V
    <3> QED
      BY <2>1, <3>1, <3>2 DEF TypeOK, SynchTypeOK, V
  <2>2. ASSUME NEW t \in Thread, NEW s \in Plain, CallP(t, s) PROVE TypeOK'
    <3>1. s \in Semaphore /\ P(t, s) /\ SynchTypeOK
      BY <2>2 DEF CallP, Plain, TypeOK
    <3> QED
      BY <2>2, <3>1, PType DEF TypeOK, SynchTypeOK, CallP
  <2>3. ASSUME NEW t \in Thread, NEW l \in Lock, Acquire(t, l), Returned(t, l)
        PROVE  TypeOK'
    <3>1. l \in Semaphore /\ P(t, l) /\ SynchTypeOK
      BY <2>3 DEF Acquire, TypeOK
    <3>2. holder' \in [Lock -> Thread \cup {NULL}]
      BY <2>3 DEF Acquire, TypeOK, SynchTypeOK
    <3>3. held' \in [Thread -> SUBSET Lock]
      BY <2>3 DEF Returned, TypeOK
    <3> QED
      BY <3>1, <3>2, <3>3, PType DEF TypeOK, SynchTypeOK
  <2>4. ASSUME NEW t \in Thread, NEW l \in Lock, CallRelease(t, l) PROVE TypeOK'
    <3>1. l \in Semaphore /\ Rest(queue[l]) \in Seq(Thread) /\ value[l] + 1 \in Nat
      BY RestType DEF TypeOK, SynchTypeOK
    <3>2. status' \in [Thread -> {"READY", "BLOCKED"}]
      BY <2>4, <3>1, WakeType DEF TypeOK, SynchTypeOK, CallRelease, Release
    <3> QED
      BY <2>4, <3>1, <3>2 DEF TypeOK, SynchTypeOK, CallRelease, Release
  <2>5. ASSUME NEW t \in Thread, NEW c \in Condition, NEW l \in Lock, CallWait(t, c, l)
        PROVE  TypeOK'
    <3>1. Append(waitCondQueue[c], t) \in Seq(Thread)
      BY DEF TypeOK, SynchTypeOK
    <3>2. l \in Semaphore /\ Rest(queue[l]) \in Seq(Thread) /\ value[l] + 1 \in Nat
      BY RestType DEF TypeOK, SynchTypeOK
    <3>3. status' \in [Thread -> {"READY", "BLOCKED"}]
      BY <2>5, <3>2, WakeType DEF TypeOK, SynchTypeOK, CallWait, Wait
    <3> QED
      BY <2>5, <3>1, <3>2, <3>3 DEF TypeOK, SynchTypeOK, CallWait, Wait
  <2>6. ASSUME NEW t \in Thread, NEW c \in Condition, NEW l \in Lock, CallSignal(t, c, l)
        PROVE  TypeOK'
    BY <2>6, RestType, WakeType DEF TypeOK, SynchTypeOK, CallSignal, Signal
  <2>7. ASSUME NEW t \in Thread, NEW c \in Condition, NEW l \in Lock, CallBroadcast(t, c, l)
        PROVE  TypeOK'
    BY <2>7, EmptySeq DEF TypeOK, SynchTypeOK, CallBroadcast, Broadcast
  <2>8. ASSUME NEW t \in Thread, ResumeP(t) PROVE TypeOK'
    <3>1. /\ pending[t] \in Semaphore /\ P(t, pending[t]) /\ SynchTypeOK
          /\ holder' = holder
      BY <2>8 DEF ResumeP, Resume, Plain, TypeOK
    <3> QED
      BY <2>8, <3>1, PType DEF TypeOK, SynchTypeOK, ResumeP
  <2>9. ASSUME NEW t \in Thread, ResumeAcquire(t) PROVE TypeOK'
    <3>1. pending[t] \in Lock /\ Acquire(t, pending[t]) /\ Returned(t, pending[t])
      BY <2>9 DEF ResumeAcquire, Resume
    <3> QED
      BY <2>3, <3>1
  <2>10. CASE UNCHANGED vars
    BY <2>10 DEF TypeOK, SynchTypeOK, vars, synchVars
  <2> QED
    BY <2>1, <2>2, <2>3, <2>4, <2>5, <2>6, <2>7, <2>8, <2>9, <2>10
    DEF Next, HandlerV, CallV, CallAcquire
<1> QED
  BY <1>1, <1>2, PTL DEF Spec

\* Every step keeps holder, the private semaphore and the threads' own view of
\* who has the lock in agreement.  TypeOK' comes from Typing's step.
LEMMA MutexStep ==
  ASSUME TypeOK, TypeOK', HolderAgrees, LockInv, [Next]_vars
  PROVE  HolderAgrees' /\ LockInv'
<1> USE SynchAssumption
<1> USE DEF TypeOK, SynchTypeOK, HolderAgrees, LockInv
<1>1. ASSUME NEW s \in Plain, V(s), UNCHANGED held PROVE HolderAgrees' /\ LockInv'
  BY <1>1 DEF V, Plain
<1>2. ASSUME NEW t \in Thread, NEW s \in Plain, P(t, s), UNCHANGED <<holder, held>>
      PROVE  HolderAgrees' /\ LockInv'
  BY <1>2 DEF P, Plain
<1>3. ASSUME NEW t \in Thread, NEW l \in Lock, Acquire(t, l), Returned(t, l)
      PROVE  HolderAgrees' /\ LockInv'
  <2>1. CASE value[l] = 0
    BY <1>3, <2>1 DEF Acquire, P, Returned
  <2>2. CASE value[l] # 0
    <3>1. /\ holder[l] = NULL /\ holder' = [holder EXCEPT ![l] = t]
          /\ value' = [value EXCEPT ![l] = 0]
          /\ held' = [held EXCEPT ![t] = @ \cup {l}]
      BY <1>3, <2>2 DEF Acquire, P, Returned
    <3> QED
      BY <3>1
  <2> QED
    BY <2>1, <2>2
<1>4. ASSUME NEW t \in Thread, NEW l \in Lock, l \in held[t], holder[l] = t,
             holder' = [holder EXCEPT ![l] = NULL],
             value' = [value EXCEPT ![l] = @ + 1],
             held' = [held EXCEPT ![t] = @ \ {l}]
      PROVE  HolderAgrees' /\ LockInv'
  BY <1>4
<1>5. ASSUME UNCHANGED <<value, holder, held>> PROVE HolderAgrees' /\ LockInv'
  BY <1>5
<1>6. ASSUME NEW t \in Thread, ResumeP(t) PROVE HolderAgrees' /\ LockInv'
  BY <1>2, <1>6 DEF ResumeP, Resume, Plain
<1>7. ASSUME NEW t \in Thread, ResumeAcquire(t) PROVE HolderAgrees' /\ LockInv'
  BY <1>3, <1>7 DEF ResumeAcquire, Resume
<1>8. CASE UNCHANGED vars
  BY <1>5, <1>8 DEF vars, synchVars
<1>9. CASE \E s \in Plain : HandlerV(s)
  BY <1>1, <1>9 DEF HandlerV
<1>10. ASSUME NEW t \in Thread, NEW s \in Plain, CallP(t, s) \/ CallV(t, s)
       PROVE  HolderAgrees' /\ LockInv'
  BY <1>1, <1>2, <1>10 DEF CallP, CallV
<1>11. ASSUME NEW t \in Thread, NEW l \in Lock, CallAcquire(t, l) \/ CallRelease(t, l)
       PROVE  HolderAgrees' /\ LockInv'
  <2>1. CASE CallAcquire(t, l)
    BY <1>3, <2>1 DEF CallAcquire
  <2>2. CASE CallRelease(t, l)
    BY <1>4, <2>2 DEF CallRelease, Release
  <2> QED
    BY <1>11, <2>1, <2>2
<1>12. ASSUME NEW t \in Thread, NEW l \in Lock, NEW c \in Condition,
              CallWait(t, c, l) \/ CallSignal(t, c, l) \/ CallBroadcast(t, c, l)
       PROVE  HolderAgrees' /\ LockInv'
  <2>1. CASE CallWait(t, c, l)
    BY <1>4, <2>1 DEF CallWait, Wait
  <2>2. CASE CallSignal(t, c, l) \/ CallBroadcast(t, c, l)
    BY <1>5, <2>2 DEF CallSignal, CallBroadcast, Signal, Broadcast
  <2> QED
    BY <1>12, <2>1, <2>2
<1> QED
  BY <1>6, <1>7, <1>8, <1>9, <1>10, <1>11, <1>12 DEF Next

\* The holder field on which Release and Condition::Wait assert names the thread
\* that is between Acquire's return and its Release, for any number of threads.
THEOREM HolderCorrect == Spec => []HolderAgrees
<1>1. Init => HolderAgrees /\ LockInv
  BY SynchAssumption DEF Init, SynchInit, HolderAgrees, LockInv
<1> QED
  BY <1>1, Typing, MutexStep, PTL DEF Spec

\* At most one thread is between Acquire's return and its Release of a lock, for
\* any number of threads, locks and conditions.
THEOREM Mutex == Spec => []MutualExclusion
<1>1. TypeOK /\ HolderAgrees => MutualExclusion
  BY DEF HolderAgrees, MutualExclusion
<1> QED
  BY <1>1, Typing, HolderCorrect, PTL

-----------------------------------------------------------------------------
(* Queues and wake-ups *)

\* What the queues hold after List::Append and List::Remove.
LEMMA AppendQueue ==
  ASSUME NEW q \in Seq(Thread), NEW t \in Thread
  PROVE  /\ Range(Append(q, t)) = Range(q) \cup {t}
         /\ NoRepeats(q) /\ t \notin Range(q) => NoRepeats(Append(q, t))
<1> DEFINE a == Append(q, t)
<1>1. /\ DOMAIN q = 1 .. Len(q) /\ Len(q) \in Nat
      /\ DOMAIN a = 1 .. Len(q) + 1
      /\ \A i \in 1 .. Len(q) : a[i] = q[i]
      /\ a[Len(q) + 1] = t
  OBVIOUS
<1> HIDE DEF a
<1>2. \A i \in DOMAIN a : i \in DOMAIN q \/ i = Len(q) + 1
  BY <1>1
<1>3. Range(a) = Range(q) \cup {t}
  BY <1>1, <1>2 DEF Range
<1>4. ASSUME NoRepeats(q), t \notin Range(q) PROVE NoRepeats(a)
  BY <1>1, <1>2, <1>4 DEF Range, NoRepeats
<1> QED
  BY <1>3, <1>4 DEF a

\* Remove of a wait queue returns a sleeper and leaves the others, once each.
LEMMA RemoveQueue ==
  ASSUME NEW q \in Seq(Thread), NoRepeats(q)
  PROVE  /\ q # <<>> => /\ Head(q) \in Thread
                        /\ Head(q) \in Range(q)
                        /\ Range(Rest(q)) = Range(q) \ {Head(q)}
         /\ q = <<>> => Range(q) = {} /\ Rest(q) = <<>>
         /\ NoRepeats(Rest(q))
<1>1. CASE q = <<>>
  BY <1>1 DEF Range, NoRepeats, Rest
<1>2. CASE q # <<>>
  <2>1. /\ Head(q) = q[1] /\ 1 \in DOMAIN q /\ Len(Tail(q)) = Len(q) - 1
        /\ Tail(q) \in Seq(Thread) /\ Rest(q) = Tail(q)
        /\ \A i \in 1 .. Len(Tail(q)) : i + 1 \in DOMAIN q /\ Tail(q)[i] = q[i + 1]
        /\ \A i \in DOMAIN q : i # 1 => i - 1 \in 1 .. Len(Tail(q)) /\ Tail(q)[i - 1] = q[i]
    BY <1>2 DEF Rest
  <2>2. Range(Tail(q)) \subseteq Range(q) \ {Head(q)}
    BY <2>1 DEF Range, NoRepeats
  <2>3. Range(q) \ {Head(q)} \subseteq Range(Tail(q))
    BY <2>1 DEF Range
  <2>4. NoRepeats(Tail(q))
    <3> SUFFICES ASSUME NEW i \in 1 .. Len(Tail(q)), NEW j \in 1 .. Len(Tail(q)),
                        Tail(q)[i] = Tail(q)[j]
                 PROVE  i = j
      BY <2>1 DEF NoRepeats
    <3>1. i + 1 = j + 1
      BY <2>1 DEF NoRepeats
    <3> QED
      BY <3>1
  <2>5. Head(q) \in Thread /\ Head(q) \in Range(q)
    BY <2>1 DEF Range
  <2>6. Range(Rest(q)) = Range(q) \ {Head(q)}
    BY <2>1, <2>2, <2>3
  <2> QED
    BY <1>2, <2>1, <2>4, <2>5, <2>6
<1> QED
  BY <1>1, <1>2

\* A ready thread is on no queue, so putting it on one and marking it BLOCKED
\* keeps the queues disjoint.
LEMMA EnqueueKeeps ==
  ASSUME TypeOK, BlockedIffQueued, PendingAgrees,
         NEW t \in Thread, NEW s \in Semaphore, status[t] = "READY",
         queue' = [queue EXCEPT ![s] = Append(@, t)],
         status' = [status EXCEPT ![t] = "BLOCKED"],
         pending' = [pending EXCEPT ![t] = s],
         UNCHANGED waitCondQueue
  PROVE  BlockedIffQueued' /\ PendingAgrees'
<1>1. /\ \A r \in Semaphore : t \notin Range(queue[r])
      /\ \A c \in Condition : t \notin Range(waitCondQueue[c])
  BY DEF BlockedIffQueued, AsleepIffQueued, OnSemaphore, OnCondition
<1>2. /\ Range(queue'[s]) = Range(queue[s]) \cup {t} /\ NoRepeats(queue'[s])
      /\ \A r \in Semaphore : r # s => queue'[r] = queue[r]
  BY <1>1, AppendQueue DEF TypeOK, SynchTypeOK, BlockedIffQueued, OneQueue
<1>3. AsleepIffQueued'
  BY <1>1, <1>2 DEF TypeOK, SynchTypeOK, BlockedIffQueued, AsleepIffQueued, OnSemaphore, OnCondition
<1>4. OneQueue'
  BY <1>1, <1>2 DEF TypeOK, SynchTypeOK, BlockedIffQueued, OneQueue, OnSemaphore, OnCondition
<1>5. PendingAgrees'
  BY <1>1, <1>2 DEF TypeOK, SynchTypeOK, PendingAgrees, OnSemaphore
<1> QED
  BY <1>3, <1>4, <1>5 DEF BlockedIffQueued

\* V(): the head of a semaphore's queue leaves it and becomes ready.
LEMMA DequeueKeeps ==
  ASSUME TypeOK, BlockedIffQueued, PendingAgrees, NEW s \in Semaphore,
         queue' = [queue EXCEPT ![s] = Rest(@)],
         status' = Wake(status, queue[s]),
         UNCHANGED <<waitCondQueue, pending>>
  PROVE  BlockedIffQueued' /\ PendingAgrees'
<1>1. queue[s] \in Seq(Thread) /\ NoRepeats(queue[s])
  BY DEF TypeOK, SynchTypeOK, BlockedIffQueued, OneQueue
<1>2. CASE queue[s] = <<>>
  <2>1. queue' = queue /\ status' = status
    BY <1>2, RemoveQueue, <1>1 DEF Wake, TypeOK, SynchTypeOK
  <2> QED
    BY <2>1 DEF BlockedIffQueued, AsleepIffQueued, OneQueue, OnSemaphore, OnCondition, PendingAgrees
<1>3. CASE queue[s] # <<>>
  <2> DEFINE u == Head(queue[s])
  <2>1. /\ u \in Thread /\ u \in Range(queue[s])
        /\ Range(queue'[s]) = Range(queue[s]) \ {u} /\ NoRepeats(queue'[s])
        /\ \A r \in Semaphore : r # s => queue'[r] = queue[r]
        /\ status' = [status EXCEPT ![u] = "READY"]
    BY <1>1, <1>3, RemoveQueue DEF Wake, TypeOK, SynchTypeOK
  <2> HIDE DEF u
  <2>2. /\ \A r \in Semaphore : r # s => u \notin Range(queue[r])
        /\ \A c \in Condition : u \notin Range(waitCondQueue[c])
    BY <2>1 DEF BlockedIffQueued, OneQueue, OnSemaphore, OnCondition
  <2>3. AsleepIffQueued'
    <3> SUFFICES ASSUME NEW v \in Thread
                 PROVE  status'[v] = "BLOCKED" <=>
                          \/ \E r \in Semaphore : v \in Range(queue'[r])
                          \/ \E c \in Condition : v \in Range(waitCondQueue'[c])
      BY DEF AsleepIffQueued, OnSemaphore, OnCondition
    <3>1. CASE v = u
      BY <2>1, <2>2, <3>1 DEF TypeOK, SynchTypeOK
    <3>2. CASE v # u
      <4>1. \A r \in Semaphore : v \in Range(queue'[r]) <=> v \in Range(queue[r])
        BY <2>1, <3>2
      <4> QED
        BY <2>1, <3>2, <4>1
        DEF TypeOK, SynchTypeOK, BlockedIffQueued, AsleepIffQueued, OnSemaphore, OnCondition
    <3> QED
      BY <3>1, <3>2
  <2>4. OneQueue'
    BY <2>1, <2>2 DEF TypeOK, SynchTypeOK, BlockedIffQueued, OneQueue, OnSemaphore, OnCondition
  <2>5. PendingAgrees'
    BY <2>1, <2>2 DEF TypeOK, SynchTypeOK, PendingAgrees, OnSemaphore
  <2> QED
    BY <2>3, <2>4, <2>5 DEF BlockedIffQueued
<1> QED
  BY <1>2, <1>3

\* Signal(): the head of a condition's queue leaves it and becomes ready.
LEMMA SignalKeeps ==
  ASSUME TypeOK, BlockedIffQueued, PendingAgrees, NEW c \in Condition,
         waitCondQueue' = [waitCondQueue EXCEPT ![c] = Rest(@)],
         status' = Wake(status, waitCondQueue[c]),
         UNCHANGED <<queue, pending>>
  PROVE  BlockedIffQueued' /\ PendingAgrees'
<1>1. waitCondQueue[c] \in Seq(Thread) /\ NoRepeats(waitCondQueue[c])
  BY DEF TypeOK, SynchTypeOK, BlockedIffQueued, OneQueue
<1>2. CASE waitCondQueue[c] = <<>>
  <2>1. waitCondQueue' = waitCondQueue /\ status' = status
    BY <1>2, RemoveQueue, <1>1 DEF Wake, TypeOK, SynchTypeOK
  <2> QED
    BY <2>1 DEF BlockedIffQueued, AsleepIffQueued, OneQueue, OnSemaphore, OnCondition, PendingAgrees
<1>3. CASE waitCondQueue[c] # <<>>
  <2> DEFINE u == Head(waitCondQueue[c])
  <2>1. /\ u \in Thread /\ u \in Range(waitCondQueue[c])
        /\ Range(waitCondQueue'[c]) = Range(waitCondQueue[c]) \ {u}
        /\ NoRepeats(waitCondQueue'[c])
        /\ \A d \in Condition : d # c => waitCondQueue'[d] = waitCondQueue[d]
        /\ status' = [status EXCEPT ![u] = "READY"]
    BY <1>1, <1>3, RemoveQueue DEF Wake, TypeOK, SynchTypeOK
  <2> HIDE DEF u
  <2>2. /\ \A r \in Semaphore : u \notin Range(queue[r])
        /\ \A d \in Condition : d # c => u \notin Range(waitCondQueue[d])
    BY <2>1 DEF BlockedIffQueued, OneQueue, OnSemaphore, OnCondition
  <2>3. AsleepIffQueued'
    <3> SUFFICES ASSUME NEW v \in Thread
                 PROVE  status'[v] = "BLOCKED" <=>
                          \/ \E r \in Semaphore : v \in Range(queue'[r])
                          \/ \E d \in Condition : v \in Range(waitCondQueue'[d])
      BY DEF AsleepIffQueued, OnSemaphore, OnCondition
    <3>1. CASE v = u
      BY <2>1, <2>2, <3>1 DEF TypeOK, SynchTypeOK
    <3>2. CASE v # u
      <4>1. \A d \in Condition : v \in Range(waitCondQueue'[d]) <=> v \in Range(waitCondQueue[d])
        BY <2>1, <3>2
      <4>2. status'[v] = status[v] /\ queue' = queue
        BY <2>1, <3>2 DEF TypeOK, SynchTypeOK
      <4> QED
        BY <4>1, <4>2 DEF BlockedIffQueued, AsleepIffQueued, OnSemaphore, OnCondition
    <3> QED
      BY <3>1, <3>2
  <2>4. OneQueue'
    BY <2>1, <2>2 DEF TypeOK, SynchTypeOK, BlockedIffQueued, OneQueue, OnSemaphore, OnCondition
  <2>5. PendingAgrees'
    BY DEF PendingAgrees, OnSemaphore
  <2> QED
    BY <2>3, <2>4, <2>5 DEF BlockedIffQueued
<1> QED
  BY <1>2, <1>3

\* Broadcast(): a condition's queue is emptied and its threads become ready.
LEMMA BroadcastKeeps ==
  ASSUME TypeOK, BlockedIffQueued, PendingAgrees, NEW c \in Condition,
         waitCondQueue' = [waitCondQueue EXCEPT ![c] = <<>>],
         status' = [u \in Thread |->
                      IF u \in Range(waitCondQueue[c]) THEN "READY" ELSE status[u]],
         UNCHANGED <<queue, pending>>
  PROVE  BlockedIffQueued' /\ PendingAgrees'
<1>1. /\ Range(waitCondQueue'[c]) = {} /\ NoRepeats(waitCondQueue'[c])
      /\ \A d \in Condition : d # c => waitCondQueue'[d] = waitCondQueue[d]
  BY DEF Range, NoRepeats, TypeOK, SynchTypeOK
<1>2. AsleepIffQueued'
  <2> SUFFICES ASSUME NEW v \in Thread
               PROVE  status'[v] = "BLOCKED" <=>
                        \/ \E r \in Semaphore : v \in Range(queue'[r])
                        \/ \E d \in Condition : v \in Range(waitCondQueue'[d])
    BY DEF AsleepIffQueued, OnSemaphore, OnCondition
  <2>1. CASE v \in Range(waitCondQueue[c])
    BY <1>1, <2>1 DEF BlockedIffQueued, OneQueue, OnSemaphore, OnCondition
  <2>2. CASE v \notin Range(waitCondQueue[c])
    BY <1>1, <2>2 DEF BlockedIffQueued, AsleepIffQueued, OnSemaphore, OnCondition
  <2> QED
    BY <2>1, <2>2
<1>3. OneQueue'
  BY <1>1 DEF BlockedIffQueued, OneQueue, OnSemaphore, OnCondition
<1> QED
  BY <1>2, <1>3 DEF BlockedIffQueued, PendingAgrees, OnSemaphore

\* Wait(): the caller goes to sleep on the condition, and the Release inside
\* takes the head off the lock's queue, in one step.
LEMMA WaitKeeps ==
  ASSUME TypeOK, BlockedIffQueued, PendingAgrees,
         NEW t \in Thread, NEW c \in Condition, NEW l \in Semaphore, status[t] = "READY",
         waitCondQueue' = [waitCondQueue EXCEPT ![c] = Append(@, t)],
         queue' = [queue EXCEPT ![l] = Rest(@)],
         status' = [Wake(status, queue[l]) EXCEPT ![t] = "BLOCKED"],
         pending' = [pending EXCEPT ![t] = l]
  PROVE  BlockedIffQueued' /\ PendingAgrees'
<1> DEFINE W == IF queue[l] = <<>> THEN {} ELSE {Head(queue[l])}
<1>1. /\ \A r \in Semaphore : t \notin Range(queue[r])
      /\ \A d \in Condition : t \notin Range(waitCondQueue[d])
  BY DEF BlockedIffQueued, AsleepIffQueued, OnSemaphore, OnCondition
<1>2. queue[l] \in Seq(Thread) /\ NoRepeats(queue[l])
  BY DEF TypeOK, SynchTypeOK, BlockedIffQueued, OneQueue
<1>3. /\ W \subseteq Thread /\ W \subseteq Range(queue[l])
      /\ Range(queue'[l]) = Range(queue[l]) \ W /\ NoRepeats(queue'[l])
      /\ \A r \in Semaphore : r # l => queue'[r] = queue[r]
  BY <1>2, RemoveQueue DEF TypeOK, SynchTypeOK
<1>4. /\ Range(waitCondQueue'[c]) = Range(waitCondQueue[c]) \cup {t}
      /\ NoRepeats(waitCondQueue'[c])
      /\ \A d \in Condition : d # c => waitCondQueue'[d] = waitCondQueue[d]
  BY <1>1, AppendQueue DEF TypeOK, SynchTypeOK, BlockedIffQueued, OneQueue
<1>5. \A v \in Thread : status'[v] = IF v = t THEN "BLOCKED" ELSE IF v \in W THEN "READY" ELSE status[v]
  BY <1>2, <1>3 DEF Wake, TypeOK, SynchTypeOK
<1> HIDE DEF W
<1>6. /\ \A r \in Semaphore : r # l => W \cap Range(queue[r]) = {}
      /\ \A d \in Condition : W \cap Range(waitCondQueue[d]) = {}
      /\ t \notin W
  BY <1>1, <1>3 DEF BlockedIffQueued, OneQueue, OnSemaphore, OnCondition
<1>7. \A r \in Semaphore : Range(queue'[r]) = Range(queue[r]) \ W
  BY <1>3, <1>6
<1>8. AsleepIffQueued'
  <2> SUFFICES ASSUME NEW v \in Thread
               PROVE  status'[v] = "BLOCKED" <=>
                        \/ \E r \in Semaphore : v \in Range(queue'[r])
                        \/ \E d \in Condition : v \in Range(waitCondQueue'[d])
    BY DEF AsleepIffQueued, OnSemaphore, OnCondition
  <2>1. CASE v = t
    BY <1>4, <1>5, <2>1
  <2>2. CASE v \in W
    BY <1>4, <1>5, <1>6, <1>7, <2>2
  <2>3. CASE v # t /\ v \notin W
    <3>1. /\ \A r \in Semaphore : v \in Range(queue'[r]) <=> v \in Range(queue[r])
          /\ \A d \in Condition : v \in Range(waitCondQueue'[d]) <=> v \in Range(waitCondQueue[d])
          /\ status'[v] = status[v]
      BY <1>4, <1>5, <1>7, <2>3
    <3> QED
      BY <3>1 DEF BlockedIffQueued, AsleepIffQueued, OnSemaphore, OnCondition
  <2> QED
    BY <2>1, <2>2, <2>3
<1>9. OneQueue'
  BY <1>1, <1>3, <1>4, <1>7 DEF BlockedIffQueued, OneQueue, OnSemaphore, OnCondition
<1>10. PendingAgrees'
  BY <1>1, <1>7 DEF PendingAgrees, OnSemaphore, TypeOK, SynchTypeOK
<1> QED
  BY <1>8, <1>9, <1>10 DEF BlockedIffQueued

\* A step that only takes a unit of a semaphore, or touches no queue.
LEMMA NoQueueKeeps ==
  ASSUME TypeOK, BlockedIffQueued, PendingAgrees,
         UNCHANGED <<queue, waitCondQueue, status>>,
         \/ UNCHANGED pending
         \/ \E t \in Thread : status[t] = "READY" /\ pending' = [pending EXCEPT ![t] = NULL]
  PROVE  BlockedIffQueued' /\ PendingAgrees'
<1>1. BlockedIffQueued'
  BY DEF BlockedIffQueued, AsleepIffQueued, OneQueue, OnSemaphore, OnCondition
<1>2. \A t \in Thread, s \in Semaphore : status[t] = "READY" => t \notin Range(queue[s])
  BY DEF BlockedIffQueued, AsleepIffQueued, OnSemaphore
<1>3. PendingAgrees'
  BY <1>2 DEF PendingAgrees, OnSemaphore, TypeOK, SynchTypeOK
<1> QED
  BY <1>1, <1>3

-----------------------------------------------------------------------------
(* No lost wake-up *)

\* V(), alone or inside Release or Wait: the value grows by one, and so does
\* the set of woken threads if somebody remains asleep on the queue.
LEMMA WakeOne ==
  ASSUME QueueInv, NEW s \in Semaphore,
         queue' = [queue EXCEPT ![s] = Rest(@)],
         value' = [value EXCEPT ![s] = @ + 1],
         queue[s] # <<>> => /\ status'[Head(queue[s])] = "READY"
                            /\ pending'[Head(queue[s])] = pending[Head(queue[s])],
         \A v \in Thread : status[v] = "READY" /\ pending[v] # NULL
                            => status'[v] = "READY" /\ pending'[v] = pending[v]
  PROVE  NoLostWakeup'
<1> SUFFICES ASSUME NEW r \in Semaphore, queue'[r] # <<>>
             PROVE  value'[r] <= Cardinality(Woken(r)')
  BY DEF NoLostWakeup
<1>1. /\ IsFiniteSet(Woken(r)') /\ Cardinality(Woken(r)') \in Nat
      /\ IsFiniteSet(Woken(r)) /\ Cardinality(Woken(r)) \in Nat
  BY SynchAssumption, FS_Subset, FS_CardinalityType DEF Woken
<1>2. Woken(r) \subseteq Woken(r)'
  BY SynchAssumption DEF Woken
<1>3. Cardinality(Woken(r)) <= Cardinality(Woken(r)')
  BY <1>1, <1>2, FS_Subset
<1>4. CASE r # s
  <2>1. queue'[r] = queue[r] /\ value'[r] = value[r] /\ value[r] \in Nat
    BY <1>4 DEF QueueInv, TypeOK, SynchTypeOK
  <2>2. value[r] <= Cardinality(Woken(r))
    BY <2>1 DEF QueueInv, NoLostWakeup
  <2> QED
    BY <1>1, <1>3, <2>1, <2>2
<1>5. CASE r = s
  <2> DEFINE u == Head(queue[s])
  <2>1. queue[s] \in Seq(Thread) /\ NoRepeats(queue[s])
    BY DEF QueueInv, TypeOK, SynchTypeOK, BlockedIffQueued, OneQueue
  <2>2. queue[s] # <<>> /\ u \in Thread /\ u \in Range(queue[s])
    BY <1>5, <2>1, RemoveQueue DEF QueueInv, TypeOK, SynchTypeOK
  <2>3. status[u] = "BLOCKED" /\ pending[u] = s
    BY <2>2 DEF QueueInv, BlockedIffQueued, AsleepIffQueued, PendingAgrees, OnSemaphore
  <2>4. u \in Woken(s)' /\ u \notin Woken(s)
    BY <2>2, <2>3 DEF Woken
  <2> HIDE DEF u
  <2>5. Woken(s) \cup {u} \subseteq Woken(s)'
    BY <1>2, <1>5, <2>4
  <2>6. Cardinality(Woken(s) \cup {u}) = Cardinality(Woken(s)) + 1
    BY <1>1, <1>5, <2>4, FS_AddElement
  <2>7. Cardinality(Woken(s)) + 1 <= Cardinality(Woken(s)')
    BY <1>1, <1>5, <2>5, <2>6, FS_Subset
  <2>8. value[s] <= Cardinality(Woken(s)) /\ value[s] \in Nat
    BY <2>2 DEF QueueInv, NoLostWakeup, TypeOK, SynchTypeOK
  <2>9. value'[s] = value[s] + 1
    BY DEF QueueInv, TypeOK, SynchTypeOK
  <2> QED
    BY <1>1, <1>5, <2>7, <2>8, <2>9
<1> QED
  BY <1>4, <1>5

\* Signal and Broadcast touch no semaphore and only make threads ready.
LEMMA WakeMore ==
  ASSUME QueueInv, UNCHANGED <<value, queue, pending>>,
         \A v \in Thread : status[v] = "READY" => status'[v] = "READY"
  PROVE  NoLostWakeup'
<1> SUFFICES ASSUME NEW r \in Semaphore, queue'[r] # <<>>
             PROVE  value'[r] <= Cardinality(Woken(r)')
  BY DEF NoLostWakeup
<1>1. /\ IsFiniteSet(Woken(r)') /\ Cardinality(Woken(r)') \in Nat
      /\ Cardinality(Woken(r)) \in Nat
  BY SynchAssumption, FS_Subset, FS_CardinalityType DEF Woken
<1>2. Woken(r) \subseteq Woken(r)'
  BY DEF Woken
<1>3. Cardinality(Woken(r)) <= Cardinality(Woken(r)')
  BY <1>1, <1>2, FS_Subset
<1>4. value[r] <= Cardinality(Woken(r)) /\ value[r] \in Nat
  BY DEF QueueInv, NoLostWakeup, TypeOK, SynchTypeOK
<1> QED
  BY <1>1, <1>3, <1>4

\* P(): a thread that sleeps finds the value 0; one that takes a unit removes at
\* most itself from the woken threads of that semaphore.
LEMMA PWakeup ==
  ASSUME QueueInv, NEW t \in Thread, NEW s \in Semaphore, P(t, s),
         pending[t] = NULL \/ pending[t] = s
  PROVE  NoLostWakeup'
<1> SUFFICES ASSUME NEW r \in Semaphore, queue'[r] # <<>>
             PROVE  value'[r] <= Cardinality(Woken(r)')
  BY DEF NoLostWakeup
<1> USE SynchAssumption
<1>1. /\ IsFiniteSet(Woken(r)') /\ Cardinality(Woken(r)') \in Nat
      /\ IsFiniteSet(Woken(r)) /\ Cardinality(Woken(r)) \in Nat
  BY FS_Subset, FS_CardinalityType DEF Woken
<1>2. CASE r # s
  <2>1. Woken(r) = Woken(r)' /\ value'[r] = value[r] /\ queue'[r] = queue[r]
    BY <1>2 DEF Woken, P, QueueInv, TypeOK, SynchTypeOK
  <2> QED
    BY <2>1 DEF QueueInv, NoLostWakeup
<1>3. CASE r = s /\ value[s] = 0
  BY <1>1, <1>3 DEF P
<1>4. CASE r = s /\ value[s] # 0
  <2>1. /\ value[s] \in Nat /\ value'[s] = value[s] - 1 /\ queue'[s] = queue[s]
        /\ Woken(s) \ {t} \subseteq Woken(s)'
    BY <1>4 DEF Woken, P, QueueInv, TypeOK, SynchTypeOK
  <2>2. value[s] <= Cardinality(Woken(s))
    BY <1>4, <2>1 DEF QueueInv, NoLostWakeup
  <2>3. Cardinality(Woken(s) \ {t}) <= Cardinality(Woken(s)')
    BY <1>1, <1>4, <2>1, FS_Subset
  <2> DEFINE W == Woken(s)
  <2>w. IsFiniteSet(W) /\ Cardinality(W) \in Nat
    BY <1>1, <1>4
  <2> HIDE DEF W
  <2>r. /\ Cardinality(W \ {t}) = IF t \in W THEN Cardinality(W) - 1 ELSE Cardinality(W)
        /\ IsFiniteSet(W \ {t})
    BY <2>w, FS_RemoveElement
  <2>4. Cardinality(W) - 1 <= Cardinality(W \ {t})
    BY <2>w, <2>r
  <2>5. Cardinality(W \ {t}) \in Nat
    BY <2>r, FS_CardinalityType
  <2> USE DEF W
  <2> QED
    BY <1>1, <1>4, <2>1, <2>2, <2>3, <2>4, <2>5
<1> QED
  BY <1>2, <1>3, <1>4

\* One step of any thread or handler preserves the queue invariant.
LEMMA QueueStep ==
  ASSUME QueueInv, TypeOK', [Next]_vars
  PROVE  QueueInv'
<1> DEFINE Keeps == BlockedIffQueued' /\ PendingAgrees' /\ NoLostWakeup'
<1> SUFFICES Keeps
  BY DEF QueueInv
<1> USE SynchAssumption
<1>0. TypeOK /\ BlockedIffQueued /\ PendingAgrees
  BY DEF QueueInv
<1>1. ASSUME NEW s \in Semaphore, V(s) PROVE Keeps
  <2>1. BlockedIffQueued' /\ PendingAgrees'
    BY <1>0, <1>1, DequeueKeeps DEF V
  <2>2. queue[s] # <<>> => Head(queue[s]) \in Thread
    BY <1>0 DEF TypeOK, SynchTypeOK
  <2>3. NoLostWakeup'
    BY <1>0, <1>1, <2>2, WakeOne DEF V, Wake, TypeOK, SynchTypeOK
  <2> QED
    BY <2>1, <2>3
<1>2. ASSUME NEW t \in Thread, NEW s \in Semaphore, P(t, s),
             pending[t] = NULL \/ pending[t] = s
      PROVE  Keeps
  <2>1. NoLostWakeup'
    BY <1>2, PWakeup
  <2>2. CASE value[s] = 0
    BY <1>0, <1>2, <2>1, <2>2, EnqueueKeeps DEF P
  <2>3. CASE value[s] # 0
    BY <1>0, <1>2, <2>1, <2>3, NoQueueKeeps DEF P
  <2> QED
    BY <2>2, <2>3
<1>3. ASSUME NEW t \in Thread, NEW l \in Lock, CallRelease(t, l) PROVE Keeps
  <2>1. BlockedIffQueued' /\ PendingAgrees'
    BY <1>0, <1>3, DequeueKeeps DEF CallRelease, Release
  <2>2. queue[l] # <<>> => Head(queue[l]) \in Thread
    BY <1>0 DEF TypeOK, SynchTypeOK
  <2>3. NoLostWakeup'
    BY <1>0, <1>3, <2>2, WakeOne DEF CallRelease, Release, Wake, TypeOK, SynchTypeOK
  <2> QED
    BY <2>1, <2>3
<1>4. ASSUME NEW t \in Thread, NEW c \in Condition, NEW l \in Lock, CallWait(t, c, l)
      PROVE  Keeps
  <2>1. /\ status[t] = "READY" /\ pending[t] = NULL /\ l \in Semaphore
        /\ waitCondQueue' = [waitCondQueue EXCEPT ![c] = Append(@, t)]
        /\ queue' = [queue EXCEPT ![l] = Rest(@)]
        /\ value' = [value EXCEPT ![l] = @ + 1]
        /\ status' = [Wake(status, queue[l]) EXCEPT ![t] = "BLOCKED"]
        /\ pending' = [pending EXCEPT ![t] = l]
    BY <1>4 DEF CallWait, Wait, Running
  <2>2. BlockedIffQueued' /\ PendingAgrees'
    BY <1>0, <2>1, WaitKeeps
  <2>3. queue[l] # <<>> => Head(queue[l]) \in Thread /\ Head(queue[l]) # t
    <3>1. queue[l] \in Seq(Thread) /\ NoRepeats(queue[l])
      BY <1>0, <2>1 DEF TypeOK, SynchTypeOK, BlockedIffQueued, OneQueue
    <3> QED
      BY <1>0, <2>1, <3>1, RemoveQueue
      DEF BlockedIffQueued, AsleepIffQueued, OnSemaphore
  <2>4. NoLostWakeup'
    BY <1>0, <2>1, <2>3, WakeOne DEF Wake, TypeOK, SynchTypeOK
  <2> QED
    BY <2>2, <2>4
<1>5. ASSUME NEW t \in Thread, NEW c \in Condition, NEW l \in Lock, CallSignal(t, c, l)
      PROVE  Keeps
  <2>1. BlockedIffQueued' /\ PendingAgrees'
    BY <1>0, <1>5, SignalKeeps DEF CallSignal, Signal
  <2>2. waitCondQueue[c] # <<>> => Head(waitCondQueue[c]) \in Thread
    BY <1>0 DEF TypeOK, SynchTypeOK
  <2>3. NoLostWakeup'
    BY <1>0, <1>5, <2>2, WakeMore DEF CallSignal, Signal, Wake, TypeOK, SynchTypeOK
  <2> QED
    BY <2>1, <2>3
<1>6. ASSUME NEW t \in Thread, NEW c \in Condition, NEW l \in Lock, CallBroadcast(t, c, l)
      PROVE  Keeps
  <2>1. BlockedIffQueued' /\ PendingAgrees'
    BY <1>0, <1>6, BroadcastKeeps DEF CallBroadcast, Broadcast
  <2>2. NoLostWakeup'
    BY <1>0, <1>6, WakeMore DEF CallBroadcast, Broadcast, TypeOK, SynchTypeOK
  <2> QED
    BY <2>1, <2>2
<1>7. ASSUME NEW t \in Thread, Resume(t) PROVE Keeps
  <2>1. pending[t] \in Semaphore
    BY <1>0, <1>7 DEF Resume, TypeOK, SynchTypeOK
  <2> QED
    BY <1>2, <1>7, <2>1 DEF Resume, Acquire
<1>8. CASE UNCHANGED vars
  BY <1>8 DEF vars, synchVars, QueueInv, BlockedIffQueued, AsleepIffQueued, OneQueue,
              PendingAgrees, NoLostWakeup, Woken, OnSemaphore, OnCondition
<1>9. CASE Next
  <2>1. ASSUME NEW s \in Plain, HandlerV(s) PROVE Keeps
    BY <1>1, <2>1 DEF HandlerV, Plain
  <2>2. ASSUME NEW t \in Thread, NEW s \in Plain, CallP(t, s) \/ CallV(t, s) PROVE Keeps
    BY <1>1, <1>2, <2>2 DEF CallP, CallV, Plain, Running
  <2>3. ASSUME NEW t \in Thread, NEW l \in Lock, CallAcquire(t, l) PROVE Keeps
    BY <1>2, <2>3 DEF CallAcquire, Acquire, Running
  <2>4. ASSUME NEW t \in Thread, ResumeP(t) \/ ResumeAcquire(t) PROVE Keeps
    BY <1>7, <2>4 DEF ResumeP, ResumeAcquire
  <2> QED
    BY <1>3, <1>4, <1>5, <1>6, <1>9, <2>1, <2>2, <2>3, <2>4 DEF Next
<1> QED
  BY <1>8, <1>9

\* QueueInv holds in every reachable state.
LEMMA QueueInvariance == Spec => []QueueInv
<1>1. Init => BlockedIffQueued /\ PendingAgrees /\ NoLostWakeup
  BY DEF Init, SynchInit, BlockedIffQueued, AsleepIffQueued, OneQueue, OnSemaphore,
         OnCondition, NoRepeats, PendingAgrees, NoLostWakeup, Range
<1>2. TypeOK /\ BlockedIffQueued /\ PendingAgrees /\ NoLostWakeup <=> QueueInv
  BY DEF QueueInv
<1> QED
  BY <1>1, <1>2, Typing, QueueStep, PTL DEF Spec

\* Semaphore::P, Condition::Wait and the wake-ups keep "asleep" and "on exactly
\* one wait queue" the same thing, for every program using synch.cc.
THEOREM QueuesExact == Spec => []BlockedIffQueued
<1>1. QueueInv => BlockedIffQueued
  BY DEF QueueInv
<1> QED
  BY <1>1, QueueInvariance, PTL

\* No V() is lost to a thread asleep in P() or Acquire(), whatever barges in.
THEOREM WakeupsSuffice == Spec => []NoLostWakeup
<1>1. QueueInv => NoLostWakeup
  BY DEF QueueInv
<1> QED
  BY <1>1, QueueInvariance, PTL
=============================================================================
