-------------------------- MODULE SynchTestsProofs --------------------------
(***************************************************************************)
(* Proofs about the monitors of threads/synch.cc and threads/synchlist.cc  *)
(* and the tests that use them, for every number of threads and rounds.    *)
(***************************************************************************)
EXTENDS SynchTests, ListTheorems

-----------------------------------------------------------------------------
(* RWLock *)

RWThread == Reader \cup Writer

\* The library's operators are the same ones inside RWLock.
LEMMA RWLibrary ==
  /\ \A S : RW!Cardinality(S) = Cardinality(S)
  /\ \A f : RW!Range(f) = Range(f)
  BY Zenon DEF RW!Cardinality, Cardinality, RW!Range, Range

RWCondition == {conReader, conWriter}

RWQueues == QueuesOK(RWThread, {mutex}, RWCondition, status, queue, waitCondQueue)

RWType ==
  /\ RWQueues
  /\ pending \in [RWThread -> {mutex, NULL}]
  /\ pc \in [RWThread -> {"idle", "enter", "wait", "inside", "unlock", "leave"}]

\* Readers wait on conReader and writers on conWriter, in their Wait().
RWWaiters ==
  /\ \A t \in Range(waitCondQueue[conReader]) : t \in Reader /\ pc[t] = "wait"
  /\ \A t \in Range(waitCondQueue[conWriter]) : t \in Writer /\ pc[t] = "wait"

\* A writer inside is alone.
RWAlone == \A t \in RW!Inside \cap Writer : RW!Inside = {t}

RWInv == RWType /\ RWWaiters /\ RWAlone /\ RW!CountersExact /\ RW!NoStrandedWaiter

\* What each primitive of synch.cc does to the queues and statuses of the threads.
LEMMA RWPrimitives ==
  ASSUME RWType, NEW t \in RWThread
  PROVE  /\ RW!Acquire(t, mutex) => RWQueues' /\ pending' \in [RWThread -> {mutex, NULL}]
         /\ RW!Resume(t) => RWQueues' /\ pending' \in [RWThread -> {mutex, NULL}]
         /\ RW!Release(t, mutex) => RWQueues'
         /\ \A c \in RWCondition :
              /\ RW!Wait(t, c, mutex) => RWQueues' /\ pending' \in [RWThread -> {mutex, NULL}]
              /\ RW!Signal(t, c, mutex) => RWQueues'
              /\ RW!Broadcast(t, c, mutex) => RWQueues'
<1> USE ObjectsDistinct DEF RWQueues
<1>0. QueuesOK(RWThread, {mutex}, RWCondition, status, queue, waitCondQueue)
  BY DEF RWType
<1>1. ASSUME RW!P(t, mutex) PROVE RWQueues' /\ pending' \in [RWThread -> {mutex, NULL}]
  <2>1. CASE value[mutex] = 0
    BY <1>1, <2>1, QueuesP DEF RW!P, RWType
  <2>2. CASE value[mutex] # 0
    BY <1>1, <2>2 DEF RW!P, RWType
  <2> QED
    BY <2>1, <2>2
<1>2. RW!Resume(t) => RW!P(t, mutex)
  BY DEF RW!Resume, RW!Acquire, RWType
<1>3. RW!Release(t, mutex) => RWQueues'
  BY QueuesV DEF RW!Release, RW!Rest, RW!Wake, RWType
<1>4. ASSUME NEW c \in RWCondition PROVE
        /\ RW!Wait(t, c, mutex) => RWQueues' /\ pending' \in [RWThread -> {mutex, NULL}]
        /\ RW!Signal(t, c, mutex) => RWQueues'
        /\ RW!Broadcast(t, c, mutex) => RWQueues'
  <2> DEFINE q1 == [queue EXCEPT ![mutex] = IF queue[mutex] = <<>> THEN queue[mutex] ELSE Tail(queue[mutex])]
             st1 == IF queue[mutex] = <<>> THEN status ELSE [status EXCEPT ![Head(queue[mutex])] = "READY"]
             w == waitCondQueue[c]
  <2>1. ASSUME RW!Wait(t, c, mutex) PROVE RWQueues' /\ pending' \in [RWThread -> {mutex, NULL}]
    <3>1. /\ status[t] = "READY" /\ status' = [st1 EXCEPT ![t] = "BLOCKED"] /\ queue' = q1
          /\ waitCondQueue' = [waitCondQueue EXCEPT ![c] = Append(@, t)]
      BY <2>1 DEF RW!Wait, RW!Rest, RW!Wake
    <3>2. pending' \in [RWThread -> {mutex, NULL}]
      BY <2>1 DEF RW!Wait, RWType
    <3> QED
      BY <3>1, <3>2, QueuesWait DEF RWType
  <2>2. ASSUME RW!Signal(t, c, mutex) PROVE RWQueues'
    <3>1. /\ status' = IF w = <<>> THEN status ELSE [status EXCEPT ![Head(w)] = "READY"]
          /\ waitCondQueue' = [waitCondQueue EXCEPT ![c] = IF w = <<>> THEN w ELSE Tail(w)]
          /\ queue' = queue
      BY <2>2 DEF RW!Signal, RW!Rest, RW!Wake
    <3>2. QueuesOK(RWThread, {mutex}, RWCondition, status', queue, waitCondQueue')
      BY <1>0, <3>1, QueuesSignal, Zenon
    <3> QED
      BY <3>1, <3>2
  <2>3. ASSUME RW!Broadcast(t, c, mutex) PROVE RWQueues'
    <3>1. /\ status' = [u \in RWThread |-> IF u \in Range(w) THEN "READY" ELSE status[u]]
          /\ waitCondQueue' = [waitCondQueue EXCEPT ![c] = <<>>] /\ queue' = queue
      BY <2>3 DEF RW!Broadcast, RW!Range, Range, RWThread
    <3> QED
      BY <3>1, QueuesBroadcast DEF RWType
  <2> QED
    BY <2>1, <2>2, <2>3
<1> QED
  BY <1>1, <1>2, <1>3, <1>4 DEF RW!Acquire

\* Every step of a reader or a writer keeps the types.
LEMMA RWTypeStep ==
  ASSUME RWType, NEW t \in RWThread, RW!Step(t)
  PROVE  RWType'
<1> USE RWPrimitives DEF RWType, RW!Goto, RW!Leaves, RWCondition
<1>1. CASE RW!Enter(t)
  BY <1>1 DEF RW!Enter
<1>2. CASE RW!ReadBody(t)
  BY <1>2 DEF RW!ReadBody, RW!Release
<1>3. CASE RW!WriteBody(t)
  BY <1>3 DEF RW!WriteBody, RW!Release
<1>4. CASE RW!Unlock(t)
  BY <1>4 DEF RW!Unlock
<1>5. CASE RW!UnlockWriter(t)
  BY <1>5 DEF RW!UnlockWriter, RW!Release, RW!Signal, RW!Broadcast
<1>6. CASE RW!UnlockReader(t)
  BY <1>6 DEF RW!UnlockReader, RW!Release, RW!Signal
<1>7. CASE RW!Leave(t)
  BY <1>7 DEF RW!Leave, RW!Release
<1>8. CASE RW!Retry(t)
  BY <1>8 DEF RW!Retry
<1> QED
  BY <1>1, <1>2, <1>3, <1>4, <1>5, <1>6, <1>7, <1>8 DEF RW!Step

\* The threads counted by the three counters.
RWPendingReaders == {t \in Reader : pc[t] = "wait"}
RWPendingWriters == {t \in Writer : pc[t] = "wait"}

\* The sets the counters count are finite.
LEMMA RWFinite ==
  /\ IsFiniteSet(RW!Inside \cap Reader)
  /\ IsFiniteSet(RWPendingReaders) /\ IsFiniteSet(RWPendingWriters)
<1>1. IsFiniteSet(RWThread)
  BY ObjectsDistinct DEF RWThread
<1>2. /\ RW!Inside \cap Reader \in SUBSET RWThread
      /\ RWPendingReaders \in SUBSET RWThread /\ RWPendingWriters \in SUBSET RWThread
  BY DEF RWThread, RWPendingReaders, RWPendingWriters
<1> QED
  BY <1>1, <1>2, FS_Subset

RWCounters == RWAlone /\ RW!CountersExact

\* The steps that leave the three sets and the counters alone.
LEMMA RWSameCounters ==
  ASSUME RWType, RWCounters, NEW t \in RWThread,
         UNCHANGED <<activeReaders, pendingReaders, pendingWriters>>,
         \/ UNCHANGED pc
         \/ /\ pc[t] \in {"idle", "leave"}
            /\ \E loc \in {"idle", "enter"} : pc' = [pc EXCEPT ![t] = loc]
         \/ pc[t] = "inside" /\ pc' = [pc EXCEPT ![t] = "unlock"]
  PROVE  RWCounters'
<1>1. UNCHANGED <<RW!Inside, RWPendingReaders, RWPendingWriters>>
  BY DEF RWType, RWThread, RW!Inside, RWPendingReaders, RWPendingWriters
<1> QED
  BY <1>1 DEF RWCounters, RWAlone, RW!CountersExact, RWPendingReaders, RWPendingWriters

\* Every step keeps the four counters equal to the numbers of threads they stand for.
LEMMA RWCountersStep ==
  ASSUME RWType, RWCounters, NEW t \in RWThread, RW!Step(t)
  PROVE  RWCounters'
<1> DEFINE R == RW!Inside \cap Reader
           PR == RWPendingReaders
           PW == RWPendingWriters
<1>1. CASE RW!Enter(t) \/ RW!Unlock(t) \/ RW!Leave(t) \/ RW!Retry(t)
  BY <1>1, RWSameCounters
  DEF RW!Enter, RW!Unlock, RW!Leave, RW!Retry, RW!At, RW!Goto, RW!Leaves, RW!countVars
<1>2. /\ IsFiniteSet(R) /\ Cardinality(R) \in Nat
      /\ IsFiniteSet(PR) /\ Cardinality(PR) \in Nat
      /\ IsFiniteSet(PW) /\ Cardinality(PW) \in Nat
  BY RWFinite, FS_CardinalityType
<1>3. /\ activeReaders = IF RW!Inside \cap Writer # {} THEN -1 ELSE Cardinality(R)
      /\ pendingReaders = Cardinality(PR) /\ pendingWriters = Cardinality(PW)
  BY RWLibrary DEF RWCounters, RW!CountersExact, RWPendingReaders, RWPendingWriters
<1>4. /\ RW!Inside \in SUBSET RWThread /\ Reader \cap Writer = {}
      /\ \A w \in RW!Inside \cap Writer : RW!Inside = {w}
  BY SynchTestsAssumption DEF RWCounters, RWAlone, RW!Inside, RWThread
<1>5. SUFFICES ASSUME RW!ReadBody(t) \/ RW!WriteBody(t) \/ RW!UnlockWriter(t) \/ RW!UnlockReader(t)
               PROVE  /\ activeReaders' = IF RW!Inside' \cap Writer # {} THEN -1 ELSE Cardinality(R')
                      /\ pendingReaders' = Cardinality(PR') /\ pendingWriters' = Cardinality(PW')
                      /\ \A w \in RW!Inside' \cap Writer : RW!Inside' = {w}
  <2>1. /\ activeReaders' = IF RW!Inside' \cap Writer # {} THEN -1 ELSE Cardinality(R')
        /\ pendingReaders' = Cardinality(PR') /\ pendingWriters' = Cardinality(PW')
        => RW!CountersExact'
    BY RWLibrary DEF RW!CountersExact, RWPendingReaders, RWPendingWriters
  <2> QED
    BY <1>1, <2>1 DEF RW!Step, RWCounters, RWAlone
<1>6. /\ pc[t] \in {"enter", "wait"} => t \notin RW!Inside
      /\ pc[t] = "enter" => t \notin PR /\ t \notin PW
      /\ pc[t] = "wait" => (t \in Reader => t \in PR) /\ (t \in Writer => t \in PW)
      /\ pc[t] = "unlock" => t \in RW!Inside /\ t \notin PR /\ t \notin PW
  BY DEF RW!Inside, RWPendingReaders, RWPendingWriters, RWThread
<1>7. /\ Cardinality(R \cup {t}) = Cardinality(R) + (IF t \in R THEN 0 ELSE 1)
      /\ Cardinality(R \ {t}) = Cardinality(R) - (IF t \in R THEN 1 ELSE 0)
      /\ Cardinality(PR \cup {t}) = Cardinality(PR) + (IF t \in PR THEN 0 ELSE 1)
      /\ Cardinality(PR \ {t}) = Cardinality(PR) - (IF t \in PR THEN 1 ELSE 0)
      /\ Cardinality(PW \cup {t}) = Cardinality(PW) + (IF t \in PW THEN 0 ELSE 1)
      /\ Cardinality(PW \ {t}) = Cardinality(PW) - (IF t \in PW THEN 1 ELSE 0)
  <2> HIDE DEF R, PR, PW
  <2> QED
    BY <1>2, CountOne
<1>8. R = RW!Inside \cap Reader /\ R' = RW!Inside' \cap Reader
  OBVIOUS
<1> USE DEF RWType, RWThread, RW!Inside, RWPendingReaders, RWPendingWriters
<1>9. CASE RW!ReadBody(t)
  <2>1. t \in Reader /\ t \notin Writer /\ pc[t] \in {"enter", "wait"} /\ pendingWriters' = pendingWriters
    BY <1>4, <1>9 DEF RW!ReadBody, RW!At
  <2>2. CASE activeReaders < 0
    <3>1. /\ pc' = [pc EXCEPT ![t] = "wait"] /\ activeReaders' = activeReaders
          /\ pendingReaders' = pendingReaders + (IF pc[t] = "enter" THEN 1 ELSE 0)
      BY <1>2, <1>3, <1>9, <2>2 DEF RW!ReadBody, RW!Goto
    <3>2. RW!Inside' = RW!Inside /\ PR' = PR \cup {t} /\ PW' = PW
      BY <2>1, <3>1
    <3> HIDE DEF R, PR, PW, RW!Inside
    <3>3. pendingReaders' = Cardinality(PR')
      BY <1>2, <1>3, <1>6, <1>7, <2>1, <3>1, <3>2
    <3> QED
      BY <1>3, <1>4, <1>8, <2>1, <3>1, <3>2, <3>3
  <2>3. CASE activeReaders >= 0
    <3>1. /\ pc' = [pc EXCEPT ![t] = "inside"] /\ activeReaders' = activeReaders + 1
          /\ pendingReaders' = pendingReaders + (IF pc[t] = "enter" THEN 1 ELSE 0) - 1
      BY <1>2, <1>3, <1>9, <2>3 DEF RW!ReadBody, RW!Goto
    <3>2. RW!Inside' = RW!Inside \cup {t} /\ R' = R \cup {t} /\ PR' = PR \ {t} /\ PW' = PW
      BY <2>1, <3>1
    <3> HIDE DEF R, PR, PW, RW!Inside
    <3>3. RW!Inside \cap Writer = {} /\ RW!Inside' \cap Writer = {} /\ t \notin R
      BY <1>3, <1>6, <1>8, <2>1, <2>3, <3>2
    <3>4. pendingReaders' = Cardinality(PR')
      BY <1>2, <1>3, <1>6, <1>7, <2>1, <3>1, <3>2
    <3> QED
      BY <1>2, <1>3, <1>7, <2>1, <3>1, <3>2, <3>3, <3>4
  <2> QED
    BY <1>2, <1>3, <2>2, <2>3
<1>10. CASE RW!WriteBody(t)
  <2>1. t \in Writer /\ t \notin Reader /\ pc[t] \in {"enter", "wait"} /\ pendingReaders' = pendingReaders
    BY <1>4, <1>10 DEF RW!WriteBody, RW!At
  <2>2. CASE activeReaders # 0
    <3>1. /\ pc' = [pc EXCEPT ![t] = "wait"] /\ activeReaders' = activeReaders
          /\ pendingWriters' = pendingWriters + (IF pc[t] = "enter" THEN 1 ELSE 0)
      BY <1>10, <2>2 DEF RW!WriteBody, RW!Goto
    <3>2. RW!Inside' = RW!Inside /\ PR' = PR /\ PW' = PW \cup {t}
      BY <2>1, <3>1
    <3> HIDE DEF R, PR, PW, RW!Inside
    <3>3. pendingWriters' = Cardinality(PW')
      BY <1>2, <1>3, <1>6, <1>7, <2>1, <3>1, <3>2
    <3> QED
      BY <1>3, <1>4, <1>8, <2>1, <3>1, <3>2, <3>3
  <2>3. CASE activeReaders = 0
    <3>1. /\ pc' = [pc EXCEPT ![t] = "inside"] /\ activeReaders' = -1
          /\ pendingWriters' = pendingWriters + (IF pc[t] = "enter" THEN 1 ELSE 0) - 1
      BY <1>2, <1>3, <1>10, <2>3 DEF RW!WriteBody, RW!Goto
    <3>2. RW!Inside' = RW!Inside \cup {t} /\ PR' = PR /\ PW' = PW \ {t}
      BY <2>1, <3>1
    <3>3. RW!Inside = {}
      BY <1>2, <1>3, <1>4, <1>8, <2>3, FS_EmptySet
    <3> HIDE DEF R, PR, PW, RW!Inside
    <3>4. pendingWriters' = Cardinality(PW')
      BY <1>2, <1>3, <1>6, <1>7, <2>1, <3>1, <3>2
    <3> QED
      BY <1>3, <2>1, <3>1, <3>2, <3>3, <3>4
  <2> QED
    BY <2>2, <2>3
<1>11. CASE RW!UnlockWriter(t)
  <2>1. /\ pc[t] = "unlock" /\ activeReaders < 0 /\ activeReaders' = 0
        /\ UNCHANGED <<pendingReaders, pendingWriters>>
        /\ \E loc \in {"leave", "idle"} : pc' = [pc EXCEPT ![t] = loc]
    BY <1>11 DEF RW!UnlockWriter, RW!At, RW!Goto, RW!Leaves
  <2>2. RW!Inside = {t}
    BY <1>2, <1>3, <1>4, <1>6, <2>1
  <2>3. RW!Inside' = RW!Inside \ {t} /\ PR' = PR /\ PW' = PW
    BY <2>1
  <2> HIDE DEF R, PR, PW, RW!Inside
  <2> QED
    BY <1>3, <1>8, <2>1, <2>2, <2>3, FS_EmptySet
<1>12. CASE RW!UnlockReader(t)
  <2>1. /\ pc[t] = "unlock" /\ activeReaders > 0 /\ activeReaders' = activeReaders - 1
        /\ UNCHANGED <<pendingReaders, pendingWriters>>
        /\ \E loc \in {"leave", "idle"} : pc' = [pc EXCEPT ![t] = loc]
    BY <1>12 DEF RW!UnlockReader, RW!At, RW!Goto, RW!Leaves
  <2>2. RW!Inside \cap Writer = {} /\ t \in R
    BY <1>3, <1>4, <1>6, <1>8, <2>1
  <2>3. RW!Inside' = RW!Inside \ {t} /\ R' = R \ {t} /\ PR' = PR /\ PW' = PW
    BY <2>1
  <2> HIDE DEF R, PR, PW, RW!Inside
  <2> QED
    BY <1>2, <1>3, <1>7, <2>1, <2>2, <2>3
<1> QED
  BY <1>5, <1>9, <1>10, <1>11, <1>12

\* Which threads wait for what, and that somebody will wake them.
LEMMA RWWaitersStep ==
  ASSUME RWInv, NEW t \in RWThread, RW!Step(t)
  PROVE  RWWaiters' /\ RW!NoStrandedWaiter'
<1> DEFINE qr == waitCondQueue[conReader]
           qw == waitCondQueue[conWriter]
<1>1. /\ qr \in Seq(RWThread) /\ qw \in Seq(RWThread) /\ IsInjective(qw)
      /\ status[t] = "READY" => t \notin Range(qr) /\ t \notin Range(qw)
      /\ pc \in [RWThread -> {"idle", "enter", "wait", "inside", "unlock", "leave"}]
      /\ waitCondQueue \in [{conReader, conWriter} -> Seq(RWThread)]
      /\ conReader # conWriter /\ Reader \cap Writer = {}
  BY SynchTestsAssumption DEF RWInv, RWType, RWQueues, QueuesOK, RWCondition
<1>2. /\ \A u \in Range(qr) : u \in Reader /\ pc[u] = "wait"
      /\ \A u \in Range(qw) : u \in Writer /\ pc[u] = "wait"
  BY DEF RWInv, RWWaiters
<1>3. /\ qr # <<>> => activeReaders < 0
      /\ qw # <<>> => \/ activeReaders # 0
                      \/ \E u \in RWThread : pc[u] = "wait" /\ u \notin Range(qr) \cup Range(qw)
  BY RWLibrary DEF RWInv, RW!NoStrandedWaiter, RWThread
<1>4. /\ pendingReaders = Cardinality(RWPendingReaders) /\ pendingWriters = Cardinality(RWPendingWriters)
      /\ IsFiniteSet(RWPendingReaders) /\ IsFiniteSet(RWPendingWriters)
      /\ activeReaders \in Int /\ pendingReaders \in Nat /\ pendingWriters \in Nat
  BY RWLibrary, RWFinite, FS_CardinalityType
  DEF RWInv, RW!CountersExact, RWPendingReaders, RWPendingWriters
<1>5. /\ pendingReaders = 0 => qr = <<>>
      /\ pendingWriters = 0 => qw = <<>>
      /\ pendingReaders # 0 => \E u \in Reader : pc[u] = "wait"
  <2>1. /\ pendingReaders = 0 => RWPendingReaders = {}
        /\ pendingReaders # 0 => RWPendingReaders # {}
        /\ pendingWriters = 0 => RWPendingWriters = {}
    BY <1>4, FS_EmptySet
  <2>2. /\ qr # <<>> => Head(qr) \in RWPendingReaders
        /\ qw # <<>> => Head(qw) \in RWPendingWriters
    BY <1>1, <1>2, RangeOfTail DEF RWPendingReaders, RWPendingWriters
  <2> QED
    BY <2>1, <2>2 DEF RWPendingReaders
<1>6. SUFFICES
        /\ \A u \in Range(qr') : u \in Reader /\ pc'[u] = "wait"
        /\ \A u \in Range(qw') : u \in Writer /\ pc'[u] = "wait"
        /\ qr' # <<>> => activeReaders' < 0
        /\ qw' # <<>> => \/ activeReaders' # 0
                         \/ \E u \in RWThread : pc'[u] = "wait" /\ u \notin Range(qr') \cup Range(qw')
  BY RWLibrary DEF RWWaiters, RW!NoStrandedWaiter, RWThread
<1>7. CASE RW!Enter(t) \/ RW!Unlock(t) \/ RW!Leave(t) \/ RW!Retry(t)
  <2>1. /\ status[t] = "READY" /\ waitCondQueue' = waitCondQueue /\ activeReaders' = activeReaders
        /\ \/ pc' = pc
           \/ /\ pc[t] \in {"idle", "inside", "leave"}
              /\ \E loc \in {"idle", "enter", "unlock"} : pc' = [pc EXCEPT ![t] = loc]
    BY <1>7 DEF RW!Enter, RW!Unlock, RW!Leave, RW!Retry, RW!At, RW!Running, RW!Goto, RW!Leaves,
                RW!countVars, RW!Acquire, RW!P, RW!Resume, RW!Release
  <2>2. \A u \in RWThread : pc[u] = "wait" => pc'[u] = "wait"
    BY <1>1, <2>1
  <2>3. Range(qr) \subseteq RWThread /\ Range(qw) \subseteq RWThread
    BY <1>2 DEF RWThread
  <2> QED
    BY <1>2, <1>3, <2>1, <2>2, <2>3
<1>8. CASE RW!ReadBody(t)
  <2>1. CASE activeReaders < 0
    <3>1. /\ status[t] = "READY" /\ pc' = [pc EXCEPT ![t] = "wait"] /\ t \in Reader
          /\ activeReaders' = activeReaders
          /\ waitCondQueue' = [waitCondQueue EXCEPT ![conReader] = Append(@, t)]
      BY <1>4, <1>8, <2>1 DEF RW!ReadBody, RW!Goto, RW!Wait
    <3>2. qw' = qw /\ Range(qr') = Range(qr) \cup {t}
      BY <1>1, <3>1, RangeOfAppend
    <3> QED
      BY <1>1, <1>2, <1>4, <2>1, <3>1, <3>2
  <2>2. CASE activeReaders >= 0
    <3>1. /\ status[t] = "READY" /\ pc' = [pc EXCEPT ![t] = "inside"]
          /\ activeReaders' = activeReaders + 1 /\ waitCondQueue' = waitCondQueue
      BY <1>4, <1>8, <2>2 DEF RW!ReadBody, RW!Goto, RW!Release
    <3> QED
      BY <1>1, <1>2, <1>3, <1>4, <2>2, <3>1
  <2> QED
    BY <1>4, <2>1, <2>2
<1>9. CASE RW!WriteBody(t)
  <2>1. CASE activeReaders # 0
    <3>1. /\ status[t] = "READY" /\ pc' = [pc EXCEPT ![t] = "wait"] /\ t \in Writer
          /\ activeReaders' = activeReaders
          /\ waitCondQueue' = [waitCondQueue EXCEPT ![conWriter] = Append(@, t)]
      BY <1>9, <2>1 DEF RW!WriteBody, RW!Goto, RW!Wait
    <3>2. qr' = qr /\ Range(qw') = Range(qw) \cup {t}
      BY <1>1, <3>1, RangeOfAppend
    <3> QED
      BY <1>1, <1>2, <1>3, <2>1, <3>1, <3>2
  <2>2. CASE activeReaders = 0
    <3>1. /\ status[t] = "READY" /\ pc' = [pc EXCEPT ![t] = "inside"]
          /\ activeReaders' = -1 /\ waitCondQueue' = waitCondQueue
      BY <1>9, <2>2 DEF RW!WriteBody, RW!Goto, RW!Release
    <3> QED
      BY <1>1, <1>2, <3>1
  <2> QED
    BY <2>1, <2>2
<1>10. ASSUME status[t] = "READY", pc[t] = "unlock", activeReaders' = 0, qr = <<>>,
              NEW loc \in {"leave", "idle"}, pc' = [pc EXCEPT ![t] = loc],
              waitCondQueue' = [waitCondQueue EXCEPT ![conWriter] = IF qw = <<>> THEN qw ELSE Tail(qw)]
       PROVE  /\ \A u \in Range(qr') : u \in Reader /\ pc'[u] = "wait"
              /\ \A u \in Range(qw') : u \in Writer /\ pc'[u] = "wait"
              /\ qr' # <<>> => activeReaders' < 0
              /\ qw' # <<>> => \/ activeReaders' # 0
                               \/ \E u \in RWThread : pc'[u] = "wait" /\ u \notin Range(qr') \cup Range(qw')
  <2>1. qr' = <<>> /\ Range(qr') = {}
    BY <1>1, <1>10, EmptyRange
  <2>2. CASE qw = <<>>
    BY <1>1, <1>10, <2>1, <2>2, EmptyRange
  <2>3. CASE qw # <<>>
    <3>1. /\ qw' = Tail(qw) /\ Head(qw) \in Range(qw) /\ Head(qw) \in RWThread
          /\ Range(qw) = Range(Tail(qw)) \cup {Head(qw)} /\ Head(qw) \notin Range(Tail(qw))
      BY <1>1, <1>10, <2>3, RangeOfTail
    <3>2. \A u \in RWThread : pc[u] = "wait" => pc'[u] = "wait"
      BY <1>1, <1>10
    <3> QED
      BY <1>2, <2>1, <3>1, <3>2 DEF RWThread
  <2> QED
    BY <2>2, <2>3
<1>11. CASE RW!UnlockWriter(t)
  <2>1. /\ status[t] = "READY" /\ pc[t] = "unlock" /\ activeReaders' = 0
        /\ \E loc \in {"leave", "idle"} : pc' = [pc EXCEPT ![t] = loc]
    BY <1>11 DEF RW!UnlockWriter, RW!At, RW!Running, RW!Goto, RW!Leaves
  <2>2. CASE pendingReaders > 0
    <3>1. waitCondQueue' = [waitCondQueue EXCEPT ![conReader] = <<>>]
      BY <1>4, <1>11, <2>2 DEF RW!UnlockWriter, RW!Broadcast
    <3>2. qr' = <<>> /\ Range(qr') = {} /\ qw' = qw
      BY <1>1, <3>1, EmptyRange
    <3>3. PICK u \in Reader : pc[u] = "wait"
      BY <1>4, <1>5, <2>2
    <3>4. u \in RWThread /\ pc'[u] = "wait" /\ u \notin Range(qr') \cup Range(qw')
      BY <1>1, <1>2, <2>1, <3>2, <3>3 DEF RWThread
    <3> QED
      BY <1>1, <1>2, <2>1, <3>2, <3>4
  <2>3. CASE pendingReaders = 0 /\ pendingWriters > 0
    <3>1. waitCondQueue' = [waitCondQueue EXCEPT ![conWriter] = IF qw = <<>> THEN qw ELSE Tail(qw)]
      BY <1>4, <1>11, <2>3 DEF RW!UnlockWriter, RW!Signal, RW!Rest
    <3> QED
      BY <1>5, <1>10, <2>1, <2>3, <3>1
  <2>4. CASE pendingReaders = 0 /\ pendingWriters = 0
    <3>1. waitCondQueue' = waitCondQueue
      BY <1>11, <2>4 DEF RW!UnlockWriter, RW!Release
    <3> QED
      BY <1>1, <1>5, <2>4, <3>1, EmptyRange
  <2> QED
    BY <1>4, <2>2, <2>3, <2>4
<1>12. CASE RW!UnlockReader(t)
  <2>1. /\ status[t] = "READY" /\ pc[t] = "unlock"
        /\ activeReaders > 0 /\ activeReaders' = activeReaders - 1
        /\ \E loc \in {"leave", "idle"} : pc' = [pc EXCEPT ![t] = loc]
    BY <1>12 DEF RW!UnlockReader, RW!At, RW!Running, RW!Goto, RW!Leaves
  <2>2. qr = <<>>
    BY <1>3, <1>4, <2>1
  <2>3. CASE pendingReaders = 0 /\ activeReaders' = 0
    <3>1. waitCondQueue' = [waitCondQueue EXCEPT ![conWriter] = IF qw = <<>> THEN qw ELSE Tail(qw)]
      BY <1>12, <2>3 DEF RW!UnlockReader, RW!Signal, RW!Rest
    <3> QED
      BY <1>10, <2>1, <2>2, <2>3, <3>1
  <2>4. CASE ~ (pendingReaders = 0 /\ activeReaders' = 0)
    <3>1. waitCondQueue' = waitCondQueue
      BY <1>12, <2>4 DEF RW!UnlockReader, RW!Release
    <3>2. Range(qr') = {} /\ qr' = <<>>
      BY <2>2, <3>1, EmptyRange
    <3>3. \A u \in RWThread : pc[u] = "wait" => pc'[u] = "wait"
      BY <1>1, <2>1
    <3>4. activeReaders' = 0 => \E u \in RWThread : pc'[u] = "wait" /\ u \notin Range(qw')
      BY <1>1, <1>2, <1>5, <2>4, <3>1, <3>3 DEF RWThread
    <3> QED
      BY <1>2, <3>1, <3>2, <3>3, <3>4 DEF RWThread
  <2> QED
    BY <2>3, <2>4
<1> QED
  BY <1>6, <1>7, <1>8, <1>9, <1>11, <1>12 DEF RW!Step

\* Every step of a reader or a writer keeps the invariant.
LEMMA RWStep ==
  ASSUME RWInv, NEW t \in RWThread, RW!Step(t)
  PROVE  RWInv'
  BY RWTypeStep, RWCountersStep, RWWaitersStep DEF RWInv, RWCounters

\* The invariant of the reader-writer lock always holds in its test.
LEMMA RWInvariance == Spec => [](test = "ReadWriteTest" => RWInv)
<1>1. ASSUME Init, test = "ReadWriteTest" PROVE RWInv
  <2>1. /\ RW!SynchInit /\ RW!DataInit /\ pc = [t \in RWThread |-> "idle"]
    BY <1>1 DEF Init, RW!Init, RWThread
  <2>2. RWType
    BY <2>1, QueuesInit DEF RW!SynchInit, RWType, RWQueues, RWThread, RWCondition
  <2>3. RW!Inside = {} /\ RWPendingReaders = {} /\ RWPendingWriters = {}
    BY <2>1 DEF RW!Inside, RWPendingReaders, RWPendingWriters, RWThread
  <2>4. RWAlone /\ RW!CountersExact
    BY <2>1, <2>3, RWLibrary, FS_EmptySet
    DEF RW!DataInit, RWAlone, RW!CountersExact, RWPendingReaders, RWPendingWriters
  <2>5. waitCondQueue[conReader] = <<>> /\ waitCondQueue[conWriter] = <<>>
    BY <2>1 DEF RW!SynchInit
  <2>6. RWWaiters /\ RW!NoStrandedWaiter
    BY <2>5, EmptyRange DEF RWWaiters, RW!NoStrandedWaiter
  <2> QED
    BY <2>2, <2>4, <2>6 DEF RWInv
<1>2. ASSUME test = "ReadWriteTest" => RWInv, [Next]_vars
      PROVE  (test = "ReadWriteTest" => RWInv)'
  <2>1. CASE ReadWriteTest
    BY <1>2, <2>1, RWStep DEF ReadWriteTest, RWThread
  <2>2. CASE UNCHANGED vars
    BY <1>2, <2>2
    DEF vars, synchVars, rwVars, RWInv, RWType, RWQueues, RWWaiters, RWAlone, RW!CountersExact,
        RW!NoStrandedWaiter, RW!Inside
  <2>3. CASE BarrierTest \/ ListTest \/ BufferTest
    BY <2>3 DEF BarrierTest, ListTest, BufferTest, Buffered
  <2> QED
    BY <1>2, <2>1, <2>2, <2>3 DEF Next, Step, Terminated
<1> QED
  BY <1>1, <1>2, PTL DEF Spec

\* RWLock::unlock decides by activeReaders alone whether a reader or the writer
\* leaves, and by the pending counters whom to signal: the counters are exact for
\* any number of readers and writers.
THEOREM RWCountersExact == Spec => []CountersExact
<1>1. (test = "ReadWriteTest" => RWInv) => CountersExact
  BY DEF RWInv, CountersExact
<1> QED
  BY <1>1, RWInvariance, PTL

\* No reader or writer of RWLock is left asleep with nobody to wake it.
THEOREM RWNoStrandedWaiter == Spec => []NoStrandedWaiter
<1>1. (test = "ReadWriteTest" => RWInv) => NoStrandedWaiter
  BY DEF RWInv, NoStrandedWaiter
<1> QED
  BY <1>1, RWInvariance, PTL

\* RWLock implements the abstract reader-writer lock: a writer inside is alone.
THEOREM RWRefinement == Spec => RefinesRWLock
<1>1. Init => RWAbstract!Init
  BY DEF Init, RW!Init, RWAbstract!Init, InRW, RW!Inside
<1>2. ASSUME test = "ReadWriteTest" => RWInv, [Next]_vars
      PROVE  [RWAbstract!Next]_<<InRW \cap Reader, InRW \cap Writer>>
  <2>1. CASE test # "ReadWriteTest" \/ UNCHANGED vars
    <3>1. UNCHANGED InRW
      BY <1>2, <2>1 DEF Next, Step, ReadWriteTest, BarrierTest, ListTest, BufferTest, Terminated,
                        vars, InRW, RW!Inside
    <3> QED
      BY <3>1
  <2>2. CASE test = "ReadWriteTest" /\ ~ UNCHANGED vars
    <3>1. PICK t \in RWThread : RW!Step(t) /\ UNCHANGED test
      BY <1>2, <2>2
      DEF Next, Step, ReadWriteTest, BarrierTest, ListTest, BufferTest, Buffered, Terminated, RWThread
    <3> DEFINE I == RW!Inside
               R == RW!Inside \cap Reader
    <3>2. InRW = I /\ InRW' = I'
      BY <2>2, <3>1 DEF InRW
    <3>3. /\ pc \in [RWThread -> {"idle", "enter", "wait", "inside", "unlock", "leave"}]
          /\ Reader \cap Writer = {} /\ I \subseteq RWThread
          /\ \A w \in I \cap Writer : I = {w}
      BY <1>2, <2>2, SynchTestsAssumption DEF RWInv, RWType, RWAlone, RW!Inside, RWThread
    <3>4. /\ activeReaders = IF I \cap Writer # {} THEN -1 ELSE Cardinality(R)
          /\ Cardinality(R) \in Nat /\ (Cardinality(R) = 0 => R = {})
      BY <1>2, <2>2, RWLibrary, RWFinite, FS_CardinalityType, FS_EmptySet DEF RWInv, RW!CountersExact
    <3>5. CASE RW!Enter(t) \/ RW!Unlock(t) \/ RW!Leave(t) \/ RW!Retry(t)
      <4>1. \/ pc' = pc
            \/ /\ pc[t] \in {"idle", "leave"}
               /\ \E loc \in {"idle", "enter"} : pc' = [pc EXCEPT ![t] = loc]
            \/ pc[t] = "inside" /\ pc' = [pc EXCEPT ![t] = "unlock"]
        BY <3>5 DEF RW!Enter, RW!Unlock, RW!Leave, RW!Retry, RW!At, RW!Goto, RW!Leaves
      <4>2. I' = I
        BY <3>3, <4>1 DEF RW!Inside, RWThread
      <4> QED
        BY <3>2, <4>2
    <3>6. CASE RW!ReadBody(t)
      <4>1. /\ t \in Reader /\ pc[t] \in {"enter", "wait"}
            /\ \/ pc' = [pc EXCEPT ![t] = "wait"]
               \/ activeReaders >= 0 /\ pc' = [pc EXCEPT ![t] = "inside"]
        BY <3>6 DEF RW!ReadBody, RW!At, RW!Goto
      <4>2. CASE pc' = [pc EXCEPT ![t] = "wait"]
        <5>1. I' = I
          BY <3>3, <4>1, <4>2 DEF RW!Inside, RWThread
        <5> QED
          BY <3>2, <5>1
      <4>3. CASE activeReaders >= 0 /\ pc' = [pc EXCEPT ![t] = "inside"]
        <5>1. I' = I \cup {t} /\ t \notin I /\ I \cap Writer = {}
          BY <3>3, <3>4, <4>1, <4>3 DEF RW!Inside, RWThread
        <5>2. RWAbstract!BeginRead(t)
          BY <3>2, <3>3, <4>1, <5>1 DEF RWAbstract!BeginRead
        <5> QED
          BY <4>1, <5>2 DEF RWAbstract!Next
      <4> QED
        BY <4>1, <4>2, <4>3
    <3>7. CASE RW!WriteBody(t)
      <4>1. /\ t \in Writer /\ pc[t] \in {"enter", "wait"}
            /\ \/ pc' = [pc EXCEPT ![t] = "wait"]
               \/ activeReaders = 0 /\ pc' = [pc EXCEPT ![t] = "inside"]
        BY <3>7 DEF RW!WriteBody, RW!At, RW!Goto
      <4>2. CASE pc' = [pc EXCEPT ![t] = "wait"]
        <5>1. I' = I
          BY <3>3, <4>1, <4>2 DEF RW!Inside, RWThread
        <5> QED
          BY <3>2, <5>1
      <4>3. CASE activeReaders = 0 /\ pc' = [pc EXCEPT ![t] = "inside"]
        <5>1. I = {} /\ I' = I \cup {t}
          <6>1. I' = I \cup {t}
            BY <3>3, <4>1, <4>3 DEF RW!Inside, RWThread
          <6> QED
            BY <3>3, <3>4, <4>3, <6>1 DEF RWThread
        <5>2. RWAbstract!BeginWrite(t)
          BY <3>2, <3>3, <4>1, <5>1 DEF RWAbstract!BeginWrite
        <5> QED
          BY <4>1, <5>2 DEF RWAbstract!Next
      <4> QED
        BY <4>1, <4>2, <4>3
    <3>8. CASE RW!UnlockWriter(t) \/ RW!UnlockReader(t)
      <4>1. /\ pc[t] = "unlock" /\ \E loc \in {"leave", "idle"} : pc' = [pc EXCEPT ![t] = loc]
        BY <3>8 DEF RW!UnlockWriter, RW!UnlockReader, RW!At, RW!Goto, RW!Leaves
      <4>2. t \in I /\ I' = I \ {t}
        BY <3>3, <4>1 DEF RW!Inside, RWThread
      <4>3. CASE t \in Reader
        <5>1. RWAbstract!EndRead(t)
          BY <3>2, <3>3, <4>2, <4>3 DEF RWAbstract!EndRead
        <5> QED
          BY <4>3, <5>1 DEF RWAbstract!Next
      <4>4. CASE t \in Writer
        <5>1. RWAbstract!EndWrite(t)
          BY <3>2, <3>3, <4>2, <4>4 DEF RWAbstract!EndWrite
        <5> QED
          BY <4>4, <5>1 DEF RWAbstract!Next
      <4> QED
        BY <4>3, <4>4 DEF RWThread
    <3> QED
      BY <3>1, <3>5, <3>6, <3>7, <3>8 DEF RW!Step
  <2> QED
    BY <2>1, <2>2
<1> QED
  BY <1>1, <1>2, RWInvariance, PTL DEF Spec, RefinesRWLock, RWAbstract!Spec

-----------------------------------------------------------------------------
(* Barrier *)

\* The barrier instance uses the same library operators.
LEMMA BLibrary ==
  /\ \A S : B!Cardinality(S) = Cardinality(S)
  /\ \A f : B!Range(f) = Range(f)
  BY Zenon DEF B!Cardinality, Cardinality, B!Range, Range

BType ==
  /\ waitCondQueue \in [{cond} -> Seq(Comer)]
  /\ pc \in [Comer -> {"start", "enter", "wait", "leave", "crossed"}]
  /\ memid \in SUBSET Comer /\ processFunction \in BOOLEAN

\* remaining counts down the threads that have come.
BCount == remaining = barrierNum - Cardinality(B!Arrived)

\* Somebody has left the barrier or been woken in it.
BOpen == \E t \in Comer : \/ pc[t] \in {"leave", "crossed"}
                          \/ pc[t] = "wait" /\ t \notin Range(waitCondQueue[cond])

\* Before the report every thread that has come has put its number; afterwards
\* there is one report, of enough threads.
BReport ==
  IF processFunction
    THEN report = <<>> /\ \A t \in Comer : pc[t] # "start" => t \in memid
    ELSE \E m \in SUBSET Comer : report = <<m>> /\ Cardinality(m) >= barrierNum

BInv == BType /\ BCount /\ (BOpen => remaining <= 0) /\ BReport

\* Every step of a thread at the barrier keeps the invariant.
LEMMA BStep ==
  ASSUME BInv, NEW t \in Comer, B!Step(t)
  PROVE  BInv'
<1> DEFINE A == B!Arrived
           q == waitCondQueue[cond]
<1>1. /\ IsFiniteSet(Comer) /\ IsFiniteSet(A) /\ Cardinality(A) \in Nat /\ barrierNum \in Nat
      /\ Cardinality(A \cup {t}) = Cardinality(A) + (IF t \in A THEN 0 ELSE 1)
  <2>1. A \in SUBSET Comer
    BY DEF B!Arrived
  <2> QED
    BY <2>1, ObjectsDistinct, SynchTestsAssumption, FS_Subset, CountOne
<1>2. /\ waitCondQueue \in [{cond} -> Seq(Comer)] /\ q \in Seq(Comer)
      /\ pc \in [Comer -> {"start", "enter", "wait", "leave", "crossed"}]
      /\ memid \in SUBSET Comer /\ processFunction \in BOOLEAN
      /\ remaining = barrierNum - Cardinality(A) /\ (BOpen => remaining <= 0)
  BY DEF BInv, BType, BCount
<1>3. CASE B!Put(t)
  <2>1. /\ pc[t] = "start" /\ pc' = [pc EXCEPT ![t] = "enter"] /\ memid' = memid \cup {t}
        /\ UNCHANGED <<waitCondQueue, remaining, processFunction, report>>
    BY <1>3 DEF B!Put, B!At, B!Goto, B!Acquire, B!P
  <2>2. A' = A /\ (BOpen' <=> BOpen)
    BY <1>2, <2>1 DEF B!Arrived, BOpen
  <2> QED
    BY <1>2, <2>1, <2>2 DEF BInv, BType, BCount, BReport
<1>4. CASE B!Leave(t) \/ B!Retry(t)
  <2>1. /\ \/ pc[t] = "leave" /\ pc' = [pc EXCEPT ![t] = "crossed"]
           \/ pc' = pc
        /\ UNCHANGED <<waitCondQueue, remaining, processFunction, report, memid>>
    BY <1>4 DEF B!Leave, B!Retry, B!At, B!Goto, B!Release, B!Resume, B!Acquire, B!P, B!dataVars
  <2>2. A' = A /\ (BOpen' <=> BOpen)
    BY <1>2, <2>1 DEF B!Arrived, BOpen
  <2> QED
    BY <1>2, <2>1, <2>2 DEF BInv, BType, BCount, BReport
<1>5. CASE B!EnterBody(t)
  <2>1. /\ pc[t] \in {"enter", "wait"}
        /\ remaining' = remaining - (IF pc[t] = "enter" THEN 1 ELSE 0)
    BY <1>5 DEF B!EnterBody, B!At, B!Counted
  <2>2. CASE remaining' > 0
    <3>1. /\ pc' = [pc EXCEPT ![t] = "wait"]
          /\ waitCondQueue' = [waitCondQueue EXCEPT ![cond] = Append(@, t)]
          /\ UNCHANGED <<processFunction, report, memid>>
      BY <1>1, <1>2, <1>5, <2>1, <2>2 DEF B!EnterBody, B!Wait, B!Goto
    <3>2. A' = A \cup {t} /\ (pc[t] = "enter" <=> t \notin A)
      BY <1>2, <2>1, <3>1 DEF B!Arrived
    <3>3. remaining' = barrierNum - Cardinality(A')
      BY <1>1, <1>2, <2>1, <3>2
    <3>4. Range(q') = Range(q) \cup {t} /\ q' \in Seq(Comer)
      BY <1>2, <3>1, RangeOfAppend
    <3>5. ~ BOpen
      BY <1>1, <1>2, <2>1, <2>2
    <3>6. ~ BOpen'
      BY <1>2, <3>1, <3>4, <3>5 DEF BOpen
    <3> QED
      BY <1>2, <2>1, <3>1, <3>3, <3>4, <3>6 DEF BInv, BType, BCount, BReport
  <2>3. CASE remaining' <= 0
    <3>1. /\ pc' = [pc EXCEPT ![t] = "leave"] /\ processFunction' = FALSE
          /\ waitCondQueue' = [waitCondQueue EXCEPT ![cond] = <<>>]
          /\ IF processFunction THEN report' = Append(report, memid) /\ memid' = {}
                                ELSE UNCHANGED <<report, memid>>
      BY <1>1, <1>2, <1>5, <2>1, <2>3 DEF B!EnterBody, B!Pass, B!Broadcast, B!Goto
    <3>2. A' = A \cup {t} /\ (pc[t] = "enter" <=> t \notin A)
      BY <1>2, <2>1, <3>1 DEF B!Arrived
    <3>3. remaining' = barrierNum - Cardinality(A') /\ Cardinality(A') \in Nat
      BY <1>1, <1>2, <2>1, <3>2
    <3>4. BType'
      BY <1>2, <3>1, EmptySeq DEF BType
    <3>5. CASE processFunction
      <4>1. A' \in SUBSET memid /\ report' = <<memid>>
        BY <1>2, <2>1, <3>1, <3>2, <3>5 DEF BInv, BReport, B!Arrived
      <4>2. IsFiniteSet(memid) /\ Cardinality(memid) \in Nat
        BY <1>1, <1>2, FS_Subset, FS_CardinalityType
      <4>3. Cardinality(memid) >= barrierNum
        <5>1. Cardinality(A') <= Cardinality(memid)
          BY <4>1, <4>2, FS_Subset
        <5> QED
          BY <1>1, <2>3, <3>3, <4>2, <5>1
      <4> QED
        BY <1>2, <2>3, <3>1, <3>3, <3>4, <4>1, <4>3 DEF BInv, BCount, BReport
    <3>6. CASE ~ processFunction
      BY <2>3, <3>1, <3>3, <3>4, <3>6 DEF BInv, BCount, BReport
    <3> QED
      BY <3>5, <3>6
  <2> QED
    BY <1>1, <1>2, <2>1, <2>2, <2>3
<1> QED
  BY <1>3, <1>4, <1>5 DEF B!Step

\* The invariant of the barrier always holds in its test.
LEMMA BInvariance == Spec => [](test = "BarrierTest" => BInv)
<1>1. ASSUME Init, test = "BarrierTest" PROVE BInv
  <2>1. /\ B!SynchInit /\ B!DataInit /\ pc = [t \in Comer |-> "start"]
    BY <1>1 DEF Init, B!Init
  <2>2. B!Arrived = {} /\ ~ BOpen
    BY <2>1 DEF B!Arrived, BOpen
  <2> QED
    BY <2>1, <2>2, EmptySeq, FS_EmptySet, SynchTestsAssumption
    DEF B!SynchInit, B!DataInit, BInv, BType, BCount, BReport
<1>2. ASSUME test = "BarrierTest" => BInv, [Next]_vars
      PROVE  (test = "BarrierTest" => BInv)'
  <2>1. CASE BarrierTest
    BY <1>2, <2>1, BStep DEF BarrierTest
  <2>2. CASE UNCHANGED vars
    BY <1>2, <2>2
    DEF vars, synchVars, barrierVars, BInv, BType, BCount, BOpen, BReport, B!Arrived
  <2>3. CASE ReadWriteTest \/ ListTest \/ BufferTest
    BY <2>3 DEF ReadWriteTest, ListTest, BufferTest, Buffered
  <2> QED
    BY <1>2, <2>1, <2>2, <2>3 DEF Next, Step, Terminated
<1> QED
  BY <1>1, <1>2, PTL DEF Spec

\* Barrier::enterBarrier lets nobody out before barrierNum threads have come, and
\* processFunction(-1) reports once, with at least barrierNum numbers, for any number
\* of threads and any barrierNum.
THEOREM BarrierOpensOnce == Spec => []OpensOnce
<1>1. ASSUME test = "BarrierTest", BInv PROVE B!OpensOnce
  <2>1. BOpen => Cardinality(B!Arrived) >= barrierNum
    <3>1. B!Arrived \in SUBSET Comer
      BY DEF B!Arrived
    <3>2. Cardinality(B!Arrived) \in Nat
      BY <3>1, ObjectsDistinct, FS_Subset, FS_CardinalityType
    <3> QED
      BY <1>1, <3>2, SynchTestsAssumption DEF BInv, BCount
  <2>2. Len(report) <= 1 /\ \A i \in DOMAIN report : Cardinality(report[i]) >= barrierNum
    <3>1. CASE processFunction
      <4>1. Len(report) = 0 /\ DOMAIN report = {}
        BY <1>1, <3>1 DEF BInv, BReport
      <4> QED
        BY <4>1
    <3>2. CASE ~ processFunction
      <4>1. PICK m \in SUBSET Comer : report = <<m>> /\ Cardinality(m) >= barrierNum
        BY <1>1, <3>2 DEF BInv, BReport
      <4>2. Len(report) = 1 /\ DOMAIN report = {1} /\ report[1] = m
        BY <4>1
      <4> QED
        BY <4>1, <4>2
    <3> QED
      BY <3>1, <3>2
  <2> QED
    BY <2>1, <2>2, BLibrary DEF B!OpensOnce, BOpen
<1> QED
  BY <1>1, BInvariance, PTL DEF OpensOnce

-----------------------------------------------------------------------------
(* SynchList *)

LThread == Producer \cup Consumer \cup Walker

\* The synchronized list instance uses the same library operators.
LEMMA LLibrary ==
  /\ \A S : L!Cardinality(S) = Cardinality(S)
  /\ \A f : L!Range(f) = Range(f)
  BY Zenon DEF L!Cardinality, Cardinality, L!Range, Range

LQueues == QueuesOK(LThread, {lock}, {listEmpty}, status, queue, waitCondQueue)

LType ==
  /\ LQueues
  /\ pending \in [LThread -> {lock, NULL}]
  /\ pc \in [LThread -> {"idle", "append", "remove", "mapcar", "wait", "leave"}]
  /\ rounds \in [LThread -> Nat]
  /\ list \in Seq(L!Item) /\ put \in Seq(L!Item) /\ got \in Seq(L!Item)

\* Producers append, consumers remove; listEmpty holds consumers in their Wait().
LRoles ==
  /\ \A t \in LThread : /\ pc[t] = "append" => t \in Producer /\ rounds[t] < Calls[t]
                        /\ pc[t] \in {"remove", "wait"} => t \in Consumer
  /\ \A t \in Range(waitCondQueue[listEmpty]) : t \in Consumer /\ pc[t] = "wait"

\* What has gone in is what has come out and what is still on the list.
LOrder == put = got \o list

LInv == LType /\ LRoles /\ LOrder /\ L!NoStrandedRemover

\* The lock and condition calls of the list keep its queues typed.
LEMMA LPrimitives ==
  ASSUME LType, NEW t \in LThread
  PROVE  /\ L!Acquire(t, lock) => LQueues' /\ pending' \in [LThread -> {lock, NULL}]
         /\ L!Resume(t) => LQueues' /\ pending' \in [LThread -> {lock, NULL}]
         /\ L!Release(t, lock) => LQueues'
         /\ L!Wait(t, listEmpty, lock) => LQueues' /\ pending' \in [LThread -> {lock, NULL}]
         /\ L!Signal(t, listEmpty, lock) => LQueues'
<1> USE ObjectsDistinct DEF LQueues
<1> DEFINE q1 == [queue EXCEPT ![lock] = IF queue[lock] = <<>> THEN queue[lock] ELSE Tail(queue[lock])]
           st1 == IF queue[lock] = <<>> THEN status ELSE [status EXCEPT ![Head(queue[lock])] = "READY"]
           w == waitCondQueue[listEmpty]
<1>1. QueuesOK(LThread, {lock}, {listEmpty}, status, queue, waitCondQueue)
  BY DEF LType
<1>2. ASSUME L!P(t, lock) PROVE LQueues' /\ pending' \in [LThread -> {lock, NULL}]
  <2>1. CASE value[lock] = 0
    BY <1>2, <2>1, QueuesP DEF L!P, LType
  <2>2. CASE value[lock] # 0
    BY <1>2, <2>2 DEF L!P, LType
  <2> QED
    BY <2>1, <2>2
<1>3. L!Resume(t) => L!P(t, lock)
  BY DEF L!Resume, L!Acquire, LType
<1>4. L!Release(t, lock) => LQueues'
  BY QueuesV DEF L!Release, L!Rest, L!Wake, LType
<1>5. ASSUME L!Wait(t, listEmpty, lock) PROVE LQueues' /\ pending' \in [LThread -> {lock, NULL}]
  <2>1. /\ status[t] = "READY" /\ status' = [st1 EXCEPT ![t] = "BLOCKED"] /\ queue' = q1
        /\ waitCondQueue' = [waitCondQueue EXCEPT ![listEmpty] = Append(@, t)]
    BY <1>5 DEF L!Wait, L!Rest, L!Wake
  <2>2. pending' \in [LThread -> {lock, NULL}]
    BY <1>5 DEF L!Wait, LType
  <2> QED
    BY <1>1, <2>1, <2>2, QueuesWait
<1>6. ASSUME L!Signal(t, listEmpty, lock) PROVE LQueues'
  <2>1. /\ status' = IF w = <<>> THEN status ELSE [status EXCEPT ![Head(w)] = "READY"]
        /\ waitCondQueue' = [waitCondQueue EXCEPT ![listEmpty] = IF w = <<>> THEN w ELSE Tail(w)]
        /\ queue' = queue /\ listEmpty \in {listEmpty}
    BY <1>6 DEF L!Signal, L!Rest, L!Wake
  <2>2. QueuesOK(LThread, {lock}, {listEmpty}, status', queue, waitCondQueue')
    BY <1>1, <2>1, QueuesSignal, Zenon
  <2> QED
    BY <2>1, <2>2
<1> QED
  BY <1>2, <1>3, <1>4, <1>5, <1>6 DEF L!Acquire

\* What an appending thread appends is an item.
LEMMA LItem ==
  ASSUME LType, LRoles, NEW t \in LThread, pc[t] = "append"
  PROVE  <<t, rounds[t]>> \in L!Item
<1>1. t \in Producer /\ rounds[t] \in Nat /\ rounds[t] < Calls[t] /\ Calls[t] \in Nat
  BY SynchTestsAssumption DEF LType, LRoles, LThread
<1>2. rounds[t] \in 0 .. Calls[t] - 1
  BY <1>1
<1> QED
  BY <1>1, <1>2 DEF L!Item

\* Every step of a user of the synchronized list keeps the types.
LEMMA LTypeStep ==
  ASSUME LType, LRoles, NEW t \in LThread, L!Step(t)
  PROVE  LType'
<1>1. CASE L!Call(t)
  BY <1>1, LPrimitives DEF LType, L!Call, L!Goto, L!Operation, L!listVars
<1>2. CASE L!AppendBody(t)
  <2>1. Append(list, <<t, rounds[t]>>) \in Seq(L!Item) /\ Append(put, <<t, rounds[t]>>) \in Seq(L!Item)
    BY <1>2, LItem DEF L!AppendBody, L!At, LType
  <2> QED
    BY <1>2, <2>1, LPrimitives DEF LType, L!AppendBody, L!Goto, L!Signal
<1>3. L!Returns(t) =>
        /\ pc' \in [LThread -> {"idle", "append", "remove", "mapcar", "wait", "leave"}]
        /\ rounds' \in [LThread -> Nat]
  BY DEF LType, L!Returns, L!Goto
<1>4. CASE L!AppendLeave(t) \/ L!MapcarBody(t)
  <2>1. L!Release(t, lock) /\ L!Returns(t) /\ UNCHANGED <<list, put, got, pending>>
    BY <1>4 DEF L!AppendLeave, L!MapcarBody, L!Release, L!listVars
  <2> QED
    BY <1>3, <2>1, LPrimitives DEF LType
<1>5. CASE L!RemoveBody(t)
  <2>1. list # <<>> => Tail(list) \in Seq(L!Item) /\ Append(got, Head(list)) \in Seq(L!Item)
    BY DEF LType
  <2>2. CASE list = <<>>
    BY <1>5, <2>2, LPrimitives DEF LType, L!RemoveBody, L!Goto, L!listVars
  <2>3. CASE list # <<>>
    <3>1. /\ L!Release(t, lock) /\ L!Returns(t) /\ UNCHANGED <<put, pending>>
          /\ got' = Append(got, Head(list)) /\ list' = Tail(list)
      BY <1>5, <2>3 DEF L!RemoveBody, L!Release
    <3> QED
      BY <1>3, <2>1, <2>3, <3>1, LPrimitives DEF LType
  <2> QED
    BY <2>2, <2>3
<1>6. CASE L!Retry(t)
  BY <1>6, LPrimitives DEF LType, L!Retry, L!listVars
<1> QED
  BY <1>1, <1>2, <1>4, <1>5, <1>6 DEF L!Step

\* Every step of a user of the synchronized list keeps the invariant.
LEMMA LStep ==
  ASSUME LInv, NEW t \in LThread, L!Step(t)
  PROVE  LInv'
<1> DEFINE w == waitCondQueue[listEmpty]
           W == {u \in Consumer : pc[u] = "wait"} \ Range(w)
<1>1. LType' /\ LType /\ LRoles /\ LOrder
  BY LTypeStep DEF LInv
<1>2. /\ waitCondQueue \in [{listEmpty} -> Seq(LThread)] /\ w \in Seq(LThread) /\ IsInjective(w)
      /\ status[t] = "READY" => t \notin Range(w)
      /\ pc \in [LThread -> {"idle", "append", "remove", "mapcar", "wait", "leave"}]
      /\ rounds \in [LThread -> Nat]
      /\ list \in Seq(L!Item) /\ got \in Seq(L!Item) /\ Len(list) \in Nat
  BY <1>1 DEF LType, LQueues, QueuesOK
<1>3. \A u : /\ u \in LThread /\ pc[u] = "append" => u \in Producer /\ rounds[u] < Calls[u]
             /\ u \in LThread /\ pc[u] \in {"remove", "wait"} => u \in Consumer
             /\ u \in Range(w) => u \in Consumer /\ pc[u] = "wait"
  BY <1>1 DEF LRoles
<1>4. w # <<>> => Len(list) <= Cardinality(W)
  BY LLibrary DEF LInv, L!NoStrandedRemover, L!WokenRemovers
<1>5. /\ IsFiniteSet(W) /\ Cardinality(W) \in Nat
      /\ \A u : /\ Cardinality(W \cup {u}) = Cardinality(W) + (IF u \in W THEN 0 ELSE 1)
                /\ Cardinality(W \ {u}) = Cardinality(W) - (IF u \in W THEN 1 ELSE 0)
  <2>1. W \in SUBSET (Producer \cup Consumer \cup Walker)
    OBVIOUS
  <2>2. IsFiniteSet(W)
    BY <2>1, ObjectsDistinct, FS_Subset
  <2> HIDE DEF W
  <2> QED
    BY <2>2, CountOne
<1>6. ASSUME LRoles', LOrder', w' # <<>> => Len(list') <= Cardinality(W')
      PROVE  LInv'
  BY <1>1, <1>6, LLibrary DEF LInv, L!NoStrandedRemover, L!WokenRemovers
<1>7. CASE L!Call(t) \/ L!AppendLeave(t) \/ L!MapcarBody(t) \/ L!Retry(t)
  <2>1. /\ UNCHANGED <<waitCondQueue, list, put, got>> /\ status[t] = "READY"
        /\ \/ pc' = pc /\ rounds' = rounds
           \/ /\ pc[t] = "idle" /\ pc' = [pc EXCEPT ![t] = L!Operation(t)]
              /\ rounds[t] < Calls[t] /\ rounds' = rounds
           \/ /\ pc[t] \in {"leave", "mapcar"} /\ pc' = [pc EXCEPT ![t] = "idle"]
              /\ rounds' = [rounds EXCEPT ![t] = @ + 1]
    BY <1>7 DEF L!Call, L!AppendLeave, L!MapcarBody, L!Retry, L!At, L!Running, L!Goto, L!Returns,
                L!listVars, L!Acquire, L!P, L!Resume, L!Release
  <2>2. L!Operation(t) # "wait" /\ (L!Operation(t) = "append" => t \in Producer)
        /\ (L!Operation(t) = "remove" => t \in Consumer)
    BY DEF L!Operation
  <2>3. \A u \in LThread : /\ pc'[u] = "wait" <=> pc[u] = "wait"
                           /\ pc'[u] = "append" => u \in Producer /\ rounds'[u] < Calls[u]
                           /\ pc'[u] \in {"remove", "wait"} => u \in Consumer
    BY <1>2, <1>3, <2>1, <2>2
  <2>4. LRoles' /\ W' = W
    BY <1>3, <2>1, <2>3 DEF LRoles, LThread
  <2> QED
    BY <1>1, <1>4, <1>6, <2>1, <2>4 DEF LOrder
<1>8. CASE L!AppendBody(t)
  <2>1. /\ pc[t] = "append" /\ pc' = [pc EXCEPT ![t] = "leave"] /\ status[t] = "READY"
        /\ list' = Append(list, <<t, rounds[t]>>) /\ put' = Append(put, <<t, rounds[t]>>)
        /\ UNCHANGED <<got, rounds>>
        /\ waitCondQueue' = [waitCondQueue EXCEPT ![listEmpty] = IF w = <<>> THEN w ELSE Tail(w)]
    BY <1>8 DEF L!AppendBody, L!At, L!Running, L!Goto, L!Signal, L!Rest
  <2>2. LOrder' /\ Len(list') = Len(list) + 1
    <3> DEFINE x == <<t, rounds[t]>>
    <3>1. x \in L!Item
      BY <1>1, <2>1, LItem
    <3>2. list' = Append(list, x) /\ put' = Append(put, x)
      BY <2>1
    <3> HIDE DEF x
    <3>3. Append(got \o list, x) = got \o Append(list, x)
      <4>1. got \in Seq(L!Item) /\ list \in Seq(L!Item)
        BY <1>2
      <4> QED
        BY <3>1, <4>1
    <3>4. Len(Append(list, x)) = Len(list) + 1
      BY <1>2, <3>1
    <3> QED
      BY <1>1, <2>1, <3>2, <3>3, <3>4 DEF LOrder
  <2>3. \A u \in LThread : /\ pc'[u] = "wait" <=> pc[u] = "wait"
                           /\ pc'[u] = "append" => u \in Producer /\ rounds'[u] < Calls[u]
                           /\ pc'[u] \in {"remove", "wait"} => u \in Consumer
    BY <1>2, <1>3, <2>1
  <2>4. CASE w = <<>>
    <3>1. w' = w
      BY <1>2, <2>1, <2>4
    <3> QED
      BY <1>3, <1>6, <2>2, <2>3, <2>4, <3>1 DEF LRoles, LThread
  <2>5. CASE w # <<>>
    <3>1. /\ w' = Tail(w) /\ Head(w) \in Range(w) /\ Head(w) \notin Range(w')
          /\ Range(w) = Range(w') \cup {Head(w)}
      BY <1>2, <2>1, <2>5, RangeOfTail
    <3>2. LRoles'
      BY <1>3, <2>3, <3>1 DEF LRoles, LThread
    <3>3. W' = W \cup {Head(w)} /\ Head(w) \notin W
      BY <1>3, <2>3, <3>1 DEF LThread
    <3> HIDE DEF W
    <3>4. Cardinality(W') = Cardinality(W) + 1
      BY <1>5, <3>3
    <3>5. Len(list') <= Cardinality(W')
      BY <1>2, <1>4, <1>5, <2>2, <2>5, <3>4
    <3> QED
      BY <1>6, <2>2, <3>2, <3>5
  <2> QED
    BY <2>4, <2>5
<1>9. CASE L!RemoveBody(t)
  <2>1. pc[t] \in {"remove", "wait"} /\ status[t] = "READY" /\ t \in Consumer /\ t \notin Range(w)
    BY <1>2, <1>3, <1>9 DEF L!RemoveBody, L!At, L!Running
  <2>2. CASE list = <<>>
    <3>1. /\ pc' = [pc EXCEPT ![t] = "wait"] /\ UNCHANGED <<list, put, got, rounds>>
          /\ waitCondQueue' = [waitCondQueue EXCEPT ![listEmpty] = Append(@, t)]
      BY <1>9, <2>2 DEF L!RemoveBody, L!Goto, L!Wait, L!listVars
    <3>2. Range(w') = Range(w) \cup {t}
      BY <1>2, <3>1, RangeOfAppend
    <3>3. LRoles'
      BY <1>2, <1>3, <2>1, <3>1, <3>2 DEF LRoles, LThread
    <3>4. W' \in SUBSET (Producer \cup Consumer \cup Walker)
      OBVIOUS
    <3>5. Cardinality(W') \in Nat /\ Len(list') = 0
      BY <2>2, <3>1, <3>4, ObjectsDistinct, FS_Subset, FS_CardinalityType
    <3> HIDE DEF W
    <3> QED
      BY <1>1, <1>6, <3>1, <3>3, <3>5 DEF LOrder
  <2>3. CASE list # <<>>
    <3>1. /\ pc' = [pc EXCEPT ![t] = "idle"] /\ rounds' = [rounds EXCEPT ![t] = @ + 1]
          /\ got' = Append(got, Head(list)) /\ list' = Tail(list)
          /\ UNCHANGED <<put, waitCondQueue>>
      BY <1>9, <2>3 DEF L!RemoveBody, L!Goto, L!Returns, L!Release
    <3>2. LOrder' /\ Len(list') = Len(list) - 1
      BY <1>1, <1>2, <2>3, <3>1, MoveOne, SMTT(60) DEF LOrder
    <3>3. LRoles'
      BY <1>2, <1>3, <2>1, <3>1 DEF LRoles
    <3>4. W' = W \ {t}
      BY <1>2, <1>3, <2>1, <3>1 DEF LThread
    <3> HIDE DEF W
    <3>5. Cardinality(W') >= Cardinality(W) - 1
      BY <1>5, <3>4
    <3>6. w' # <<>> => Len(list') <= Cardinality(W')
      <4>1. Cardinality(W') \in Int
        BY <1>5, <3>4
      <4> QED
        BY <1>2, <1>4, <1>5, <3>1, <3>2, <3>5, <4>1
    <3> QED
      BY <1>6, <3>2, <3>3, <3>6
  <2> QED
    BY <2>2, <2>3
<1> QED
  BY <1>7, <1>8, <1>9 DEF L!Step

\* The invariant of the synchronized list always holds in its test.
LEMMA LInvariance == Spec => [](test = "SynchList" => LInv)
<1>1. ASSUME Init, test = "SynchList" PROVE LInv
  <2>1. /\ L!SynchInit /\ L!DataInit /\ pc = [t \in LThread |-> "idle"]
        /\ rounds = [t \in LThread |-> 0]
    BY <1>1 DEF Init, L!Init, LThread
  <2>2. LQueues /\ waitCondQueue[listEmpty] = <<>>
    BY <2>1, QueuesInit DEF L!SynchInit, LQueues, LThread
  <2>3. LType
    BY <2>1, <2>2, EmptySeq DEF L!SynchInit, L!DataInit, LType, LThread
  <2>4. LRoles /\ LOrder /\ L!NoStrandedRemover
    BY <2>1, <2>2, EmptyRange DEF L!DataInit, LRoles, LOrder, L!NoStrandedRemover
  <2> QED
    BY <2>3, <2>4 DEF LInv
<1>2. ASSUME test = "SynchList" => LInv, [Next]_vars
      PROVE  (test = "SynchList" => LInv)'
  <2>1. CASE ListTest
    BY <1>2, <2>1, LStep DEF ListTest, LThread
  <2>2. CASE UNCHANGED vars
    BY <1>2, <2>2
    DEF vars, synchVars, listVars, LInv, LType, LQueues, LRoles, LOrder, L!NoStrandedRemover,
        L!WokenRemovers
  <2>3. CASE ReadWriteTest \/ BarrierTest \/ BufferTest
    BY <2>3 DEF ReadWriteTest, BarrierTest, BufferTest, Buffered
  <2> QED
    BY <1>2, <2>1, <2>2, <2>3 DEF Next, Step, Terminated
<1> QED
  BY <1>1, <1>2, PTL DEF Spec

\* A Signal of SynchList::Append is never swallowed: while a remover sleeps there is
\* for each item on the list another one that has been woken and will take it.
THEOREM ListNoStrandedRemover == Spec => []NoStrandedRemover
<1>1. (test = "SynchList" => LInv) => NoStrandedRemover
  BY DEF LInv, NoStrandedRemover
<1> QED
  BY <1>1, LInvariance, PTL

\* SynchList implements the abstract queue: every item comes out once, in the order
\* of the Appends, for any number of producers, consumers and walkers.
THEOREM ListRefinement == Spec => RefinesFifo
<1>1. Init => Fifo!Init
  BY DEF Init, L!DataInit, Fifo!Init
<1>2. ASSUME test = "SynchList" => LInv, [Next]_vars
      PROVE  [Fifo!Next]_<<put, got>>
  <2>1. CASE test # "SynchList" \/ UNCHANGED vars
    BY <1>2, <2>1 DEF Next, Step, ReadWriteTest, BarrierTest, ListTest, BufferTest, Terminated,
                      vars, listVars
  <2>2. CASE test = "SynchList" /\ ~ UNCHANGED vars
    <3>1. PICK t \in LThread : L!Step(t)
      BY <1>2, <2>2
      DEF Next, Step, ReadWriteTest, BarrierTest, ListTest, BufferTest, Buffered, Terminated, LThread
    <3>2. LType /\ LRoles /\ LOrder /\ list \in Seq(L!Item) /\ got \in Seq(L!Item)
      BY <1>2, <2>2 DEF LInv, LType
    <3>3. CASE L!Call(t) \/ L!AppendLeave(t) \/ L!MapcarBody(t) \/ L!Retry(t)
      BY <3>3 DEF L!Call, L!AppendLeave, L!MapcarBody, L!Retry, L!listVars
    <3>4. CASE L!AppendBody(t)
      <4>1. <<t, rounds[t]>> \in L!Item
        BY <3>2, <3>4, LItem DEF L!AppendBody, L!At
      <4> QED
        BY <3>4, <4>1 DEF L!AppendBody, Fifo!Next, Fifo!Append1
    <3>5. CASE L!RemoveBody(t)
      <4>1. CASE list = <<>>
        BY <3>5, <4>1 DEF L!RemoveBody, L!listVars
      <4>2. CASE list # <<>>
        <5>1. got' = Append(got, Head(list)) /\ UNCHANGED put
          BY <3>5, <4>2 DEF L!RemoveBody
        <5>2. put[Len(got) + 1] = Head(list) /\ Len(got) < Len(put)
          BY <3>2, <4>2, MoveOne DEF LOrder
        <5> QED
          BY <5>1, <5>2 DEF Fifo!Next, Fifo!Remove1
      <4> QED
        BY <4>1, <4>2
    <3> QED
      BY <3>1, <3>3, <3>4, <3>5 DEF L!Step
  <2> QED
    BY <2>1, <2>2
<1> QED
  BY <1>1, <1>2, LInvariance, PTL DEF Spec, RefinesFifo, Fifo!Spec

-----------------------------------------------------------------------------
(* SemTest and CondTest *)

BufThread == Producer \cup Consumer

BufSemaphore == {sem_mutex, sem_full, sem_empty, cond_mutex}

BufType ==
  /\ value \in [BufSemaphore -> Nat]
  /\ pending \in [BufThread -> {NULL, sem_mutex, sem_full, sem_empty}]
  /\ pc \in [BufThread -> {"loop", "slot", "in", "out"}]
  /\ full \in Int

\* The P() a thread can be inside at each point of SemTest.
BufPending ==
  \A t \in BufThread :
    /\ pending[t] \in {sem_full, sem_empty} => pc[t] = "slot" /\ pending[t] = Buf!SemBefore(t)
    /\ pending[t] = sem_mutex => pc[t] = "in"

\* The threads that have come through their first P() and not moved an item yet,
\* and those that have moved one and not called their last V() yet.
Holding(S) == {t \in S : pc[t] = "in" \/ (pc[t] = "slot" /\ pending[t] = NULL)}
Moved(S) == {t \in S : pc[t] = "out"}

\* Every slot of the buffer is counted once: free in sem_empty, promised to a
\* producer, full, or not yet handed back; and so is every item.
BufUnits ==
  /\ value[sem_empty] + Cardinality(Holding(Producer)) + full + Cardinality(Moved(Consumer)) = N
  /\ value[sem_full] + Cardinality(Holding(Consumer)) + Cardinality(Moved(Producer)) = full

BufInv == BufType /\ BufPending /\ BufUnits

\* What a P() of SemTest does.
LEMMA BufP ==
  ASSUME BufType, NEW t \in BufThread, NEW s \in {sem_mutex, sem_full, sem_empty}, Buf!P(t, s)
  PROVE  \/ UNCHANGED value /\ pending' = [pending EXCEPT ![t] = s]
         \/ /\ value[s] - 1 \in Nat /\ value' = [value EXCEPT ![s] = @ - 1]
            /\ pending' = [pending EXCEPT ![t] = NULL]
<1>1. value[s] \in Nat
  BY DEF BufType, BufSemaphore
<1> QED
  BY <1>1 DEF Buf!P

\* The sets of threads that hold a unit of a semaphore, or moved an item, are finite.
LEMMA BufFinite ==
  ASSUME NEW S \in {Producer, Consumer}
  PROVE  /\ IsFiniteSet(Holding(S)) /\ IsFiniteSet(Moved(S))
         /\ Cardinality(Holding(S)) \in Nat /\ Cardinality(Moved(S)) \in Nat
<1>1. /\ Holding(S) \in SUBSET (Producer \cup Consumer \cup Walker)
      /\ Moved(S) \in SUBSET (Producer \cup Consumer \cup Walker)
  BY DEF Holding, Moved
<1> QED
  BY <1>1, ObjectsDistinct, FS_Subset, FS_CardinalityType

\* Only the sets of the thread that makes a step change, and only by that thread.
LEMMA BufCount ==
  ASSUME BufType, NEW t \in BufThread, NEW S \in {Producer, Consumer},
         BufType', \A u \in BufThread \ {t} : pc'[u] = pc[u] /\ pending'[u] = pending[u]
  PROVE  /\ t \notin S => Holding(S)' = Holding(S) /\ Moved(S)' = Moved(S)
         /\ t \in S => /\ Cardinality(Holding(S)') = Cardinality(Holding(S))
                            + (IF t \in Holding(S)' THEN 1 ELSE 0) - (IF t \in Holding(S) THEN 1 ELSE 0)
                       /\ Cardinality(Moved(S)') = Cardinality(Moved(S))
                            + (IF t \in Moved(S)' THEN 1 ELSE 0) - (IF t \in Moved(S) THEN 1 ELSE 0)
<1> DEFINE H == Holding(S)
           M == Moved(S)
<1>1. \A u \in S : u \in BufThread
  BY DEF BufThread
<1>2. /\ t \notin H' => H' = H \ {t}
      /\ t \in H' => H' = H \cup {t}
      /\ t \notin M' => M' = M \ {t}
      /\ t \in M' => M' = M \cup {t}
  BY <1>1 DEF Holding, Moved
<1>3. t \notin S => H' = H /\ M' = M
  BY <1>1 DEF Holding, Moved
<1>4. /\ Cardinality(H) \in Nat /\ Cardinality(M) \in Nat
      /\ Cardinality(H \cup {t}) = Cardinality(H) + (IF t \in H THEN 0 ELSE 1)
      /\ Cardinality(H \ {t}) = Cardinality(H) - (IF t \in H THEN 1 ELSE 0)
      /\ Cardinality(M \cup {t}) = Cardinality(M) + (IF t \in M THEN 0 ELSE 1)
      /\ Cardinality(M \ {t}) = Cardinality(M) - (IF t \in M THEN 1 ELSE 0)
  BY BufFinite, CountOne
<1> HIDE DEF H, M
<1>5. /\ Cardinality(H') = IF t \in H' THEN Cardinality(H \cup {t}) ELSE Cardinality(H \ {t})
      /\ Cardinality(M') = IF t \in M' THEN Cardinality(M \cup {t}) ELSE Cardinality(M \ {t})
  BY <1>2, Zenon
<1>6. /\ Cardinality(H') = Cardinality(H) + (IF t \in H' THEN 1 ELSE 0) - (IF t \in H THEN 1 ELSE 0)
      /\ Cardinality(M') = Cardinality(M) + (IF t \in M' THEN 1 ELSE 0) - (IF t \in M THEN 1 ELSE 0)
  BY <1>4, <1>5
<1> QED
  BY <1>3, <1>6 DEF H, M

Holds(t) == IF pc[t] = "in" \/ (pc[t] = "slot" /\ pending[t] = NULL) THEN 1 ELSE 0
HasMoved(t) == IF pc[t] = "out" THEN 1 ELSE 0

\* The balance of one thread's step, when it moves d items, keeps the units counted.
LEMMA BufBalance ==
  ASSUME BufType, BufUnits, BufType', NEW t \in BufThread,
         \A u \in BufThread \ {t} : pc'[u] = pc[u] /\ pending'[u] = pending[u],
         NEW d \in {0, 1}, full' = full + (IF t \in Producer THEN d ELSE - d),
         value'[Buf!SemBefore(t)] + Holds(t)' + d = value[Buf!SemBefore(t)] + Holds(t),
         value'[Buf!SemAfter(t)] + HasMoved(t)' = value[Buf!SemAfter(t)] + HasMoved(t) + d
  PROVE  BufUnits'
<1> DEFINE hp == Cardinality(Holding(Producer))
           hc == Cardinality(Holding(Consumer))
           mp == Cardinality(Moved(Producer))
           mc == Cardinality(Moved(Consumer))
           e == value[sem_empty]
           f == value[sem_full]
<1>1. /\ e \in Nat /\ f \in Nat /\ e' \in Nat /\ f' \in Nat /\ full \in Int /\ N \in Nat
      /\ Holds(t) \in {0, 1} /\ Holds(t)' \in {0, 1}
      /\ HasMoved(t) \in {0, 1} /\ HasMoved(t)' \in {0, 1}
  BY SynchTestsAssumption DEF BufType, BufSemaphore, Holds, HasMoved
<1>2. hp \in Nat /\ hc \in Nat /\ mp \in Nat /\ mc \in Nat
  BY BufFinite
<1>3. e + hp + full + mc = N /\ f + hc + mp = full
  BY DEF BufUnits
<1>4. CASE t \in Producer
  <2>1. t \notin Consumer
    BY <1>4, ObjectsDistinct
  <2>2. hc' = hc /\ mc' = mc
    BY <2>1, BufCount
  <2>3. hp' = hp + Holds(t)' - Holds(t) /\ mp' = mp + HasMoved(t)' - HasMoved(t)
    BY <1>4, BufCount DEF Holding, Moved, Holds, HasMoved
  <2>4. e' + Holds(t)' + d = e + Holds(t) /\ f' + HasMoved(t)' = f + HasMoved(t) + d
        /\ full' = full + d
    BY <1>4 DEF Buf!SemBefore, Buf!SemAfter
  <2> HIDE DEF hp, hc, mp, mc, e, f
  <2>5. e' + hp' + full' + mc' = N /\ f' + hc' + mp' = full'
    BY <1>1, <1>2, <1>3, <2>2, <2>3, <2>4
  <2> QED
    BY <2>5 DEF BufUnits, hp, hc, mp, mc, e, f
<1>5. CASE t \notin Producer
  <2>1. t \in Consumer
    BY <1>5 DEF BufThread
  <2>2. hp' = hp /\ mp' = mp
    BY <1>5, BufCount
  <2>3. hc' = hc + Holds(t)' - Holds(t) /\ mc' = mc + HasMoved(t)' - HasMoved(t)
    BY <2>1, BufCount DEF Holding, Moved, Holds, HasMoved
  <2>4. f' + Holds(t)' + d = f + Holds(t) /\ e' + HasMoved(t)' = e + HasMoved(t) + d
        /\ full' = full - d
    BY <1>1, <1>5 DEF Buf!SemBefore, Buf!SemAfter
  <2> HIDE DEF hp, hc, mp, mc, e, f
  <2>5. e' + hp' + full' + mc' = N /\ f' + hc' + mp' = full'
    BY <1>1, <1>2, <1>3, <2>2, <2>3, <2>4
  <2> QED
    BY <2>5 DEF BufUnits, hp, hc, mp, mc, e, f
<1> QED
  BY <1>4, <1>5

\* The steps of the semaphore test, and a P tried again after a wake-up, keep its invariant.
LEMMA BufStep ==
  ASSUME BufInv, NEW t \in BufThread, Buf!SemStep(t) \/ Buf!Retry(t)
  PROVE  BufInv'
<1> DEFINE a == Buf!SemBefore(t)
           z == Buf!SemAfter(t)
<1>1. /\ value \in [BufSemaphore -> Nat]
      /\ pending \in [BufThread -> {NULL, sem_mutex, sem_full, sem_empty}]
      /\ pc \in [BufThread -> {"loop", "slot", "in", "out"}]
      /\ full \in Int /\ BufType /\ BufUnits /\ BufPending
  BY DEF BufInv, BufType
<1>2. /\ a \in {sem_full, sem_empty} /\ z \in {sem_full, sem_empty} /\ a # z
      /\ sem_mutex # a /\ sem_mutex # z /\ NULL \notin {a, z, sem_mutex}
      /\ \A s \in {sem_mutex, sem_full, sem_empty} : s \in BufSemaphore /\ s \notin {cond_mutex}
  BY ObjectsDistinct DEF Buf!SemBefore, Buf!SemAfter, BufSemaphore
<1>3. CASE Buf!SemSlot(t)
  <2>1. /\ pc[t] = "loop" /\ pending[t] = NULL /\ Buf!P(t, a) /\ pc' = [pc EXCEPT ![t] = "slot"]
        /\ full' = full
    BY <1>3 DEF Buf!SemSlot, Buf!Begins, Buf!At, Buf!Running, Buf!Goto
  <2>2. \/ UNCHANGED value /\ pending' = [pending EXCEPT ![t] = a]
        \/ /\ value[a] - 1 \in Nat /\ value' = [value EXCEPT ![a] = @ - 1]
           /\ pending' = [pending EXCEPT ![t] = NULL]
    BY <1>1, <1>2, <2>1, BufP
  <2>3. BufType'
    BY <1>1, <1>2, <2>1, <2>2 DEF BufType
  <2>4. BufPending'
    BY <1>1, <1>2, <2>1, <2>2 DEF BufPending
  <2>5. /\ value'[a] + Holds(t)' + 0 = value[a] + Holds(t)
        /\ value'[z] + HasMoved(t)' = value[z] + HasMoved(t) + 0
    BY <1>1, <1>2, <2>1, <2>2 DEF Holds, HasMoved
  <2> QED
    BY <1>1, <2>1, <2>2, <2>3, <2>4, <2>5, BufBalance DEF BufInv
<1>4. CASE Buf!SemEnter(t)
  <2>1. /\ pc[t] = "slot" /\ pending[t] = NULL /\ Buf!P(t, sem_mutex) /\ pc' = [pc EXCEPT ![t] = "in"]
        /\ full' = full
    BY <1>4 DEF Buf!SemEnter, Buf!At, Buf!Running, Buf!Goto
  <2>2. \/ UNCHANGED value /\ pending' = [pending EXCEPT ![t] = sem_mutex]
        \/ /\ value[sem_mutex] - 1 \in Nat /\ value' = [value EXCEPT ![sem_mutex] = @ - 1]
           /\ pending' = [pending EXCEPT ![t] = NULL]
    BY <1>1, <1>2, <2>1, BufP
  <2>3. BufType'
    BY <1>1, <1>2, <2>1, <2>2 DEF BufType
  <2>4. BufPending'
    BY <1>1, <1>2, <2>1, <2>2 DEF BufPending
  <2>5. /\ value'[a] + Holds(t)' + 0 = value[a] + Holds(t)
        /\ value'[z] + HasMoved(t)' = value[z] + HasMoved(t) + 0
    BY <1>1, <1>2, <2>1, <2>2 DEF Holds, HasMoved
  <2> QED
    BY <1>1, <2>1, <2>2, <2>3, <2>4, <2>5, BufBalance DEF BufInv
<1>5. CASE Buf!SemMove(t)
  <2>1. /\ pc[t] = "in" /\ pending[t] = NULL /\ pc' = [pc EXCEPT ![t] = "out"]
        /\ value' = [value EXCEPT ![sem_mutex] = @ + 1] /\ pending' = pending
        /\ full' = full + (IF t \in Producer THEN 1 ELSE - 1)
    BY <1>5 DEF Buf!SemMove, Buf!At, Buf!Running, Buf!Goto, Buf!Moves, Buf!V
  <2>2. BufType'
    BY <1>1, <1>2, <2>1 DEF BufType
  <2>3. BufPending'
    BY <1>1, <1>2, <2>1 DEF BufPending
  <2>4. /\ value'[a] + Holds(t)' + 1 = value[a] + Holds(t)
        /\ value'[z] + HasMoved(t)' = value[z] + HasMoved(t) + 1
    BY <1>1, <1>2, <2>1 DEF Holds, HasMoved
  <2> QED
    BY <1>1, <2>1, <2>2, <2>3, <2>4, BufBalance DEF BufInv
<1>6. CASE Buf!SemHandOver(t)
  <2>1. /\ pc[t] = "out" /\ pending[t] = NULL /\ pc' = [pc EXCEPT ![t] = "loop"]
        /\ value' = [value EXCEPT ![z] = @ + 1] /\ pending' = pending /\ full' = full
    BY <1>6 DEF Buf!SemHandOver, Buf!At, Buf!Running, Buf!Goto, Buf!Again, Buf!V
  <2>2. BufType'
    BY <1>1, <1>2, <2>1 DEF BufType
  <2>3. BufPending'
    BY <1>1, <1>2, <2>1 DEF BufPending
  <2>4. /\ value'[a] + Holds(t)' + 0 = value[a] + Holds(t)
        /\ value'[z] + HasMoved(t)' = value[z] + HasMoved(t) + 0
    BY <1>1, <1>2, <2>1 DEF Holds, HasMoved
  <2> QED
    BY <1>1, <2>1, <2>2, <2>3, <2>4, BufBalance DEF BufInv
<1>7. CASE Buf!Retry(t)
  <2>1. /\ pending[t] \in {sem_mutex, sem_full, sem_empty} /\ Buf!P(t, pending[t])
        /\ pc' = pc /\ full' = full
    BY <1>1, <1>2, <1>7 DEF Buf!Retry, Buf!Resume
  <2>2. \/ /\ pending[t] = a /\ pc[t] = "slot"
        \/ /\ pending[t] = sem_mutex /\ pc[t] = "in"
    BY <1>1, <1>2, <2>1 DEF BufPending
  <2>3. \/ UNCHANGED <<value, pending>>
        \/ /\ value[pending[t]] - 1 \in Nat /\ value' = [value EXCEPT ![pending[t]] = @ - 1]
           /\ pending' = [pending EXCEPT ![t] = NULL]
    BY <1>1, <2>1, BufP
  <2>4. BufType'
    BY <1>1, <1>2, <2>1, <2>3 DEF BufType
  <2>5. BufPending'
    BY <1>1, <1>2, <2>1, <2>3 DEF BufPending
  <2>6. /\ value'[a] + Holds(t)' + 0 = value[a] + Holds(t)
        /\ value'[z] + HasMoved(t)' = value[z] + HasMoved(t) + 0
    BY <1>1, <1>2, <2>1, <2>2, <2>3 DEF Holds, HasMoved
  <2> QED
    BY <1>1, <2>1, <2>3, <2>4, <2>5, <2>6, BufBalance DEF BufInv
<1> QED
  BY <1>3, <1>4, <1>5, <1>6, <1>7 DEF Buf!SemStep

\* SemTest's invariant, and what CondTest's lock gives: its while loop reads the
\* number of items in the step that changes it.
BufSafe ==
  /\ full \in Int
  /\ test = "SemTest" => BufInv
  /\ test = "CondTest" => full \in 0 .. N

\* A step of the condition test changes the count by one and stays between 0 and N.
LEMMA BufCondStep ==
  ASSUME full \in 0 .. N, NEW t \in BufThread, Buf!CondStep(t)
  PROVE  \/ full' = full
         \/ full < N /\ full' = full + 1
         \/ full > 0 /\ full' = full - 1
  BY SynchTestsAssumption DEF Buf!CondStep, Buf!CondEnter, Buf!CondBody, Buf!CondLeave, Buf!Moves,
     Buf!MustWait

\* Every step keeps the count of the buffer in its bounds, in either test.
LEMMA BufSafeStep == BufSafe /\ [Next]_vars => BufSafe'
<1> SUFFICES ASSUME BufSafe, [Next]_vars
             PROVE  BufSafe'
  OBVIOUS
<1>1. CASE UNCHANGED vars
  BY <1>1 DEF BufSafe, BufInv, BufType, BufPending, BufUnits, Holding, Moved, vars, synchVars,
     bufferVars, Buf!SemBefore
<1>2. CASE ReadWriteTest \/ BarrierTest \/ ListTest
  BY <1>2 DEF BufSafe, ReadWriteTest, BarrierTest, ListTest, bufferVars
<1>3. CASE BufferTest
  <2>1. PICK t \in BufThread : \/ test = "SemTest" /\ (Buf!SemStep(t) \/ Buf!Retry(t))
                               \/ test = "CondTest" /\ (Buf!CondStep(t) \/ Buf!Retry(t))
    BY <1>3 DEF BufferTest, Buffered, BufThread
  <2>2. UNCHANGED test
    BY <1>3 DEF BufferTest
  <2>3. CASE test = "SemTest"
    <3>1. BufInv'
      BY <2>1, <2>3, BufStep DEF BufSafe
    <3> QED
      BY <2>2, <2>3, <3>1 DEF BufSafe, BufInv, BufType
  <2>4. CASE test = "CondTest"
    <3>1. \/ full' = full
          \/ full < N /\ full' = full + 1
          \/ full > 0 /\ full' = full - 1
      BY <2>1, <2>4, BufCondStep DEF BufSafe, Buf!Retry
    <3> QED
      BY <2>2, <2>4, <3>1, SynchTestsAssumption DEF BufSafe
  <2> QED
    BY <2>1, <2>3, <2>4
<1>4. CASE Terminated
  BY <1>1, <1>4 DEF Terminated
<1> QED
  BY <1>1, <1>2, <1>3, <1>4 DEF Next, Step

\* The invariant of the bounded-buffer tests always holds.
LEMMA BufInvariance == Spec => []BufSafe
<1>1. Init => BufSafe
  <2> SUFFICES ASSUME Init PROVE BufSafe
    OBVIOUS
  <2>1. full = 0 /\ N \in Nat
    BY SynchTestsAssumption DEF Init, Buf!DataInit
  <2>2. ASSUME test = "SemTest" PROVE BufInv
    <3>1. /\ value = BufferValue /\ pending = [t \in BufThread |-> NULL]
          /\ pc = [t \in BufThread |-> "loop"]
      BY <2>2 DEF Init, Buf!Init, Buf!SynchInit, BufThread
    <3>2. BufType /\ value[sem_empty] = N /\ value[sem_full] = 0
      BY <2>1, <3>1, ObjectsDistinct DEF BufType, BufferValue, BufSemaphore
    <3>3. BufPending
      BY <3>1, ObjectsDistinct DEF BufPending
    <3>4. /\ Holding(Producer) = {} /\ Holding(Consumer) = {}
          /\ Moved(Producer) = {} /\ Moved(Consumer) = {}
      BY <3>1 DEF Holding, Moved, BufThread
    <3>5. BufUnits
      BY <2>1, <3>2, <3>4, FS_EmptySet DEF BufUnits
    <3> QED
      BY <3>2, <3>3, <3>5 DEF BufInv
  <2> QED
    BY <2>1, <2>2 DEF BufSafe
<1> QED
  BY <1>1, BufSafeStep, PTL DEF Spec

\* The number of items in the buffer of SemTest and CondTest behaves like the abstract
\* buffer: a producer inserts only below N and a consumer removes only above 0, with
\* any number of producers and consumers.
THEOREM BufferRefinement == Spec => RefinesBuffer
<1>1. Init => BufferAbstract!Init
  BY DEF Init, Buf!DataInit, BufferAbstract!Init
<1>2. BufSafe /\ [Next]_vars => [BufferAbstract!Insert \/ BufferAbstract!Remove]_full
  <2> SUFFICES ASSUME BufSafe, [Next]_vars, full' # full
               PROVE  BufferAbstract!Insert \/ BufferAbstract!Remove
    OBVIOUS
  <2>1. BufferTest
    BY DEF Next, Step, Terminated, ReadWriteTest, BarrierTest, ListTest, vars, bufferVars
  <2>2. PICK t \in BufThread : \/ test = "SemTest" /\ Buf!SemStep(t)
                               \/ test = "CondTest" /\ Buf!CondStep(t)
    BY <2>1 DEF BufferTest, BufThread, Buf!Retry
  <2>3. CASE test = "SemTest" /\ Buf!SemStep(t)
    <3>1. /\ pc[t] = "in" /\ full' = full + (IF t \in Producer THEN 1 ELSE - 1)
      BY <2>3 DEF Buf!SemStep, Buf!SemSlot, Buf!SemEnter, Buf!SemMove, Buf!SemHandOver, Buf!Moves,
         Buf!At
    <3>2. BufUnits /\ full \in Int /\ value[sem_empty] \in Nat /\ value[sem_full] \in Nat /\ N \in Nat
      BY <2>3, SynchTestsAssumption DEF BufSafe, BufInv, BufType, BufSemaphore
    <3>3. \A S \in {Producer, Consumer} : t \in S => Cardinality(Holding(S)) # 0
      <4> SUFFICES ASSUME NEW S \in {Producer, Consumer}, t \in S
                   PROVE  Cardinality(Holding(S)) # 0
        OBVIOUS
      <4>1. t \in Holding(S)
        BY <3>1 DEF Holding
      <4> QED
        BY <4>1, BufFinite, FS_EmptySet
    <3> DEFINE hp == Cardinality(Holding(Producer))
               hc == Cardinality(Holding(Consumer))
               mp == Cardinality(Moved(Producer))
               mc == Cardinality(Moved(Consumer))
    <3>4. /\ hp \in Nat /\ hc \in Nat /\ mp \in Nat /\ mc \in Nat
          /\ value[sem_empty] + hp + full + mc = N /\ value[sem_full] + hc + mp = full
          /\ t \in Producer => hp # 0
          /\ t \notin Producer => hc # 0
      BY <3>2, <3>3, BufFinite DEF BufUnits, BufThread
    <3> HIDE DEF hp, hc, mp, mc
    <3>5. (t \in Producer => full < N) /\ (t \notin Producer => full > 0)
      BY <3>2, <3>4
    <3> QED
      BY <3>1, <3>2, <3>5 DEF BufferAbstract!Insert, BufferAbstract!Remove
  <2>4. CASE test = "CondTest" /\ Buf!CondStep(t)
    BY <2>4, BufCondStep DEF BufSafe, BufferAbstract!Insert, BufferAbstract!Remove
  <2> QED
    BY <2>2, <2>3, <2>4
<1> QED
  BY <1>1, <1>2, BufInvariance, PTL DEF Spec, RefinesBuffer, BufferAbstract!Spec
=============================================================================
