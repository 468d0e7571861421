----------------------------- MODULE SynchTests -----------------------------
(***************************************************************************)
(* The programs that use the synchronization primitives: main.cc starts    *)
(* one of the tests of threads/synchtest.cc, and a client of               *)
(* threads/synchlist.cc is run in the same way.  test says which one this  *)
(* run of Nachos is; the variables of the others keep their first value.   *)
(***************************************************************************)
EXTENDS Naturals, FiniteSets

CONSTANTS NULL, Test,
          Reader, Writer, mutex, conReader, conWriter, Rounds,
          Comer, cond, barrierNum,
          Producer, Consumer, Walker, lock, listEmpty, Calls,
          sem_mutex, sem_full, sem_empty, cond_mutex, prodc, consc, N, Loops

ASSUME SynchTestsAssumption ==
  /\ Test \subseteq {"ReadWriteTest", "BarrierTest", "SemTest", "CondTest", "SynchList"}
  /\ Reader \cap Writer = {} /\ conReader # conWriter /\ Rounds \in Nat
  /\ barrierNum \in Nat /\ N \in Nat \ {0}
  /\ Calls \in [Producer \cup Consumer \cup Walker -> Nat]
  /\ Loops \in [Producer \cup Consumer -> Nat]

\* Each test forks finitely many threads, a thread's pointer is not 0, and neither is
\* that of a lock or semaphore that "new" has made; no two of those are the same.
ASSUME ObjectsDistinct ==
  /\ IsFiniteSet(Reader \cup Writer) /\ IsFiniteSet(Comer)
  /\ IsFiniteSet(Producer \cup Consumer \cup Walker)
  /\ NULL \notin Reader \cup Writer \cup Comer \cup Producer \cup Consumer \cup Walker
  /\ NULL \notin {mutex, lock, sem_mutex, sem_full, sem_empty, cond_mutex}
  /\ Producer \cap Consumer = {}
  /\ sem_mutex \notin {sem_full, sem_empty, cond_mutex} /\ sem_full # sem_empty
  /\ cond_mutex \notin {sem_full, sem_empty} /\ prodc # consc

VARIABLES test,
          status, value, queue, holder, waitCondQueue, condLock, pending,
          pc, rounds,
          pendingReaders, activeReaders, pendingWriters,
          remaining, processFunction, memid, report,
          list, put, got,
          full, empty

synchVars == <<status, value, queue, holder, waitCondQueue, condLock, pending>>
rwVars == <<pendingReaders, activeReaders, pendingWriters>>
barrierVars == <<remaining, processFunction, memid, report>>
listVars == <<list, put, got>>
bufferVars == <<full, empty>>
vars == <<test, synchVars, pc, rounds, rwVars, barrierVars, listVars, bufferVars>>

OneLock(l) == [s \in {l} |-> 1]

RW == INSTANCE RWLock WITH
        Thread <- Reader \cup Writer, Lock <- {mutex}, Semaphore <- {mutex},
        Condition <- {conReader, conWriter}, InitialValue <- OneLock(mutex)

B == INSTANCE Barrier WITH
       Thread <- Comer, Lock <- {lock}, Semaphore <- {lock},
       Condition <- {cond}, InitialValue <- OneLock(lock)

L == INSTANCE SynchList WITH
       Thread <- Producer \cup Consumer \cup Walker, Lock <- {lock}, Semaphore <- {lock},
       Condition <- {listEmpty}, InitialValue <- OneLock(lock), calls <- rounds

\* What the constructors of SemTest and CondTest get.
BufferValue == [s \in {sem_mutex, sem_full, sem_empty, cond_mutex} |->
                  IF s = sem_empty THEN N ELSE IF s = sem_full THEN 0 ELSE 1]

Buf == INSTANCE BoundedBuffer WITH
         Thread <- Producer \cup Consumer, Lock <- {cond_mutex},
         Semaphore <- {sem_mutex, sem_full, sem_empty, cond_mutex},
         Condition <- {prodc, consc}, InitialValue <- BufferValue

Buffered == test \in {"SemTest", "CondTest"}

Init ==
  /\ test \in Test
  /\ RW!DataInit /\ B!DataInit /\ L!DataInit /\ Buf!DataInit
  /\ CASE test = "ReadWriteTest" -> RW!Init
       [] test = "BarrierTest" -> B!Init /\ rounds = NULL
       [] test = "SynchList" -> L!Init
       [] OTHER -> Buf!Init

ReadWriteTest ==
  /\ test = "ReadWriteTest"
  /\ \E t \in Reader \cup Writer : RW!Step(t)
  /\ UNCHANGED <<test, barrierVars, listVars, bufferVars>>

BarrierTest ==
  /\ test = "BarrierTest"
  /\ \E t \in Comer : B!Step(t)
  /\ UNCHANGED <<test, rounds, rwVars, listVars, bufferVars>>

ListTest ==
  /\ test = "SynchList"
  /\ \E t \in Producer \cup Consumer \cup Walker : L!Step(t)
  /\ UNCHANGED <<test, rwVars, barrierVars, bufferVars>>

BufferTest ==
  /\ \E t \in Producer \cup Consumer :
       \/ test = "SemTest" /\ Buf!SemStep(t)
       \/ test = "CondTest" /\ Buf!CondStep(t)
       \/ Buffered /\ Buf!Retry(t)
  /\ UNCHANGED <<test, rwVars, barrierVars, listVars>>

Step == ReadWriteTest \/ BarrierTest \/ ListTest \/ BufferTest

Finished ==
  CASE test = "ReadWriteTest" -> RW!Finished
    [] test = "BarrierTest" -> B!Finished
    [] test = "SynchList" -> L!Finished
    [] OTHER -> Buf!Finished

\* The test is over and the machine halts.
Terminated == Finished /\ UNCHANGED vars

Next == Step \/ Terminated

\* The processor is never idle while a thread is ready: Thread::Sleep runs the
\* next ready thread.  That is all the fairness Termination needs.
Spec == Init /\ [][Next]_vars /\ WF_vars(Step)

-----------------------------------------------------------------------------
(* Properties *)

\* The threads between the return of readlock() or writelock() and the point where
\* unlock() gives up their place behave like the abstract reader-writer lock:
\* writers are alone.
InRW == IF test = "ReadWriteTest" THEN RW!Inside ELSE {}
RWAbstract == INSTANCE RWLockSpec WITH readers <- InRW \cap Reader,
                                       writers <- InRW \cap Writer
RefinesRWLock == RWAbstract!Spec

\* unlock() goes by activeReaders alone: the counters of RWLock are exact.
CountersExact == test = "ReadWriteTest" => RW!CountersExact

\* No reader or writer sleeps on its condition when nobody is left to signal it.
NoStrandedWaiter == test = "ReadWriteTest" => RW!NoStrandedWaiter

\* Barrier::enterBarrier opens for barrierNum threads, and reports them once.
OpensOnce == test = "BarrierTest" => B!OpensOnce

\* SynchList hands out every item once and in order, although removers compete for
\* the items that woke them.
Fifo == INSTANCE FifoSpec WITH Item <- L!Item
RefinesFifo == Fifo!Spec

\* A Signal of SynchList::Append is never swallowed by a remover that finds the item
\* taken.
NoStrandedRemover == test = "SynchList" => L!NoStrandedRemover

\* Producers and consumers of SemTest and CondTest never overfill the buffer and
\* never take from an empty one.
BufferAbstract == INSTANCE BufferSpec WITH count <- full
RefinesBuffer == BufferAbstract!Spec

\* Every test comes to its end: each reader, writer, thread at the barrier and client
\* of the list returns, and every item produced is consumed.
Termination == <>Finished
=============================================================================
