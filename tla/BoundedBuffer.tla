---------------------------- MODULE BoundedBuffer ----------------------------
(***************************************************************************)
(* The producers and consumers of threads/synchtest.cc: SemTest with three *)
(* semaphores, CondTest with a lock and two conditions.                    *)
(*                                                                         *)
(* The buffer is its number of items: full, with empty beside it in        *)
(* SemTest, and "buffer", here also full, in CondTest.  Consumers ask for  *)
(* more items than are produced, so both tests end with sleeping           *)
(* consumers.  pc[t]:                                                      *)
(*   "loop"   at the head of the for loop                                  *)
(*   "slot"   SemTest: the first P() has been called                       *)
(*   "in"     SemTest: sem_mutex->P() called; CondTest: Acquire() called   *)
(*   "wait"   CondTest: in Wait()                                          *)
(*   "out"    has put or taken an item; one more call to go                *)
(***************************************************************************)
EXTENDS Synch

CONSTANTS Producer, Consumer,
          sem_mutex, sem_full, sem_empty,
          cond_mutex, prodc, consc,
          N,                  \* N of SemTest, FullBuffer of CondTest
          Loops               \* how often a producer or consumer goes round

VARIABLES full, empty, pc, rounds

DataInit == full = 0 /\ empty = N

Init ==
  /\ SynchInit /\ DataInit
  /\ pc = [t \in Thread |-> "loop"]
  /\ rounds = [t \in Thread |-> 0]

At(t, loc) == Running(t) /\ pc[t] = loc
Goto(t, loc) == pc' = [pc EXCEPT ![t] = loc]
Again(t) == Goto(t, "loop") /\ rounds' = [rounds EXCEPT ![t] = @ + 1]
Begins(t) == At(t, "loop") /\ rounds[t] < Loops[t]

\* insert_item or remove_item; buffer++ or buffer--.
Moves(t) ==
  LET d == IF t \in Producer THEN 1 ELSE -1
  IN full' = full + d /\ empty' = empty - d

-----------------------------------------------------------------------------
(* SemTest *)

SemBefore(t) == IF t \in Producer THEN sem_empty ELSE sem_full
SemAfter(t) == IF t \in Producer THEN sem_full ELSE sem_empty

SemSlot(t) ==
  /\ Begins(t) /\ P(t, SemBefore(t)) /\ Goto(t, "slot")
  /\ UNCHANGED <<holder, full, empty, rounds>>

SemEnter(t) ==
  /\ At(t, "slot") /\ P(t, sem_mutex) /\ Goto(t, "in")
  /\ UNCHANGED <<holder, full, empty, rounds>>

\* The item, and sem_mutex->V().
SemMove(t) ==
  /\ At(t, "in") /\ Moves(t) /\ V(sem_mutex) /\ Goto(t, "out")
  /\ UNCHANGED rounds

SemHandOver(t) ==
  /\ At(t, "out") /\ V(SemAfter(t)) /\ Again(t)
  /\ UNCHANGED <<full, empty>>

SemStep(t) == SemSlot(t) \/ SemEnter(t) \/ SemMove(t) \/ SemHandOver(t)

-----------------------------------------------------------------------------
(* CondTest *)

\* What a thread waits for, and whom it signals.
Mine(t) == IF t \in Producer THEN prodc ELSE consc
Other(t) == IF t \in Producer THEN consc ELSE prodc
MustWait(t) == IF t \in Producer THEN full = N ELSE full = 0

CondEnter(t) ==
  /\ Begins(t) /\ Acquire(t, cond_mutex) /\ Goto(t, "in")
  /\ UNCHANGED <<full, empty, rounds>>

\* Mutant: "if" instead of "while" around Wait().
CondBody_If(t) ==
  /\ At(t, "in") \/ At(t, "wait")
  /\ \/ /\ MustWait(t) /\ pc[t] = "in"
        /\ Wait(t, Mine(t), cond_mutex) /\ Goto(t, "wait") /\ UNCHANGED <<full, empty>>
     \/ /\ ~MustWait(t) \/ pc[t] = "wait"
        /\ Moves(t) /\ Signal(t, Other(t), cond_mutex) /\ Goto(t, "out")
  /\ UNCHANGED rounds

\* With the lock, on entry and each time Wait() returns.
CondBody(t) ==
  /\ At(t, "in") \/ At(t, "wait")
  /\ \/ /\ MustWait(t)
        /\ Wait(t, Mine(t), cond_mutex) /\ Goto(t, "wait") /\ UNCHANGED <<full, empty>>
     \/ /\ ~MustWait(t)
        /\ Moves(t) /\ Signal(t, Other(t), cond_mutex) /\ Goto(t, "out")
  /\ UNCHANGED rounds

CondLeave(t) ==
  /\ At(t, "out") /\ Release(t, cond_mutex) /\ Again(t)
  /\ UNCHANGED <<full, empty>>

CondStep(t) == CondEnter(t) \/ CondBody(t) \/ CondLeave(t)

Retry(t) == Resume(t) /\ UNCHANGED <<full, empty, pc, rounds>>

\* Every item has been produced and consumed, and the consumers that want more
\* are asleep: Interrupt::Idle halts the machine.
Finished ==
  /\ full = 0
  /\ \A t \in Producer : At(t, "loop") /\ rounds[t] = Loops[t]
  /\ \A t \in Consumer : status[t] = "BLOCKED" \/ (At(t, "loop") /\ rounds[t] = Loops[t])
=============================================================================
