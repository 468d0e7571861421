------------------------------ MODULE Interrupt ------------------------------
(***************************************************************************)
(* The simulated clock and its interrupts: class Interrupt                 *)
(* (machine/interrupt.cc) and class Timer (machine/timer.cc), with threads *)
(* that run user instructions (Machine::Run), trap into the kernel, turn   *)
(* interrupts off and on, start I/O and sleep until it is done.            *)
(*                                                                         *)
(* The code only compares the time of an interrupt with totalTicks, so an  *)
(* element of pending has as its key how far in the future it is.  Which   *)
(* ready thread runs next is left open (module Scheduler).                 *)
(***************************************************************************)
EXTENDS NachosList, FiniteSets

CONSTANTS Thread, main,
          Timer,              \* the Timer objects there can be
          Poller,             \* devices that poll: console input, network
          SystemTick, UserTick,
          TimerDelay,         \* what TimeOfNextInterrupt may return
          IODelay, PollDelay,
          None

ASSUME InterruptAssumption ==
  /\ main \in Thread /\ IsFiniteSet(Thread)
  /\ SystemTick \in Nat \ {0} /\ UserTick \in Nat \ {0}
  /\ TimerDelay \subseteq Nat \ {0} /\ IODelay \subseteq Nat \ {0} /\ PollDelay \in Nat \ {0}

\* Timers, polling devices and threads are different objects; there are finitely many.
ASSUME InterruptObjects ==
  /\ IsFiniteSet(Timer) /\ IsFiniteSet(Poller)
  /\ Timer \cap Poller = {} /\ Timer \cap Thread = {} /\ Poller \cap Thread = {}
  /\ None \notin {"SystemMode", "UserMode"}

VARIABLES level, pending, yieldOnReturn, status,
          ticking,            \* OneTick is in its CheckIfDue loop
          idle,               \* "no", or where Interrupt::Idle is
          halted,
          currentThread,
          where,              \* thread -> what it executes
          saved,              \* thread -> the status OneTick restores after Yield
          io                  \* thread -> its I/O request

clockVars == <<level, pending, yieldOnReturn, status, ticking>>
threadVars == <<where, saved, io>>
vars == <<clockVars, idle, halted, currentThread, threadVars>>

Ready == {t \in Thread : where[t] \in {"readyOn", "ready", "readyUser"}}

Type(e) == IF e \in Timer THEN "TimerInt" ELSE "Device"

\* Interrupt::Schedule
Schedule(l, e, fromNow) == SortedInsert(l, e, fromNow)

\* The clock moves on by n ticks.
Advance(l, n) == [i \in DOMAIN l |-> Elem(l[i].item, l[i].key - n)]

\* Initialize(): the timers and polling devices that the command line asks for have
\* scheduled their first interrupt; main runs in the kernel with interrupts on, the
\* others are forked.
Init ==
  /\ level = "IntOn" /\ yieldOnReturn = FALSE /\ status = "SystemMode"
  /\ \E on \in SUBSET (Timer \cup Poller) :
       pending \in {l \in [1 .. Cardinality(on) ->
                             [item : on, key : TimerDelay \cup {PollDelay}]] :
                      /\ {l[i].item : i \in DOMAIN l} = on
                      /\ \A i \in DOMAIN l :
                           l[i].key \in IF l[i].item \in Timer THEN TimerDelay ELSE {PollDelay}
                      /\ \A i, j \in DOMAIN l : i < j => l[i].key <= l[j].key}
  /\ ticking = FALSE /\ idle = "no" /\ halted = FALSE
  /\ currentThread = main
  /\ where = [t \in Thread |-> IF t = main THEN "kernel" ELSE "readyOn"]
  /\ saved = [t \in Thread |-> None]
  /\ io = [t \in Thread |-> "none"]

-----------------------------------------------------------------------------
(* Firing interrupts *)

Due(l) == l # <<>> /\ Head(l).key <= 0

\* Mutant: only the type is looked at, not whether other interrupts are pending.
OnlyTimer_Any(l) == l # <<>> /\ Type(Head(l).item) = "TimerInt"

\* Mutant: the test is left out.
OnlyTimer_Never(l) == FALSE

\* "Check if there is nothing more to do": a timer is all that is pending.
OnlyTimer(l) == Len(l) = 1 /\ Type(Head(l).item) = "TimerInt"

\* The handler of the removed interrupt e; the rest of pending is l.  A timer
\* reschedules itself and asks for a yield (getStatus() is never IdleMode in a
\* handler), a polling device reschedules itself, and the I/O of a thread wakes
\* it (Semaphore::V).
Handle(e, l) ==
  \/ /\ e \in Timer
     /\ \E d \in TimerDelay : pending' = Schedule(l, e, d)
     /\ yieldOnReturn' = TRUE /\ UNCHANGED <<where, io>>
  \/ /\ e \in Poller
     /\ pending' = Schedule(l, e, PollDelay) /\ UNCHANGED <<yieldOnReturn, where, io>>
  \/ /\ e \in Thread
     /\ pending' = l
     /\ IF where[e] = "asleep"
        THEN where' = [where EXCEPT ![e] = "ready"] /\ io' = [io EXCEPT ![e] = "none"]
        ELSE io' = [io EXCEPT ![e] = "done"] /\ UNCHANGED where
     /\ UNCHANGED yieldOnReturn

\* Mutant: the interrupts that became due at the same tick are forgotten.
CheckIfDue_Once == ticking /\ Due(pending) /\ Handle(Head(pending).item, Tail(pending))
                   /\ ticking' = FALSE /\ level' = "IntOn"
                   /\ UNCHANGED <<status, idle, halted, currentThread, saved>>

\* CheckIfDue(FALSE) in OneTick, for an interrupt that is due.
CheckIfDue ==
  /\ ticking /\ Due(pending)
  /\ Handle(Head(pending).item, Tail(pending))
  /\ UNCHANGED <<level, status, ticking, idle, halted, currentThread, saved>>

\* OneTick up to its loop, in status st.
BeginTick(st) ==
  /\ ticking' = TRUE /\ level' = "IntOff" /\ status' = st
  /\ pending' = Advance(pending, IF st = "SystemMode" THEN SystemTick ELSE UserTick)

\* Switch to thread n with interrupts off.  A new thread starts in ThreadRoot, which
\* turns them on, and so does a thread on its way out of Yield; one that returns
\* from P may have called it with interrupts off.
SwitchTo(n, wh) ==
  /\ currentThread' = n
  /\ where' = [wh EXCEPT ![n] = CASE @ = "readyOn" -> "enabling"
                                  [] @ = "ready" -> "kernel"
                                  [] OTHER -> "user"]

\* Mutant: the interrupt that is not due yet is not put back.
EndTick_NoPutBack ==
  /\ ticking /\ ~Due(pending) /\ ~yieldOnReturn
  /\ ticking' = FALSE /\ level' = "IntOn"
  /\ pending' = ListRemove(pending)
  /\ status' = IF saved[currentThread] = None THEN status ELSE saved[currentThread]
  /\ saved' = [saved EXCEPT ![currentThread] = None]
  /\ UNCHANGED <<yieldOnReturn, idle, halted, currentThread, where, io>>

\* OneTick after its loop, no yield: an OneTick inside Yield returns to the one
\* that called Yield, which restores the status.
EndTick ==
  /\ ticking /\ ~Due(pending) /\ ~yieldOnReturn
  /\ ticking' = FALSE /\ level' = "IntOn"
  /\ status' = IF saved[currentThread] = None THEN status ELSE saved[currentThread]
  /\ saved' = [saved EXCEPT ![currentThread] = None]
  /\ UNCHANGED <<pending, yieldOnReturn, idle, halted, currentThread, where, io>>

\* Mutant: the status is not set to SystemMode for the yield.
EndTickYield_KeepsStatus ==
  /\ ticking /\ ~Due(pending) /\ yieldOnReturn
  /\ yieldOnReturn' = FALSE /\ ticking' = FALSE /\ level' = "IntOff"
  /\ saved' = [saved EXCEPT ![currentThread] = IF @ = None THEN status ELSE @]
  /\ \/ UNCHANGED <<currentThread, where>>
     \/ \E n \in Ready :
          SwitchTo(n, [where EXCEPT ![currentThread] =
                         IF @ = "user" THEN "readyUser" ELSE "ready"])
  /\ UNCHANGED <<pending, status, idle, halted, io>>

\* OneTick after its loop, with a yield: Yield turns interrupts off and may go to
\* another thread; whoever runs then turns them on again, in Enable.
EndTickYield ==
  /\ ticking /\ ~Due(pending) /\ yieldOnReturn
  /\ yieldOnReturn' = FALSE /\ ticking' = FALSE /\ level' = "IntOff"
  /\ status' = "SystemMode"
  /\ saved' = [saved EXCEPT ![currentThread] = IF @ = None THEN status ELSE @]
  /\ \/ UNCHANGED <<currentThread, where>>
     \/ \E n \in Ready :
          SwitchTo(n, [where EXCEPT ![currentThread] =
                         IF @ = "user" THEN "readyUser" ELSE "ready"])
  /\ UNCHANGED <<pending, idle, halted, io>>

-----------------------------------------------------------------------------
(* The running thread *)

Runs(loc) ==
  /\ ~ticking /\ idle = "no" /\ ~halted
  /\ where[currentThread] = loc /\ saved[currentThread] = None

\* SetLevel(IntOn) with interrupts off.
Enable ==
  /\ ~ticking /\ idle = "no" /\ ~halted /\ level = "IntOff"
  /\ BeginTick(status)
  /\ where' = [where EXCEPT ![currentThread] = IF @ = "enabling" THEN "kernel" ELSE @]
  /\ UNCHANGED <<yieldOnReturn, idle, halted, currentThread, saved, io>>

\* SetLevel(IntOff)
Disable ==
  /\ Runs("kernel") /\ level = "IntOn" /\ level' = "IntOff"
  /\ UNCHANGED <<pending, yieldOnReturn, status, ticking, idle, halted, currentThread,
                 threadVars>>

\* One iteration of Machine::Run: an instruction, then OneTick.
UserInstruction ==
  /\ Runs("user") /\ level = "IntOn" /\ BeginTick(status)
  /\ UNCHANGED <<yieldOnReturn, idle, halted, currentThread, threadVars>>

\* RaiseException, up to the call of ExceptionHandler.
Trap ==
  /\ Runs("user") /\ level = "IntOn" /\ status' = "SystemMode"
  /\ where' = [where EXCEPT ![currentThread] = "kernel"]
  /\ UNCHANGED <<level, pending, yieldOnReturn, ticking, idle, halted, currentThread, saved, io>>

\* RaiseException returns to Machine::Run, or a thread calls it: setStatus(UserMode),
\* and the OneTick of the instruction.
ReturnToUser ==
  /\ Runs("kernel") /\ level = "IntOn" /\ BeginTick("UserMode")
  /\ where' = [where EXCEPT ![currentThread] = "user"]
  /\ UNCHANGED <<yieldOnReturn, idle, halted, currentThread, saved, io>>

\* Thread::Yield, called by kernel code: SetLevel(IntOff) and a switch.
Yield ==
  /\ Runs("kernel") /\ level' = "IntOff"
  /\ \E n \in Ready : SwitchTo(n, [where EXCEPT ![currentThread] = "readyOn"])
  /\ UNCHANGED <<pending, yieldOnReturn, status, ticking, idle, halted, saved, io>>

\* The thread starts I/O: the device schedules its interrupt.
StartIO ==
  /\ Runs("kernel") /\ io[currentThread] = "none"
  /\ io' = [io EXCEPT ![currentThread] = "busy"]
  /\ \E d \in IODelay : pending' = Schedule(pending, currentThread, d)
  /\ UNCHANGED <<level, yieldOnReturn, status, ticking, idle, halted, currentThread, where, saved>>

\* Thread::Sleep when currentThread becomes loc: another thread, or Idle.
SleepIn(loc) ==
  \/ /\ Ready = {} /\ idle' = "enter"
     /\ where' = [where EXCEPT ![currentThread] = loc] /\ UNCHANGED currentThread
  \/ /\ UNCHANGED idle
     /\ \E n \in Ready : SwitchTo(n, [where EXCEPT ![currentThread] = loc])

\* Semaphore::P for the I/O: returns at once if the interrupt came first.
WaitForIO ==
  /\ Runs("kernel") /\ level = "IntOff" /\ io[currentThread] # "none"
  /\ \/ /\ io[currentThread] = "done" /\ io' = [io EXCEPT ![currentThread] = "none"]
        /\ UNCHANGED <<idle, currentThread, where>>
     \/ io[currentThread] = "busy" /\ SleepIn("asleep") /\ UNCHANGED io
  /\ UNCHANGED <<clockVars, halted, saved>>

\* Thread::Finish
Finish ==
  /\ Runs("kernel") /\ level = "IntOff" /\ io[currentThread] = "none"
  /\ SleepIn("finished")
  /\ UNCHANGED <<clockVars, halted, saved, io>>

-----------------------------------------------------------------------------
(* Interrupt::Idle *)

\* CheckIfDue(TRUE): the clock goes to the first interrupt, which fires.
IdleAdvance ==
  /\ idle = "enter" /\ ~halted /\ pending # <<>> /\ ~OnlyTimer(pending)
  /\ LET l == IF Head(pending).key > 0 THEN Advance(pending, Head(pending).key) ELSE pending
     IN  Handle(Head(pending).item, Tail(l))
  /\ idle' = "drain" /\ status' = "IdleMode"
  /\ UNCHANGED <<level, ticking, halted, currentThread, saved>>

\* CheckIfDue(FALSE), for the others that are due at that time.
IdleDrain ==
  /\ idle = "drain" /\ Due(pending) /\ ~OnlyTimer(pending)
  /\ Handle(Head(pending).item, Tail(pending))
  /\ UNCHANGED <<level, status, ticking, idle, halted, currentThread, saved>>

\* Mutant: Idle returns with yieldOnReturn still set.
IdleReturn_KeepsYield ==
  /\ idle = "drain" /\ (~Due(pending) \/ OnlyTimer(pending))
  /\ status' = "SystemMode"
  /\ \/ Ready = {} /\ idle' = "enter" /\ UNCHANGED <<currentThread, where>>
     \/ idle' = "no" /\ \E n \in Ready : SwitchTo(n, where)
  /\ UNCHANGED <<level, pending, yieldOnReturn, ticking, halted, saved, io>>

\* Idle returns to the loop in Thread::Sleep, which runs a ready thread or calls
\* Idle again.
IdleReturn ==
  /\ idle = "drain" /\ (~Due(pending) \/ OnlyTimer(pending))
  /\ yieldOnReturn' = FALSE /\ status' = "SystemMode"
  /\ \/ Ready = {} /\ idle' = "enter" /\ UNCHANGED <<currentThread, where>>
     \/ idle' = "no" /\ \E n \in Ready : SwitchTo(n, where)
  /\ UNCHANGED <<level, pending, ticking, halted, saved, io>>

\* CheckIfDue(TRUE) returned FALSE.  The timer it put back is due by then.
Halt ==
  /\ idle = "enter" /\ ~halted /\ (pending = <<>> \/ OnlyTimer(pending))
  /\ halted' = TRUE /\ status' = "IdleMode"
  /\ pending' = IF Due(pending) \/ pending = <<>> THEN pending
                ELSE Advance(pending, Head(pending).key)
  /\ UNCHANGED <<level, yieldOnReturn, ticking, idle, currentThread, threadVars>>

Step ==
  \/ CheckIfDue \/ EndTick \/ EndTickYield
  \/ Enable \/ Disable \/ UserInstruction \/ Trap \/ ReturnToUser
  \/ Yield \/ StartIO \/ WaitForIO \/ Finish
  \/ IdleAdvance \/ IdleDrain \/ IdleReturn \/ Halt

Next == Step \/ (halted /\ UNCHANGED vars)

\* The simulator is one sequential program: it always does its next step.
Spec == Init /\ [][Next]_vars /\ WF_vars(Step)

-----------------------------------------------------------------------------
(* Properties *)

Firing == ticking \/ idle = "drain"

\* Pending interrupts are in order of time; Idle never moves the clock past one;
\* and outside the loops that fire them none is overdue, except the timer that
\* CheckIfDue puts back because it is the only one.
NoMissedInterrupt ==
  /\ \A i, j \in DOMAIN pending : i < j => pending[i].key <= pending[j].key
  /\ idle = "drain" => \A i \in DOMAIN pending : pending[i].key >= 0
  /\ ~Firing => \A i \in DOMAIN pending :
                  pending[i].key > 0 \/ (pending[i].key = 0 /\ pending[i].item \in Timer)

\* status follows the thread that runs, through timer interrupts, nested yields and
\* idle periods: user mode exactly when it executes user instructions.
ModeOfThread ==
  (idle = "no" /\ where[currentThread] \in {"enabling", "kernel", "user"}) =>
     status = IF where[currentThread] = "user" /\ saved[currentThread] = None
              THEN "UserMode" ELSE "SystemMode"

\* A time slice hits the thread that was interrupted: the flag is down again when
\* OneTick or Idle is over, so no thread yields for a timer that fired earlier.
YieldFlagLocal == yieldOnReturn => Firing

\* The machine halts only when no thread can run any more.
HaltsWhenDone == halted => \A t \in Thread : where[t] = "finished"

\* "If there are no pending interrupts, stop": once every thread has finished and
\* nothing polls, so that at most the time-slice daemon is left, the machine halts.
Polls == \E i \in DOMAIN pending : pending[i].item \in Poller

Halts == ((\A t \in Thread : where[t] = "finished") /\ ~Polls) ~> halted

\* An I/O interrupt that has been scheduled fires.
IOCompletes == \A t \in Thread : (io[t] = "busy") ~> (io[t] # "busy")
=============================================================================
