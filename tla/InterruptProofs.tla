-------------------------- MODULE InterruptProofs --------------------------
(***************************************************************************)
(* Proofs about the simulated clock and its interrupts, for any number of  *)
(* threads, timers and polling devices and any delays.                     *)
(***************************************************************************)
EXTENDS Interrupt, ListTheorems

Item == Thread \cup Timer \cup Poller
Running == {"enabling", "kernel", "user"}
ReadyAt == {"readyOn", "ready", "readyUser"}

IType ==
  /\ pending \in Seq(Element(Item))
  /\ yieldOnReturn \in BOOLEAN /\ ticking \in BOOLEAN /\ halted \in BOOLEAN
  /\ status \in {"IdleMode", "SystemMode", "UserMode"}
  /\ idle \in {"no", "enter", "drain"}
  /\ currentThread \in Thread
  /\ where \in [Thread -> Running \cup ReadyAt \cup {"asleep", "finished"}]
  /\ saved \in [Thread -> {None, "SystemMode", "UserMode"}]
  /\ io \in [Thread -> {"none", "busy", "done"}]

\* Where the processor is: in one thread, or in Idle because no thread can run.
Control ==
  /\ ticking => idle = "no" /\ where[currentThread] \in {"kernel", "user"}
  /\ halted => idle = "enter"
  /\ \A t \in Thread : where[t] \in Running <=> (t = currentThread /\ idle = "no")
  /\ idle = "enter" => \A t \in Thread : where[t] \notin ReadyAt

\* The status a thread has saved in OneTick is the one it was interrupted in.
SavedModes ==
  \A t \in Thread :
    /\ saved[t] # None => saved[t] = IF where[t] \in {"user", "readyUser"}
                                     THEN "UserMode" ELSE "SystemMode"
    /\ where[t] = "readyUser" => saved[t] # None

\* A thread sleeps only for an I/O whose interrupt is pending.
Requests ==
  \A t \in Thread :
    /\ where[t] = "asleep" => io[t] = "busy"
    /\ io[t] = "busy" => \E i \in DOMAIN pending : pending[i].item = t

IInv ==
  /\ IType /\ Control /\ SavedModes /\ ModeOfThread /\ Requests
  /\ NoMissedInterrupt /\ YieldFlagLocal /\ HaltsWhenDone

-----------------------------------------------------------------------------
(* The operators *)

\* Everything on l is on r as well.
Holds(l, r) == \A j \in DOMAIN l : \E i \in DOMAIN r : r[i] = l[j]

\* What is on r and was not on l is in the future.
AddsFuture(l, r) ==
  \A i \in DOMAIN r : r[i].key \in Nat \ {0} \/ \E j \in DOMAIN l : r[i] = l[j]

\* Interrupt::Schedule keeps pending in order and what is on it.
LEMMA ScheduleKeeps ==
  ASSUME NEW l \in Seq(Element(Item)), NEW e \in Item, NEW d \in Nat \ {0},
         NEW r, r = Schedule(l, e, d)
  PROVE  /\ r \in Seq(Element(Item))
         /\ Sorted(l) => Sorted(r)
         /\ AddsFuture(l, r) /\ Holds(l, r) /\ Contains(r, e)
<1>1. d \in Int
  OBVIOUS
<1>2. r = SortedInsert(l, e, d)
  BY DEF Schedule
<1>3. r \in Seq(Element(Item))
  BY <1>1, <1>2, InsertAt
<1>4. Sorted(l) => Sorted(r)
  BY <1>1, <1>2, InsertSorted
<1>5. /\ \A i \in DOMAIN r : r[i] = Elem(e, d) \/ \E j \in DOMAIN l : r[i] = l[j]
      /\ \A j \in DOMAIN l : \E i \in DOMAIN r : r[i] = l[j]
      /\ \E i \in DOMAIN r : r[i] = Elem(e, d)
  <2>1. \A i \in DOMAIN r : r[i] = Elem(e, d) \/ \E j \in DOMAIN l : r[i] = l[j]
    BY <1>1, <1>2, InsertItems
  <2>2. \A j \in DOMAIN l : \E i \in DOMAIN r : r[i] = l[j]
    BY <1>1, <1>2, InsertItems
  <2>3. \E i \in DOMAIN r : r[i] = Elem(e, d)
    BY <1>1, <1>2, InsertItems
  <2> QED
    BY <2>1, <2>2, <2>3
<1>6. Elem(e, d).key \in Nat \ {0} /\ Elem(e, d).item = e
  BY DEF Elem
<1>7. AddsFuture(l, r) /\ Holds(l, r)
  BY <1>5, <1>6 DEF AddsFuture, Holds
<1>8. Contains(r, e)
  BY <1>5, <1>6 DEF Contains
<1> QED
  BY <1>3, <1>4, <1>7, <1>8

\* A tick moves all pending interrupts together.
LEMMA AdvanceKeeps ==
  ASSUME NEW l \in Seq(Element(Item)), NEW n \in Int
  PROVE  /\ Advance(l, n) \in Seq(Element(Item))
         /\ DOMAIN Advance(l, n) = DOMAIN l
         /\ Len(Advance(l, n)) = Len(l)
         /\ \A i \in DOMAIN l : /\ Advance(l, n)[i].item = l[i].item
                                /\ Advance(l, n)[i].key = l[i].key - n
         /\ Sorted(l) => Sorted(Advance(l, n))
<1>1. /\ Len(l) \in Nat /\ DOMAIN l = 1 .. Len(l)
      /\ \A i \in 1 .. Len(l) : l[i].item \in Item /\ l[i].key \in Int
  BY KeyType
<1> DEFINE r == [i \in DOMAIN l |-> Elem(l[i].item, l[i].key - n)]
<1>2. \A x \in Item, k \in Int : Elem(x, k - n) \in Element(Item)
  BY DEF Elem, Element
<1>3. r \in [1 .. Len(l) -> Element(Item)]
  BY <1>1, <1>2
<1>4. r \in Seq(Element(Item)) /\ Len(r) = Len(l) /\ DOMAIN r = DOMAIN l
  BY <1>1, <1>3
<1>5. \A i \in DOMAIN l : r[i].item = l[i].item /\ r[i].key = l[i].key - n
  BY DEF Elem
<1> HIDE DEF r
<1>6. ASSUME Sorted(l) PROVE Sorted(r)
  <2> SUFFICES ASSUME NEW i \in DOMAIN l, NEW j \in DOMAIN l, i < j
               PROVE  r[i].key <= r[j].key
    BY <1>4 DEF Sorted
  <2>1. l[i].key <= l[j].key /\ l[i].key \in Int /\ l[j].key \in Int
    BY <1>1, <1>6 DEF Sorted
  <2> QED
    BY <1>5, <2>1
<1> QED
  BY <1>4, <1>5, <1>6 DEF r, Advance

\* What a handler does to the pending interrupts and to the threads.
LEMMA HandleKeeps ==
  ASSUME IType, NEW e \in Item, NEW l \in Seq(Element(Item)), Handle(e, l)
  PROVE  /\ pending' \in Seq(Element(Item))
         /\ Sorted(l) => Sorted(pending')
         /\ AddsFuture(l, pending') /\ Holds(l, pending')
         /\ yieldOnReturn' \in BOOLEAN
         /\ where' \in [Thread -> Running \cup ReadyAt \cup {"asleep", "finished"}]
         /\ io' \in [Thread -> {"none", "busy", "done"}]
         /\ \A t \in Thread :
              /\ where'[t] = where[t] \/ (t = e /\ where[t] = "asleep" /\ where'[t] = "ready")
              /\ io'[t] = io[t] \/ t = e
              /\ t = e => where'[t] # "asleep" /\ io'[t] # "busy"
<1> USE InterruptAssumption, InterruptObjects
<1>1. CASE e \in Timer
  <2>1. e \notin Thread /\ e \notin Poller
    BY <1>1
  <2>2. PICK d \in TimerDelay : pending' = Schedule(l, e, d)
    BY <2>1 DEF Handle
  <2>3. d \in Nat \ {0}
    OBVIOUS
  <2>4. yieldOnReturn' = TRUE /\ where' = where /\ io' = io
    BY <2>1 DEF Handle
  <2>5. /\ pending' \in Seq(Element(Item)) /\ (Sorted(l) => Sorted(pending'))
        /\ AddsFuture(l, pending') /\ Holds(l, pending')
    BY <2>2, <2>3, ScheduleKeeps
  <2>6. \A t \in Thread : t # e
    BY <2>1
  <2> QED
    BY <2>4, <2>5, <2>6 DEF IType
<1>2. CASE e \in Poller
  <2>1. e \notin Thread /\ e \notin Timer
    BY <1>2
  <2>2. pending' = Schedule(l, e, PollDelay) /\ PollDelay \in Nat \ {0}
    BY <2>1 DEF Handle
  <2>3. yieldOnReturn' = yieldOnReturn /\ where' = where /\ io' = io
    BY <2>1 DEF Handle
  <2>4. /\ pending' \in Seq(Element(Item)) /\ (Sorted(l) => Sorted(pending'))
        /\ AddsFuture(l, pending') /\ Holds(l, pending')
    BY <2>2, ScheduleKeeps
  <2>5. \A t \in Thread : t # e
    BY <2>1
  <2>6. yieldOnReturn' \in BOOLEAN
    BY <2>3 DEF IType
  <2>7. /\ where' \in [Thread -> Running \cup ReadyAt \cup {"asleep", "finished"}]
        /\ io' \in [Thread -> {"none", "busy", "done"}]
    BY <2>3 DEF IType
  <2> QED
    BY <2>3, <2>4, <2>5, <2>6, <2>7
<1>3. CASE e \in Thread
  <2>1. e \notin Timer /\ e \notin Poller
    BY <1>3
  <2>2. /\ pending' = l /\ yieldOnReturn' = yieldOnReturn
        /\ IF where[e] = "asleep"
           THEN where' = [where EXCEPT ![e] = "ready"] /\ io' = [io EXCEPT ![e] = "none"]
           ELSE io' = [io EXCEPT ![e] = "done"] /\ where' = where
    BY <2>1 DEF Handle
  <2>3. yieldOnReturn' \in BOOLEAN
    BY <2>2 DEF IType
  <2>4. /\ where' \in [Thread -> Running \cup ReadyAt \cup {"asleep", "finished"}]
        /\ \A t \in Thread :
             where'[t] = where[t] \/ (t = e /\ where[t] = "asleep" /\ where'[t] = "ready")
    BY <1>3, <2>2 DEF IType, ReadyAt
  <2>5. /\ io' \in [Thread -> {"none", "busy", "done"}]
        /\ \A t \in Thread : io'[t] = io[t] \/ t = e
        /\ where'[e] # "asleep" /\ io'[e] # "busy"
    BY <1>3, <2>2 DEF IType
  <2>6. AddsFuture(l, pending') /\ Holds(l, pending')
    BY <2>2 DEF AddsFuture, Holds
  <2> QED
    BY <2>2, <2>3, <2>4, <2>5, <2>6
<1> QED
  BY <1>1, <1>2, <1>3 DEF Item

\* A switch from the current thread, which goes to loc, to the ready thread n.
LEMMA SwitchKeeps ==
  ASSUME IType, NEW n \in Thread, where[n] \in ReadyAt,
         NEW wh \in [Thread -> Running \cup ReadyAt \cup {"asleep", "finished"}],
         wh[n] = where[n], SwitchTo(n, wh)
  PROVE  /\ currentThread' = n
         /\ where' \in [Thread -> Running \cup ReadyAt \cup {"asleep", "finished"}]
         /\ \A t \in Thread : t # n => where'[t] = wh[t]
         /\ where'[n] = IF where[n] = "readyOn" THEN "enabling"
                        ELSE IF where[n] = "ready" THEN "kernel" ELSE "user"
<1>1. /\ currentThread' = n
      /\ where' = [wh EXCEPT ![n] = CASE wh[n] = "readyOn" -> "enabling"
                                      [] wh[n] = "ready" -> "kernel"
                                      [] OTHER -> "user"]
  BY DEF SwitchTo
<1> DEFINE v == CASE wh[n] = "readyOn" -> "enabling"
                  [] wh[n] = "ready" -> "kernel"
                  [] OTHER -> "user"
<1>2. v = IF where[n] = "readyOn" THEN "enabling"
          ELSE IF where[n] = "ready" THEN "kernel" ELSE "user"
  OBVIOUS
<1>3. v \in Running
  BY <1>2 DEF Running
<1>4. where' = [wh EXCEPT ![n] = v]
  BY <1>1
<1> HIDE DEF v
<1> QED
  BY <1>1, <1>2, <1>3, <1>4

-----------------------------------------------------------------------------
(* The inductive invariant *)

\* A handler runs for a pending interrupt; the current thread stays where it is.
LEMMA FiredThread ==
  ASSUME IInv, NEW l \in Seq(Element(Item)), pending # <<>>,
         Handle(Head(pending).item, l)
  PROVE  /\ \A t \in Thread : where[t] # "asleep" => where'[t] = where[t]
         /\ \A t \in Thread : where[t] = "asleep" => where'[t] \in {"asleep", "ready"}
         /\ yieldOnReturn' \in BOOLEAN
         /\ where' \in [Thread -> Running \cup ReadyAt \cup {"asleep", "finished"}]
         /\ io' \in [Thread -> {"none", "busy", "done"}]
         /\ pending' \in Seq(Element(Item))
<1>1. IType /\ pending \in Seq(Element(Item))
  BY DEF IInv, IType
<1> DEFINE e == Head(pending).item
<1>2. e \in Item
  BY <1>1, RemoveFirst
<1> HIDE DEF e
<1>3. Handle(e, l)
  BY DEF e
<1> QED
  BY <1>1, <1>2, <1>3, HandleKeeps

\* Types, and where the processor is.
LEMMA ControlStep ==
  ASSUME IInv, Step
  PROVE  IType' /\ Control'
<1> USE InterruptAssumption, InterruptObjects
<1>1. IType /\ Control /\ ModeOfThread
  BY DEF IInv
<1>2. pending \in Seq(Element(Item)) /\ (pending # <<>> => Tail(pending) \in Seq(Element(Item)))
  BY <1>1, RemoveFirst DEF IType
<1>3. CASE CheckIfDue
  <2>1. pending # <<>> /\ Handle(Head(pending).item, Tail(pending)) /\ ticking
        /\ UNCHANGED <<status, ticking, idle, halted, currentThread, saved>>
    BY <1>3 DEF CheckIfDue, Due
  <2>2. /\ \A t \in Thread : where[t] # "asleep" => where'[t] = where[t]
        /\ \A t \in Thread : where[t] = "asleep" => where'[t] \in {"asleep", "ready"}
        /\ yieldOnReturn' \in BOOLEAN
        /\ where' \in [Thread -> Running \cup ReadyAt \cup {"asleep", "finished"}]
        /\ io' \in [Thread -> {"none", "busy", "done"}]
        /\ pending' \in Seq(Element(Item))
    BY <1>2, <2>1, FiredThread
  <2>3. IType'
    BY <1>1, <2>1, <2>2 DEF IType
  <2>4. where'[currentThread] = where[currentThread]
    BY <1>1, <2>1, <2>2 DEF IType, Control
  <2>5. Control'
    BY <1>1, <2>1, <2>2, <2>4 DEF IType, Control, Running
  <2> QED
    BY <2>3, <2>5
<1>4. CASE EndTick
  <2>1. IType'
    BY <1>1, <1>4 DEF EndTick, IType
  <2>2. Control'
    BY <1>1, <1>4 DEF EndTick, Control
  <2> QED
    BY <2>1, <2>2
<1>5. CASE EndTickYield
  <2>1. /\ ticking /\ ticking' = FALSE /\ yieldOnReturn' = FALSE /\ status' = "SystemMode"
        /\ saved' = [saved EXCEPT ![currentThread] = IF @ = None THEN status ELSE @]
        /\ UNCHANGED <<pending, idle, halted, io>>
    BY <1>5 DEF EndTickYield
  <2>2. idle = "no" /\ where[currentThread] \in {"kernel", "user"}
        /\ status \in {"SystemMode", "UserMode"} /\ ~halted
    BY <1>1, <2>1 DEF Control, ModeOfThread
  <2>3. saved' \in [Thread -> {None, "SystemMode", "UserMode"}]
    BY <1>1, <2>1, <2>2 DEF IType
  <2>4. CASE UNCHANGED <<currentThread, where>>
    BY <1>1, <2>1, <2>2, <2>3, <2>4 DEF IType, Control
  <2>5. ASSUME NEW n \in Ready, NEW v \in {"readyUser", "ready"},
               SwitchTo(n, [where EXCEPT ![currentThread] = v])
        PROVE  IType' /\ Control'
    <3> DEFINE wh == [where EXCEPT ![currentThread] = v]
    <3>1. /\ n \in Thread /\ where[n] \in ReadyAt /\ n # currentThread /\ currentThread \in Thread
          /\ wh \in [Thread -> Running \cup ReadyAt \cup {"asleep", "finished"}]
          /\ wh[n] = where[n] /\ wh[currentThread] = v
          /\ \A t \in Thread : t # currentThread => wh[t] = where[t]
      BY <1>1, <2>2 DEF Ready, ReadyAt, IType
    <3> HIDE DEF wh
    <3>2. /\ currentThread' = n
          /\ where' \in [Thread -> Running \cup ReadyAt \cup {"asleep", "finished"}]
          /\ \A t \in Thread : t # n => where'[t] = wh[t]
          /\ where'[n] \in Running
      BY <1>1, <2>5, <3>1, SwitchKeeps DEF wh, Running
    <3>3. IType'
      BY <1>1, <2>1, <2>3, <3>1, <3>2 DEF IType
    <3>4. Control'
      BY <1>1, <2>1, <2>2, <3>1, <3>2 DEF Control, Running
    <3> QED
      BY <3>3, <3>4
  <2>6. CASE \E n \in Ready :
               SwitchTo(n, [where EXCEPT ![currentThread] =
                              IF @ = "user" THEN "readyUser" ELSE "ready"])
    BY <2>5, <2>6
  <2> QED
    BY <1>5, <2>4, <2>6 DEF EndTickYield
<1>6. CASE Enable
  <2>1. /\ ticking' = TRUE /\ status' = status /\ idle = "no" /\ ~halted
        /\ pending' = Advance(pending, IF status = "SystemMode" THEN SystemTick ELSE UserTick)
        /\ where' = [where EXCEPT ![currentThread] = IF @ = "enabling" THEN "kernel" ELSE @]
        /\ UNCHANGED <<yieldOnReturn, idle, halted, currentThread, saved, io>>
    BY <1>6 DEF Enable, BeginTick
  <2>2. pending' \in Seq(Element(Item))
    BY <1>2, <2>1, AdvanceKeeps
  <2>3. where[currentThread] \in Running
    BY <1>1, <2>1 DEF Control, IType
  <2>4. IType'
    BY <1>1, <2>1, <2>2 DEF IType, Running
  <2>5. Control'
    BY <1>1, <2>1, <2>3 DEF Control, Running, IType
  <2> QED
    BY <2>4, <2>5
<1>7. CASE Disable
  BY <1>1, <1>7 DEF Disable, IType, Control, threadVars, Runs
<1>8. CASE UserInstruction
  <2>1. /\ ticking' = TRUE /\ status' = status /\ idle = "no" /\ ~halted
        /\ pending' = Advance(pending, IF status = "SystemMode" THEN SystemTick ELSE UserTick)
        /\ where[currentThread] = "user"
        /\ UNCHANGED <<yieldOnReturn, idle, halted, currentThread, where, saved, io>>
    BY <1>8 DEF UserInstruction, BeginTick, Runs, threadVars
  <2>2. pending' \in Seq(Element(Item))
    BY <1>2, <2>1, AdvanceKeeps
  <2> QED
    BY <1>1, <2>1, <2>2 DEF IType, Control
<1>9. CASE Trap
  <2>1. /\ where[currentThread] = "user" /\ ~ticking /\ status' = "SystemMode"
        /\ where' = [where EXCEPT ![currentThread] = "kernel"]
        /\ UNCHANGED <<pending, yieldOnReturn, ticking, idle, halted, currentThread, saved, io>>
    BY <1>9 DEF Trap, Runs
  <2>2. IType'
    BY <1>1, <2>1 DEF IType, Running
  <2>3. Control'
    BY <1>1, <2>1 DEF Control, IType, Running, ReadyAt
  <2> QED
    BY <2>2, <2>3
<1>10. CASE ReturnToUser
  <2>1. /\ ticking' = TRUE /\ status' = "UserMode" /\ idle = "no" /\ ~halted
        /\ pending' = Advance(pending, UserTick)
        /\ where[currentThread] = "kernel"
        /\ where' = [where EXCEPT ![currentThread] = "user"]
        /\ UNCHANGED <<yieldOnReturn, idle, halted, currentThread, saved, io>>
    BY <1>10 DEF ReturnToUser, BeginTick, Runs
  <2>2. pending' \in Seq(Element(Item))
    BY <1>2, <2>1, AdvanceKeeps
  <2>3. IType'
    BY <1>1, <2>1, <2>2 DEF IType, Running
  <2>4. Control'
    BY <1>1, <2>1 DEF Control, IType, Running, ReadyAt
  <2> QED
    BY <2>3, <2>4
<1>11. CASE Yield
  <2>1. /\ ~ticking /\ idle = "no" /\ ~halted /\ where[currentThread] = "kernel"
        /\ UNCHANGED <<pending, yieldOnReturn, status, ticking, idle, halted, saved, io>>
    BY <1>11 DEF Yield, Runs
  <2>2. PICK n \in Ready : SwitchTo(n, [where EXCEPT ![currentThread] = "readyOn"])
    BY <1>11 DEF Yield
  <2> DEFINE wh == [where EXCEPT ![currentThread] = "readyOn"]
  <2>3. /\ n \in Thread /\ where[n] \in ReadyAt /\ n # currentThread /\ currentThread \in Thread
        /\ wh \in [Thread -> Running \cup ReadyAt \cup {"asleep", "finished"}]
        /\ wh[n] = where[n] /\ wh[currentThread] = "readyOn"
        /\ \A t \in Thread : t # currentThread => wh[t] = where[t]
    BY <1>1, <2>1 DEF Ready, ReadyAt, IType
  <2> HIDE DEF wh
  <2>4. /\ currentThread' = n
        /\ where' \in [Thread -> Running \cup ReadyAt \cup {"asleep", "finished"}]
        /\ \A t \in Thread : t # n => where'[t] = wh[t]
        /\ where'[n] \in Running
    BY <1>1, <2>2, <2>3, SwitchKeeps DEF wh, Running
  <2>5. IType'
    BY <1>1, <2>1, <2>3, <2>4 DEF IType
  <2>6. Control'
    BY <1>1, <2>1, <2>3, <2>4 DEF Control, Running
  <2> QED
    BY <2>5, <2>6
<1>12. CASE StartIO
  <2>1. /\ io' = [io EXCEPT ![currentThread] = "busy"]
        /\ UNCHANGED <<yieldOnReturn, status, ticking, idle, halted, currentThread, where, saved>>
    BY <1>12 DEF StartIO
  <2>2. PICK d \in IODelay : pending' = Schedule(pending, currentThread, d)
    BY <1>12 DEF StartIO
  <2>3. d \in Nat \ {0} /\ currentThread \in Item
    BY <1>1 DEF IType, Item
  <2>4. pending' \in Seq(Element(Item))
    BY <1>2, <2>2, <2>3, ScheduleKeeps
  <2> QED
    BY <1>1, <2>1, <2>4 DEF IType, Control
<1>13. ASSUME NEW loc \in {"asleep", "finished"}, Runs("kernel"), SleepIn(loc),
              UNCHANGED <<clockVars, halted, saved>>,
              io' \in [Thread -> {"none", "busy", "done"}]
       PROVE  IType' /\ Control'
  <2>1. /\ ~ticking /\ idle = "no" /\ ~halted /\ where[currentThread] = "kernel"
        /\ UNCHANGED <<pending, yieldOnReturn, status, ticking, halted, saved>>
    BY <1>13 DEF Runs, clockVars
  <2>2. CASE Ready = {} /\ idle' = "enter" /\ where' = [where EXCEPT ![currentThread] = loc]
             /\ UNCHANGED currentThread
    <3>1. IType'
      BY <1>1, <1>13, <2>1, <2>2 DEF IType
    <3>2. Control'
      BY <1>1, <2>1, <2>2 DEF Control, IType, Ready, ReadyAt, Running
    <3> QED
      BY <3>1, <3>2
  <2>3. CASE UNCHANGED idle /\ \E n \in Ready : SwitchTo(n, [where EXCEPT ![currentThread] = loc])
    <3>1. PICK n \in Ready : SwitchTo(n, [where EXCEPT ![currentThread] = loc])
      BY <2>3
    <3> DEFINE wh == [where EXCEPT ![currentThread] = loc]
    <3>2. /\ n \in Thread /\ where[n] \in ReadyAt /\ n # currentThread /\ currentThread \in Thread
          /\ wh \in [Thread -> Running \cup ReadyAt \cup {"asleep", "finished"}]
          /\ wh[n] = where[n] /\ wh[currentThread] = loc
          /\ \A t \in Thread : t # currentThread => wh[t] = where[t]
      BY <1>1, <2>1 DEF Ready, ReadyAt, IType
    <3> HIDE DEF wh
    <3>3. /\ currentThread' = n
          /\ where' \in [Thread -> Running \cup ReadyAt \cup {"asleep", "finished"}]
          /\ \A t \in Thread : t # n => where'[t] = wh[t]
          /\ where'[n] \in Running
      BY <1>1, <3>1, <3>2, SwitchKeeps DEF wh, Running
    <3>4. IType'
      BY <1>1, <1>13, <2>1, <2>3, <3>2, <3>3 DEF IType
    <3>5. Control'
      BY <1>1, <2>1, <2>3, <3>2, <3>3 DEF Control, Running
    <3> QED
      BY <3>4, <3>5
  <2> QED
    BY <1>13, <2>2, <2>3 DEF SleepIn
<1>14. CASE WaitForIO
  <2>1. CASE /\ io' = [io EXCEPT ![currentThread] = "none"]
             /\ UNCHANGED <<idle, currentThread, where>>
    BY <1>1, <1>14, <2>1 DEF WaitForIO, IType, Control, clockVars
  <2>2. CASE SleepIn("asleep") /\ UNCHANGED io
    <3>1. io' \in [Thread -> {"none", "busy", "done"}]
      BY <1>1, <2>2 DEF IType
    <3> QED
      BY <1>13, <1>14, <2>2, <3>1 DEF WaitForIO
  <2> QED
    BY <1>14, <2>1, <2>2 DEF WaitForIO
<1>15. CASE Finish
  <2>1. io' \in [Thread -> {"none", "busy", "done"}]
    BY <1>1, <1>15 DEF Finish, IType
  <2> QED
    BY <1>13, <1>15, <2>1 DEF Finish
<1>16. CASE IdleAdvance
  <2> DEFINE l == IF Head(pending).key > 0 THEN Advance(pending, Head(pending).key) ELSE pending
  <2>1. pending # <<>> /\ Handle(Head(pending).item, Tail(l)) /\ idle = "enter" /\ ~halted
        /\ idle' = "drain" /\ status' = "IdleMode"
        /\ UNCHANGED <<ticking, halted, currentThread, saved>>
    BY <1>16 DEF IdleAdvance
  <2>2. Tail(l) \in Seq(Element(Item))
    <3>1. Head(pending).key \in Int /\ Len(pending) # 0
      BY <1>2, <2>1, RemoveFirst
    <3>2. l \in Seq(Element(Item)) /\ Len(l) # 0
      BY <1>2, <3>1, AdvanceKeeps
    <3> HIDE DEF l
    <3> QED
      BY <3>2
  <2> HIDE DEF l
  <2>3. /\ \A t \in Thread : where[t] # "asleep" => where'[t] = where[t]
        /\ \A t \in Thread : where[t] = "asleep" => where'[t] \in {"asleep", "ready"}
        /\ yieldOnReturn' \in BOOLEAN
        /\ where' \in [Thread -> Running \cup ReadyAt \cup {"asleep", "finished"}]
        /\ io' \in [Thread -> {"none", "busy", "done"}]
        /\ pending' \in Seq(Element(Item))
    BY <2>1, <2>2, FiredThread
  <2>4. IType'
    BY <1>1, <2>1, <2>3 DEF IType
  <2>5. Control'
    BY <1>1, <2>1, <2>3 DEF IType, Control, Running
  <2> QED
    BY <2>4, <2>5
<1>17. CASE IdleDrain
  <2>1. pending # <<>> /\ Handle(Head(pending).item, Tail(pending)) /\ idle = "drain"
        /\ UNCHANGED <<status, ticking, idle, halted, currentThread, saved>>
    BY <1>17 DEF IdleDrain, Due
  <2>3. /\ \A t \in Thread : where[t] # "asleep" => where'[t] = where[t]
        /\ \A t \in Thread : where[t] = "asleep" => where'[t] \in {"asleep", "ready"}
        /\ yieldOnReturn' \in BOOLEAN
        /\ where' \in [Thread -> Running \cup ReadyAt \cup {"asleep", "finished"}]
        /\ io' \in [Thread -> {"none", "busy", "done"}]
        /\ pending' \in Seq(Element(Item))
    BY <1>2, <2>1, FiredThread
  <2>4. IType'
    BY <1>1, <2>1, <2>3 DEF IType
  <2>5. Control'
    BY <1>1, <2>1, <2>3 DEF IType, Control, Running
  <2> QED
    BY <2>4, <2>5
<1>18. CASE IdleReturn
  <2>1. /\ idle = "drain" /\ yieldOnReturn' = FALSE /\ status' = "SystemMode"
        /\ UNCHANGED <<pending, ticking, halted, saved, io>> /\ ~ticking /\ ~halted
    BY <1>1, <1>18 DEF IdleReturn, Control
  <2>2. CASE Ready = {} /\ idle' = "enter" /\ UNCHANGED <<currentThread, where>>
    BY <1>1, <2>1, <2>2 DEF IType, Control, Ready, ReadyAt
  <2>3. CASE idle' = "no" /\ \E n \in Ready : SwitchTo(n, where)
    <3>1. PICK n \in Ready : SwitchTo(n, where)
      BY <2>3
    <3>2. n \in Thread /\ where[n] \in ReadyAt
      BY DEF Ready, ReadyAt
    <3>3. where \in [Thread -> Running \cup ReadyAt \cup {"asleep", "finished"}]
      BY <1>1 DEF IType
    <3>4. /\ currentThread' = n
          /\ where' \in [Thread -> Running \cup ReadyAt \cup {"asleep", "finished"}]
          /\ \A t \in Thread : t # n => where'[t] = where[t]
          /\ where'[n] \in Running
      BY <1>1, <3>1, <3>2, <3>3, SwitchKeeps DEF Running
    <3>5. IType'
      BY <1>1, <2>1, <2>3, <3>2, <3>4 DEF IType
    <3>6. Control'
      BY <1>1, <2>1, <2>3, <3>2, <3>4 DEF Control
    <3> QED
      BY <3>5, <3>6
  <2> QED
    BY <1>18, <2>2, <2>3 DEF IdleReturn
<1>19. CASE Halt
  <2>1. /\ idle = "enter" /\ halted' = TRUE /\ status' = "IdleMode"
        /\ pending' = IF Due(pending) \/ pending = <<>> THEN pending
                      ELSE Advance(pending, Head(pending).key)
        /\ UNCHANGED <<yieldOnReturn, ticking, idle, currentThread, where, saved, io>>
    BY <1>19 DEF Halt, threadVars
  <2>2. pending' \in Seq(Element(Item))
    BY <1>2, <2>1, RemoveFirst, AdvanceKeeps
  <2> QED
    BY <1>1, <2>1, <2>2 DEF IType, Control
<1> QED
  BY <1>3, <1>4, <1>5, <1>6, <1>7, <1>8, <1>9, <1>10, <1>11, <1>12, <1>14, <1>15, <1>16,
     <1>17, <1>18, <1>19 DEF Step

\* A thread that is switched to goes on in the mode it was interrupted in: in
\* SystemMode, because a thread that left user code did so inside OneTick.
LEMMA SwitchModes ==
  ASSUME IInv, NEW n \in Ready, NEW loc,
         loc \in {"readyOn", "ready", "readyUser", "asleep", "finished"},
         SwitchTo(n, [where EXCEPT ![currentThread] = loc]),
         idle = "no",
         saved' = [saved EXCEPT ![currentThread] = saved'[currentThread]],
         loc = "readyUser" => saved'[currentThread] = "UserMode",
         loc # "readyUser" => saved'[currentThread] \in {None, "SystemMode"},
         status' = "SystemMode"
  PROVE  SavedModes' /\ ModeOfThread'
<1> USE InterruptObjects
<1>1. IType /\ Control /\ SavedModes
  BY DEF IInv
<1> DEFINE wh == [where EXCEPT ![currentThread] = loc]
<1>2. /\ n \in Thread /\ where[n] \in ReadyAt /\ n # currentThread /\ currentThread \in Thread
      /\ wh \in [Thread -> Running \cup ReadyAt \cup {"asleep", "finished"}]
      /\ wh[n] = where[n] /\ wh[currentThread] = loc
      /\ \A t \in Thread : t # currentThread => wh[t] = where[t]
  BY <1>1 DEF Ready, ReadyAt, Running, IType, Control
<1> HIDE DEF wh
<1>3. /\ currentThread' = n
      /\ \A t \in Thread : t # n => where'[t] = wh[t]
      /\ where'[n] = IF where[n] = "readyOn" THEN "enabling"
                     ELSE IF where[n] = "ready" THEN "kernel" ELSE "user"
  BY <1>1, <1>2, SwitchKeeps DEF wh
<1>4. /\ \A t \in Thread : t # currentThread => saved'[t] = saved[t]
      /\ saved'[n] = saved[n]
  BY <1>1, <1>2 DEF IType
<1>5. where'[n] \in {"user", "readyUser"} <=> where[n] = "readyUser"
  BY <1>2, <1>3 DEF ReadyAt
<1>6. ASSUME NEW t \in Thread
      PROVE  /\ saved'[t] # None => saved'[t] = IF where'[t] \in {"user", "readyUser"}
                                                THEN "UserMode" ELSE "SystemMode"
             /\ where'[t] = "readyUser" => saved'[t] # None
  <2>1. CASE t = n
    BY <1>1, <1>2, <1>3, <1>4, <1>5, <2>1 DEF SavedModes, ReadyAt
  <2>2. CASE t = currentThread
    BY <1>2, <1>3, <2>2
  <2>3. CASE t # n /\ t # currentThread
    BY <1>1, <1>2, <1>3, <1>4, <2>3 DEF SavedModes
  <2> QED
    BY <2>1, <2>2, <2>3
<1>7. where'[n] = "user" => saved'[n] # None
  BY <1>1, <1>2, <1>4, <1>5 DEF SavedModes
<1>8. ModeOfThread'
  BY <1>3, <1>7 DEF ModeOfThread
<1> QED
  BY <1>6, <1>8 DEF SavedModes

\* Every step keeps the machine mode, and the modes saved with switched out threads, right.
LEMMA ModeStep ==
  ASSUME IInv, Step
  PROVE  SavedModes' /\ ModeOfThread'
<1> USE InterruptObjects
<1>1. IType /\ Control /\ SavedModes /\ ModeOfThread
  BY DEF IInv
<1>2. pending \in Seq(Element(Item)) /\ (pending # <<>> => Tail(pending) \in Seq(Element(Item)))
  BY <1>1, RemoveFirst DEF IType
<1>3. CASE CheckIfDue
  <2>1. pending # <<>> /\ Handle(Head(pending).item, Tail(pending)) /\ ticking
        /\ UNCHANGED <<status, ticking, idle, halted, currentThread, saved>>
    BY <1>3 DEF CheckIfDue, Due
  <2>2. /\ \A t \in Thread : where[t] # "asleep" => where'[t] = where[t]
        /\ \A t \in Thread : where[t] = "asleep" => where'[t] \in {"asleep", "ready"}
    BY <1>2, <2>1, FiredThread
  <2>3. where'[currentThread] = where[currentThread]
    BY <1>1, <2>1, <2>2 DEF IType, Control
  <2> QED
    BY <1>1, <2>1, <2>2, <2>3 DEF SavedModes, ModeOfThread
<1>4. CASE EndTick
  <2>1. /\ ticking /\ saved' = [saved EXCEPT ![currentThread] = None]
        /\ status' = IF saved[currentThread] = None THEN status ELSE saved[currentThread]
        /\ UNCHANGED <<idle, currentThread, where>>
    BY <1>4 DEF EndTick
  <2>2. idle = "no" /\ where[currentThread] \in {"kernel", "user"} /\ currentThread \in Thread
    BY <1>1, <2>1 DEF Control, IType
  <2>3. /\ saved'[currentThread] = None
        /\ \A t \in Thread : t # currentThread => saved'[t] = saved[t]
    BY <1>1, <2>1, <2>2 DEF IType
  <2>4. SavedModes'
    <3>1. \A t \in Thread : where[t] = "readyUser" => t # currentThread
      BY <2>2
    <3> QED
      BY <1>1, <2>1, <2>3, <3>1 DEF SavedModes
  <2>5. ModeOfThread'
    BY <1>1, <2>1, <2>2, <2>3 DEF ModeOfThread, SavedModes
  <2> QED
    BY <2>4, <2>5
<1>5. CASE EndTickYield
  <2>1. /\ ticking /\ status' = "SystemMode"
        /\ saved' = [saved EXCEPT ![currentThread] = IF @ = None THEN status ELSE @]
        /\ UNCHANGED idle
    BY <1>5 DEF EndTickYield
  <2>2. /\ idle = "no" /\ where[currentThread] \in {"kernel", "user"} /\ currentThread \in Thread
    BY <1>1, <2>1 DEF Control, IType
  <2>3. /\ saved'[currentThread] = IF where[currentThread] = "user" THEN "UserMode" ELSE "SystemMode"
        /\ \A t \in Thread : t # currentThread => saved'[t] = saved[t]
        /\ saved' = [saved EXCEPT ![currentThread] = saved'[currentThread]]
    BY <1>1, <2>1, <2>2 DEF IType, SavedModes, ModeOfThread
  <2>4. CASE UNCHANGED <<currentThread, where>>
    <3>1. SavedModes'
      BY <1>1, <2>2, <2>3, <2>4 DEF SavedModes
    <3>2. ModeOfThread'
      BY <2>1, <2>3, <2>4 DEF ModeOfThread
    <3> QED
      BY <3>1, <3>2
  <2>5. CASE \E n \in Ready :
               SwitchTo(n, [where EXCEPT ![currentThread] =
                              IF @ = "user" THEN "readyUser" ELSE "ready"])
    <3> DEFINE v == IF where[currentThread] = "user" THEN "readyUser" ELSE "ready"
    <3>1. PICK n \in Ready : SwitchTo(n, [where EXCEPT ![currentThread] = v])
      BY <2>5
    <3>2. /\ v \in {"readyOn", "ready", "readyUser", "asleep", "finished"}
          /\ v = "readyUser" => saved'[currentThread] = "UserMode"
          /\ v # "readyUser" => saved'[currentThread] \in {None, "SystemMode"}
      BY <2>3
    <3> HIDE DEF v
    <3> QED
      BY <2>1, <2>2, <2>3, <3>1, <3>2, SwitchModes
  <2> QED
    BY <1>5, <2>4, <2>5 DEF EndTickYield
<1>6. CASE Enable
  <2>1. /\ status' = status
        /\ where' = [where EXCEPT ![currentThread] = IF @ = "enabling" THEN "kernel" ELSE @]
        /\ UNCHANGED <<idle, currentThread, saved>>
    BY <1>6 DEF Enable, BeginTick
  <2>2. /\ \A t \in Thread : where'[t] = where[t] \/ (where[t] = "enabling" /\ where'[t] = "kernel")
        /\ currentThread \in Thread
    BY <1>1, <2>1 DEF IType
  <2>3. SavedModes'
    BY <1>1, <2>1, <2>2 DEF SavedModes
  <2>4. ModeOfThread'
    BY <1>1, <2>1, <2>2 DEF ModeOfThread
  <2> QED
    BY <2>3, <2>4
<1>7. CASE Disable
  BY <1>1, <1>7 DEF Disable, SavedModes, ModeOfThread, threadVars
<1>8. CASE UserInstruction
  BY <1>1, <1>8 DEF UserInstruction, BeginTick, SavedModes, ModeOfThread, threadVars
<1>9. CASE Trap
  <2>1. /\ where[currentThread] = "user" /\ saved[currentThread] = None /\ status' = "SystemMode"
        /\ where' = [where EXCEPT ![currentThread] = "kernel"]
        /\ UNCHANGED <<idle, currentThread, saved>> /\ currentThread \in Thread
    BY <1>1, <1>9 DEF Trap, Runs, IType
  <2>2. /\ where'[currentThread] = "kernel"
        /\ \A t \in Thread : t # currentThread => where'[t] = where[t]
    BY <1>1, <2>1 DEF IType
  <2>3. SavedModes'
    BY <1>1, <2>1, <2>2 DEF SavedModes
  <2>4. ModeOfThread'
    BY <2>1, <2>2 DEF ModeOfThread
  <2> QED
    BY <2>3, <2>4
<1>10. CASE ReturnToUser
  <2>1. /\ status' = "UserMode" /\ saved[currentThread] = None
        /\ where' = [where EXCEPT ![currentThread] = "user"]
        /\ UNCHANGED <<idle, currentThread, saved>> /\ currentThread \in Thread
    BY <1>1, <1>10 DEF ReturnToUser, BeginTick, Runs, IType
  <2>2. /\ where'[currentThread] = "user"
        /\ \A t \in Thread : t # currentThread => where'[t] = where[t]
    BY <1>1, <2>1 DEF IType
  <2>3. SavedModes'
    BY <1>1, <2>1, <2>2 DEF SavedModes
  <2>4. ModeOfThread'
    BY <2>1, <2>2 DEF ModeOfThread
  <2> QED
    BY <2>3, <2>4
<1>11. CASE Yield
  <2>1. /\ idle = "no" /\ where[currentThread] = "kernel" /\ saved[currentThread] = None
        /\ UNCHANGED <<status, idle, saved>>
    BY <1>11 DEF Yield, Runs
  <2>2. PICK n \in Ready : SwitchTo(n, [where EXCEPT ![currentThread] = "readyOn"])
    BY <1>11 DEF Yield
  <2>3. status' = "SystemMode"
    BY <1>1, <2>1 DEF ModeOfThread
  <2>4. saved' = [saved EXCEPT ![currentThread] = saved'[currentThread]]
        /\ saved'[currentThread] = None
    BY <1>1, <2>1 DEF IType
  <2> QED
    BY <2>1, <2>2, <2>3, <2>4, SwitchModes
<1>12. CASE StartIO
  BY <1>1, <1>12 DEF StartIO, SavedModes, ModeOfThread
<1>13. ASSUME NEW loc \in {"asleep", "finished"}, Runs("kernel"), SleepIn(loc),
              UNCHANGED <<clockVars, halted, saved>>
       PROVE  SavedModes' /\ ModeOfThread'
  <2>1. /\ idle = "no" /\ where[currentThread] = "kernel" /\ saved[currentThread] = None
        /\ UNCHANGED <<status, saved>>
    BY <1>13 DEF Runs, clockVars
  <2>2. CASE idle' = "enter" /\ where' = [where EXCEPT ![currentThread] = loc]
    <3>1. ModeOfThread'
      BY <2>2 DEF ModeOfThread
    <3>2. SavedModes'
      BY <1>1, <2>1, <2>2 DEF SavedModes, IType
    <3> QED
      BY <3>1, <3>2
  <2>3. CASE \E n \in Ready : SwitchTo(n, [where EXCEPT ![currentThread] = loc])
    <3>1. PICK n \in Ready : SwitchTo(n, [where EXCEPT ![currentThread] = loc])
      BY <2>3
    <3>2. status' = "SystemMode"
      BY <1>1, <2>1 DEF ModeOfThread
    <3>3. saved' = [saved EXCEPT ![currentThread] = saved'[currentThread]]
          /\ saved'[currentThread] = None
      BY <1>1, <2>1 DEF IType
    <3> QED
      BY <2>1, <3>1, <3>2, <3>3, SwitchModes
  <2> QED
    BY <1>13, <2>2, <2>3 DEF SleepIn
<1>14. CASE WaitForIO
  <2>1. CASE UNCHANGED <<idle, currentThread, where>>
    BY <1>1, <1>14, <2>1 DEF WaitForIO, SavedModes, ModeOfThread, clockVars
  <2> QED
    BY <1>13, <1>14, <2>1 DEF WaitForIO
<1>15. CASE Finish
  BY <1>13, <1>15 DEF Finish
<1>16. CASE IdleAdvance
  <2> DEFINE l == IF Head(pending).key > 0 THEN Advance(pending, Head(pending).key) ELSE pending
  <2>1. pending # <<>> /\ Handle(Head(pending).item, Tail(l)) /\ idle' = "drain" /\ UNCHANGED saved
    BY <1>16 DEF IdleAdvance
  <2>2. Tail(l) \in Seq(Element(Item))
    <3>1. Head(pending).key \in Int /\ Len(pending) # 0
      BY <1>2, <2>1, RemoveFirst
    <3>2. l \in Seq(Element(Item)) /\ Len(l) # 0
      BY <1>2, <3>1, AdvanceKeeps
    <3> HIDE DEF l
    <3> QED
      BY <3>2
  <2> HIDE DEF l
  <2>3. /\ \A t \in Thread : where[t] # "asleep" => where'[t] = where[t]
        /\ \A t \in Thread : where[t] = "asleep" => where'[t] \in {"asleep", "ready"}
    BY <2>1, <2>2, FiredThread
  <2> QED
    BY <1>1, <2>1, <2>3 DEF SavedModes, ModeOfThread
<1>17. CASE IdleDrain
  <2>1. pending # <<>> /\ Handle(Head(pending).item, Tail(pending)) /\ idle' = "drain"
        /\ UNCHANGED saved
    BY <1>17 DEF IdleDrain, Due
  <2>2. /\ \A t \in Thread : where[t] # "asleep" => where'[t] = where[t]
        /\ \A t \in Thread : where[t] = "asleep" => where'[t] \in {"asleep", "ready"}
    BY <1>2, <2>1, FiredThread
  <2> QED
    BY <1>1, <2>1, <2>2 DEF SavedModes, ModeOfThread
<1>18. CASE IdleReturn
  <2>1. status' = "SystemMode" /\ UNCHANGED saved
    BY <1>18 DEF IdleReturn
  <2>2. CASE idle' = "enter" /\ UNCHANGED <<currentThread, where>>
    BY <1>1, <2>1, <2>2 DEF SavedModes, ModeOfThread
  <2>3. CASE idle' = "no" /\ \E n \in Ready : SwitchTo(n, where)
    <3>1. PICK n \in Ready : SwitchTo(n, where)
      BY <2>3
    <3>2. n \in Thread /\ where[n] \in ReadyAt
      BY DEF Ready, ReadyAt
    <3>3. where \in [Thread -> Running \cup ReadyAt \cup {"asleep", "finished"}]
      BY <1>1 DEF IType
    <3>4. /\ currentThread' = n
          /\ \A t \in Thread : t # n => where'[t] = where[t]
          /\ where'[n] = IF where[n] = "readyOn" THEN "enabling"
                         ELSE IF where[n] = "ready" THEN "kernel" ELSE "user"
      BY <1>1, <3>1, <3>2, <3>3, SwitchKeeps
    <3>5. where'[n] \in {"user", "readyUser"} <=> where[n] = "readyUser"
      BY <3>2, <3>4 DEF ReadyAt
    <3>6. SavedModes'
      BY <1>1, <2>1, <3>2, <3>4, <3>5 DEF SavedModes, ReadyAt
    <3>7. where'[n] = "user" => saved'[n] # None
      BY <1>1, <2>1, <3>2, <3>5 DEF SavedModes
    <3>8. ModeOfThread'
      BY <2>1, <3>4, <3>7 DEF ModeOfThread
    <3> QED
      BY <3>6, <3>8
  <2> QED
    BY <1>18, <2>2, <2>3 DEF IdleReturn
<1>19. CASE Halt
  BY <1>1, <1>19 DEF Halt, SavedModes, ModeOfThread, threadVars
<1> QED
  BY <1>3, <1>4, <1>5, <1>6, <1>7, <1>8, <1>9, <1>10, <1>11, <1>12, <1>14, <1>15, <1>16,
     <1>17, <1>18, <1>19 DEF Step

\* The interrupt that fires is the first; a request whose interrupt is another one
\* keeps it.  l is pending, perhaps after the clock has moved on.
LEMMA FiredRequest ==
  ASSUME IInv, NEW l \in Seq(Element(Item)), l # <<>>,
         DOMAIN l = DOMAIN pending, \A i \in DOMAIN l : l[i].item = pending[i].item,
         pending # <<>>, Handle(Head(pending).item, Tail(l))
  PROVE  /\ Requests'
         /\ Sorted(l) => Sorted(pending')
         /\ (\A i \in DOMAIN l : l[i].key >= 0) => \A i \in DOMAIN pending' : pending'[i].key >= 0
<1>1. IType /\ Requests /\ pending \in Seq(Element(Item))
  BY DEF IInv, IType
<1> DEFINE e == Head(pending).item
           r == Tail(l)
<1>2. e \in Item /\ 1 \in DOMAIN pending /\ e = pending[1].item
  BY <1>1, RemoveFirst
<1>3. /\ r \in Seq(Element(Item))
      /\ \A i \in DOMAIN r : i + 1 \in DOMAIN l /\ r[i] = l[i + 1]
      /\ \A i \in DOMAIN l : i = 1 \/ (i - 1 \in DOMAIN r /\ r[i - 1] = l[i])
      /\ Sorted(l) => Sorted(r)
  BY RemoveFirst
<1> HIDE DEF e, r
<1>4. Handle(e, r)
  BY DEF e, r
<1>5. /\ Sorted(r) => Sorted(pending')
      /\ AddsFuture(r, pending') /\ Holds(r, pending')
      /\ \A t \in Thread :
           /\ where'[t] = where[t] \/ (t = e /\ where[t] = "asleep" /\ where'[t] = "ready")
           /\ io'[t] = io[t] \/ t = e
           /\ t = e => where'[t] # "asleep" /\ io'[t] # "busy"
  BY <1>1, <1>2, <1>3, <1>4, HandleKeeps
<1>6. ASSUME NEW t \in Thread, io'[t] = "busy"
      PROVE  \E i \in DOMAIN pending' : pending'[i].item = t
  <2>1. t # e /\ io[t] = "busy"
    BY <1>5, <1>6
  <2>2. PICK i \in DOMAIN pending : pending[i].item = t
    BY <1>1, <2>1 DEF Requests
  <2>3. i \in DOMAIN l /\ i # 1 /\ l[i].item = t
    BY <1>2, <2>1, <2>2
  <2>4. i - 1 \in DOMAIN r /\ r[i - 1].item = t
    BY <1>3, <2>3
  <2>5. \A k \in DOMAIN r : \E j \in DOMAIN pending' : pending'[j] = r[k]
    BY <1>5 DEF Holds
  <2>6. PICK j \in DOMAIN pending' : pending'[j] = r[i - 1]
    BY <2>4, <2>5
  <2> QED
    BY <2>4, <2>6
<1>7. ASSUME NEW t \in Thread, where'[t] = "asleep"
      PROVE  io'[t] = "busy"
  BY <1>1, <1>5, <1>7 DEF Requests
<1>8. Requests'
  BY <1>6, <1>7 DEF Requests
<1>9. ASSUME \A i \in DOMAIN l : l[i].key >= 0, NEW i \in DOMAIN pending'
      PROVE  pending'[i].key >= 0
  <2>1. CASE pending'[i].key \in Nat \ {0}
    BY <2>1
  <2>2. ASSUME NEW j \in DOMAIN r, pending'[i] = r[j] PROVE pending'[i].key >= 0
    BY <1>3, <1>9, <2>2
  <2> QED
    BY <1>5, <2>1, <2>2 DEF AddsFuture
<1> QED
  BY <1>3, <1>5, <1>8, <1>9

\* When nothing is due, every pending interrupt is in the future.
LEMMA NothingDue ==
  ASSUME IInv, ~Due(pending)
  PROVE  \A i \in DOMAIN pending : pending[i].key > 0
<1>1. pending \in Seq(Element(Item)) /\ Sorted(pending)
  BY DEF IInv, IType, NoMissedInterrupt, Sorted
<1>2. CASE pending = <<>>
  BY <1>2
<1>3. CASE pending # <<>>
  <2>1. Head(pending).key \in Int /\ Head(pending).key > 0
    BY <1>1, <1>3, RemoveFirst DEF Due
  <2>2. \A i \in DOMAIN pending : Head(pending).key <= pending[i].key /\ pending[i].key \in Int
    BY <1>1, <1>3, RemoveFirst, KeyType
  <2> DEFINE k == Head(pending).key
  <2> HIDE DEF k
  <2>3. k \in Int /\ k > 0 /\ \A i \in DOMAIN pending : k <= pending[i].key /\ pending[i].key \in Int
    BY <2>1, <2>2 DEF k
  <2> QED
    BY <2>3
<1> QED
  BY <1>2, <1>3

\* Where threads that sleep came from, in a switch or on the way to Idle.
LEMMA SwitchSleepers ==
  ASSUME IInv, NEW n \in Ready, NEW loc \in {"readyOn", "ready", "readyUser", "asleep", "finished"},
         SwitchTo(n, [where EXCEPT ![currentThread] = loc]), idle = "no"
  PROVE  \A t \in Thread : where'[t] = "asleep" =>
           where[t] = "asleep" \/ (t = currentThread /\ loc = "asleep")
<1>1. IType /\ Control
  BY DEF IInv
<1> DEFINE wh == [where EXCEPT ![currentThread] = loc]
<1>2. /\ n \in Thread /\ where[n] \in ReadyAt /\ n # currentThread /\ currentThread \in Thread
      /\ wh \in [Thread -> Running \cup ReadyAt \cup {"asleep", "finished"}]
      /\ wh[n] = where[n] /\ wh[currentThread] = loc
      /\ \A t \in Thread : t # currentThread => wh[t] = where[t]
  BY <1>1 DEF Ready, ReadyAt, Running, IType, Control
<1> HIDE DEF wh
<1>3. /\ \A t \in Thread : t # n => where'[t] = wh[t]
      /\ where'[n] = IF where[n] = "readyOn" THEN "enabling"
                     ELSE IF where[n] = "ready" THEN "kernel" ELSE "user"
  BY <1>1, <1>2, SwitchKeeps DEF wh
<1> QED
  BY <1>2, <1>3

\* The pending interrupts: in order, none missed, none lost.
LEMMA PendingStep ==
  ASSUME IInv, Step
  PROVE  Requests' /\ NoMissedInterrupt'
<1> USE InterruptAssumption, InterruptObjects
<1>1. IType /\ Control /\ Requests /\ NoMissedInterrupt
  BY DEF IInv
<1>2. pending \in Seq(Element(Item)) /\ Sorted(pending)
  BY <1>1 DEF IType, NoMissedInterrupt, Sorted
<1>3. CASE CheckIfDue
  <2>1. pending # <<>> /\ Handle(Head(pending).item, Tail(pending)) /\ ticking' /\ idle' = "no"
    BY <1>1, <1>3 DEF CheckIfDue, Due, Control
  <2>2. Requests' /\ Sorted(pending')
    BY <1>2, <2>1, FiredRequest
  <2> QED
    BY <2>1, <2>2 DEF NoMissedInterrupt, Firing, Sorted
<1>4. CASE EndTick \/ EndTickYield
  <2>1. /\ ticking /\ ~Due(pending) /\ UNCHANGED <<pending, idle, io>> /\ idle = "no"
    BY <1>1, <1>4 DEF EndTick, EndTickYield, Control
  <2>2. \A i \in DOMAIN pending : pending[i].key > 0
    BY <2>1, NothingDue
  <2>3. NoMissedInterrupt'
    BY <1>1, <2>1, <2>2 DEF NoMissedInterrupt
  <2>4. \A t \in Thread : where'[t] = "asleep" => where[t] = "asleep"
    <3>1. CASE UNCHANGED where
      BY <3>1
    <3>2. ASSUME NEW n \in Ready, NEW v \in {"readyUser", "ready"},
                 SwitchTo(n, [where EXCEPT ![currentThread] = v])
          PROVE  \A t \in Thread : where'[t] = "asleep" => where[t] = "asleep"
      BY <2>1, <3>2, SwitchSleepers
    <3>3. CASE \E n \in Ready :
                 SwitchTo(n, [where EXCEPT ![currentThread] =
                                IF @ = "user" THEN "readyUser" ELSE "ready"])
      BY <3>2, <3>3
    <3> QED
      BY <1>4, <3>1, <3>3 DEF EndTick, EndTickYield
  <2>5. Requests'
    BY <1>1, <2>1, <2>4 DEF Requests
  <2> QED
    BY <2>3, <2>5
<1>5. ASSUME NEW d \in Int, pending' = Advance(pending, d), ticking', idle' = "no",
             UNCHANGED io, \A t \in Thread : where'[t] = "asleep" => where[t] = "asleep"
      PROVE  Requests' /\ NoMissedInterrupt'
  <2>1. /\ DOMAIN pending' = DOMAIN pending /\ Sorted(pending')
        /\ \A i \in DOMAIN pending : pending'[i].item = pending[i].item
    BY <1>2, <1>5, AdvanceKeeps
  <2>2. Requests'
    BY <1>1, <1>5, <2>1 DEF Requests
  <2>3. NoMissedInterrupt'
    BY <1>5, <2>1 DEF NoMissedInterrupt, Firing, Sorted
  <2> QED
    BY <2>2, <2>3
<1>6. CASE Enable \/ UserInstruction \/ ReturnToUser
  <2>1. /\ ticking' /\ idle' = "no" /\ UNCHANGED io
        /\ \/ pending' = Advance(pending, SystemTick) \/ pending' = Advance(pending, UserTick)
    BY <1>6 DEF Enable, UserInstruction, ReturnToUser, BeginTick, Runs, threadVars
  <2>2. \A t \in Thread : where'[t] = "asleep" => where[t] = "asleep"
    BY <1>1, <1>6 DEF Enable, UserInstruction, ReturnToUser, threadVars, IType
  <2>3. SystemTick \in Int /\ UserTick \in Int
    OBVIOUS
  <2> QED
    BY <1>5, <2>1, <2>2, <2>3
<1>7. CASE Disable \/ Trap
  <2>1. UNCHANGED <<pending, ticking, idle, io>>
    BY <1>7 DEF Disable, Trap, threadVars
  <2>2. \A t \in Thread : where'[t] = "asleep" => where[t] = "asleep"
    BY <1>1, <1>7 DEF Disable, Trap, threadVars, IType
  <2>3. Requests'
    BY <1>1, <2>1, <2>2 DEF Requests
  <2>4. NoMissedInterrupt'
    BY <1>1, <2>1 DEF NoMissedInterrupt, Firing
  <2> QED
    BY <2>3, <2>4
<1>8. CASE Yield
  <2>1. UNCHANGED <<pending, ticking, idle, io>> /\ idle = "no"
    BY <1>8 DEF Yield, Runs
  <2>2. \A t \in Thread : where'[t] = "asleep" => where[t] = "asleep"
    BY <1>8, <2>1, SwitchSleepers DEF Yield
  <2>3. Requests'
    BY <1>1, <2>1, <2>2 DEF Requests
  <2>4. NoMissedInterrupt'
    BY <1>1, <2>1 DEF NoMissedInterrupt, Firing
  <2> QED
    BY <2>3, <2>4
<1>9. CASE StartIO
  <2>1. /\ io' = [io EXCEPT ![currentThread] = "busy"] /\ ~ticking /\ idle = "no"
        /\ where[currentThread] = "kernel"
        /\ UNCHANGED <<ticking, idle, where>> /\ currentThread \in Thread
    BY <1>1, <1>9 DEF StartIO, Runs, IType
  <2>2. PICK d \in IODelay : pending' = Schedule(pending, currentThread, d)
    BY <1>9 DEF StartIO
  <2>3. d \in Nat \ {0} /\ currentThread \in Item
    BY <1>1 DEF IType, Item
  <2>4. /\ Sorted(pending') /\ AddsFuture(pending, pending') /\ Holds(pending, pending')
        /\ \E i \in DOMAIN pending' : pending'[i].item = currentThread
    <3>1. PICK r : r = Schedule(pending, currentThread, d)
      OBVIOUS
    <3>2. Sorted(r) /\ AddsFuture(pending, r) /\ Holds(pending, r)
      BY <1>2, <2>3, <3>1, ScheduleKeeps
    <3>3. Contains(r, currentThread)
      BY <1>2, <2>3, <3>1, ScheduleKeeps
    <3>4. pending' = r
      BY <2>2, <3>1
    <3> QED
      BY <3>2, <3>3, <3>4 DEF Contains
  <2>5. Requests'
    <3>1. ASSUME NEW t \in Thread, io'[t] = "busy"
          PROVE  \E i \in DOMAIN pending' : pending'[i].item = t
      <4>1. CASE t = currentThread
        BY <2>4, <4>1
      <4>2. CASE t # currentThread
        <5>1. io[t] = "busy"
          BY <1>1, <2>1, <3>1, <4>2 DEF IType
        <5>2. PICK j \in DOMAIN pending : pending[j].item = t
          BY <1>1, <5>1 DEF Requests
        <5>3. PICK i \in DOMAIN pending' : pending'[i] = pending[j]
          BY <2>4 DEF Holds
        <5> QED
          BY <5>2, <5>3
      <4> QED
        BY <4>1, <4>2
    <3>2. ASSUME NEW t \in Thread, where'[t] = "asleep"
          PROVE  io'[t] = "busy"
      BY <1>1, <2>1, <3>2 DEF Requests, IType
    <3> QED
      BY <3>1, <3>2 DEF Requests
  <2>6. \A i \in DOMAIN pending' :
           pending'[i].key > 0 \/ (pending'[i].key = 0 /\ pending'[i].item \in Timer)
    <3>1. ASSUME NEW i \in DOMAIN pending'
          PROVE  pending'[i].key > 0 \/ (pending'[i].key = 0 /\ pending'[i].item \in Timer)
      <4>1. CASE pending'[i].key \in Nat \ {0}
        BY <4>1
      <4>2. ASSUME NEW j \in DOMAIN pending, pending'[i] = pending[j]
            PROVE  pending'[i].key > 0 \/ (pending'[i].key = 0 /\ pending'[i].item \in Timer)
        BY <1>1, <2>1, <4>2 DEF NoMissedInterrupt, Firing
      <4> QED
        BY <2>4, <4>1, <4>2 DEF AddsFuture
    <3> QED
      BY <3>1
  <2>7. NoMissedInterrupt'
    BY <2>1, <2>4, <2>6 DEF NoMissedInterrupt, Firing, Sorted
  <2> QED
    BY <2>5, <2>7
<1>10. ASSUME NEW loc \in {"asleep", "finished"}, Runs("kernel"), SleepIn(loc),
              UNCHANGED <<clockVars, io>>, loc = "asleep" => io[currentThread] = "busy"
       PROVE  Requests' /\ NoMissedInterrupt'
  <2>1. /\ ~ticking /\ idle = "no" /\ UNCHANGED <<pending, ticking, io>>
    BY <1>10 DEF Runs, clockVars
  <2>2. idle' \in {"no", "enter"}
    BY <1>10, <2>1 DEF SleepIn
  <2>3. \A t \in Thread : where'[t] = "asleep" =>
          where[t] = "asleep" \/ (t = currentThread /\ loc = "asleep")
    <3>1. CASE where' = [where EXCEPT ![currentThread] = loc]
      BY <1>1, <3>1 DEF IType
    <3>2. CASE \E n \in Ready : SwitchTo(n, [where EXCEPT ![currentThread] = loc])
      BY <2>1, <3>2, SwitchSleepers
    <3> QED
      BY <1>10, <3>1, <3>2 DEF SleepIn
  <2>4. Requests'
    BY <1>1, <1>10, <2>1, <2>3 DEF Requests
  <2>5. NoMissedInterrupt'
    BY <1>1, <2>1, <2>2 DEF NoMissedInterrupt, Firing
  <2> QED
    BY <2>4, <2>5
<1>11. CASE WaitForIO
  <2>1. CASE /\ io[currentThread] = "done" /\ io' = [io EXCEPT ![currentThread] = "none"]
             /\ UNCHANGED <<idle, currentThread, where>>
    <3>1. UNCHANGED <<pending, ticking>>
      BY <1>11 DEF WaitForIO, clockVars
    <3>2. Requests'
      BY <1>1, <2>1, <3>1 DEF Requests, IType
    <3>3. NoMissedInterrupt'
      BY <1>1, <2>1, <3>1 DEF NoMissedInterrupt, Firing
    <3> QED
      BY <3>2, <3>3
  <2> QED
    BY <1>10, <1>11, <2>1 DEF WaitForIO
<1>12. CASE Finish
  BY <1>10, <1>12 DEF Finish
<1>13. CASE IdleAdvance
  <2> DEFINE k == Head(pending).key
             l == IF k > 0 THEN Advance(pending, k) ELSE pending
  <2>1. pending # <<>> /\ Handle(Head(pending).item, Tail(l)) /\ idle = "enter" /\ idle' = "drain"
    BY <1>13 DEF IdleAdvance
  <2>2. ~Firing
    BY <1>1, <2>1 DEF Control, Firing
  <2>3. k \in Int /\ \A i \in DOMAIN pending : k <= pending[i].key /\ pending[i].key \in Int
    BY <1>2, <2>1, RemoveFirst, KeyType
  <2>4. \A i \in DOMAIN pending : pending[i].key >= 0
    <3> SUFFICES ASSUME NEW i \in DOMAIN pending PROVE pending[i].key >= 0
      OBVIOUS
    <3>1. pending[i].key > 0 \/ pending[i].key = 0
      BY <1>1, <2>2 DEF NoMissedInterrupt
    <3> QED
      BY <2>3, <3>1
  <2> HIDE DEF k
  <2>5. /\ l \in Seq(Element(Item)) /\ l # <<>> /\ DOMAIN l = DOMAIN pending /\ Sorted(l)
        /\ \A i \in DOMAIN l : l[i].item = pending[i].item
        /\ \A i \in DOMAIN l : l[i].key >= 0
    <3>1. CASE k > 0
      <4>1. l = Advance(pending, k)
        BY <3>1
      <4> HIDE DEF l
      <4>2. /\ l \in Seq(Element(Item)) /\ DOMAIN l = DOMAIN pending /\ Len(l) = Len(pending)
            /\ \A i \in DOMAIN pending : /\ l[i].item = pending[i].item
                                         /\ l[i].key = pending[i].key - k
            /\ Sorted(l)
        BY <1>2, <2>3, <4>1, AdvanceKeeps
      <4>3. \A i \in DOMAIN pending : l[i].key >= 0
        <5> SUFFICES ASSUME NEW i \in DOMAIN pending PROVE l[i].key >= 0
          OBVIOUS
        <5>1. pending[i].key \in Int /\ k \in Int /\ k <= pending[i].key
          BY <2>3
        <5>2. l[i].key = pending[i].key - k
          BY <4>2
        <5> QED
          BY <5>1, <5>2
      <4>4. l # <<>>
        BY <1>2, <2>1, <4>2
      <4> QED
        BY <4>2, <4>3, <4>4
    <3>2. CASE ~(k > 0)
      BY <1>2, <2>1, <2>4, <3>2
    <3> QED
      BY <3>1, <3>2
  <2> HIDE DEF l
  <2>6. Requests' /\ Sorted(pending') /\ \A i \in DOMAIN pending' : pending'[i].key >= 0
    BY <2>1, <2>5, FiredRequest
  <2>7. NoMissedInterrupt'
    BY <2>1, <2>6 DEF NoMissedInterrupt, Firing, Sorted
  <2> QED
    BY <2>6, <2>7
<1>14. CASE IdleDrain
  <2>1. pending # <<>> /\ Handle(Head(pending).item, Tail(pending)) /\ idle = "drain" /\ idle' = "drain"
    BY <1>14 DEF IdleDrain, Due
  <2>2. \A i \in DOMAIN pending : pending[i].key >= 0
    BY <1>1, <2>1 DEF NoMissedInterrupt
  <2>3. Requests' /\ Sorted(pending') /\ \A i \in DOMAIN pending' : pending'[i].key >= 0
    BY <1>2, <2>1, <2>2, FiredRequest
  <2>4. NoMissedInterrupt'
    BY <2>1, <2>3 DEF NoMissedInterrupt, Firing, Sorted
  <2> QED
    BY <2>3, <2>4
<1>15. CASE IdleReturn
  <2>1. /\ idle = "drain" /\ UNCHANGED <<pending, ticking, io>> /\ idle' \in {"no", "enter"}
        /\ ~Due(pending) \/ OnlyTimer(pending)
    BY <1>15 DEF IdleReturn
  <2>2. \A i \in DOMAIN pending : pending[i].key >= 0 /\ pending[i].key \in Int
    BY <1>1, <1>2, <2>1, KeyType DEF NoMissedInterrupt
  <2>3. \A i \in DOMAIN pending : pending[i].key > 0 \/ (pending[i].key = 0 /\ pending[i].item \in Timer)
    <3>1. CASE ~Due(pending)
      BY <3>1, NothingDue
    <3>2. CASE OnlyTimer(pending)
      <4>1. Len(pending) = 1 /\ Head(pending).item \in Timer
        BY <3>2 DEF OnlyTimer, Type
      <4>2. \A i \in DOMAIN pending : pending[i].item \in Timer
        BY <1>2, <4>1
      <4> QED
        BY <2>2, <4>2
    <3> QED
      BY <2>1, <3>1, <3>2
  <2>4. NoMissedInterrupt'
    BY <1>1, <2>1, <2>3 DEF NoMissedInterrupt
  <2>5. \A t \in Thread : where'[t] = "asleep" => where[t] = "asleep"
    <3>1. CASE UNCHANGED where
      BY <3>1
    <3>2. ASSUME NEW n \in Ready, SwitchTo(n, where)
          PROVE  \A t \in Thread : where'[t] = "asleep" => where[t] = "asleep"
      <4>1. /\ n \in Thread /\ where[n] \in ReadyAt
            /\ where \in [Thread -> Running \cup ReadyAt \cup {"asleep", "finished"}]
        BY <1>1 DEF Ready, ReadyAt, IType
      <4> QED
        BY <1>1, <3>2, <4>1, SwitchKeeps
    <3> QED
      BY <1>15, <3>1, <3>2 DEF IdleReturn
  <2>6. Requests'
    BY <1>1, <2>1, <2>5 DEF Requests
  <2> QED
    BY <2>4, <2>6
<1>16. CASE Halt
  <2>1. /\ idle = "enter" /\ (pending = <<>> \/ OnlyTimer(pending))
        /\ pending' = IF Due(pending) \/ pending = <<>> THEN pending
                      ELSE Advance(pending, Head(pending).key)
        /\ UNCHANGED <<ticking, idle, where, io>>
    BY <1>16 DEF Halt, threadVars
  <2>2. CASE Due(pending) \/ pending = <<>>
    <3>1. pending' = pending
      BY <2>1, <2>2
    <3>2. NoMissedInterrupt'
      BY <1>1, <2>1, <3>1 DEF NoMissedInterrupt, Firing
    <3>3. Requests'
      BY <1>1, <2>1, <3>1 DEF Requests
    <3> QED
      BY <3>2, <3>3
  <2>3. CASE ~(Due(pending) \/ pending = <<>>)
    <3> DEFINE k == Head(pending).key
    <3>1. Len(pending) = 1 /\ Head(pending).item \in Timer
      BY <2>1, <2>3 DEF OnlyTimer, Type
    <3>2. DOMAIN pending = {1} /\ pending[1] = Head(pending) /\ k \in Int
      BY <1>2, <2>3, <3>1, RemoveFirst
    <3>3. /\ DOMAIN pending' = DOMAIN pending
          /\ \A i \in DOMAIN pending : /\ pending'[i].item = pending[i].item
                                       /\ pending'[i].key = pending[i].key - k
      BY <1>2, <2>1, <2>3, <3>2, AdvanceKeeps
    <3>4. /\ DOMAIN pending' = {1} /\ pending'[1].item \in Timer /\ pending'[1].key = 0
      BY <3>1, <3>2, <3>3
    <3>5. NoMissedInterrupt'
      BY <2>1, <3>4 DEF NoMissedInterrupt, Firing
    <3>6. Requests'
      BY <1>1, <2>1, <3>3 DEF Requests
    <3> QED
      BY <3>5, <3>6
  <2> QED
    BY <2>2, <2>3
<1> QED
  BY <1>3, <1>4, <1>6, <1>7, <1>8, <1>9, <1>11, <1>12, <1>13, <1>14, <1>15, <1>16 DEF Step

\* The yield flag is down outside the loops that fire interrupts.
LEMMA FlagStep ==
  ASSUME IInv, Step
  PROVE  YieldFlagLocal'
<1>1. Control /\ YieldFlagLocal
  BY DEF IInv
<1>2. CASE CheckIfDue \/ IdleAdvance \/ IdleDrain
  BY <1>2 DEF CheckIfDue, IdleAdvance, IdleDrain, YieldFlagLocal, Firing
<1>3. CASE EndTick \/ EndTickYield \/ IdleReturn
  BY <1>3 DEF EndTick, EndTickYield, IdleReturn, YieldFlagLocal
<1>4. CASE Enable \/ UserInstruction \/ ReturnToUser
  BY <1>4 DEF Enable, UserInstruction, ReturnToUser, BeginTick, YieldFlagLocal, Firing
<1>5. CASE Disable \/ Trap \/ Yield \/ StartIO \/ Halt
  BY <1>1, <1>5 DEF Disable, Trap, Yield, StartIO, Halt, YieldFlagLocal, Firing
<1>6. CASE WaitForIO \/ Finish
  <2>1. ~ticking /\ idle = "no" /\ UNCHANGED yieldOnReturn
    BY <1>6 DEF WaitForIO, Finish, Runs, clockVars
  <2> QED
    BY <1>1, <2>1 DEF YieldFlagLocal, Firing
<1> QED
  BY <1>2, <1>3, <1>4, <1>5, <1>6 DEF Step

\* Idle halts the machine only when no thread is left that an interrupt could wake.
LEMMA HaltStep ==
  ASSUME IInv, Step
  PROVE  HaltsWhenDone'
<1> USE InterruptObjects
<1>1. IType /\ Control /\ Requests
  BY DEF IInv
<1>2. CASE Halt
  <2>1. idle = "enter" /\ (pending = <<>> \/ OnlyTimer(pending)) /\ UNCHANGED where
    BY <1>2 DEF Halt, threadVars
  <2>2. \A i \in DOMAIN pending : pending[i].item \in Timer
    <3>1. pending \in Seq(Element(Item))
      BY <1>1 DEF IType
    <3>2. CASE pending = <<>>
      BY <3>2
    <3>3. CASE OnlyTimer(pending)
      <4>1. Len(pending) = 1 /\ Head(pending).item \in Timer
        BY <3>3 DEF OnlyTimer, Type
      <4> QED
        BY <3>1, <4>1
    <3> QED
      BY <2>1, <3>2, <3>3
  <2>3. ASSUME NEW t \in Thread PROVE where[t] = "finished"
    <3>1. where[t] \notin Running /\ where[t] \notin ReadyAt
      BY <1>1, <2>1 DEF Control
    <3>2. where[t] # "asleep"
      BY <1>1, <2>2 DEF Requests
    <3> QED
      BY <1>1, <3>1, <3>2 DEF IType
  <2> QED
    BY <2>1, <2>3 DEF HaltsWhenDone
<1>3. CASE ~Halt
  <2>1. ~halted
    BY <1>1, <1>3 DEF Step, Control, CheckIfDue, EndTick, EndTickYield, Enable, Disable,
       UserInstruction, Trap, ReturnToUser, Yield, StartIO, WaitForIO, Finish, IdleAdvance,
       IdleDrain, IdleReturn, Runs
  <2>2. UNCHANGED halted
    BY <1>3 DEF Step, CheckIfDue, EndTick, EndTickYield, Enable, Disable,
       UserInstruction, Trap, ReturnToUser, Yield, StartIO, WaitForIO, Finish, IdleAdvance,
       IdleDrain, IdleReturn
  <2> QED
    BY <2>1, <2>2 DEF HaltsWhenDone
<1> QED
  BY <1>2, <1>3

\* The machine starts in the invariant.
LEMMA IInvInit == Init => IInv
<1> SUFFICES ASSUME Init PROVE IInv
  OBVIOUS
<1> USE InterruptAssumption, InterruptObjects
<1>1. PICK on \in SUBSET (Timer \cup Poller) :
        pending \in {l \in [1 .. Cardinality(on) -> [item : on, key : TimerDelay \cup {PollDelay}]] :
                       /\ {l[i].item : i \in DOMAIN l} = on
                       /\ \A i \in DOMAIN l :
                            l[i].key \in IF l[i].item \in Timer THEN TimerDelay ELSE {PollDelay}
                       /\ \A i, j \in DOMAIN l : i < j => l[i].key <= l[j].key}
  BY DEF Init
<1>2. Cardinality(on) \in Nat
  <2>1. IsFiniteSet(Timer \cup Poller)
    BY FS_Union
  <2> QED
    BY <2>1, FS_Subset, FS_CardinalityType
<1>3. /\ pending \in [1 .. Cardinality(on) -> [item : on, key : TimerDelay \cup {PollDelay}]]
      /\ Sorted(pending)
  BY <1>1 DEF Sorted
<1>4. [item : on, key : TimerDelay \cup {PollDelay}] \subseteq Element(Item)
  <2>1. on \subseteq Item
    BY DEF Item
  <2>2. TimerDelay \cup {PollDelay} \subseteq Int
    OBVIOUS
  <2> DEFINE D == TimerDelay \cup {PollDelay}
  <2> HIDE DEF D
  <2>3. [item : on, key : D] \subseteq [item : Item, key : Int]
    BY <2>1, <2>2 DEF D
  <2> QED
    BY <2>3 DEF D, Element
<1>5. pending \in Seq(Element(Item))
  BY <1>2, <1>3, <1>4
<1>6. \A i \in DOMAIN pending : pending[i].key > 0
  <2> SUFFICES ASSUME NEW i \in DOMAIN pending PROVE pending[i].key > 0
    OBVIOUS
  <2>1. pending[i] \in [item : on, key : TimerDelay \cup {PollDelay}]
    BY <1>3
  <2>2. pending[i].key \in TimerDelay \cup {PollDelay}
    BY <2>1
  <2>3. TimerDelay \cup {PollDelay} \subseteq Nat \ {0}
    OBVIOUS
  <2>4. pending[i].key \in Nat \ {0}
    BY <2>2, <2>3
  <2> QED
    BY <2>4
<1>7. /\ yieldOnReturn = FALSE /\ status = "SystemMode" /\ ticking = FALSE /\ idle = "no"
      /\ halted = FALSE /\ currentThread = main
      /\ where = [t \in Thread |-> IF t = main THEN "kernel" ELSE "readyOn"]
      /\ saved = [t \in Thread |-> None] /\ io = [t \in Thread |-> "none"]
  BY DEF Init
<1>8. IType
  BY <1>5, <1>7 DEF IType, Running, ReadyAt
<1>9. Control
  BY <1>7 DEF Control, Running
<1>10. SavedModes /\ ModeOfThread /\ Requests
  BY <1>7 DEF SavedModes, ModeOfThread, Requests
<1>11. NoMissedInterrupt
  BY <1>3, <1>6, <1>7 DEF NoMissedInterrupt, Sorted
<1>12. YieldFlagLocal /\ HaltsWhenDone
  BY <1>7 DEF YieldFlagLocal, HaltsWhenDone
<1> QED
  BY <1>8, <1>9, <1>10, <1>11, <1>12 DEF IInv

\* Every step keeps the invariant.
LEMMA IInvNext == IInv /\ [Next]_vars => IInv'
<1>1. ASSUME IInv, Step PROVE IInv'
  BY <1>1, ControlStep, ModeStep, PendingStep, FlagStep, HaltStep DEF IInv
<1>2. ASSUME IInv, UNCHANGED vars PROVE IInv'
  <2>1. UNCHANGED <<pending, yieldOnReturn, status, ticking, idle, halted, currentThread,
                    where, saved, io>>
    BY <1>2 DEF vars, clockVars, threadVars
  <2>2. IType' /\ Control'
    BY <1>2, <2>1 DEF IInv, IType, Control
  <2>3. SavedModes' /\ ModeOfThread' /\ Requests'
    BY <1>2, <2>1 DEF IInv, SavedModes, ModeOfThread, Requests
  <2>4. NoMissedInterrupt' /\ YieldFlagLocal' /\ HaltsWhenDone'
    BY <1>2, <2>1 DEF IInv, NoMissedInterrupt, YieldFlagLocal, HaltsWhenDone, Firing
  <2> QED
    BY <2>2, <2>3, <2>4 DEF IInv
<1> QED
  BY <1>1, <1>2 DEF Next

-----------------------------------------------------------------------------
(* The theorems *)

\* The inductive invariant of the interrupt simulation: what is pending, who runs, in
\* which mode, and what the handlers on the way have saved.
THEOREM InterruptInvariant == Spec => []IInv
<1>1. Init => IInv
  BY IInvInit
<1>2. IInv /\ [Next]_vars => IInv'
  BY IInvNext
<1> QED
  BY <1>1, <1>2, PTL DEF Spec

\* Interrupts fire in order of time, and none stays behind the clock: neither OneTick
\* nor the jump in CheckIfDue passes one over (interrupt.cc, Interrupt::CheckIfDue).
THEOREM InterruptsInTime == Spec => []NoMissedInterrupt
<1>1. IInv => NoMissedInterrupt
  BY DEF IInv
<1> QED
  BY <1>1, InterruptInvariant, PTL

\* The status of the machine is that of the code that runs, however interrupts and
\* yields nest (Interrupt::OneTick saves it, Machine::RaiseException sets it).
THEOREM ModeFollowsThread == Spec => []ModeOfThread
<1>1. IInv => ModeOfThread
  BY DEF IInv
<1> QED
  BY <1>1, InterruptInvariant, PTL

\* yieldOnReturn is set only while interrupts are being fired, so a time slice is not
\* carried over to another thread (Interrupt::YieldOnReturn, OneTick, Idle).
THEOREM YieldStaysLocal == Spec => []YieldFlagLocal
<1>1. IInv => YieldFlagLocal
  BY DEF IInv
<1> QED
  BY <1>1, InterruptInvariant, PTL

\* Interrupt::Idle halts the machine only when every thread has finished: a thread that
\* waits for I/O has its interrupt among the pending ones.
THEOREM HaltIsFinal == Spec => []HaltsWhenDone
<1>1. IInv => HaltsWhenDone
  BY DEF IInv
<1> QED
  BY <1>1, InterruptInvariant, PTL
=============================================================================
