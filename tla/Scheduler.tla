------------------------------ MODULE Scheduler ------------------------------
(***************************************************************************)
(* Threads and their scheduling: class Thread (threads/thread.cc), class   *)
(* Scheduler (threads/scheduler.cc) and the globals of threads/system.cc.  *)
(*                                                                         *)
(* Every operation runs with interrupts off, so it is one action; the      *)
(* thread that performs it is currentThread.  A context switch is the      *)
(* change of currentThread in Run.  No thread ever leaves level 0          *)
(* (Thread::setLevel has no caller), so readyList_1 and readyList_2 stay   *)
(* empty and are left out.                                                 *)
(***************************************************************************)
EXTENDS NachosList, FiniteSets

CONSTANTS Thread, main, NULL,
          Policy,             \* the policies SetSchedPolicy may have set
          MaxThreadNum,       \* size of tid and of threadPort
          MAX_PRIORITY, NORM_PRIORITY,
          Priority,           \* policy -> the priorities a client gives a new thread
          PriorityBound,      \* bound: the priorities Yield may reach
          Suspendable,        \* policy -> the threads a client suspends and resumes
          Uninit              \* what an uninitialised Thread* may hold

ASSUME SchedulerAssumption ==
  /\ main \in Thread /\ NULL \notin Thread /\ IsFiniteSet(Thread)
  /\ MaxThreadNum \in Nat \ {0}
  /\ MAX_PRIORITY \in Int /\ NORM_PRIORITY \in PriorityBound
  /\ Priority \in [Policy -> SUBSET PriorityBound] /\ PriorityBound \subseteq Int
  /\ Suspendable \in [Policy -> SUBSET Thread]

VARIABLES policy,             \* chosen at start-up, once
          status,             \* "none": not constructed; "deleted": destroyed
          priority, threadID,
          tid,                \* the i with tid[i] = 1
          threadPort, threadnum,
          readyList, suspendedList, joinList,
          currentThread, threadToBeDestroyed,
          idle,               \* currentThread loops in Interrupt::Idle
          started,            \* threads that have been switched to
          asleep,             \* threads on the queue of a semaphore
          finished            \* threads that have called Finish

tableVars == <<tid, threadPort, threadnum>>
vars == <<policy, status, priority, threadID, tableVars, readyList, suspendedList, joinList,
          currentThread, threadToBeDestroyed, idle, started, asleep, finished>>

Live == {t \in Thread : status[t] \notin {"none", "deleted"}}

\* threadnum counts up once per thread and can be off by one per failed Fork.
Slot == -Cardinality(Thread) .. Cardinality(Thread)

\* Initialize(): the globals, then new Thread("main").
Init ==
  /\ policy \in Policy
  /\ status = [t \in Thread |-> IF t = main THEN "RUNNING" ELSE "none"]
  /\ priority = [t \in Thread |-> NORM_PRIORITY]
  /\ threadID = [t \in Thread |-> IF t = main THEN 0 ELSE -1]
  /\ tid = {0} /\ threadnum = 1
  /\ threadPort = [i \in Slot |-> IF i = 1 THEN main ELSE NULL]
  /\ readyList = <<>> /\ suspendedList = <<>>
  /\ joinList = [t \in Thread |-> <<>>]
  /\ currentThread = main /\ threadToBeDestroyed = NULL /\ idle = FALSE
  /\ started = {main} /\ asleep = {} /\ finished = {}

Busy == ~idle

-----------------------------------------------------------------------------
(* Scheduler *)

\* Mutant: a small priority sorts first.
ReadyToRun_Key(l, t, p) == SortedInsert(l, t, p)

\* Mutant: a thread that becomes ready goes to the front.
ReadyToRun_Prepend(l, t, p) == ListPrepend(l, t)

\* ReadyToRun: where thread t of priority p goes on the ready list l.
ReadyToRun(l, t, p) ==
  IF policy \in {"SCHED_PRIO_NP", "SCHED_PRIO_P", "SCHED_MLQ"}
  THEN SortedInsert(l, t, MAX_PRIORITY - p)
  ELSE ListAppend(l, t)

\* FindNextToRun on the ready list l; the callers go on with ListRemove(l).
FindNextToRun(l) == FirstItem(l, NULL)

ShouldISwitch_Never(old, new) == FALSE

ShouldISwitch(old, new) ==
  /\ policy \in {"SCHED_PRIO_P", "SCHED_MLQ"}
  /\ priority[new] > priority[old]

\* ~Thread, entered with threadnum = num.  freeThreadID(-1) writes outside tid.
Destructor(t, num) ==
  /\ tid' = tid \ {threadID[t]}
  /\ threadPort' = [threadPort EXCEPT ![num] = NULL]
  /\ threadnum' = num - 1

\* Mutant: Run destroys the finished thread but keeps the pointer to it.
Run_KeepsPointer(next, st, dying) ==
  LET dead == IF next \in started THEN dying ELSE NULL IN
  /\ currentThread' = next /\ started' = started \cup {next}
  /\ status' = [t \in Thread |-> CASE t = next -> "RUNNING"
                                   [] t = dead /\ t # next -> "deleted"
                                   [] OTHER -> st[t]]
  /\ IF dead = NULL THEN UNCHANGED tableVars ELSE Destructor(dead, threadnum)
  /\ threadToBeDestroyed' = dying

\* Run(next), with st and dying the statuses and threadToBeDestroyed its caller
\* has set.  The code behind SWITCH runs in a thread that was itself switched out
\* in Run; a thread that has never run starts in ThreadRoot and destroys nothing.
\* The Schedule call of the multi-level policy is left out: Policy does not have it.
Run(next, st, dying) ==
  LET dead == IF next \in started THEN dying ELSE NULL IN
  /\ currentThread' = next /\ started' = started \cup {next}
  /\ status' = [t \in Thread |-> CASE t = next -> "RUNNING"
                                   [] t = dead /\ t # next -> "deleted"
                                   [] OTHER -> st[t]]
  /\ IF dead = NULL
     THEN UNCHANGED tableVars /\ threadToBeDestroyed' = dying
     ELSE Destructor(dead, threadnum) /\ threadToBeDestroyed' = NULL

NoSwitch(st, dying) ==
  /\ status' = st /\ threadToBeDestroyed' = dying
  /\ UNCHANGED <<currentThread, started, tableVars>>

\* The loop "while FindNextToRun() == NULL, Idle()" that ends in Run.
RunNextOrIdle(st, dying) ==
  \/ /\ readyList = <<>> /\ idle' = TRUE
     /\ NoSwitch(st, dying) /\ UNCHANGED readyList
  \/ /\ readyList # <<>> /\ idle' = FALSE
     /\ Run(FindNextToRun(readyList), st, dying)
     /\ readyList' = ListRemove(readyList)

-----------------------------------------------------------------------------
(* Thread *)

\* Mutant: the search for a free id starts at the threadnum-th one.
FreeID_Count == IF threadnum < MaxThreadNum THEN threadnum ELSE -1

\* The first free entry of tid, -1 if there is none.
FreeID ==
  LET free == (0 .. MaxThreadNum - 1) \ tid IN
  IF free = {} THEN -1 ELSE CHOOSE i \in free : \A j \in free : i <= j

\* The constructor, on fresh memory t.
NewThread(t) ==
  /\ Busy /\ status[t] = "none"
  /\ status' = [status EXCEPT ![t] = "JUST_CREATED"]
  /\ threadID' = [threadID EXCEPT ![t] = FreeID]
  /\ tid' = IF FreeID = -1 THEN tid ELSE tid \cup {FreeID}
  /\ priority' = [priority EXCEPT ![t] = NORM_PRIORITY]
  /\ threadnum' = threadnum + 1
  /\ threadPort' = [threadPort EXCEPT ![threadnum + 1] = t]
  /\ UNCHANGED <<readyList, suspendedList, joinList, currentThread, threadToBeDestroyed,
                 idle, started, asleep, finished>>

\* A client calls setPriority on the thread it is about to fork.
SetPriority(t, p) ==
  /\ Busy /\ status[t] = "JUST_CREATED"
  /\ priority' = [priority EXCEPT ![t] = p]
  /\ UNCHANGED <<status, threadID, tableVars, readyList, suspendedList, joinList,
                 currentThread, threadToBeDestroyed, idle, started, asleep, finished>>

\* The priority Yield gives the current thread.
YieldPriority ==
  IF policy = "SCHED_PRIO_P"
  THEN priority[currentThread] - MAX_PRIORITY + threadID[currentThread]
  ELSE priority[currentThread]

\* The body of Yield, on the ready list and statuses its caller has set.
\* SCHED_RR switches to any ready thread, SCHED_PRIO_P to one whose priority is
\* not lower, and the other policies never.
YieldTo(ready, st) ==
  LET next == FindNextToRun(ready)
      rest == ListRemove(ready)
      switches == \/ policy = "SCHED_RR" /\ next # NULL
                  \/ /\ policy = "SCHED_PRIO_P" /\ next # NULL
                     /\ priority[next] >= YieldPriority
  IN
  /\ YieldPriority \in PriorityBound    \* the bound of the run; the code has none
  /\ priority' = [priority EXCEPT ![currentThread] = YieldPriority]
  /\ \/ /\ switches
        /\ readyList' = ReadyToRun(rest, currentThread, YieldPriority)
        /\ Run(next, [st EXCEPT ![currentThread] = "READY"], threadToBeDestroyed)
     \/ /\ ~switches
        /\ readyList' = IF policy = "SCHED_PRIO_P" /\ next # NULL
                        THEN ReadyToRun(rest, next, priority[next]) ELSE ready
        /\ NoSwitch(st, threadToBeDestroyed)

\* Called by the thread itself, or by Interrupt::OneTick after a timer interrupt.
Yield ==
  /\ Busy /\ YieldTo(readyList, status)
  /\ UNCHANGED <<threadID, suspendedList, joinList, idle, asleep, finished>>

\* Fork when tid was full: threadnum is counted down here and in ~Thread.
ForkFails(t) ==
  /\ Busy /\ status[t] = "JUST_CREATED" /\ threadID[t] = -1
  /\ status' = [status EXCEPT ![t] = "deleted"]
  /\ Destructor(t, threadnum - 1)
  /\ UNCHANGED <<priority, threadID, readyList, suspendedList, joinList, currentThread,
                 threadToBeDestroyed, idle, started, asleep, finished>>

Fork(t) ==
  LET ready == ReadyToRun(readyList, t, priority[t])
      st == [status EXCEPT ![t] = "READY"]
  IN
  /\ Busy /\ status[t] = "JUST_CREATED" /\ threadID[t] # -1
  /\ \/ /\ ShouldISwitch(currentThread, t) /\ YieldTo(ready, st)
     \/ /\ ~ShouldISwitch(currentThread, t)
        /\ readyList' = ready /\ NoSwitch(st, threadToBeDestroyed) /\ UNCHANGED priority
  /\ UNCHANGED <<threadID, suspendedList, joinList, idle, asleep, finished>>

\* Sleep, called by Semaphore::P.
Sleep ==
  /\ Busy
  /\ asleep' = asleep \cup {currentThread}
  /\ RunNextOrIdle([status EXCEPT ![currentThread] = "BLOCKED"], threadToBeDestroyed)
  /\ UNCHANGED <<priority, threadID, suspendedList, joinList, finished>>

\* Semaphore::V, by the current thread or by an interrupt handler, also while
\* the processor is idle.
Wake(t) ==
  /\ t \in asleep
  /\ asleep' = asleep \ {t}
  /\ status' = [status EXCEPT ![t] = "READY"]
  /\ readyList' = ReadyToRun(readyList, t, priority[t])
  /\ UNCHANGED <<priority, threadID, tableVars, suspendedList, joinList, currentThread,
                 threadToBeDestroyed, idle, started, finished>>

\* The idle loop finds a thread that an interrupt handler made ready.
Idle ==
  /\ idle /\ readyList # <<>>
  /\ RunNextOrIdle(status, threadToBeDestroyed)
  /\ UNCHANGED <<priority, threadID, suspendedList, joinList, asleep, finished>>

Finish ==
  /\ Busy
  /\ finished' = finished \cup {currentThread}
  /\ RunNextOrIdle([status EXCEPT ![currentThread] = "BLOCKED"], currentThread)
  /\ UNCHANGED <<priority, threadID, suspendedList, joinList, asleep>>

\* t->Join(), by the current thread.
Join(t) ==
  /\ Busy /\ t \in Live /\ t # currentThread
  /\ joinList' = [joinList EXCEPT ![t] = ListAppend(@, currentThread)]
  /\ RunNextOrIdle([status EXCEPT ![currentThread] = "BLOCKED"], threadToBeDestroyed)
  /\ UNCHANGED <<priority, threadID, suspendedList, asleep, finished>>

\* What Suspend and Resume leave of a list they search for t: the elements they
\* pass are removed and put back by Prepend, which gives them key 0.
Position(l, t) ==
  CHOOSE i \in 0 .. Len(l) :
    /\ i = 0 => \A j \in DOMAIN l : l[j].item # t
    /\ i > 0 => l[i].item = t /\ \A j \in 1 .. i - 1 : l[j].item # t

Passed(l, t) ==
  LET n == Position(l, t)
      moved == IF n = 0 THEN Len(l) ELSE n - 1
  IN  [i \in 1 .. moved |-> Elem(l[i].item, 0)]
        \o SubSeq(l, IF n = 0 THEN moved + 1 ELSE n + 1, Len(l))

\* The local t == thread after the search: on an empty list t is uninitialised.
Found(l, t) ==
  IF l = <<>> THEN {g = t : g \in Uninit} ELSE {Position(l, t) # 0}

\* Mutant: the suspended thread is not taken off the ready list.
Suspend_Stays(t) ==
  /\ Busy /\ t \in Live \cap Suspendable[policy]
  /\ \E found \in Found(readyList, t) :
       /\ status' = IF found THEN [status EXCEPT ![t] = "SUSPENDED"] ELSE status
       /\ suspendedList' = IF found THEN ListAppend(suspendedList, t) ELSE suspendedList
  /\ UNCHANGED <<readyList, priority, threadID, tableVars, joinList, currentThread,
                 threadToBeDestroyed, idle, started, asleep, finished>>

\* t->Suspend(), by the current thread (which may be t).
Suspend(t) ==
  /\ Busy /\ t \in Live \cap Suspendable[policy]
  /\ \E found \in Found(readyList, t) :
       /\ status' = IF found THEN [status EXCEPT ![t] = "SUSPENDED"] ELSE status
       /\ suspendedList' = IF found THEN ListAppend(suspendedList, t) ELSE suspendedList
  /\ readyList' = Passed(readyList, t)
  /\ UNCHANGED <<priority, threadID, tableVars, joinList, currentThread,
                 threadToBeDestroyed, idle, started, asleep, finished>>

\* t->Resume(), by another thread.
Resume(t) ==
  /\ Busy /\ t \in Live \cap Suspendable[policy] /\ t # currentThread
  /\ \E found \in Found(suspendedList, t) :
       /\ status' = IF found THEN [status EXCEPT ![t] = "READY"] ELSE status
       /\ readyList' = IF found THEN ListAppend(readyList, t) ELSE readyList
  /\ suspendedList' = Passed(suspendedList, t)
  /\ UNCHANGED <<priority, threadID, tableVars, joinList, currentThread,
                 threadToBeDestroyed, idle, started, asleep, finished>>

Next ==
  /\ \/ Yield \/ Sleep \/ Idle \/ Finish
     \/ \E t \in Thread :
          \/ NewThread(t) \/ Fork(t) \/ ForkFails(t) \/ Wake(t)
          \/ Join(t) \/ Suspend(t) \/ Resume(t)
          \/ \E p \in Priority[policy] : SetPriority(t, p)
  /\ UNCHANGED policy

\* Idle is a loop.  Yield is called over and over when the timer is on: each timer
\* interrupt sets yieldOnReturn.
Spec ==
  /\ Init /\ [][Next]_vars
  /\ WF_vars(Idle /\ UNCHANGED policy) /\ WF_vars(Yield /\ UNCHANGED policy)

-----------------------------------------------------------------------------
(* Properties *)

\* How often thread t is on list l.
Occurrences(l, t) == Cardinality({i \in DOMAIN l : l[i].item = t})

\* A thread is on exactly the list its status names, once; and the processor runs
\* one thread, or is idle with nobody running.  Nothing is lost when Suspend and
\* Resume take a list apart while others are ready.
PlacedByStatus ==
  \A t \in Thread :
    /\ Occurrences(readyList, t) = IF status[t] = "READY" THEN 1 ELSE 0
    /\ Occurrences(suspendedList, t) = IF status[t] = "SUSPENDED" THEN 1 ELSE 0
    /\ status[t] = "RUNNING" <=> (t = currentThread /\ ~idle)

\* A destroyed thread is on no list, is not running and is not destroyed again,
\* and a thread that has finished never becomes ready: ~Thread frees the stack.
NoDangling ==
  /\ currentThread \in Live
  /\ threadToBeDestroyed # NULL =>
       threadToBeDestroyed \in finished /\ status[threadToBeDestroyed] = "BLOCKED"
  /\ \A t \in finished : status[t] \in {"BLOCKED", "deleted"}
  /\ asleep \subseteq {t \in Live : status[t] = "BLOCKED"} \ finished

\* Thread ids: tid marks exactly the ids of the threads that exist, and no two of
\* them share one, through any sequence of creations and destructions.
IDsUnique ==
  /\ tid = {threadID[t] : t \in Live} \ {-1}
  /\ \A t, u \in Live : threadID[t] = threadID[u] /\ threadID[t] # -1 => t = u

\* Preemptive priority scheduling: the ready list is in order of the priorities
\* the ready threads have now.
PriorityOrder ==
  policy = "SCHED_PRIO_P" => \A i, j \in DOMAIN readyList :
    i < j => priority[readyList[i].item] >= priority[readyList[j].item]

\* "tell a thread::fork to preempt the current thread" (scheduler.cc:363): when the
\* forked thread has a higher priority, the processor goes to a thread that is at
\* least as important.
ForkPreempts ==
  [][\A t \in Thread :
       (/\ policy = "SCHED_PRIO_P"
        /\ status[t] = "JUST_CREATED" /\ status'[t] \in {"READY", "RUNNING"}
        /\ priority[t] > priority[currentThread])
       => /\ currentThread' # currentThread
          /\ priority[currentThread'] >= priority[t]]_vars

\* Round robin with the timer on: a ready thread does not stay ready for ever,
\* whatever the others do.
ReadyRuns ==
  \A t \in Thread : (policy = "SCHED_RR" /\ status[t] = "READY") ~> (status[t] # "READY")

-----------------------------------------------------------------------------
(* What the comments promise and the code does not do *)

\* "Wait for this thread to die" (thread.h:136): once a thread has died, the
\* threads that joined it run again.
JoinReturns ==
  \A t, u \in Thread :
    (t \in finished /\ Occurrences(joinList[t], u) > 0) ~> (status[u] # "BLOCKED")

\* "Scheduler::Run() will call the destructor" (thread.cc:187): a finished thread
\* is either destroyed or about to be.
FinishedDestroyed ==
  \A t \in finished : status[t] = "deleted" \/ t = threadToBeDestroyed

=============================================================================
