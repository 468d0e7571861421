-------------------------- MODULE SchedulerProofs --------------------------
(***************************************************************************)
(* Proofs about threads and their scheduling, for any number of threads,   *)
(* any size of the thread table, any priorities and any policies.          *)
(***************************************************************************)
EXTENDS Scheduler, ListTheorems

Status == {"none", "JUST_CREATED", "READY", "RUNNING", "BLOCKED", "SUSPENDED", "deleted"}

\* The threads that have status s, and the ones that exist, by the statuses st.
With(st, s) == {t \in Thread : st[t] = s}
LiveIn(st) == {t \in Thread : st[t] \notin {"none", "deleted"}}

-----------------------------------------------------------------------------
(* The inductive invariant.  Its parts are stated about values, because an  *)
(* operation changes the statuses before it calls Run or Yield.             *)

\* Finished threads and sleeping threads do not run, and what is about to be
\* destroyed has finished.
Sound(st, dying, fin, slp) ==
  /\ st \in [Thread -> Status] /\ fin \subseteq Thread /\ dying \in Thread \cup {NULL}
  /\ dying # NULL => dying \in fin /\ st[dying] = "BLOCKED"
  /\ \A t \in fin : st[t] \in {"BLOCKED", "deleted"}
  /\ slp \subseteq With(st, "BLOCKED") \ fin

\* One thread runs; or the processor is idle, in the code of a thread that has gone to
\* sleep and may have been woken.
OneRuns(st, cur, idl) ==
  /\ \A t \in Thread : st[t] = "RUNNING" <=> (t = cur /\ ~idl)
  /\ idl => st[cur] \in {"BLOCKED", "READY"}

IDsOK(st, ids, used) ==
  /\ used = {ids[t] : t \in LiveIn(st)} \ {-1}
  /\ \A t, u \in LiveIn(st) : ids[t] = ids[u] /\ ids[t] # -1 => t = u

Core ==
  /\ policy \in Policy /\ priority \in [Thread -> Int] /\ threadID \in [Thread -> Int]
  /\ currentThread \in Thread /\ idle \in BOOLEAN /\ started \subseteq Thread
  /\ Sound(status, threadToBeDestroyed, finished, asleep)
  /\ Placed(readyList, Thread, With(status, "READY"))
  /\ Placed(suspendedList, Thread, With(status, "SUSPENDED"))
  /\ OneRuns(status, currentThread, idle)
  /\ IDsOK(status, threadID, tid)

\* Under preemptive priorities an element's key is the one of its thread's priority,
\* and the ready list is sorted by keys.
KeysOK(l, prio) ==
  /\ Sorted(l)
  /\ \A i \in DOMAIN l : l[i].key = MAX_PRIORITY - prio[l[i].item]

Ordered == policy = "SCHED_PRIO_P" => KeysOK(readyList, priority)

-----------------------------------------------------------------------------
(* The lists *)

\* A thread is on a list once, or not at all.
LEMMA PlacedCount ==
  ASSUME NEW X, NEW l, Placed(l, Thread, X), NEW t \in Thread
  PROVE  Occurrences(l, t) = IF t \in X THEN 1 ELSE 0
<1> DEFINE at == {i \in DOMAIN l : l[i].item = t}
<1>1. /\ \A i, j \in DOMAIN l : l[i].item = l[j].item => i = j
      /\ t \in X <=> \E i \in DOMAIN l : l[i].item = t
  BY DEF Placed, Contains
<1>2. CASE t \in X
  <2>1. PICK i \in DOMAIN l : l[i].item = t
    BY <1>1, <1>2
  <2>2. at = {i}
    BY <1>1, <2>1
  <2> QED
    BY <1>2, <2>2, FS_Singleton DEF Occurrences
<1>3. CASE t \notin X
  <2>1. at = {}
    BY <1>1, <1>3
  <2> QED
    BY <1>3, <2>1, FS_EmptySet DEF Occurrences
<1> QED
  BY <1>2, <1>3

\* Scheduler::Suspend and Resume take a list apart and put it together again: all
\* that is missing then is the thread they looked for.
LEMMA PassedPlaced ==
  ASSUME NEW X, NEW l, Placed(l, Thread, X), NEW t \in Thread
  PROVE  /\ Placed(Passed(l, t), Thread, X \ {t})
         /\ Position(l, t) # 0 <=> t \in X
<1> DEFINE n == Len(l)
           P(i) == /\ i = 0 => \A j \in DOMAIN l : l[j].item # t
                   /\ i > 0 => l[i].item = t /\ \A j \in 1 .. i - 1 : l[j].item # t
           p == Position(l, t)
<1>1. /\ n \in Nat /\ DOMAIN l = 1 .. n
      /\ \A i \in 1 .. n : l[i].item \in Thread /\ l[i].key \in Int
      /\ l \in Seq(Element(Thread))
  BY KeyType DEF Placed
<1>2. /\ \A i, j \in 1 .. n : l[i].item = l[j].item => i = j
      /\ \A x \in Thread : x \in X <=> \E i \in 1 .. n : l[i].item = x
  BY <1>1 DEF Placed, Contains
<1>3. \E i \in 0 .. n : P(i)
  <2>1. CASE t \in X
    <3>1. PICK i \in 1 .. n : l[i].item = t
      BY <1>2, <2>1
    <3>2. \A j \in 1 .. i - 1 : l[j].item # t
      BY <1>1, <1>2, <3>1
    <3>3. P(i)
      BY <3>1, <3>2
    <3> QED
      BY <1>1, <3>1, <3>3
  <2>2. CASE t \notin X
    <3>1. P(0)
      BY <1>1, <1>2, <2>2
    <3> QED
      BY <1>1, <3>1
  <2> QED
    BY <2>1, <2>2
<1>4. p \in 0 .. n /\ P(p)
  BY <1>3 DEF Position
<1>5. p # 0 <=> t \in X
  BY <1>1, <1>2, <1>4
<1> DEFINE m == IF p = 0 THEN n ELSE p - 1
           a == [i \in 1 .. m |-> Elem(l[i].item, 0)]
           b == SubSeq(l, IF p = 0 THEN m + 1 ELSE p + 1, n)
           r == a \o b
<1>6. Passed(l, t) = r
  BY DEF Passed
<1> HIDE DEF p
<1>7. m \in Nat /\ m <= n
  BY <1>1, <1>4
<1>8. /\ a \in Seq(Element(Thread)) /\ Len(a) = m
      /\ \A i \in 1 .. m : a[i].item = l[i].item
  <2>1. \A i \in 1 .. m : i \in 1 .. n
    BY <1>1, <1>7
  <2>2. \A x \in Thread : Elem(x, 0) \in Element(Thread) /\ Elem(x, 0).item = x
    BY DEF Elem, Element
  <2> HIDE DEF m
  <2>3. a \in [1 .. m -> Element(Thread)]
    BY <1>1, <2>1, <2>2
  <2>4. a \in Seq(Element(Thread)) /\ Len(a) = m
    BY <1>7, <2>3
  <2> QED
    BY <1>1, <2>1, <2>2, <2>4
<1> HIDE DEF a, n
<1>9. CASE p = 0
  <2>1. m = n /\ b = <<>>
    BY <1>1, <1>9 DEF n
  <2>2. r = a
    <3> HIDE DEF m, b
    <3>1. a \o <<>> = a
      BY <1>8
    <3> QED
      BY <2>1, <3>1
  <2>3. DOMAIN a = 1 .. n /\ \A i \in 1 .. n : a[i].item = l[i].item
    BY <1>1, <1>8, <2>1
  <2>4. X \ {t} = X
    BY <1>5, <1>9
  <2>5. Placed(a, Thread, X)
    BY <1>2, <1>8, <2>3 DEF Placed, Contains
  <2> QED
    BY <1>5, <1>6, <2>2, <2>4, <2>5 DEF p
<1>10. CASE p # 0
  <2>1. m = p - 1 /\ p \in 1 .. n
    BY <1>1, <1>4, <1>10
  <2>2. b = SubSeq(l, p + 1, n)
    BY <1>10
  <2> HIDE DEF m, b
  <2>3. /\ b \in Seq(Element(Thread)) /\ Len(b) = n - p
        /\ \A i \in 1 .. n - p : b[i] = l[i + p]
    <3> DEFINE q == p + 1
    <3>1. q \in 1 .. Len(l) + 1 /\ b = SubSeq(l, q, Len(l)) /\ n = Len(l)
      BY <1>1, <2>1, <2>2 DEF n
    <3> HIDE DEF q
    <3>2. /\ b \in Seq(Element(Thread)) /\ Len(b) = Len(l) - q + 1
          /\ \A i \in 1 .. Len(l) - q + 1 : b[i] = l[i + q - 1]
      BY <1>1, <3>1
    <3>3. n - p = Len(l) - q + 1 /\ \A i \in 1 .. n - p : i + q - 1 = i + p
      BY <1>1, <2>1, <3>1 DEF q
    <3> QED
      BY <3>2, <3>3
  <2>4. /\ r \in Seq(Element(Thread)) /\ Len(r) = n - 1 /\ DOMAIN r = 1 .. n - 1
        /\ \A i \in 1 .. p - 1 : r[i] = a[i]
        /\ \A i \in p .. n - 1 : r[i] = b[i - p + 1]
    <3>1. /\ a \in Seq(Element(Thread)) /\ b \in Seq(Element(Thread))
          /\ Len(a) = p - 1 /\ Len(b) = n - p /\ n \in Nat /\ p \in 1 .. n
      BY <1>1, <1>8, <2>1, <2>3
    <3> QED
      BY <3>1
  <2> HIDE DEF r
  <2> DEFINE old(i) == IF i < p THEN i ELSE i + 1
  <2>5. \A i \in 1 .. n - 1 : old(i) \in 1 .. n /\ old(i) # p /\ r[i].item = l[old(i)].item
    <3> SUFFICES ASSUME NEW i \in 1 .. n - 1
                 PROVE  old(i) \in 1 .. n /\ old(i) # p /\ r[i].item = l[old(i)].item
      OBVIOUS
    <3>1. CASE i < p
      <4>1. i \in 1 .. p - 1 /\ old(i) = i /\ i \in 1 .. n
        BY <1>1, <2>1, <3>1
      <4>2. r[i] = a[i] /\ a[i].item = l[i].item
        BY <1>8, <2>1, <2>4, <4>1
      <4> QED
        BY <1>1, <2>1, <3>1, <4>1, <4>2
    <3>2. CASE i >= p
      <4>1. i \in p .. n - 1 /\ i - p + 1 \in 1 .. n - p /\ (i - p + 1) + p = i + 1 /\ old(i) = i + 1
        BY <1>1, <2>1, <3>2
      <4>2. r[i] = l[i + 1]
        BY <2>3, <2>4, <4>1
      <4> QED
        BY <1>1, <2>1, <4>1, <4>2
    <3> QED
      BY <1>1, <2>1, <3>1, <3>2
  <2>6. \A i, j \in 1 .. n - 1 : old(i) = old(j) => i = j
    BY <1>1, <2>1
  <2>7. \A k \in 1 .. n : k # p => \E i \in 1 .. n - 1 : old(i) = k
    <3> SUFFICES ASSUME NEW k \in 1 .. n, k # p PROVE \E i \in 1 .. n - 1 : old(i) = k
      OBVIOUS
    <3>1. CASE k < p
      <4>1. k \in 1 .. n - 1 /\ old(k) = k
        BY <1>1, <2>1, <3>1
      <4> QED
        BY <4>1
    <3>2. CASE k > p
      <4>1. k - 1 \in 1 .. n - 1 /\ old(k - 1) = k
        BY <1>1, <2>1, <3>2
      <4> QED
        BY <4>1
    <3> QED
      BY <1>1, <2>1, <3>1, <3>2
  <2>8. l[p].item = t
    BY <1>4, <2>1
  <2> HIDE DEF old
  <2>9. ASSUME NEW i \in 1 .. n - 1, NEW j \in 1 .. n - 1, r[i].item = r[j].item
        PROVE  i = j
    BY <1>2, <2>5, <2>6, <2>9
  <2>10. ASSUME NEW x \in Thread
         PROVE  x \in X \ {t} <=> \E i \in 1 .. n - 1 : r[i].item = x
    <3>1. ASSUME x \in X, x # t PROVE \E i \in 1 .. n - 1 : r[i].item = x
      <4>1. PICK k \in 1 .. n : l[k].item = x
        BY <1>2, <3>1
      <4>2. k # p
        BY <2>8, <3>1, <4>1
      <4>3. PICK i \in 1 .. n - 1 : old(i) = k
        BY <2>7, <4>2
      <4> QED
        BY <2>5, <4>1, <4>3
    <3>2. ASSUME NEW i \in 1 .. n - 1, r[i].item = x PROVE x \in X \ {t}
      <4>1. x \in X
        BY <1>2, <2>5, <3>2
      <4>2. x # t
        BY <1>2, <2>1, <2>5, <2>8, <3>2
      <4> QED
        BY <4>1, <4>2
    <3> QED
      BY <3>1, <3>2
  <2>11. Placed(r, Thread, X \ {t})
    BY <2>4, <2>9, <2>10 DEF Placed, Contains
  <2> QED
    BY <1>5, <1>6, <2>11 DEF p, r
<1> QED
  BY <1>9, <1>10

\* Scheduler::ReadyToRun puts the thread on the list, whatever the policy.
LEMMA ReadyToRunPlaced ==
  ASSUME NEW X, NEW l, Placed(l, Thread, X), NEW t \in Thread, t \notin X, NEW p \in Int
  PROVE  Placed(ReadyToRun(l, t, p), Thread, X \cup {t})
<1>1. MAX_PRIORITY - p \in Int
  BY SchedulerAssumption
<1>2. CASE policy \in {"SCHED_PRIO_NP", "SCHED_PRIO_P", "SCHED_MLQ"}
  BY <1>1, <1>2, PlacedInsert DEF ReadyToRun
<1>3. CASE policy \notin {"SCHED_PRIO_NP", "SCHED_PRIO_P", "SCHED_MLQ"}
  BY <1>3, PlacedAppend DEF ReadyToRun
<1> QED
  BY <1>2, <1>3

\* FindNextToRun and the list it leaves.
LEMMA FindNextPlaced ==
  ASSUME NEW X, NEW l, Placed(l, Thread, X)
  PROVE  /\ l = <<>> => FindNextToRun(l) = NULL /\ ListRemove(l) = <<>>
         /\ l # <<>> => /\ FindNextToRun(l) \in X /\ FindNextToRun(l) \in Thread
                        /\ Placed(ListRemove(l), Thread, X \ {FindNextToRun(l)})
<1>1. ASSUME l # <<>>
      PROVE  /\ FindNextToRun(l) \in X /\ FindNextToRun(l) \in Thread
             /\ Placed(ListRemove(l), Thread, X \ {FindNextToRun(l)})
  <2>1. FindNextToRun(l) = Head(l).item /\ ListRemove(l) = Tail(l)
    BY <1>1 DEF FindNextToRun, FirstItem, ListRemove
  <2> QED
    BY <1>1, <2>1, PlacedRemove
<1> QED
  BY <1>1 DEF FindNextToRun, FirstItem, ListRemove

-----------------------------------------------------------------------------
(* Thread ids *)

\* ~Thread gives the id of a thread back.
LEMMA IDsDestroy ==
  ASSUME NEW st, NEW su, NEW ids, NEW used, IDsOK(st, ids, used),
         NEW d \in LiveIn(st), LiveIn(su) = LiveIn(st) \ {d}
  PROVE  IDsOK(su, ids, used \ {ids[d]})
<1>1. used \ {ids[d]} = {ids[t] : t \in LiveIn(su)} \ {-1}
  <2>1. ASSUME NEW i \in used \ {ids[d]} PROVE i \in {ids[t] : t \in LiveIn(su)} \ {-1}
    BY <2>1 DEF IDsOK
  <2>2. ASSUME NEW t \in LiveIn(su), ids[t] # -1 PROVE ids[t] \in used \ {ids[d]}
    BY <2>2 DEF IDsOK
  <2> QED
    BY <2>1, <2>2
<1> QED
  BY <1>1 DEF IDsOK

\* Ids stay right when no thread is created or deleted.
LEMMA IDsSame ==
  ASSUME NEW st, NEW su, NEW ids, NEW used, IDsOK(st, ids, used), LiveIn(su) = LiveIn(st)
  PROVE  IDsOK(su, ids, used)
  BY DEF IDsOK

\* getThreadID takes an id that is not in use.
LEMMA FreeIDFresh ==
  /\ FreeID \in Int
  /\ FreeID # -1 => FreeID \notin tid
<1> DEFINE free == (0 .. MaxThreadNum - 1) \ tid
           m == CHOOSE i \in free : \A j \in free : i <= j
<1>1. CASE free = {}
  BY <1>1 DEF FreeID
<1>2. CASE free # {}
  <2>1. free \in SUBSET Nat
    BY SchedulerAssumption
  <2>2. m \in free
    BY <1>2, <2>1, LeastIndex
  <2>3. FreeID = m
    BY <1>2 DEF FreeID
  <2> HIDE DEF m
  <2> QED
    BY <2>1, <2>2, <2>3
<1> QED
  BY <1>1, <1>2

\* Ids stay right when a new thread takes a free slot, or none when the table is full.
LEMMA IDsCreate ==
  ASSUME NEW st, NEW su, NEW ids \in [Thread -> Int], NEW used, IDsOK(st, ids, used),
         NEW n \in Thread, n \notin LiveIn(st), LiveIn(su) = LiveIn(st) \cup {n},
         NEW i \in Int, i # -1 => i \notin used
  PROVE  IDsOK(su, [ids EXCEPT ![n] = i], IF i = -1 THEN used ELSE used \cup {i})
<1> DEFINE new == [ids EXCEPT ![n] = i]
           taken == IF i = -1 THEN used ELSE used \cup {i}
<1>1. /\ new[n] = i /\ \A t \in LiveIn(st) : new[t] = ids[t] /\ t # n
  BY DEF LiveIn
<1>2. \A t \in LiveIn(st) : ids[t] # -1 => ids[t] \in used
  BY DEF IDsOK
<1> HIDE DEF new
<1>3. taken = {new[t] : t \in LiveIn(su)} \ {-1}
  <2>1. ASSUME NEW j \in taken PROVE j \in {new[t] : t \in LiveIn(su)} \ {-1}
    <3>1. CASE j \in used
      BY <1>1, <3>1 DEF IDsOK
    <3>2. CASE j \notin used
      BY <1>1, <2>1, <3>2
    <3> QED
      BY <3>1, <3>2
  <2>2. ASSUME NEW t \in LiveIn(su), new[t] # -1 PROVE new[t] \in taken
    <3>1. CASE t = n
      BY <1>1, <2>2, <3>1
    <3>2. CASE t # n
      BY <1>1, <1>2, <2>2, <3>2
    <3> QED
      BY <3>1, <3>2
  <2> QED
    BY <2>1, <2>2
<1>4. ASSUME NEW t \in LiveIn(su), NEW u \in LiveIn(su), new[t] = new[u], new[t] # -1
      PROVE  t = u
  <2>1. CASE t \in LiveIn(st) /\ u \in LiveIn(st)
    BY <1>1, <1>4, <2>1 DEF IDsOK
  <2>2. CASE t = n /\ u \in LiveIn(st)
    BY <1>1, <1>2, <1>4, <2>2
  <2>3. CASE t \in LiveIn(st) /\ u = n
    BY <1>1, <1>2, <1>4, <2>3
  <2> QED
    BY <2>1, <2>2, <2>3
<1> QED
  BY <1>3, <1>4 DEF IDsOK, new

-----------------------------------------------------------------------------
(* The two ways an operation ends: in the same thread, or in Run *)

\* The operation has set the statuses st and goes on without a switch.
LEMMA StayKeeps ==
  ASSUME Core, NEW st, NoSwitch(st, threadToBeDestroyed'),
         Sound(st, threadToBeDestroyed', finished', asleep'), LiveIn(st) = LiveIn(status),
         Placed(readyList', Thread, With(st, "READY")),
         Placed(suspendedList', Thread, With(st, "SUSPENDED")),
         OneRuns(st, currentThread, idle'), idle' \in BOOLEAN,
         priority' \in [Thread -> Int], UNCHANGED <<policy, threadID>>
  PROVE  Core'
<1>1. status' = st /\ UNCHANGED <<currentThread, started, tid>>
  BY DEF NoSwitch, tableVars
<1>2. IDsOK(st, threadID, tid)
  BY IDsSame DEF Core
<1>3. IDsOK(status, threadID, tid)'
  BY <1>1, <1>2 DEF IDsOK, LiveIn
<1>4. /\ Sound(status, threadToBeDestroyed, finished, asleep)'
      /\ Placed(readyList, Thread, With(status, "READY"))'
      /\ Placed(suspendedList, Thread, With(status, "SUSPENDED"))'
      /\ OneRuns(status, currentThread, idle)'
  BY <1>1 DEF With
<1>5. /\ policy' \in Policy /\ threadID' \in [Thread -> Int]
      /\ currentThread' \in Thread /\ started' \subseteq Thread
  BY <1>1 DEF Core
<1> QED
  BY <1>3, <1>4, <1>5 DEF Core

\* The operation has set the statuses st, in which no thread runs, and switches to
\* next, which is ready; next may destroy the thread that finished last.
LEMMA RunKeeps ==
  ASSUME Core, NEW st, NEW next \in Thread, NEW dying, Run(next, st, dying),
         Sound(st, dying, finished', asleep'), LiveIn(st) = LiveIn(status),
         st[next] = "READY", \A t \in Thread : st[t] # "RUNNING",
         Placed(readyList', Thread, With(st, "READY") \ {next}),
         Placed(suspendedList', Thread, With(st, "SUSPENDED")),
         idle' = FALSE, priority' \in [Thread -> Int], UNCHANGED <<policy, threadID>>
  PROVE  Core'
<1> USE SchedulerAssumption
<1> DEFINE dead == IF next \in started THEN dying ELSE NULL
<1>1. /\ currentThread' = next /\ started' = started \cup {next}
      /\ status' = [t \in Thread |-> CASE t = next -> "RUNNING"
                                       [] t = dead /\ t # next -> "deleted"
                                       [] OTHER -> st[t]]
      /\ IF dead = NULL
         THEN UNCHANGED tableVars /\ threadToBeDestroyed' = dying
         ELSE Destructor(dead, threadnum) /\ threadToBeDestroyed' = NULL
  BY DEF Run
<1>2. /\ st \in [Thread -> Status] /\ dying \in Thread \cup {NULL}
      /\ dying # NULL => dying \in finished' /\ st[dying] = "BLOCKED"
      /\ \A t \in finished' : st[t] \in {"BLOCKED", "deleted"}
      /\ asleep' \subseteq With(st, "BLOCKED") \ finished' /\ finished' \subseteq Thread
  BY DEF Sound
<1>3. /\ dead \in Thread \cup {NULL} /\ dead # next
      /\ dead # NULL => st[dead] = "BLOCKED" /\ dead \in finished'
  BY <1>2
<1> HIDE DEF dead
<1>4. /\ status' \in [Thread -> Status] /\ status'[next] = "RUNNING"
      /\ dead # NULL => status'[dead] = "deleted"
      /\ \A t \in Thread : t # next /\ t # dead => status'[t] = st[t]
  <2>1. \A t \in Thread : status'[t] = IF t = next THEN "RUNNING"
                                       ELSE IF t = dead THEN "deleted" ELSE st[t]
    BY <1>1
  <2>2. status' = [t \in Thread |-> status'[t]]
    BY <1>1
  <2>3. \A t \in Thread : status'[t] \in Status
    BY <1>2, <2>1 DEF Status
  <2>4. status' \in [Thread -> Status]
    BY <2>2, <2>3
  <2>5. status'[next] = "RUNNING"
    BY <2>1
  <2>6. ASSUME dead # NULL PROVE status'[dead] = "deleted"
    <3>1. dead \in Thread /\ dead # next
      BY <1>3, <2>6
    <3> QED
      BY <2>1, <3>1
  <2>7. \A t \in Thread : t # next /\ t # dead => status'[t] = st[t]
    BY <2>1
  <2> QED
    BY <2>4, <2>5, <2>6, <2>7
<1>5. Sound(status, threadToBeDestroyed, finished, asleep)'
  <2>1. threadToBeDestroyed' \in Thread \cup {NULL}
    BY <1>1, <1>2
  <2>2. ASSUME threadToBeDestroyed' # NULL
        PROVE  threadToBeDestroyed' \in finished' /\ status'[threadToBeDestroyed'] = "BLOCKED"
    <3>1. dead = NULL /\ threadToBeDestroyed' = dying /\ dying # NULL
      BY <1>1, <2>2
    <3>2. dying # next /\ dying # dead /\ dying \in Thread
      BY <1>2, <3>1
    <3> QED
      BY <1>2, <1>4, <3>1, <3>2
  <2>3. ASSUME NEW t \in finished' PROVE status'[t] \in {"BLOCKED", "deleted"}
    <3>1. t \in Thread /\ t # next
      BY <1>2
    <3>2. CASE t = dead
      BY <1>3, <1>4, <3>1, <3>2
    <3>3. CASE t # dead
      BY <1>2, <1>4, <3>1, <3>3
    <3> QED
      BY <3>2, <3>3
  <2>4. ASSUME NEW t \in asleep' PROVE t \in Thread /\ status'[t] = "BLOCKED" /\ t \notin finished'
    <3>1. t \in Thread /\ st[t] = "BLOCKED" /\ t \notin finished'
      BY <1>2 DEF With
    <3>2. t # next /\ t # dead
      BY <1>3, <3>1
    <3> QED
      BY <1>4, <3>1, <3>2
  <2> QED
    BY <1>2, <1>4, <2>1, <2>2, <2>3, <2>4 DEF Sound, With
<1>6. With(st, "READY") \ {next} = With(status', "READY")
  BY <1>3, <1>4 DEF With
<1>7. With(st, "SUSPENDED") = With(status', "SUSPENDED")
  BY <1>3, <1>4 DEF With
<1>8. /\ Placed(readyList, Thread, With(status, "READY"))'
      /\ Placed(suspendedList, Thread, With(status, "SUSPENDED"))'
  BY <1>6, <1>7
<1>9. OneRuns(status, currentThread, idle)'
  <2>1. \A t \in Thread : t # next => status'[t] # "RUNNING"
    BY <1>3, <1>4
  <2> QED
    BY <1>1, <1>4, <2>1 DEF OneRuns
<1>10. IDsOK(status, threadID, tid)'
  <2>1. IDsOK(st, threadID, tid)
    BY IDsSame DEF Core
  <2>2. CASE dead = NULL
    <3>1. tid' = tid
      BY <1>1, <2>2 DEF tableVars
    <3>2. LiveIn(status') = LiveIn(st)
      BY <1>4, <2>2 DEF LiveIn
    <3>3. IDsOK(status', threadID, tid)
      BY <2>1, <3>2, IDsSame
    <3> QED
      BY <3>1, <3>3 DEF IDsOK
  <2>3. CASE dead # NULL
    <3>1. tid' = tid \ {threadID[dead]}
      BY <1>1, <2>3 DEF Destructor
    <3>2. dead \in LiveIn(st) /\ LiveIn(status') = LiveIn(st) \ {dead}
      <4>1. dead \in Thread /\ st[dead] = "BLOCKED" /\ status'[dead] = "deleted"
        BY <1>3, <1>4, <2>3
      <4>2. next \in LiveIn(st) /\ next \in LiveIn(status') /\ next # dead
        BY <1>3, <1>4 DEF LiveIn
      <4>3. dead \in LiveIn(st) /\ dead \notin LiveIn(status')
        BY <4>1 DEF LiveIn
      <4>4. \A t \in Thread : t # next /\ t # dead => (t \in LiveIn(status') <=> t \in LiveIn(st))
        BY <1>4 DEF LiveIn
      <4>5. LiveIn(st) \subseteq Thread /\ LiveIn(status') \subseteq Thread
        BY DEF LiveIn
      <4> QED
        BY <4>2, <4>3, <4>4, <4>5
    <3>3. IDsOK(status', threadID, tid \ {threadID[dead]})
      BY <2>1, <3>2, IDsDestroy
    <3> QED
      BY <3>1, <3>3 DEF IDsOK
  <2> QED
    BY <2>2, <2>3
<1>11. /\ policy' \in Policy /\ threadID' \in [Thread -> Int]
       /\ currentThread' \in Thread /\ started' \subseteq Thread /\ idle' \in BOOLEAN
  BY <1>1 DEF Core
<1> QED
  BY <1>5, <1>8, <1>9, <1>10, <1>11 DEF Core

\* The loop that ends Sleep, Finish and Join, and the one in Idle.
LEMMA RunNextKeeps ==
  ASSUME Core, NEW st, NEW dying, RunNextOrIdle(st, dying),
         Sound(st, dying, finished', asleep'), LiveIn(st) = LiveIn(status),
         With(st, "READY") = With(status, "READY"),
         With(st, "SUSPENDED") = With(status, "SUSPENDED"),
         \A t \in Thread : st[t] # "RUNNING", st[currentThread] \in {"BLOCKED", "READY"},
         UNCHANGED <<policy, priority, threadID, suspendedList>>
  PROVE  Core'
<1>1. /\ Placed(readyList, Thread, With(st, "READY"))
      /\ Placed(suspendedList', Thread, With(st, "SUSPENDED"))
      /\ priority' \in [Thread -> Int]
  BY DEF Core
<1>2. CASE /\ readyList = <<>> /\ idle' = TRUE
           /\ NoSwitch(st, dying) /\ UNCHANGED readyList
  <2>1. threadToBeDestroyed' = dying
    BY <1>2 DEF NoSwitch
  <2>2. OneRuns(st, currentThread, idle')
    BY <1>2 DEF OneRuns
  <2>3. Placed(readyList', Thread, With(st, "READY"))
    BY <1>1, <1>2
  <2> QED
    BY <1>1, <1>2, <2>1, <2>2, <2>3, StayKeeps
<1>3. CASE /\ readyList # <<>> /\ idle' = FALSE
           /\ Run(FindNextToRun(readyList), st, dying)
           /\ readyList' = ListRemove(readyList)
  <2> DEFINE next == FindNextToRun(readyList)
  <2>1. /\ next \in With(st, "READY") /\ next \in Thread
        /\ Placed(readyList', Thread, With(st, "READY") \ {next})
    BY <1>1, <1>3, FindNextPlaced
  <2>2. Run(next, st, dying)
    BY <1>3
  <2> HIDE DEF next
  <2>3. st[next] = "READY"
    BY <2>1 DEF With
  <2> QED
    BY <1>1, <1>3, <2>1, <2>2, <2>3, RunKeeps
<1> QED
  BY <1>2, <1>3 DEF RunNextOrIdle

\* Thread::Yield, on the ready list and the statuses its caller has set.
LEMMA YieldKeeps ==
  ASSUME Core, ~idle, NEW ready, NEW st, YieldTo(ready, st),
         Placed(ready, Thread, With(st, "READY")),
         Sound(st, threadToBeDestroyed, finished, asleep), LiveIn(st) = LiveIn(status),
         With(st, "SUSPENDED") = With(status, "SUSPENDED"), OneRuns(st, currentThread, FALSE),
         UNCHANGED <<policy, threadID, suspendedList, idle, asleep, finished>>
  PROVE  Core'
<1> USE SchedulerAssumption
<1> DEFINE next == FindNextToRun(ready)
           rest == ListRemove(ready)
           su == [st EXCEPT ![currentThread] = "READY"]
<1>1. /\ YieldPriority \in Int
      /\ priority' = [priority EXCEPT ![currentThread] = YieldPriority]
  BY DEF YieldTo
<1>2. priority' \in [Thread -> Int]
  BY <1>1 DEF Core
<1>3. /\ st \in [Thread -> Status] /\ currentThread \in Thread /\ st[currentThread] = "RUNNING"
      /\ \A t \in Thread : st[t] = "RUNNING" => t = currentThread
  BY DEF Sound, Core, OneRuns
<1>4. idle' = FALSE
  BY DEF Core
<1>5. /\ Placed(suspendedList', Thread, With(st, "SUSPENDED"))
      /\ Sound(st, threadToBeDestroyed, finished', asleep')
  BY DEF Core
<1>6. next # NULL => /\ next \in Thread /\ st[next] = "READY"
                     /\ Placed(rest, Thread, With(st, "READY") \ {next})
  <2>1. next # NULL => /\ next \in With(st, "READY") /\ next \in Thread
                       /\ Placed(rest, Thread, With(st, "READY") \ {next})
    BY FindNextPlaced
  <2>2. next \in With(st, "READY") => st[next] = "READY"
    BY DEF With
  <2> QED
    BY <2>1, <2>2
<1>7. /\ su \in [Thread -> Status] /\ su[currentThread] = "READY"
      /\ \A t \in Thread : t # currentThread => su[t] = st[t]
  BY <1>3 DEF Status
<1> HIDE DEF next, rest, su
<1>8. CASE /\ next # NULL /\ readyList' = ReadyToRun(rest, currentThread, YieldPriority)
           /\ Run(next, su, threadToBeDestroyed)
  <2>1. next # currentThread /\ su[next] = "READY" /\ next \in Thread
    BY <1>3, <1>6, <1>7, <1>8
  <2>2. Sound(su, threadToBeDestroyed, finished', asleep')
    <3>1. \A t \in Thread : st[t] \in {"BLOCKED", "deleted"} => su[t] = st[t]
      BY <1>3, <1>7
    <3>2. With(st, "BLOCKED") \subseteq With(su, "BLOCKED")
      BY <3>1 DEF With
    <3> QED
      BY <1>5, <1>7, <3>1, <3>2 DEF Sound
  <2>3. LiveIn(su) = LiveIn(status)
    <3>1. \A t \in Thread : su[t] \in {"none", "deleted"} <=> st[t] \in {"none", "deleted"}
      BY <1>3, <1>7
    <3> QED
      BY <3>1 DEF LiveIn
  <2>4. \A t \in Thread : su[t] # "RUNNING"
    BY <1>3, <1>7
  <2>5. With(su, "SUSPENDED") = With(st, "SUSPENDED")
    BY <1>3, <1>7 DEF With
  <2>6. Placed(readyList', Thread, With(su, "READY") \ {next})
    <3>1. currentThread \notin With(st, "READY") \ {next}
      BY <1>3 DEF With
    <3>2. With(su, "READY") \ {next} = (With(st, "READY") \ {next}) \cup {currentThread}
      BY <1>3, <1>7, <2>1 DEF With
    <3>3. Placed(rest, Thread, With(st, "READY") \ {next})
      BY <1>6, <1>8
    <3>4. Placed(readyList', Thread, (With(st, "READY") \ {next}) \cup {currentThread})
      BY <1>1, <1>3, <1>8, <3>1, <3>3, ReadyToRunPlaced
    <3> QED
      BY <3>2, <3>4
  <2> QED
    BY <1>2, <1>4, <1>5, <1>8, <2>1, <2>2, <2>3, <2>4, <2>5, <2>6, RunKeeps
<1>9. CASE /\ readyList' = IF policy = "SCHED_PRIO_P" /\ next # NULL
                           THEN ReadyToRun(rest, next, priority[next]) ELSE ready
           /\ NoSwitch(st, threadToBeDestroyed)
  <2>1. threadToBeDestroyed' = threadToBeDestroyed
    BY <1>9 DEF NoSwitch
  <2>2. OneRuns(st, currentThread, idle')
    BY <1>4
  <2>3. Placed(readyList', Thread, With(st, "READY"))
    <3>1. CASE policy = "SCHED_PRIO_P" /\ next # NULL
      <4>1. /\ Placed(rest, Thread, With(st, "READY") \ {next})
            /\ next \notin With(st, "READY") \ {next} /\ next \in Thread
        BY <1>6, <3>1
      <4>2. priority[next] \in Int
        BY <4>1 DEF Core
      <4>3. readyList' = ReadyToRun(rest, next, priority[next])
        BY <1>9, <3>1
      <4>4. Placed(readyList', Thread, (With(st, "READY") \ {next}) \cup {next})
        BY <4>1, <4>2, <4>3, ReadyToRunPlaced
      <4>5. (With(st, "READY") \ {next}) \cup {next} = With(st, "READY")
        BY <1>6, <3>1 DEF With
      <4> QED
        BY <4>4, <4>5
    <3>2. CASE ~(policy = "SCHED_PRIO_P" /\ next # NULL)
      BY <1>9, <3>2
    <3> QED
      BY <3>1, <3>2
  <2> QED
    BY <1>2, <1>4, <1>5, <1>9, <2>1, <2>2, <2>3, StayKeeps
<1> QED
  BY <1>8, <1>9 DEF YieldTo, next, rest, su

-----------------------------------------------------------------------------
(* The invariant *)

\* The main thread alone, running, is in the invariant.
LEMMA CoreInit == Init => Core
<1> SUFFICES ASSUME Init PROVE Core
  OBVIOUS
<1> USE SchedulerAssumption DEF Init
<1>1. /\ \A t \in Thread : status[t] = IF t = main THEN "RUNNING" ELSE "none"
      /\ status \in [Thread -> Status]
  BY DEF Status
<1>2. /\ policy \in Policy /\ priority \in [Thread -> Int] /\ threadID \in [Thread -> Int]
      /\ currentThread \in Thread /\ idle \in BOOLEAN /\ started \subseteq Thread
  <2>1. NORM_PRIORITY \in Int /\ policy \in Policy
    OBVIOUS
  <2>2. priority \in [Thread -> Int]
    BY <2>1
  <2>3. threadID \in [Thread -> Int]
    OBVIOUS
  <2> QED
    BY <2>1, <2>2, <2>3
<1>3. Sound(status, threadToBeDestroyed, finished, asleep)
  BY <1>1 DEF Sound
<1>4. With(status, "READY") = {} /\ With(status, "SUSPENDED") = {} /\ LiveIn(status) = {main}
  BY <1>1 DEF With, LiveIn
<1>5. /\ Placed(readyList, Thread, With(status, "READY"))
      /\ Placed(suspendedList, Thread, With(status, "SUSPENDED"))
  BY <1>4, PlacedEmpty
<1>6. OneRuns(status, currentThread, idle)
  BY <1>1 DEF OneRuns
<1>7. IDsOK(status, threadID, tid)
  <2>1. threadID[main] = 0
    OBVIOUS
  <2> QED
    BY <1>4, <2>1 DEF IDsOK
<1> QED
  BY <1>2, <1>3, <1>5, <1>6, <1>7 DEF Core

\* The statuses su are the statuses st but for thread t, which has s.
Changed(st, su, t, s) ==
  /\ su \in [Thread -> Status] /\ su[t] = s
  /\ \A u \in Thread : u # t => su[u] = st[u]
  /\ \A r \in Status \ {s} : With(su, r) = With(st, r) \ {t}
  /\ With(su, s) = With(st, s) \cup {t}
  /\ s \notin {"none", "deleted"} => LiveIn(su) = LiveIn(st) \cup {t}
  /\ s = "deleted" => LiveIn(su) = LiveIn(st) \ {t}

\* Setting the status of one thread moves it between the sets of threads by status and no other.
LEMMA Change ==
  ASSUME NEW st \in [Thread -> Status], NEW t \in Thread, NEW s \in Status
  PROVE  Changed(st, [st EXCEPT ![t] = s], t, s)
<1> DEFINE su == [st EXCEPT ![t] = s]
<1>1. su \in [Thread -> Status] /\ su[t] = s /\ \A u \in Thread : u # t => su[u] = st[u]
  OBVIOUS
<1> HIDE DEF su
<1>2. /\ \A r \in Status \ {s} : With(su, r) = With(st, r) \ {t}
      /\ With(su, s) = With(st, s) \cup {t}
  BY <1>1 DEF With
<1>3. ASSUME s \notin {"none", "deleted"} PROVE LiveIn(su) = LiveIn(st) \cup {t}
  BY <1>1, <1>3 DEF LiveIn
<1>4. ASSUME s = "deleted" PROVE LiveIn(su) = LiveIn(st) \ {t}
  BY <1>1, <1>4 DEF LiveIn
<1> QED
  BY <1>1, <1>2, <1>3, <1>4 DEF Changed, su

\* The thread that stops running, in Sleep, Finish and Join.
LEMMA StopKeeps ==
  ASSUME Core, ~idle, NEW dying, dying \in {threadToBeDestroyed, currentThread},
         NEW st, st = [status EXCEPT ![currentThread] = "BLOCKED"], RunNextOrIdle(st, dying),
         \/ /\ finished' = finished /\ dying = threadToBeDestroyed
            /\ asleep' \in {asleep, asleep \cup {currentThread}}
         \/ /\ finished' = finished \cup {currentThread} /\ dying = currentThread
            /\ asleep' = asleep,
         UNCHANGED <<policy, priority, threadID, suspendedList>>
  PROVE  Core'
<1> USE SchedulerAssumption
<1> DEFINE ct == currentThread
<1>1. /\ status \in [Thread -> Status] /\ ct \in Thread /\ status[ct] = "RUNNING"
      /\ finished \subseteq Thread /\ threadToBeDestroyed \in Thread \cup {NULL}
      /\ threadToBeDestroyed # NULL => threadToBeDestroyed \in finished
                                      /\ status[threadToBeDestroyed] = "BLOCKED"
      /\ \A t \in finished : status[t] \in {"BLOCKED", "deleted"}
      /\ asleep \subseteq With(status, "BLOCKED") \ finished
      /\ \A t \in Thread : status[t] = "RUNNING" => t = ct
  BY DEF Core, Sound, OneRuns
<1>2. /\ st \in [Thread -> Status] /\ st[ct] = "BLOCKED"
      /\ \A u \in Thread : u # ct => st[u] = status[u]
      /\ With(st, "READY") = With(status, "READY") \ {ct}
      /\ With(st, "SUSPENDED") = With(status, "SUSPENDED") \ {ct}
      /\ With(st, "BLOCKED") = With(status, "BLOCKED") \cup {ct}
      /\ LiveIn(st) = LiveIn(status) \cup {ct}
  <2>1. {"READY", "SUSPENDED"} \subseteq Status \ {"BLOCKED"} /\ "BLOCKED" \in Status
    BY DEF Status
  <2>2. Changed(status, st, ct, "BLOCKED")
    BY <1>1, <2>1, Change
  <2> QED
    BY <2>1, <2>2 DEF Changed
<1>3. /\ With(st, "READY") = With(status, "READY")
      /\ With(st, "SUSPENDED") = With(status, "SUSPENDED")
      /\ LiveIn(st) = LiveIn(status)
  BY <1>1, <1>2 DEF With, LiveIn
<1>4. ct \notin finished /\ ct # NULL /\ ct # threadToBeDestroyed
  BY <1>1
<1> HIDE DEF ct
<1>5. Sound(st, dying, finished', asleep')
  <2>1. finished' \subseteq Thread /\ dying \in Thread \cup {NULL}
    BY <1>1 DEF ct
  <2>2. dying # NULL => dying \in finished' /\ st[dying] = "BLOCKED"
    BY <1>1, <1>2, <1>4 DEF ct
  <2>3. \A t \in finished' : st[t] \in {"BLOCKED", "deleted"}
    BY <1>1, <1>2, <1>4 DEF ct
  <2>4. asleep' \subseteq With(st, "BLOCKED") \ finished'
    <3>1. ct \notin asleep
      BY <1>1 DEF With
    <3> QED
      BY <1>1, <1>2, <1>4, <3>1 DEF ct
  <2> QED
    BY <1>2, <2>1, <2>2, <2>3, <2>4 DEF Sound
<1>6. (\A t \in Thread : st[t] # "RUNNING") /\ st[currentThread] \in {"BLOCKED", "READY"}
  BY <1>1, <1>2 DEF ct
<1> QED
  BY <1>3, <1>5, <1>6, RunNextKeeps

\* A thread that can run or has not run yet is not about to be destroyed, has not
\* finished and does not wait.
LEMMA SoundChange ==
  ASSUME NEW st, NEW su, NEW d, NEW f, NEW a, Sound(st, d, f, a), NEW t \in Thread, NEW s,
         Changed(st, su, t, s), st[t] \notin {"BLOCKED", "deleted"}
  PROVE  Sound(su, d, f, a)
<1>1. \A u \in Thread : st[u] \in {"BLOCKED", "deleted"} => su[u] = st[u]
  BY DEF Changed
<1>2. With(st, "BLOCKED") \subseteq With(su, "BLOCKED")
  BY <1>1 DEF With
<1>3. su \in [Thread -> Status]
  BY DEF Changed
<1>4. /\ f \subseteq Thread /\ d \in Thread \cup {NULL}
      /\ d # NULL => d \in f /\ st[d] = "BLOCKED"
      /\ \A u \in f : st[u] \in {"BLOCKED", "deleted"}
      /\ a \subseteq With(st, "BLOCKED") \ f
  BY DEF Sound
<1>5. d # NULL => d \in f /\ su[d] = "BLOCKED"
  BY <1>1, <1>4
<1>6. \A u \in f : su[u] \in {"BLOCKED", "deleted"}
  BY <1>1, <1>4
<1> QED
  BY <1>2, <1>3, <1>4, <1>5, <1>6 DEF Sound

\* The constructor, and the destructor that a failed Fork calls.
LEMMA FreshKeeps ==
  ASSUME Core, ~idle, NEW t \in Thread, NEW s \in {"JUST_CREATED", "deleted"},
         status[t] \in {"none", "JUST_CREATED"}, status' = [status EXCEPT ![t] = s],
         IDsOK(status', threadID', tid'),
         priority' \in [Thread -> Int], threadID' \in [Thread -> Int],
         UNCHANGED <<policy, readyList, suspendedList, currentThread, threadToBeDestroyed,
                     idle, started, asleep, finished>>
  PROVE  Core'
<1>1. status \in [Thread -> Status] /\ s \in Status
  BY DEF Core, Sound, Status
<1>2. Changed(status, status', t, s)
  BY <1>1, Change
<1>3. /\ Sound(status, threadToBeDestroyed, finished, asleep)
      /\ Placed(readyList, Thread, With(status, "READY"))
      /\ Placed(suspendedList, Thread, With(status, "SUSPENDED"))
      /\ OneRuns(status, currentThread, idle)
      /\ policy \in Policy /\ currentThread \in Thread /\ idle \in BOOLEAN
      /\ started \subseteq Thread
  BY DEF Core
<1>4. Sound(status', threadToBeDestroyed, finished, asleep)
  BY <1>2, <1>3, SoundChange
<1>5. /\ status'[t] = s /\ \A u \in Thread : u # t => status'[u] = status[u]
  BY <1>2 DEF Changed
<1>6. /\ With(status', "READY") = With(status, "READY")
      /\ With(status', "SUSPENDED") = With(status, "SUSPENDED")
  BY <1>5 DEF With
<1>7. OneRuns(status', currentThread, idle)
  BY <1>3, <1>5 DEF OneRuns
<1>8. /\ Placed(readyList', Thread, With(status', "READY"))
      /\ Placed(suspendedList', Thread, With(status', "SUSPENDED"))
  BY <1>3, <1>6
<1>9. Sound(status', threadToBeDestroyed', finished', asleep')
  BY <1>4
<1>10. OneRuns(status', currentThread', idle')
  BY <1>7
<1> QED
  BY <1>3, <1>8, <1>9, <1>10 DEF Core

\* The search of Suspend and Resume answers whether the thread is on the list, unless
\* the uninitialised local happens to hold that thread.
LEMMA FoundExact ==
  ASSUME Uninit \cap Thread = {}, NEW X, NEW l, Placed(l, Thread, X), NEW t \in Thread,
         NEW found \in Found(l, t)
  PROVE  found <=> t \in X
<1>1. CASE l = <<>>
  <2>1. ~found
    BY <1>1 DEF Found
  <2>2. DOMAIN l = {}
    BY <1>1
  <2>3. t \notin X
    BY <2>2 DEF Placed, Contains
  <2> QED
    BY <2>1, <2>3
<1>2. CASE l # <<>>
  <2>1. found <=> Position(l, t) # 0
    BY <1>2 DEF Found
  <2>2. Position(l, t) # 0 <=> t \in X
    BY PassedPlaced
  <2> QED
    BY <2>1, <2>2
<1> QED
  BY <1>1, <1>2

\* Every step keeps each thread on exactly the list of its status.
LEMMA CoreStep ==
  ASSUME Uninit \cap Thread = {}, Core, [Next]_vars
  PROVE  Core'
<1> USE SchedulerAssumption
<1>1. /\ policy \in Policy /\ priority \in [Thread -> Int] /\ threadID \in [Thread -> Int]
      /\ currentThread \in Thread /\ idle \in BOOLEAN /\ started \subseteq Thread
      /\ status \in [Thread -> Status]
      /\ Sound(status, threadToBeDestroyed, finished, asleep)
      /\ Placed(readyList, Thread, With(status, "READY"))
      /\ Placed(suspendedList, Thread, With(status, "SUSPENDED"))
      /\ OneRuns(status, currentThread, idle)
      /\ IDsOK(status, threadID, tid)
  BY DEF Core, Sound
<1>2. ASSUME UNCHANGED policy, NEW t \in Thread, NewThread(t) PROVE Core'
  <2>1. /\ ~idle /\ status[t] = "none" /\ status' = [status EXCEPT ![t] = "JUST_CREATED"]
        /\ threadID' = [threadID EXCEPT ![t] = FreeID]
        /\ tid' = IF FreeID = -1 THEN tid ELSE tid \cup {FreeID}
        /\ priority' = [priority EXCEPT ![t] = NORM_PRIORITY]
        /\ UNCHANGED <<readyList, suspendedList, currentThread, threadToBeDestroyed,
                       idle, started, asleep, finished>>
    BY <1>2 DEF NewThread, Busy
  <2>2. "JUST_CREATED" \in Status
    BY DEF Status
  <2>3. Changed(status, status', t, "JUST_CREATED")
    BY <1>1, <2>1, <2>2, Change
  <2>4. t \notin LiveIn(status) /\ LiveIn(status') = LiveIn(status) \cup {t}
    BY <2>1, <2>3 DEF Changed, LiveIn
  <2>5. IDsOK(status', threadID', tid')
    BY <1>1, <2>1, <2>4, FreeIDFresh, IDsCreate
  <2>6. priority' \in [Thread -> Int]
    BY <1>1, <2>1
  <2>7. threadID' \in [Thread -> Int]
    BY <1>1, <2>1, FreeIDFresh
  <2> QED
    BY <1>1, <1>2, <2>1, <2>5, <2>6, <2>7, FreshKeeps
<1>3. ASSUME UNCHANGED policy, NEW t \in Thread, ForkFails(t) PROVE Core'
  <2>1. /\ ~idle /\ status[t] = "JUST_CREATED" /\ status' = [status EXCEPT ![t] = "deleted"]
        /\ tid' = tid \ {threadID[t]}
        /\ UNCHANGED <<priority, threadID, readyList, suspendedList, currentThread,
                       threadToBeDestroyed, idle, started, asleep, finished>>
    BY <1>3 DEF ForkFails, Busy, Destructor
  <2>2. "deleted" \in Status
    BY DEF Status
  <2>3. Changed(status, status', t, "deleted")
    BY <1>1, <2>1, <2>2, Change
  <2>4. t \in LiveIn(status) /\ LiveIn(status') = LiveIn(status) \ {t}
    BY <2>1, <2>3 DEF Changed, LiveIn
  <2>5. IDsOK(status', threadID', tid')
    BY <1>1, <2>1, <2>4, IDsDestroy
  <2> QED
    BY <1>1, <1>3, <2>1, <2>5, FreshKeeps
<1>4. ASSUME UNCHANGED policy, NEW t \in Thread, NEW p \in Priority[policy], SetPriority(t, p)
      PROVE  Core'
  <2>1. /\ priority' = [priority EXCEPT ![t] = p] /\ NoSwitch(status, threadToBeDestroyed')
        /\ UNCHANGED <<status, threadID, readyList, suspendedList, currentThread,
                       threadToBeDestroyed, idle, asleep, finished>>
    BY <1>4 DEF SetPriority, NoSwitch
  <2>2. p \in Int
    BY <1>1
  <2>3. priority' \in [Thread -> Int]
    BY <1>1, <2>1, <2>2
  <2> QED
    BY <1>1, <1>4, <2>1, <2>3, StayKeeps
<1>5. ASSUME UNCHANGED policy, Yield PROVE Core'
  <2>1. /\ ~idle /\ YieldTo(readyList, status)
        /\ UNCHANGED <<threadID, suspendedList, idle, asleep, finished>>
    BY <1>5 DEF Yield, Busy
  <2>2. OneRuns(status, currentThread, FALSE)
    BY <1>1, <2>1 DEF OneRuns
  <2> QED
    BY <1>1, <1>5, <2>1, <2>2, YieldKeeps
<1>6. ASSUME UNCHANGED policy, NEW t \in Thread, Fork(t) PROVE Core'
  <2> DEFINE ready == ReadyToRun(readyList, t, priority[t])
             st == [status EXCEPT ![t] = "READY"]
  <2>1. /\ ~idle /\ status[t] = "JUST_CREATED"
        /\ UNCHANGED <<threadID, suspendedList, idle, asleep, finished>>
        /\ \/ YieldTo(ready, st)
           \/ readyList' = ready /\ NoSwitch(st, threadToBeDestroyed) /\ UNCHANGED priority
    BY <1>6 DEF Fork, Busy
  <2>2. {"SUSPENDED", "RUNNING"} \subseteq Status \ {"READY"} /\ "READY" \in Status
    BY DEF Status
  <2>3. Changed(status, st, t, "READY")
    BY <1>1, <2>2, Change
  <2>4. Placed(ready, Thread, With(status, "READY") \cup {t})
    <3>1. t \notin With(status, "READY") /\ priority[t] \in Int
      BY <1>1, <2>1 DEF With
    <3> QED
      BY <1>1, <3>1, ReadyToRunPlaced
  <2> HIDE DEF ready, st
  <2>5. Sound(st, threadToBeDestroyed, finished, asleep)
    BY <1>1, <2>1, <2>3, SoundChange
  <2>6. /\ With(st, "SUSPENDED") = With(status, "SUSPENDED") /\ LiveIn(st) = LiveIn(status)
        /\ With(st, "READY") = With(status, "READY") \cup {t}
    BY <2>1, <2>3 DEF Changed, With, LiveIn
  <2>7. OneRuns(st, currentThread, FALSE)
    <3>1. st[t] = "READY" /\ \A u \in Thread : u # t => st[u] = status[u]
      BY <2>3 DEF Changed
    <3> QED
      BY <1>1, <2>1, <3>1 DEF OneRuns
  <2>8. CASE YieldTo(ready, st)
    BY <1>6, <2>1, <2>4, <2>5, <2>6, <2>7, <2>8, YieldKeeps
  <2>9. CASE readyList' = ready /\ NoSwitch(st, threadToBeDestroyed) /\ UNCHANGED priority
    <3>1. threadToBeDestroyed' = threadToBeDestroyed
      BY <2>9 DEF NoSwitch
    <3>2. OneRuns(st, currentThread, idle')
      BY <1>1, <2>1, <2>7
    <3>3. Placed(readyList', Thread, With(st, "READY"))
      BY <2>4, <2>6, <2>9
    <3>4. Placed(suspendedList', Thread, With(st, "SUSPENDED"))
      BY <1>1, <2>1, <2>6
    <3> QED
      BY <1>1, <1>6, <2>1, <2>5, <2>6, <2>9, <3>1, <3>2, <3>3, <3>4, StayKeeps
  <2> QED
    BY <2>1, <2>8, <2>9
<1>7. ASSUME UNCHANGED policy, Sleep PROVE Core'
  BY <1>7, StopKeeps DEF Sleep, Busy
<1>8. ASSUME UNCHANGED policy, Finish PROVE Core'
  BY <1>8, StopKeeps DEF Finish, Busy
<1>9. ASSUME UNCHANGED policy, NEW t \in Thread, Join(t) PROVE Core'
  BY <1>9, StopKeeps DEF Join, Busy
<1>10. ASSUME UNCHANGED policy, Idle PROVE Core'
  <2>1. /\ idle /\ RunNextOrIdle(status, threadToBeDestroyed)
        /\ UNCHANGED <<priority, threadID, suspendedList, asleep, finished>>
    BY <1>10 DEF Idle
  <2>2. /\ \A t \in Thread : status[t] # "RUNNING"
        /\ status[currentThread] \in {"BLOCKED", "READY"}
    BY <1>1, <2>1 DEF OneRuns
  <2>3. Sound(status, threadToBeDestroyed, finished', asleep')
    BY <1>1, <2>1
  <2> QED
    BY <1>10, <2>1, <2>2, <2>3, RunNextKeeps
<1>11. ASSUME UNCHANGED policy, NEW t \in Thread, Wake(t) PROVE Core'
  <2> DEFINE st == [status EXCEPT ![t] = "READY"]
  <2>1. /\ t \in asleep /\ asleep' = asleep \ {t} /\ NoSwitch(st, threadToBeDestroyed')
        /\ readyList' = ReadyToRun(readyList, t, priority[t])
        /\ UNCHANGED <<priority, threadID, suspendedList, threadToBeDestroyed, idle, finished>>
    BY <1>11 DEF Wake, NoSwitch
  <2>2. "READY" \in Status
    BY DEF Status
  <2>3. Changed(status, st, t, "READY")
    BY <1>1, <2>2, Change
  <2>4. status[t] = "BLOCKED" /\ t \notin finished /\ t # threadToBeDestroyed
    BY <1>1, <2>1 DEF Sound, With
  <2>5. Placed(readyList', Thread, With(status, "READY") \cup {t})
    <3>1. t \notin With(status, "READY") /\ priority[t] \in Int
      BY <1>1, <2>4 DEF With
    <3> QED
      BY <1>1, <2>1, <3>1, ReadyToRunPlaced
  <2> HIDE DEF st
  <2>6. /\ st[t] = "READY" /\ \A u \in Thread : u # t => st[u] = status[u]
        /\ st \in [Thread -> Status]
    BY <2>3 DEF Changed
  <2>7. /\ With(st, "SUSPENDED") = With(status, "SUSPENDED") /\ LiveIn(st) = LiveIn(status)
        /\ With(st, "READY") = With(status, "READY") \cup {t}
        /\ With(st, "BLOCKED") = With(status, "BLOCKED") \ {t}
    BY <2>4, <2>6 DEF With, LiveIn
  <2>8. Sound(st, threadToBeDestroyed', finished', asleep')
    <3>1. /\ finished \subseteq Thread /\ threadToBeDestroyed \in Thread \cup {NULL}
          /\ threadToBeDestroyed # NULL => threadToBeDestroyed \in finished
                                           /\ status[threadToBeDestroyed] = "BLOCKED"
          /\ \A u \in finished : status[u] \in {"BLOCKED", "deleted"}
          /\ asleep \subseteq With(status, "BLOCKED") \ finished
      BY <1>1 DEF Sound
    <3>2. threadToBeDestroyed # NULL => threadToBeDestroyed \in finished
                                         /\ st[threadToBeDestroyed] = "BLOCKED"
      BY <2>4, <2>6, <3>1
    <3>3. \A u \in finished : st[u] \in {"BLOCKED", "deleted"}
      BY <2>4, <2>6, <3>1
    <3>4. asleep \ {t} \subseteq With(st, "BLOCKED") \ finished
      BY <2>7, <3>1
    <3> QED
      BY <2>1, <2>6, <3>1, <3>2, <3>3, <3>4 DEF Sound
  <2>9. OneRuns(st, currentThread, idle')
    BY <1>1, <2>1, <2>4, <2>6 DEF OneRuns
  <2>10. /\ Placed(readyList', Thread, With(st, "READY"))
         /\ Placed(suspendedList', Thread, With(st, "SUSPENDED"))
    BY <1>1, <2>1, <2>5, <2>7
  <2> QED
    BY <1>1, <1>11, <2>1, <2>7, <2>8, <2>9, <2>10, StayKeeps
<1>12. ASSUME UNCHANGED policy, NEW t \in Thread, Suspend(t) PROVE Core'
  <2> DEFINE st == [status EXCEPT ![t] = "SUSPENDED"]
  <2>1. PICK found \in Found(readyList, t) :
          /\ status' = IF found THEN st ELSE status
          /\ suspendedList' = IF found THEN ListAppend(suspendedList, t) ELSE suspendedList
    BY <1>12 DEF Suspend
  <2>2. /\ ~idle /\ readyList' = Passed(readyList, t)
        /\ UNCHANGED <<priority, threadID, tableVars, currentThread, threadToBeDestroyed,
                       idle, started, asleep, finished>>
    BY <1>12 DEF Suspend, Busy
  <2>3. found <=> t \in With(status, "READY")
    BY <1>1, FoundExact
  <2>4. Placed(readyList', Thread, With(status, "READY") \ {t})
    BY <1>1, <2>2, PassedPlaced
  <2>5. NoSwitch(status', threadToBeDestroyed')
    BY <2>2 DEF NoSwitch
  <2>6. CASE found
    <3>1. status' = st /\ suspendedList' = ListAppend(suspendedList, t)
      BY <2>1, <2>6
    <3>2. "SUSPENDED" \in Status
      BY DEF Status
    <3>3. Changed(status, status', t, "SUSPENDED")
      BY <1>1, <3>1, <3>2, Change
    <3>4. status[t] = "READY"
      BY <2>3, <2>6 DEF With
    <3>5. Placed(suspendedList', Thread, With(status, "SUSPENDED") \cup {t})
      <4>1. t \notin With(status, "SUSPENDED")
        BY <3>4 DEF With
      <4> QED
        BY <1>1, <3>1, <4>1, PlacedAppend
    <3> HIDE DEF st
    <3>6. status'[t] = "SUSPENDED" /\ \A u \in Thread : u # t => status'[u] = status[u]
      BY <3>3 DEF Changed
    <3>7. /\ With(status', "SUSPENDED") = With(status, "SUSPENDED") \cup {t}
          /\ With(status', "READY") = With(status, "READY") \ {t}
          /\ LiveIn(status') = LiveIn(status)
      BY <3>4, <3>6 DEF With, LiveIn
    <3>8. Sound(status', threadToBeDestroyed, finished, asleep)
      BY <1>1, <3>3, <3>4, SoundChange
    <3>9. OneRuns(status', currentThread, idle')
      BY <1>1, <2>2, <3>4, <3>6 DEF OneRuns
    <3>10. /\ Placed(readyList', Thread, With(status', "READY"))
           /\ Placed(suspendedList', Thread, With(status', "SUSPENDED"))
      BY <2>4, <3>5, <3>7
    <3>11. Sound(status', threadToBeDestroyed', finished', asleep')
      BY <2>2, <3>8
    <3> QED
      BY <1>1, <1>12, <2>2, <2>5, <3>7, <3>9, <3>10, <3>11, StayKeeps
  <2>7. CASE ~found
    <3>1. status' = status /\ suspendedList' = suspendedList
      BY <2>1, <2>7
    <3>2. With(status, "READY") \ {t} = With(status, "READY")
      BY <2>3, <2>7
    <3>3. NoSwitch(status, threadToBeDestroyed')
      BY <2>5, <3>1
    <3>4. /\ Placed(readyList', Thread, With(status, "READY"))
          /\ Placed(suspendedList', Thread, With(status, "SUSPENDED"))
      BY <1>1, <2>4, <3>1, <3>2
    <3>5. /\ Sound(status, threadToBeDestroyed', finished', asleep')
          /\ OneRuns(status, currentThread, idle')
      BY <1>1, <2>2
    <3> QED
      BY <1>1, <1>12, <2>2, <3>3, <3>4, <3>5, StayKeeps
  <2> QED
    BY <2>6, <2>7
<1>13. ASSUME UNCHANGED policy, NEW t \in Thread, Resume(t) PROVE Core'
  <2> DEFINE st == [status EXCEPT ![t] = "READY"]
  <2>1. PICK found \in Found(suspendedList, t) :
          /\ status' = IF found THEN st ELSE status
          /\ readyList' = IF found THEN ListAppend(readyList, t) ELSE readyList
    BY <1>13 DEF Resume
  <2>2. /\ ~idle /\ suspendedList' = Passed(suspendedList, t)
        /\ UNCHANGED <<priority, threadID, tableVars, currentThread, threadToBeDestroyed,
                       idle, started, asleep, finished>>
    BY <1>13 DEF Resume, Busy
  <2>3. found <=> t \in With(status, "SUSPENDED")
    BY <1>1, FoundExact
  <2>4. Placed(suspendedList', Thread, With(status, "SUSPENDED") \ {t})
    BY <1>1, <2>2, PassedPlaced
  <2>5. NoSwitch(status', threadToBeDestroyed')
    BY <2>2 DEF NoSwitch
  <2>6. CASE found
    <3>1. status' = st /\ readyList' = ListAppend(readyList, t)
      BY <2>1, <2>6
    <3>2. "READY" \in Status
      BY DEF Status
    <3>3. Changed(status, status', t, "READY")
      BY <1>1, <3>1, <3>2, Change
    <3>4. status[t] = "SUSPENDED"
      BY <2>3, <2>6 DEF With
    <3>5. Placed(readyList', Thread, With(status, "READY") \cup {t})
      <4>1. t \notin With(status, "READY")
        BY <3>4 DEF With
      <4> QED
        BY <1>1, <3>1, <4>1, PlacedAppend
    <3> HIDE DEF st
    <3>6. status'[t] = "READY" /\ \A u \in Thread : u # t => status'[u] = status[u]
      BY <3>3 DEF Changed
    <3>7. /\ With(status', "READY") = With(status, "READY") \cup {t}
          /\ With(status', "SUSPENDED") = With(status, "SUSPENDED") \ {t}
          /\ LiveIn(status') = LiveIn(status)
      BY <3>4, <3>6 DEF With, LiveIn
    <3>8. Sound(status', threadToBeDestroyed, finished, asleep)
      BY <1>1, <3>3, <3>4, SoundChange
    <3>9. OneRuns(status', currentThread, idle')
      BY <1>1, <2>2, <3>4, <3>6 DEF OneRuns
    <3>10. /\ Placed(suspendedList', Thread, With(status', "SUSPENDED"))
           /\ Placed(readyList', Thread, With(status', "READY"))
      BY <2>4, <3>5, <3>7
    <3>11. Sound(status', threadToBeDestroyed', finished', asleep')
      BY <2>2, <3>8
    <3> QED
      BY <1>1, <1>13, <2>2, <2>5, <3>7, <3>9, <3>10, <3>11, StayKeeps
  <2>7. CASE ~found
    <3>1. status' = status /\ readyList' = readyList
      BY <2>1, <2>7
    <3>2. With(status, "SUSPENDED") \ {t} = With(status, "SUSPENDED")
      BY <2>3, <2>7
    <3>3. NoSwitch(status, threadToBeDestroyed')
      BY <2>5, <3>1
    <3>4. /\ Placed(suspendedList', Thread, With(status, "SUSPENDED"))
          /\ Placed(readyList', Thread, With(status, "READY"))
      BY <1>1, <2>4, <3>1, <3>2
    <3>5. /\ Sound(status, threadToBeDestroyed', finished', asleep')
          /\ OneRuns(status, currentThread, idle')
      BY <1>1, <2>2
    <3> QED
      BY <1>1, <1>13, <2>2, <3>3, <3>4, <3>5, StayKeeps
  <2> QED
    BY <2>6, <2>7
<1>14. CASE UNCHANGED vars
  <2>1. NoSwitch(status, threadToBeDestroyed')
    BY <1>14 DEF NoSwitch, vars, tableVars
  <2> QED
    BY <1>1, <1>14, <2>1, StayKeeps DEF vars
<1> QED
  BY <1>2, <1>3, <1>4, <1>5, <1>6, <1>7, <1>8, <1>9, <1>10, <1>11, <1>12, <1>13, <1>14
  DEF Next

-----------------------------------------------------------------------------
(* The order of the ready list *)

\* The priorities of the threads on the list are all that counts.
LEMMA KeysSame ==
  ASSUME NEW l, NEW p, NEW q, KeysOK(l, p), \A i \in DOMAIN l : q[l[i].item] = p[l[i].item]
  PROVE  KeysOK(l, q)
  BY DEF KeysOK

\* ReadyToRun inserts under the key of the priority the thread has.
LEMMA KeysInsert ==
  ASSUME NEW l \in Seq(Element(Thread)), NEW p \in [Thread -> Int], KeysOK(l, p),
         NEW t \in Thread
  PROVE  KeysOK(SortedInsert(l, t, MAX_PRIORITY - p[t]), p)
<1> DEFINE k == MAX_PRIORITY - p[t]
           r == SortedInsert(l, t, k)
<1>1. k \in Int
  BY SchedulerAssumption
<1>2. Sorted(l) /\ \A i \in DOMAIN l : l[i].key = MAX_PRIORITY - p[l[i].item]
  BY DEF KeysOK
<1>3. Elem(t, k).item = t /\ Elem(t, k).key = k
  BY DEF Elem
<1>4. k = MAX_PRIORITY - p[t]
  OBVIOUS
<1> HIDE DEF k
<1>5. Sorted(r)
  BY <1>1, <1>2, InsertSorted
<1>6. \A i \in DOMAIN r : r[i] = Elem(t, k) \/ \E j \in DOMAIN l : r[i] = l[j]
  BY <1>1, InsertItems
<1> HIDE DEF r
<1>7. \A i \in DOMAIN r : r[i].key = MAX_PRIORITY - p[r[i].item]
  BY <1>2, <1>3, <1>4, <1>6
<1> QED
  BY <1>5, <1>7 DEF KeysOK, r, k

\* Taking the first thread leaves the keys of the others.
LEMMA KeysRemove ==
  ASSUME NEW l \in Seq(Element(Thread)), NEW p, KeysOK(l, p)
  PROVE  KeysOK(ListRemove(l), p)
<1>1. CASE l = <<>>
  BY <1>1 DEF ListRemove
<1>2. CASE l # <<>>
  <2>1. ListRemove(l) = Tail(l)
    BY <1>2 DEF ListRemove
  <2>2. /\ Sorted(l) => Sorted(Tail(l))
        /\ \A i \in DOMAIN Tail(l) : i + 1 \in DOMAIN l /\ Tail(l)[i] = l[i + 1]
    BY <1>2, RemoveFirst
  <2> QED
    BY <2>1, <2>2 DEF KeysOK
<1> QED
  BY <1>1, <1>2

\* A thread that is not on the list may change its priority.
LEMMA KeysElsewhere ==
  ASSUME NEW X, NEW l, Placed(l, Thread, X), NEW t \in Thread, t \notin X, NEW n,
         NEW p \in [Thread -> Int], KeysOK(l, p)
  PROVE  KeysOK(l, [p EXCEPT ![t] = n])
<1>1. \A i \in DOMAIN l : l[i].item \in Thread
  BY KeyType DEF Placed
<1>2. \A i \in DOMAIN l : l[i].item # t
  BY DEF Placed, Contains
<1> DEFINE q == [p EXCEPT ![t] = n]
<1>3. \A i \in DOMAIN l : q[l[i].item] = p[l[i].item]
  BY <1>1, <1>2
<1> HIDE DEF q
<1>4. KeysOK(l, q)
  BY <1>3, KeysSame
<1> QED
  BY <1>4 DEF q

\* Yield puts a thread back with the key of the priority it has given it.
LEMMA YieldOrdered ==
  ASSUME Core, policy = "SCHED_PRIO_P", NEW ready, NEW st, YieldTo(ready, st),
         Placed(ready, Thread, With(st, "READY")), st[currentThread] = "RUNNING",
         KeysOK(ready, priority)
  PROVE  KeysOK(readyList', priority')
<1> USE SchedulerAssumption
<1> DEFINE next == FindNextToRun(ready)
           rest == ListRemove(ready)
<1>1. /\ YieldPriority \in Int /\ currentThread \in Thread /\ priority \in [Thread -> Int]
      /\ priority' = [priority EXCEPT ![currentThread] = YieldPriority]
  BY DEF YieldTo, Core
<1>2. priority' \in [Thread -> Int] /\ priority'[currentThread] = YieldPriority
  BY <1>1
<1>3. currentThread \notin With(st, "READY")
  BY DEF With
<1>4. KeysOK(ready, priority')
  BY <1>1, <1>3, KeysElsewhere
<1>5. ready \in Seq(Element(Thread))
  BY DEF Placed
<1>6. KeysOK(rest, priority') /\ rest \in Seq(Element(Thread))
  <2>1. KeysOK(rest, priority')
    BY <1>2, <1>4, <1>5, KeysRemove
  <2>2. rest \in Seq(Element(Thread))
    BY <1>5, RemoveFirst DEF ListRemove
  <2> QED
    BY <2>1, <2>2
<1>7. \A t \in Thread : \A k : ReadyToRun(rest, t, k) = SortedInsert(rest, t, MAX_PRIORITY - k)
  BY DEF ReadyToRun
<1>8. next # NULL => next \in Thread /\ next \in With(st, "READY")
  BY FindNextPlaced
<1> HIDE DEF next, rest
<1>9. CASE readyList' = ReadyToRun(rest, currentThread, YieldPriority)
  <2>1. readyList' = SortedInsert(rest, currentThread, MAX_PRIORITY - priority'[currentThread])
    BY <1>1, <1>2, <1>7, <1>9
  <2> QED
    BY <1>1, <1>2, <1>6, <2>1, KeysInsert
<1>10. CASE readyList' = IF policy = "SCHED_PRIO_P" /\ next # NULL
                         THEN ReadyToRun(rest, next, priority[next]) ELSE ready
  <2>1. CASE next # NULL
    <3>1. priority'[next] = priority[next] /\ next \in Thread
      BY <1>1, <1>3, <1>8, <2>1
    <3>2. readyList' = SortedInsert(rest, next, MAX_PRIORITY - priority'[next])
      BY <1>7, <1>10, <2>1, <3>1
    <3> QED
      BY <1>2, <1>6, <3>1, <3>2, KeysInsert
  <2>2. CASE next = NULL
    BY <1>4, <1>10, <2>2
  <2> QED
    BY <2>1, <2>2
<1> QED
  BY <1>9, <1>10 DEF YieldTo, next, rest

\* Suspend and Resume put elements back with key 0, so the ready list keeps its order
\* only if nobody is suspended under preemptive priorities.
NoneSuspended == "SCHED_PRIO_P" \in Policy => Suspendable["SCHED_PRIO_P"] = {}

\* Every step keeps the ready list sorted by priority, when no thread is ever suspended.
LEMMA OrderedStep ==
  ASSUME NoneSuspended, Core, Ordered, [Next]_vars
  PROVE  Ordered'
<1> USE SchedulerAssumption
<1>1. policy' = policy /\ policy \in Policy
  BY DEF Next, vars, Core
<1> SUFFICES ASSUME policy = "SCHED_PRIO_P" PROVE KeysOK(readyList', priority')
  BY <1>1 DEF Ordered
<1>2. /\ priority \in [Thread -> Int] /\ currentThread \in Thread
      /\ Placed(readyList, Thread, With(status, "READY")) /\ KeysOK(readyList, priority)
      /\ readyList \in Seq(Element(Thread)) /\ status \in [Thread -> Status]
      /\ ~idle => status[currentThread] = "RUNNING"
  BY DEF Core, Ordered, Placed, Sound, OneRuns
<1>3. ASSUME NEW t \in Thread, NEW n, status[t] # "READY",
             priority' = [priority EXCEPT ![t] = n], readyList' = readyList
      PROVE  KeysOK(readyList', priority')
  <2>1. t \notin With(status, "READY")
    BY <1>3 DEF With
  <2>2. KeysOK(readyList, [priority EXCEPT ![t] = n])
    BY <1>2, <2>1, KeysElsewhere
  <2> QED
    BY <1>3, <2>2
<1>4. ASSUME NEW st, NEW dying, RunNextOrIdle(st, dying), priority' = priority
      PROVE  KeysOK(readyList', priority')
  <2>1. readyList' \in {readyList, ListRemove(readyList)}
    BY <1>4 DEF RunNextOrIdle
  <2>2. KeysOK(ListRemove(readyList), priority)
    BY <1>2, KeysRemove
  <2> QED
    BY <1>2, <1>4, <2>1, <2>2
<1>5. ASSUME NEW t \in Thread
      PROVE  KeysOK(ReadyToRun(readyList, t, priority[t]), priority)
  <2>1. ReadyToRun(readyList, t, priority[t]) = SortedInsert(readyList, t, MAX_PRIORITY - priority[t])
    BY DEF ReadyToRun
  <2> QED
    BY <1>2, <2>1, KeysInsert
<1>6. ASSUME NEW t \in Thread, Fork(t) PROVE KeysOK(readyList', priority')
  <2> DEFINE ready == ReadyToRun(readyList, t, priority[t])
             st == [status EXCEPT ![t] = "READY"]
  <2>1. /\ ~idle /\ status[t] = "JUST_CREATED"
        /\ YieldTo(ready, st) \/ (readyList' = ready /\ UNCHANGED priority)
    BY <1>6 DEF Fork, Busy
  <2>2. KeysOK(ready, priority)
    BY <1>5
  <2>3. t \notin With(status, "READY") /\ priority[t] \in Int
    BY <1>2, <2>1 DEF With
  <2>4. Placed(ready, Thread, With(status, "READY") \cup {t})
    BY <1>2, <2>3, ReadyToRunPlaced
  <2>5. "READY" \in Status
    BY DEF Status
  <2>6. Changed(status, st, t, "READY")
    BY <1>2, <2>5, Change
  <2>7. With(st, "READY") = With(status, "READY") \cup {t} /\ st[currentThread] = "RUNNING"
    BY <1>2, <2>1, <2>6 DEF Changed
  <2> HIDE DEF ready, st
  <2>8. CASE YieldTo(ready, st)
    BY <2>2, <2>4, <2>7, <2>8, YieldOrdered
  <2>9. CASE readyList' = ready /\ UNCHANGED priority
    BY <2>2, <2>9
  <2> QED
    BY <2>1, <2>8, <2>9
<1>7. ASSUME NEW t \in Thread PROVE ~Suspend(t) /\ ~Resume(t)
  BY <1>1 DEF Suspend, Resume, NoneSuspended
<1>8. ASSUME UNCHANGED <<readyList, priority>> PROVE KeysOK(readyList', priority')
  BY <1>2, <1>8
<1>9. ASSUME NEW t \in Thread, NewThread(t) PROVE KeysOK(readyList', priority')
  BY <1>3, <1>9 DEF NewThread
<1>10. ASSUME NEW t \in Thread, NEW p, SetPriority(t, p) PROVE KeysOK(readyList', priority')
  BY <1>3, <1>10 DEF SetPriority
<1>11. ASSUME NEW t \in Thread, ForkFails(t) PROVE KeysOK(readyList', priority')
  BY <1>8, <1>11 DEF ForkFails
<1>12. ASSUME NEW t \in Thread, Wake(t) PROVE KeysOK(readyList', priority')
  BY <1>2, <1>5, <1>12 DEF Wake
<1>13. ASSUME Sleep \/ Finish \/ Idle \/ \E t \in Thread : Join(t)
       PROVE  KeysOK(readyList', priority')
  BY <1>4, <1>13 DEF Sleep, Finish, Idle, Join
<1>14. ASSUME Yield PROVE KeysOK(readyList', priority')
  BY <1>2, <1>14, YieldOrdered DEF Yield, Busy
<1>15. CASE UNCHANGED vars
  BY <1>8, <1>15 DEF vars
<1> QED
  BY <1>6, <1>7, <1>9, <1>10, <1>11, <1>12, <1>13, <1>14, <1>15 DEF Next

\* The ready list starts empty.
LEMMA OrderedInit == Init => Ordered
<1>1. Sorted(<<>>) /\ DOMAIN <<>> = {}
  BY DEF Sorted
<1> QED
  BY <1>1 DEF Init, Ordered, KeysOK

-----------------------------------------------------------------------------
(* Preemption by a forked thread *)

\* A thread that was only created does not get the processor from Run or Yield.
LEMMA CreatedStays ==
  ASSUME NEW st \in [Thread -> Status], NEW t \in Thread, st[t] = "JUST_CREATED"
  PROVE  /\ \A next \in Thread : \A dying :
              Run(next, st, dying) /\ next # t => status'[t] \in {"JUST_CREATED", "deleted"}
         /\ \A dying : NoSwitch(st, dying) => status'[t] = "JUST_CREATED"
<1>1. ASSUME NEW next \in Thread, NEW dying, Run(next, st, dying), next # t
      PROVE  status'[t] \in {"JUST_CREATED", "deleted"}
  <2> DEFINE dead == IF next \in started THEN dying ELSE NULL
  <2>1. status' = [u \in Thread |-> CASE u = next -> "RUNNING"
                                      [] u = dead /\ u # next -> "deleted"
                                      [] OTHER -> st[u]]
    BY <1>1 DEF Run
  <2> HIDE DEF dead
  <2>2. status'[t] = IF t = dead THEN "deleted" ELSE st[t]
    BY <1>1, <2>1
  <2> QED
    BY <2>2
<1>2. ASSUME NEW dying, NoSwitch(st, dying) PROVE status'[t] = "JUST_CREATED"
  BY <1>2 DEF NoSwitch
<1> QED
  BY <1>1, <1>2

\* Only its own Fork makes a thread ready.
LEMMA ForkMakesReady ==
  ASSUME Core, Next, NEW t \in Thread, status[t] = "JUST_CREATED",
         status'[t] \in {"READY", "RUNNING"}, Uninit \cap Thread = {}
  PROVE  Fork(t)
<1> USE SchedulerAssumption
<1>1. /\ status \in [Thread -> Status] /\ currentThread \in Thread
      /\ Placed(readyList, Thread, With(status, "READY"))
      /\ Placed(suspendedList, Thread, With(status, "SUSPENDED"))
      /\ ~idle => status[currentThread] = "RUNNING"
      /\ asleep \subseteq With(status, "BLOCKED") /\ priority \in [Thread -> Int]
  BY DEF Core, Sound, OneRuns
<1> SUFFICES ASSUME ~Fork(t) PROVE FALSE
  OBVIOUS
<1>2. ASSUME NEW st \in [Thread -> Status], NEW dying, st[t] = "JUST_CREATED",
             RunNextOrIdle(st, dying)
      PROVE  FALSE
  <2>1. CASE NoSwitch(st, dying)
    BY <1>2, <2>1, CreatedStays
  <2>2. CASE readyList # <<>> /\ Run(FindNextToRun(readyList), st, dying)
    <3>1. FindNextToRun(readyList) \in With(status, "READY") /\ FindNextToRun(readyList) \in Thread
      BY <1>1, <2>2, FindNextPlaced
    <3>2. FindNextToRun(readyList) # t
      BY <3>1 DEF With
    <3> QED
      BY <1>2, <2>2, <3>1, <3>2, CreatedStays
  <2> QED
    BY <1>2, <2>1, <2>2 DEF RunNextOrIdle
<1>3. ASSUME NEW ready, NEW st \in [Thread -> Status], st[t] = "JUST_CREATED",
             st[currentThread] = "RUNNING",
             YieldTo(ready, st), Placed(ready, Thread, With(st, "READY"))
      PROVE  FALSE
  <2> DEFINE next == FindNextToRun(ready)
             su == [st EXCEPT ![currentThread] = "READY"]
  <2>1. next # NULL => next \in With(st, "READY") /\ next \in Thread
    BY <1>3, FindNextPlaced
  <2>2. next # NULL => next # t
    BY <1>3, <2>1 DEF With
  <2>3. su \in [Thread -> Status] /\ su[t] = "JUST_CREATED"
    BY <1>3 DEF Status
  <2>4. \/ next # NULL /\ Run(next, su, threadToBeDestroyed)
        \/ NoSwitch(st, threadToBeDestroyed)
    BY <1>3 DEF YieldTo
  <2> HIDE DEF next, su
  <2>5. CASE next # NULL /\ Run(next, su, threadToBeDestroyed)
    BY <2>1, <2>2, <2>3, <2>5, CreatedStays
  <2>6. CASE NoSwitch(st, threadToBeDestroyed)
    BY <1>3, <2>6, CreatedStays
  <2> QED
    BY <2>4, <2>5, <2>6
<1>4. ASSUME ~idle
      PROVE  /\ [status EXCEPT ![currentThread] = "BLOCKED"] \in [Thread -> Status]
             /\ [status EXCEPT ![currentThread] = "BLOCKED"][t] = "JUST_CREATED"
  BY <1>1, <1>4 DEF Status
<1>5. ASSUME Sleep \/ Finish \/ \E u \in Thread : Join(u) PROVE FALSE
  BY <1>2, <1>4, <1>5 DEF Sleep, Finish, Join, Busy
<1>6. ASSUME Idle PROVE FALSE
  BY <1>1, <1>2, <1>6 DEF Idle
<1>7. ASSUME Yield PROVE FALSE
  BY <1>1, <1>3, <1>7 DEF Yield, Busy
<1>8. ASSUME NEW u \in Thread, Fork(u) PROVE FALSE
  <2> DEFINE ready == ReadyToRun(readyList, u, priority[u])
             st == [status EXCEPT ![u] = "READY"]
  <2>1. /\ ~idle /\ status[u] = "JUST_CREATED"
        /\ YieldTo(ready, st) \/ NoSwitch(st, threadToBeDestroyed)
    BY <1>8 DEF Fork, Busy
  <2>2. u # t
    BY <1>8
  <2>3. "READY" \in Status /\ u \notin With(status, "READY") /\ priority[u] \in Int
    BY <1>1, <2>1 DEF Status, With
  <2>4. Changed(status, st, u, "READY")
    BY <1>1, <2>3, Change
  <2>5. /\ st \in [Thread -> Status] /\ st[t] = "JUST_CREATED" /\ st[currentThread] = "RUNNING"
        /\ With(st, "READY") = With(status, "READY") \cup {u}
    BY <1>1, <2>1, <2>2, <2>4 DEF Changed
  <2>6. Placed(ready, Thread, With(status, "READY") \cup {u})
    BY <1>1, <2>3, ReadyToRunPlaced
  <2> HIDE DEF ready, st
  <2>7. CASE YieldTo(ready, st)
    BY <1>3, <2>5, <2>6, <2>7
  <2>8. CASE NoSwitch(st, threadToBeDestroyed)
    BY <2>5, <2>8, CreatedStays
  <2> QED
    BY <2>1, <2>7, <2>8
<1>9. ASSUME NEW u \in Thread, NewThread(u) \/ ForkFails(u) PROVE FALSE
  BY <1>1, <1>9 DEF NewThread, ForkFails
<1>10. ASSUME NEW u \in Thread, Wake(u) PROVE FALSE
  <2>1. u # t
    BY <1>1, <1>10 DEF Wake, With
  <2> QED
    BY <1>1, <1>10, <2>1 DEF Wake
<1>11. ASSUME NEW u \in Thread, NEW p, SetPriority(u, p) PROVE FALSE
  BY <1>11 DEF SetPriority
<1>12. ASSUME NEW u \in Thread, Suspend(u) PROVE FALSE
  BY <1>1, <1>12 DEF Suspend
<1>13. ASSUME NEW u \in Thread, Resume(u) PROVE FALSE
  <2>1. PICK found \in Found(suspendedList, u) :
          status' = IF found THEN [status EXCEPT ![u] = "READY"] ELSE status
    BY <1>13 DEF Resume
  <2>2. found <=> u \in With(status, "SUSPENDED")
    BY <1>1, FoundExact
  <2>3. found => u # t
    BY <2>2 DEF With
  <2> QED
    BY <1>1, <2>1, <2>3
<1> QED
  BY <1>5, <1>6, <1>7, <1>8, <1>9, <1>10, <1>11, <1>12, <1>13 DEF Next

\* Yield subtracts MAX_PRIORITY and adds the thread's id: it lowers a priority, or
\* leaves it, only as long as ids do not pass MAX_PRIORITY.
LowIDs == \A t \in Thread : threadID[t] <= MAX_PRIORITY

\* A Fork of a thread of higher priority gives up the processor to one at least as urgent.
LEMMA ForkYields ==
  ASSUME Core, Ordered, LowIDs, policy = "SCHED_PRIO_P", NEW t \in Thread, Fork(t),
         priority[t] > priority[currentThread]
  PROVE  currentThread' # currentThread /\ priority[currentThread'] >= priority[t]
<1> USE SchedulerAssumption
<1> DEFINE ready == ReadyToRun(readyList, t, priority[t])
           st == [status EXCEPT ![t] = "READY"]
           next == FindNextToRun(ready)
           su == [st EXCEPT ![currentThread] = "READY"]
<1>1. /\ status \in [Thread -> Status] /\ currentThread \in Thread
      /\ Placed(readyList, Thread, With(status, "READY")) /\ KeysOK(readyList, priority)
      /\ readyList \in Seq(Element(Thread))
      /\ ~idle => status[currentThread] = "RUNNING"
      /\ priority \in [Thread -> Int] /\ threadID \in [Thread -> Int]
  BY DEF Core, Sound, OneRuns, Ordered, Placed
<1>2. ~idle /\ status[t] = "JUST_CREATED" /\ YieldTo(ready, st)
  BY DEF Fork, Busy, ShouldISwitch
<1>3. /\ MAX_PRIORITY \in Int /\ priority[t] \in Int /\ priority[currentThread] \in Int
      /\ threadID[currentThread] \in Int /\ threadID[currentThread] <= MAX_PRIORITY
  BY <1>1 DEF LowIDs
<1>4. YieldPriority = priority[currentThread] - MAX_PRIORITY + threadID[currentThread]
  BY DEF YieldPriority
<1>5. YieldPriority \in Int /\ YieldPriority < priority[t]
  BY <1>3, <1>4
<1>6. ready = SortedInsert(readyList, t, MAX_PRIORITY - priority[t])
  BY DEF ReadyToRun
<1>7. KeysOK(ready, priority)
  BY <1>1, <1>6, KeysInsert
<1>8. Placed(ready, Thread, With(status, "READY") \cup {t})
  <2>1. t \notin With(status, "READY")
    BY <1>2 DEF With
  <2> QED
    BY <1>1, <1>3, <2>1, ReadyToRunPlaced
<1>9. /\ \A u \in Thread : u # t => st[u] = status[u]
      /\ st[t] = "READY" /\ st \in [Thread -> Status]
  BY <1>1 DEF Status
<1> HIDE DEF ready
<1>10. PICK i \in DOMAIN ready : ready[i].item = t
  BY <1>8 DEF Placed, Contains
<1>11. /\ ready \in Seq(Element(Thread)) /\ ready # <<>>
       /\ ready[i].key = MAX_PRIORITY - priority[t]
  <2>1. ready \in Seq(Element(Thread)) /\ ready[i].key = MAX_PRIORITY - priority[t]
    BY <1>7, <1>8, <1>10 DEF Placed, KeysOK
  <2>2. ready # <<>>
    BY <1>10
  <2> QED
    BY <2>1, <2>2
<1>12. /\ next = Head(ready).item /\ next \in Thread /\ next \in With(status, "READY") \cup {t}
       /\ next # NULL
  <2>1. next = Head(ready).item
    BY <1>11 DEF FindNextToRun, FirstItem
  <2>2. next \in With(status, "READY") \cup {t} /\ next \in Thread
    BY <1>8, <1>11, FindNextPlaced
  <2> QED
    BY <2>1, <2>2
<1>13. /\ Head(ready).key = MAX_PRIORITY - priority[next]
       /\ Head(ready).key <= ready[i].key
  <2>1. /\ 1 \in DOMAIN ready /\ ready[1] = Head(ready)
        /\ Sorted(ready) => \A j \in DOMAIN ready : Head(ready).key <= ready[j].key
    BY <1>11, RemoveFirst
  <2> QED
    BY <1>7, <1>10, <1>12, <2>1 DEF KeysOK
<1> HIDE DEF next, st
<1>14. priority[next] \in Int /\ priority[next] >= priority[t]
  BY <1>1, <1>3, <1>11, <1>12, <1>13
<1>15. priority[next] >= YieldPriority
  BY <1>3, <1>5, <1>14
<1>16. Run(next, su, threadToBeDestroyed)
  BY <1>2, <1>12, <1>15 DEF YieldTo, next
<1>17. currentThread' = next
  BY <1>16 DEF Run
<1>18. next # currentThread
  BY <1>1, <1>2, <1>12 DEF With
<1> QED
  BY <1>14, <1>17, <1>18

-----------------------------------------------------------------------------
(* The theorems *)

\* The invariant of threads and lists, whatever clients do: Suspend and Resume are
\* safe when the local they read uninitialised holds no thread.
THEOREM SchedulerInvariant ==
  ASSUME Uninit \cap Thread = {}
  PROVE  Spec => []Core
<1>1. Core /\ [Next]_vars => Core'
  BY CoreStep
<1> QED
  BY <1>1, CoreInit, PTL DEF Spec

\* Every thread is on the list its status names, once, and one thread runs: no thread
\* is lost or doubled by any sequence of Fork, Yield, Sleep, Suspend, Resume, Finish.
THEOREM ThreadsPlaced ==
  ASSUME Uninit \cap Thread = {}
  PROVE  Spec => []PlacedByStatus
<1>1. Core => PlacedByStatus
  <2> SUFFICES ASSUME Core, NEW t \in Thread
               PROVE  /\ Occurrences(readyList, t) = IF status[t] = "READY" THEN 1 ELSE 0
                      /\ Occurrences(suspendedList, t) = IF status[t] = "SUSPENDED" THEN 1 ELSE 0
                      /\ status[t] = "RUNNING" <=> (t = currentThread /\ ~idle)
    BY DEF PlacedByStatus
  <2>1. /\ Placed(readyList, Thread, With(status, "READY"))
        /\ Placed(suspendedList, Thread, With(status, "SUSPENDED"))
        /\ status[t] = "RUNNING" <=> (t = currentThread /\ ~idle)
    BY DEF Core, OneRuns
  <2>2. /\ Occurrences(readyList, t) = IF t \in With(status, "READY") THEN 1 ELSE 0
        /\ Occurrences(suspendedList, t) = IF t \in With(status, "SUSPENDED") THEN 1 ELSE 0
    BY <2>1, PlacedCount
  <2>3. /\ t \in With(status, "READY") <=> status[t] = "READY"
        /\ t \in With(status, "SUSPENDED") <=> status[t] = "SUSPENDED"
    BY DEF With
  <2> QED
    BY <2>1, <2>2, <2>3
<1> QED
  BY <1>1, SchedulerInvariant, PTL

\* Run and ~Thread never leave a destroyed thread running, queued on a semaphore or
\* due to be destroyed again.
THEOREM NothingDangles ==
  ASSUME Uninit \cap Thread = {}
  PROVE  Spec => []NoDangling
<1>1. Core => NoDangling
  <2> SUFFICES ASSUME Core PROVE NoDangling
    OBVIOUS
  <2>1. /\ currentThread \in Thread /\ OneRuns(status, currentThread, idle)
        /\ Sound(status, threadToBeDestroyed, finished, asleep)
    BY DEF Core
  <2>2. currentThread \in Live
    BY <2>1 DEF OneRuns, Live
  <2>3. With(status, "BLOCKED") = {t \in Live : status[t] = "BLOCKED"}
    BY DEF With, Live
  <2> QED
    BY <2>1, <2>2, <2>3 DEF Sound, NoDangling
<1> QED
  BY <1>1, SchedulerInvariant, PTL

\* getThreadID and freeThreadID: the table marks exactly the ids in use, and no two
\* threads have the same one, also when the table was full and Fork failed.
THEOREM ThreadIDs ==
  ASSUME Uninit \cap Thread = {}
  PROVE  Spec => []IDsUnique
<1>1. Core => IDsUnique
  <2>1. Live = LiveIn(status)
    BY DEF Live, LiveIn
  <2> QED
    BY <2>1 DEF Core, IDsOK, IDsUnique
<1> QED
  BY <1>1, SchedulerInvariant, PTL

\* ReadyToRun and Yield keep the ready list in the order of the priorities the ready
\* threads have now, although Yield changes the priority of the running thread.
THEOREM ReadyListOrdered ==
  ASSUME Uninit \cap Thread = {}, NoneSuspended
  PROVE  Spec => []PriorityOrder
<1>1. Core /\ Ordered /\ [Next]_vars => Ordered'
  BY OrderedStep
<1>2. Core /\ Ordered => PriorityOrder
  <2> SUFFICES ASSUME Core, Ordered, policy = "SCHED_PRIO_P",
                      NEW i \in DOMAIN readyList, NEW j \in DOMAIN readyList, i < j
               PROVE  priority[readyList[i].item] >= priority[readyList[j].item]
    BY DEF PriorityOrder
  <2> DEFINE a == readyList[i].item
             b == readyList[j].item
  <2>1. /\ readyList[i].key <= readyList[j].key
        /\ readyList[i].key = MAX_PRIORITY - priority[a]
        /\ readyList[j].key = MAX_PRIORITY - priority[b]
    BY DEF Ordered, KeysOK, Sorted
  <2>2. a \in Thread /\ b \in Thread
    BY KeyType DEF Core, Placed
  <2>3. priority[a] \in Int /\ priority[b] \in Int /\ MAX_PRIORITY \in Int
    BY <2>2, SchedulerAssumption DEF Core
  <2> QED
    BY <2>1, <2>3
<1> QED
  BY <1>1, <1>2, OrderedInit, SchedulerInvariant, PTL DEF Spec

\* Thread::Fork preempts: while ids stay within MAX_PRIORITY, a forked thread of higher
\* priority takes the processor at once, or another that is as important does.
THEOREM ForkTakesProcessor ==
  ASSUME Uninit \cap Thread = {}, NoneSuspended
  PROVE  Spec /\ []LowIDs => ForkPreempts
<1>1. Core /\ Ordered /\ [Next]_vars => Ordered'
  BY OrderedStep
<1>2. Core /\ Ordered /\ LowIDs /\ [Next]_vars =>
        [\A t \in Thread :
           (/\ policy = "SCHED_PRIO_P"
            /\ status[t] = "JUST_CREATED" /\ status'[t] \in {"READY", "RUNNING"}
            /\ priority[t] > priority[currentThread])
           => /\ currentThread' # currentThread
              /\ priority[currentThread'] >= priority[t]]_vars
  BY ForkMakesReady, ForkYields
<1> QED
  BY <1>1, <1>2, OrderedInit, SchedulerInvariant, PTL DEF Spec, ForkPreempts
=============================================================================
