--------------------------- MODULE DevicesProofs ---------------------------
(***************************************************************************)
(* Proofs about the threads that wait for the disk, the console and the    *)
(* network, for every number of threads, characters and machines.          *)
(***************************************************************************)
EXTENDS Devices, ListTheorems

-----------------------------------------------------------------------------
(* ConsoleTest *)

CType ==
  /\ value \in [{readAvail, writeDone} -> Nat]
  /\ pending \in [{echo} -> {NULL, readAvail, writeDone}]
  /\ pc \in [{echo} -> {"read", "get", "put", "done"}]
  /\ keyboard \in Seq(Char) /\ display \in Seq(Char)
  /\ incoming \in Char \cup {EOF} /\ putBusy \in BOOLEAN

CPending ==
  /\ pending[echo] = readAvail => pc[echo] = "get"
  /\ pending[echo] = writeDone => pc[echo] = "put"

\* A buffered character is announced to the thread once, and so is the end of each
\* output: in the semaphore, or by the P() that has returned.
CUnits ==
  /\ value[readAvail] + (IF pc[echo] = "get" /\ pending[echo] = NULL THEN 1 ELSE 0)
       = IF incoming = EOF THEN 0 ELSE 1
  /\ value[writeDone] + (IF putBusy THEN 1 ELSE 0)
         + (IF pc[echo] = "put" /\ pending[echo] = NULL THEN 1 ELSE 0)
       = IF pc[echo] = "put" THEN 1 ELSE 0

CInv == CType /\ CPending /\ CUnits /\ C!EchoExact

\* A thread step, the poll of the keyboard and the end of a write each keep the console part.
LEMMA CStep ==
  ASSUME CInv, ConsoleOnly, C!Step \/ C!CheckCharAvail \/ C!WriteDone
  PROVE  CInv'
<1> USE DevicesAssumption, DeviceObjects
<1>1. CType /\ CPending /\ CUnits /\ C!EchoExact
  BY DEF CInv
<1>2. CASE C!WaitChar
  <2>1. /\ pc[echo] = "read" /\ pending[echo] = NULL /\ pc' = [pc EXCEPT ![echo] = "get"]
        /\ UNCHANGED <<typed, keyboard, incoming, putBusy, display>>
    BY <1>2 DEF C!WaitChar, C!At, C!Running, C!Goto, C!charVars
  <2>2. \/ UNCHANGED value /\ pending' = [pending EXCEPT ![echo] = readAvail]
        \/ /\ value[readAvail] # 0 /\ value' = [value EXCEPT ![readAvail] = @ - 1]
           /\ pending' = [pending EXCEPT ![echo] = NULL]
    BY <1>2 DEF C!WaitChar, C!P
  <2>3. CType' /\ CPending'
    BY <1>1, <2>1, <2>2 DEF CType, CPending
  <2>4. CUnits'
    BY <1>1, <2>1, <2>2 DEF CUnits, CType
  <2>5. C!EchoExact'
    BY <1>1, <2>1 DEF C!EchoExact
  <2> QED
    BY <2>3, <2>4, <2>5 DEF CInv
<1>3. CASE C!Echo
  <2>1. /\ pc[echo] = "get" /\ pending[echo] = NULL /\ pc' = [pc EXCEPT ![echo] = "put"]
        /\ putBusy' = TRUE /\ incoming' = EOF /\ display' = Append(display, incoming)
        /\ UNCHANGED <<typed, keyboard>>
    BY <1>3 DEF C!Echo, C!At, C!Running, C!Goto
  <2>2. incoming # EOF /\ value[writeDone] = 0 /\ value[readAvail] = 0
    BY <1>1, <2>1 DEF CUnits, CType
  <2>3. UNCHANGED value /\ pending' = [pending EXCEPT ![echo] = writeDone]
    BY <1>3, <2>2 DEF C!Echo, C!P
  <2>4. incoming \in Char /\ display \in Seq(Char) /\ keyboard \in Seq(Char)
    BY <1>1, <2>2 DEF CType
  <2>5. CType' /\ CPending'
    BY <1>1, <2>1, <2>3, <2>4 DEF CType, CPending
  <2>6. CUnits'
    BY <1>1, <2>1, <2>2, <2>3 DEF CUnits, CType
  <2>7. typed = display \o <<incoming>> \o keyboard
    BY <1>1, <2>2 DEF C!EchoExact
  <2>8. display \o <<incoming>> \o keyboard = Append(display, incoming) \o <<>> \o keyboard
    BY <2>4, SMTT(60)
  <2>9. C!EchoExact'
    BY <2>1, <2>7, <2>8 DEF C!EchoExact
  <2> QED
    BY <2>5, <2>6, <2>9 DEF CInv
<1>4. CASE C!Next1
  <2>1. /\ pc[echo] = "put" /\ pending[echo] = NULL
        /\ pc' = [pc EXCEPT ![echo] = IF ch = Quit THEN "done" ELSE "read"]
        /\ UNCHANGED <<value, pending, typed, keyboard, incoming, putBusy, display>>
    BY <1>4 DEF C!Next1, C!At, C!Running, C!Goto, C!charVars, C!synchVars
  <2>2. CType' /\ CPending'
    BY <1>1, <2>1 DEF CType, CPending
  <2>3. CUnits'
    BY <1>1, <2>1 DEF CUnits, CType
  <2>4. C!EchoExact'
    BY <1>1, <2>1 DEF C!EchoExact
  <2> QED
    BY <2>2, <2>3, <2>4 DEF CInv
<1>5. CASE C!Retry
  <2>1. /\ pending[echo] \in {readAvail, writeDone}
        /\ UNCHANGED <<pc, typed, keyboard, incoming, putBusy, display>>
        /\ C!P(echo, pending[echo])
    BY <1>1, <1>5 DEF C!Retry, C!Resume, C!charVars, CType
  <2>2. \/ UNCHANGED value /\ pending' = [pending EXCEPT ![echo] = pending[echo]]
        \/ /\ value[pending[echo]] # 0 /\ value' = [value EXCEPT ![pending[echo]] = @ - 1]
           /\ pending' = [pending EXCEPT ![echo] = NULL]
    BY <2>1 DEF C!P
  <2>3. CType' /\ CPending'
    BY <1>1, <2>1, <2>2 DEF CType, CPending
  <2>4. CUnits'
    <3>1. CASE pending[echo] = readAvail
      <4>1. /\ value'[writeDone] = value[writeDone] /\ pc[echo] = "get"
            /\ \/ value'[readAvail] = value[readAvail] /\ pending'[echo] = readAvail
               \/ value'[readAvail] = value[readAvail] - 1 /\ pending'[echo] = NULL
        BY <1>1, <2>1, <2>2, <3>1 DEF CType, CPending
      <4> QED
        BY <1>1, <2>1, <3>1, <4>1 DEF CUnits, CType
    <3>2. CASE pending[echo] = writeDone
      BY <1>1, <2>1, <2>2, <3>2 DEF CUnits, CType, CPending
    <3> QED
      BY <2>1, <3>1, <3>2
  <2>5. C!EchoExact'
    BY <1>1, <2>1 DEF C!EchoExact
  <2> QED
    BY <2>3, <2>4, <2>5 DEF CInv
<1>6. CASE C!CheckCharAvail
  <2>1. /\ incoming = EOF /\ keyboard # <<>> /\ keyboard \in Seq(Char) /\ display \in Seq(Char)
        /\ incoming' = Head(keyboard) /\ keyboard' = Tail(keyboard)
        /\ value' = [value EXCEPT ![readAvail] = @ + 1]
        /\ UNCHANGED <<pending, pc, typed, putBusy, display>>
    BY <1>1, <1>6 DEF C!CheckCharAvail, C!V, CType
  <2>2. Head(keyboard) \in Char /\ Tail(keyboard) \in Seq(Char)
    BY <2>1
  <2>3. CType' /\ CPending'
    BY <1>1, <2>1, <2>2, SMTT(60) DEF CType, CPending
  <2>4. CUnits'
    BY <1>1, <2>1, <2>2, SMTT(60) DEF CUnits, CType
  <2>5. display \o <<>> \o keyboard = display \o <<Head(keyboard)>> \o Tail(keyboard)
    <3>1. keyboard \in Seq(Char) /\ keyboard # <<>> /\ display \in Seq(Char)
      BY <2>1
    <3>2. keyboard = <<Head(keyboard)>> \o Tail(keyboard)
      BY <3>1
    <3>3. <<Head(keyboard)>> \in Seq(Char) /\ display \o <<>> = display
      BY <2>2, <3>1
    <3>4. (display \o <<Head(keyboard)>>) \o Tail(keyboard)
            = display \o (<<Head(keyboard)>> \o Tail(keyboard))
      BY <2>2, <3>1, <3>3, ConcatAssociative, SMTT(60)
    <3> QED
      BY <3>2, <3>3, <3>4
  <2>6. C!EchoExact'
    BY <1>1, <2>1, <2>2, <2>5 DEF C!EchoExact
  <2> QED
    BY <2>3, <2>4, <2>6 DEF CInv
<1>7. CASE C!WriteDone
  <2>1. /\ putBusy /\ putBusy' = FALSE /\ value' = [value EXCEPT ![writeDone] = @ + 1]
        /\ UNCHANGED <<pending, pc, typed, keyboard, incoming, display>>
    BY <1>7 DEF C!WriteDone, C!V
  <2>2. CType' /\ CPending'
    <3>1. value' \in [{readAvail, writeDone} -> Nat]
      BY <1>1, <2>1 DEF CType
    <3> QED
      BY <1>1, <2>1, <3>1, Zenon DEF CType, CPending
  <2>3. CUnits'
    BY <1>1, <2>1 DEF CUnits, CType
  <2>4. C!EchoExact'
    BY <1>1, <2>1 DEF C!EchoExact
  <2> QED
    BY <2>2, <2>3, <2>4 DEF CInv
<1> QED
  BY <1>2, <1>3, <1>4, <1>5, <1>6, <1>7 DEF C!Step

-----------------------------------------------------------------------------
(* SynchDisk *)

DType ==
  /\ value \in [{lock, semaphore} -> Nat]
  /\ holder \in [{lock} -> DiskThread \cup {NULL}]
  /\ pending \in [DiskThread -> {NULL, lock, semaphore}]
  /\ pc \in [DiskThread -> {"idle", "acquire", "disk"}]
  /\ buffer = [t \in DiskThread |-> buffer[t]] /\ op = [t \in DiskThread |-> op[t]]

DPending ==
  \A t \in DiskThread : /\ pending[t] = lock => pc[t] = "acquire"
                        /\ pending[t] = semaphore => pc[t] = "disk"

\* The lock is held from the return of Acquire() to Release().
DHolds(t) == (pc[t] = "acquire" /\ pending[t] = NULL) \/ pc[t] = "disk"

DLock ==
  /\ \A t \in DiskThread : DHolds(t) <=> holder[lock] = t
  /\ value[lock] = IF holder[lock] = NULL THEN 1 ELSE 0

\* Between a request and the return of its P() the one interrupt is on its way, in
\* the semaphore or taken; at other times there is none.
DInterrupt ==
  /\ (\A t \in DiskThread : pc[t] # "disk") => active = NULL /\ value[semaphore] = 0
  /\ \A t \in DiskThread :
       pc[t] = "disk" =>
         IF pending[t] = NULL
         THEN active = NULL /\ value[semaphore] = 0 /\ t \in done
         ELSE \/ active = t /\ value[semaphore] = 0
              \/ active = NULL /\ value[semaphore] = 1 /\ t \in done

\* What was read is still what the sector holds.
DData ==
  \A t \in DiskThread :
    pc[t] = "disk" /\ ~op[t].write => buffer[t] = platter[op[t].sector]

DInv == DType /\ DPending /\ DLock /\ DInterrupt /\ DData

\* A thread step and the interrupt of the disk each keep the disk part.
LEMMA DStep ==
  ASSUME DInv, (\E t \in DiskThread : D!Step(t)) \/ D!HandleInterrupt
  PROVE  DInv'
<1> USE DevicesAssumption, DeviceObjects
<1>1. DType /\ DPending /\ DLock /\ DInterrupt /\ DData
  BY DEF DInv
<1>2. ASSUME NEW t \in DiskThread, NEW r \in D!Request, D!Call(t, r) PROVE DInv'
  <2>1. /\ pc[t] = "idle" /\ pending[t] = NULL /\ pc' = [pc EXCEPT ![t] = "acquire"]
        /\ op' = [op EXCEPT ![t] = r] /\ UNCHANGED <<platter, active, done, buffer>>
    BY <1>2 DEF D!Call, D!At, D!Running, D!Goto, D!diskVars
  <2>2. \/ value[lock] = 0 /\ UNCHANGED <<value, holder>> /\ pending' = [pending EXCEPT ![t] = lock]
        \/ /\ value[lock] # 0 /\ value' = [value EXCEPT ![lock] = @ - 1]
           /\ pending' = [pending EXCEPT ![t] = NULL]
           /\ holder' = [holder EXCEPT ![lock] = t]
    BY <1>2 DEF D!Call, D!Acquire, D!P
  <2>3. DType'
    <3>1. value' \in [{lock, semaphore} -> Nat] /\ holder' \in [{lock} -> DiskThread \cup {NULL}]
      BY <1>1, <2>2 DEF DType
    <3>2. /\ pending' \in [DiskThread -> {NULL, lock, semaphore}]
          /\ pc' \in [DiskThread -> {"idle", "acquire", "disk"}]
      BY <1>1, <2>1, <2>2 DEF DType
    <3>3. op' = [u \in DiskThread |-> op'[u]] /\ buffer' = [u \in DiskThread |-> buffer'[u]]
      BY <1>1, <2>1 DEF DType
    <3> QED
      BY <3>1, <3>2, <3>3 DEF DType
  <2>4. DPending'
    BY <1>1, <2>1, <2>2 DEF DType, DPending
  <2>5. DLock'
    BY <1>1, <2>1, <2>2 DEF DType, DPending, DLock, DHolds
  <2>6. DInterrupt'
    BY <1>1, <2>1, <2>2 DEF DType, DInterrupt
  <2>7. DData'
    BY <1>1, <2>1 DEF DType, DData
  <2> QED
    BY <2>3, <2>4, <2>5, <2>6, <2>7 DEF DInv
<1>3. ASSUME NEW t \in DiskThread, D!DiskRequest(t) PROVE DInv'
  <2>1. /\ pc[t] = "acquire" /\ pending[t] = NULL /\ pc' = [pc EXCEPT ![t] = "disk"]
        /\ active' = t /\ done' = done \ {t} /\ UNCHANGED <<holder, op>>
        /\ IF op[t].write
             THEN platter' = [platter EXCEPT ![op[t].sector] = op[t].data] /\ UNCHANGED buffer
             ELSE buffer' = [buffer EXCEPT ![t] = platter[op[t].sector]] /\ UNCHANGED platter
    BY <1>3 DEF D!DiskRequest, D!At, D!Running, D!Goto
  <2>2. holder[lock] = t /\ \A u \in DiskThread \ {t} : pc[u] # "disk"
    BY <1>1, <2>1 DEF DLock, DHolds
  <2>3. value[semaphore] = 0
    BY <1>1, <2>1, <2>2 DEF DInterrupt
  <2>4. UNCHANGED value /\ pending' = [pending EXCEPT ![t] = semaphore]
    BY <1>3, <2>3 DEF D!DiskRequest, D!P
  <2>5. DType'
    BY <1>1, <2>1, <2>4 DEF DType
  <2>6. DPending'
    BY <1>1, <2>1, <2>4 DEF DType, DPending
  <2>7. DLock'
    BY <1>1, <2>1, <2>2, <2>4 DEF DType, DLock, DHolds
  <2>8. DInterrupt'
    BY <1>1, <2>1, <2>2, <2>3, <2>4 DEF DType, DInterrupt
  <2>9. DData'
    BY <1>1, <2>1, <2>2 DEF DType, DData
  <2> QED
    BY <2>5, <2>6, <2>7, <2>8, <2>9 DEF DInv
<1>4. ASSUME NEW t \in DiskThread, D!Return(t) PROVE DInv'
  <2>1. /\ pc[t] = "disk" /\ pending[t] = NULL /\ pc' = [pc EXCEPT ![t] = "idle"]
        /\ value' = [value EXCEPT ![lock] = @ + 1] /\ holder' = [holder EXCEPT ![lock] = NULL]
        /\ op' = [op EXCEPT ![t] = NULL] /\ buffer' = [buffer EXCEPT ![t] = NULL]
        /\ holder[lock] = t /\ UNCHANGED <<pending, platter, active, done>>
    BY <1>4 DEF D!Return, D!Release, D!At, D!Running, D!Goto, D!diskVars
  <2>2. \A u \in DiskThread \ {t} : ~DHolds(u)
    BY <1>1, <2>1 DEF DLock
  <2>3. active = NULL /\ value[semaphore] = 0
    BY <1>1, <2>1 DEF DInterrupt
  <2>4. DType'
    <3>1. value' \in [{lock, semaphore} -> Nat] /\ holder' \in [{lock} -> DiskThread \cup {NULL}]
      BY <1>1, <2>1 DEF DType
    <3>2. op' = [u \in DiskThread |-> op'[u]] /\ buffer' = [u \in DiskThread |-> buffer'[u]]
      BY <1>1, <2>1 DEF DType
    <3> QED
      BY <1>1, <2>1, <3>1, <3>2 DEF DType
  <2>5. DPending'
    BY <1>1, <2>1 DEF DType, DPending
  <2>6. DLock'
    BY <1>1, <2>1, <2>2 DEF DType, DLock, DHolds
  <2>7. DInterrupt'
    BY <1>1, <2>1, <2>2, <2>3 DEF DType, DInterrupt, DHolds
  <2>8. DData'
    BY <1>1, <2>1, <2>2 DEF DType, DData, DHolds
  <2> QED
    BY <2>4, <2>5, <2>6, <2>7, <2>8 DEF DInv
<1>5. ASSUME NEW t \in DiskThread, D!Retry(t) PROVE DInv'
  <2>1. /\ pending[t] # NULL /\ UNCHANGED <<pc, platter, active, done, op, buffer>>
        /\ D!P(t, pending[t])
        /\ pending[t] = lock => holder' = IF value[lock] = 0 THEN holder
                                          ELSE [holder EXCEPT ![lock] = t]
        /\ pending[t] # lock => holder' = holder
    BY <1>5 DEF D!Retry, D!Resume, D!Acquire, D!diskVars
  <2>2. \/ value[pending[t]] = 0 /\ UNCHANGED value /\ pending' = [pending EXCEPT ![t] = pending[t]]
        \/ /\ value[pending[t]] # 0 /\ value' = [value EXCEPT ![pending[t]] = @ - 1]
           /\ pending' = [pending EXCEPT ![t] = NULL]
    BY <2>1 DEF D!P
  <2>3. CASE pending[t] = lock
    <3>1. pc[t] = "acquire"
      BY <1>1, <2>3 DEF DPending
    <3>2. DType'
      BY <1>1, <2>1, <2>2, <2>3 DEF DType
    <3>3. DPending'
      BY <1>1, <2>1, <2>2, <2>3 DEF DType, DPending
    <3>4. DLock'
      BY <1>1, <2>1, <2>2, <2>3, <3>1 DEF DType, DLock, DHolds
    <3>5. DInterrupt'
      BY <1>1, <2>1, <2>2, <2>3, <3>1 DEF DType, DInterrupt
    <3>6. DData'
      BY <1>1, <2>1 DEF DData
    <3> QED
      BY <3>2, <3>3, <3>4, <3>5, <3>6 DEF DInv
  <2>4. CASE pending[t] = semaphore
    <3>1. pc[t] = "disk"
      BY <1>1, <2>4 DEF DPending
    <3>2. \A u \in DiskThread \ {t} : pc[u] # "disk"
      BY <1>1, <3>1 DEF DLock, DHolds
    <3>3. DType'
      BY <1>1, <2>1, <2>2, <2>4 DEF DType
    <3>4. DPending'
      BY <1>1, <2>1, <2>2, <2>4 DEF DType, DPending
    <3>5. DLock'
      BY <1>1, <2>1, <2>2, <2>4, <3>1 DEF DType, DLock, DHolds
    <3>6. DInterrupt'
      BY <1>1, <2>1, <2>2, <2>4, <3>1, <3>2 DEF DType, DInterrupt
    <3>7. DData'
      BY <1>1, <2>1 DEF DData
    <3> QED
      BY <3>3, <3>4, <3>5, <3>6, <3>7 DEF DInv
  <2> QED
    BY <1>1, <2>1, <2>3, <2>4 DEF DType
<1>6. ASSUME D!HandleInterrupt PROVE DInv'
  <2>1. /\ active # NULL /\ active' = NULL /\ done' = done \cup {active}
        /\ value' = [value EXCEPT ![semaphore] = @ + 1]
        /\ UNCHANGED <<holder, pending, platter, pc, op, buffer>>
    BY <1>6 DEF D!HandleInterrupt, D!V
  <2>2. PICK t \in DiskThread : pc[t] = "disk"
    BY <1>1, <2>1 DEF DInterrupt
  <2>3. pending[t] # NULL /\ active = t /\ value[semaphore] = 0
    BY <1>1, <2>1, <2>2 DEF DInterrupt
  <2>4. \A u \in DiskThread \ {t} : pc[u] # "disk"
    BY <1>1, <2>2 DEF DLock, DHolds
  <2>5. DType'
    BY <1>1, <2>1 DEF DType
  <2>6. DPending' /\ DData'
    BY <1>1, <2>1 DEF DPending, DData
  <2>7. DLock'
    BY <1>1, <2>1 DEF DType, DLock, DHolds
  <2>8. DInterrupt'
    BY <1>1, <2>1, <2>2, <2>3, <2>4 DEF DType, DInterrupt
  <2> QED
    BY <2>5, <2>6, <2>7, <2>8 DEF DInv
<1> QED
  BY <1>2, <1>3, <1>4, <1>5, <1>6 DEF D!Step

-----------------------------------------------------------------------------
(* MailTest *)

MThread == Client \cup ({"worker"} \X Machine)

\* The locks and semaphores of the post offices are different objects.
LEMMA MailNames ==
  /\ MailLock \subseteq MailSemaphore
  /\ \A m \in Machine :
       /\ M!messageAvailable(m) \in MailSemaphore \ MailLock
       /\ M!messageSent(m) \in MailSemaphore \ MailLock
       /\ M!sendLock(m) \in MailLock
       /\ \A b \in {0, 1} : M!boxLock(m, b) \in MailLock
       /\ M!messageAvailable(m) # NULL /\ M!messageSent(m) # NULL /\ M!sendLock(m) # NULL
       /\ \A b \in {0, 1} : M!boxLock(m, b) # NULL
  /\ \A m, n \in Machine :
       /\ M!messageAvailable(m) = M!messageAvailable(n) => m = n
       /\ M!messageSent(m) = M!messageSent(n) => m = n
       /\ M!sendLock(m) = M!sendLock(n) => m = n
       /\ M!messageAvailable(m) # M!messageSent(n)
       /\ \A b \in {0, 1} : M!boxLock(m, b) # M!sendLock(n)
<1>1. \A m, n \in Machine :
        /\ M!messageAvailable(m) = M!messageAvailable(n) => m = n
        /\ M!messageSent(m) = M!messageSent(n) => m = n
        /\ M!sendLock(m) = M!sendLock(n) => m = n
        /\ M!messageAvailable(m) # M!messageSent(n)
  BY DEF M!messageAvailable, M!messageSent, M!sendLock
<1>2. \A m, n \in Machine, b \in {0, 1} :
        /\ <<"box", m, b>>[1] = "box" /\ <<"sendLock", n>>[1] = "sendLock"
        /\ <<"messageAvailable", n>>[1] = "messageAvailable"
        /\ <<"messageSent", n>>[1] = "messageSent"
  OBVIOUS
<1>3. \A m, n \in Machine, b \in {0, 1} :
        /\ M!boxLock(m, b) # M!sendLock(n) /\ M!boxLock(m, b) # M!messageAvailable(n)
        /\ M!boxLock(m, b) # M!messageSent(n)
  BY <1>2 DEF M!messageAvailable, M!messageSent, M!sendLock, M!boxLock
<1>4. \A m \in Machine :
        /\ M!messageAvailable(m) \in MailSemaphore /\ M!messageSent(m) \in MailSemaphore
        /\ M!sendLock(m) \in MailLock
        /\ \A b \in {0, 1} : M!boxLock(m, b) \in MailLock
  BY DEF MailSemaphore, MailLock, M!messageAvailable, M!messageSent, M!sendLock, M!boxLock
<1>5. \A l \in MailLock : \E n \in Machine :
        l = M!sendLock(n) \/ \E b \in {0, 1} : l = M!boxLock(n, b)
  BY DEF MailLock, M!sendLock, M!boxLock
<1>6. \A m, n \in Machine : M!messageAvailable(m) # M!sendLock(n) /\ M!messageSent(m) # M!sendLock(n)
  BY <1>2 DEF M!messageAvailable, M!messageSent, M!sendLock
<1>7. \A m \in Machine : M!messageAvailable(m) \notin MailLock /\ M!messageSent(m) \notin MailLock
  BY <1>3, <1>5, <1>6
<1>8. \A m \in Machine :
        /\ M!messageAvailable(m) # NULL /\ M!messageSent(m) # NULL /\ M!sendLock(m) # NULL
        /\ \A b \in {0, 1} : M!boxLock(m, b) # NULL
  BY DeviceObjects DEF M!messageAvailable, M!messageSent, M!sendLock, M!boxLock
<1> QED
  BY <1>1, <1>3, <1>4, <1>7, <1>8 DEF MailSemaphore

\* A postal worker is no client, and the workers of two machines differ.
LEMMA MailThreadNames ==
  /\ \A m \in Machine : M!worker(m) \in MThread /\ M!worker(m) \notin Client
  /\ \A m, n \in Machine : M!worker(m) = M!worker(n) => m = n
  /\ \A c \in Client : c \in MThread /\ c # NULL
  BY DeviceObjects DEF MThread, M!worker

\* The call each thread can be inside, and where.
ClientAt(c) ==
  LET m == M!Home(c) IN
  /\ pc[c] \in {"send", "net", "sent", "receive", "get", "done"}
  /\ \/ pending[c] = NULL
     \/ pending[c] = M!sendLock(m) /\ pc[c] = "net"
     \/ pending[c] = M!messageSent(m) /\ pc[c] = "sent"
     \/ pending[c] \in {M!boxLock(m, 0), M!boxLock(m, 1)} /\ pc[c] = "get"

WorkerAt(m) ==
  LET w == M!worker(m) IN
  /\ pc[w] \in {"idle", "avail", "put", "leave"}
  /\ \/ pending[w] = NULL
     \/ pending[w] = M!messageAvailable(m) /\ pc[w] = "avail"
     \/ pending[w] \in {M!boxLock(m, 0), M!boxLock(m, 1)} /\ pc[w] = "put"

MSync ==
  /\ value \in [MailSemaphore -> Nat]
  /\ holder = [l \in MailLock |-> holder[l]]
  /\ pending = [t \in MThread |-> pending[t]] /\ pc = [t \in MThread |-> pc[t]]
  /\ \A c \in Client : ClientAt(c)
  /\ \A m \in Machine : WorkerAt(m)

MType ==
  /\ config \in Config
  /\ sock \in [Machine -> Seq(Mail)] /\ inbox \in [Machine -> Mail \cup {NULL}]
  /\ hand \in [Machine -> Mail \cup {NULL}]
  /\ boxes \in [Machine -> [{0, 1} -> Seq(Mail)]]
  /\ accepted \in [Machine -> Seq(Mail)] /\ delivered \in [Machine -> Seq(Mail)]
  /\ sending \in [Machine -> Seq(Client)]
  /\ round \in [Client -> {1, 2}] /\ mail \in [Client -> Mail \cup {NULL}]
  /\ \A c \in Client : round[c] = 2 => mail[c] \in Mail

\* A packet in the device's buffer is announced to the worker once, and the worker
\* holds one only between taking it and letting go of the box.
Arrival(m) ==
  LET w == M!worker(m) IN
  /\ value[M!messageAvailable(m)] + (IF pc[w] = "avail" /\ pending[w] = NULL THEN 1 ELSE 0)
       = IF inbox[m] = NULL THEN 0 ELSE 1
  /\ pc[w] \in {"put", "leave"} => hand[m] \in Mail
  /\ delivered[m] \o M!InHand(m) \o M!Held(inbox[m]) \o sock[m] = accepted[m]

\* sendLock is held from the return of its Acquire() to Release().
SendHolds(c) == (pc[c] = "net" /\ pending[c] = NULL) \/ pc[c] = "sent"

\* Between Network::Send and the return of messageSent->P() the one interrupt is
\* scheduled, in the semaphore or taken; at other times there is none.
Departure(m) ==
  /\ holder[M!sendLock(m)] \in Client \cup {NULL}
  /\ \A c \in Client : holder[M!sendLock(m)] = c <=> (M!Home(c) = m /\ SendHolds(c))
  /\ value[M!sendLock(m)] = IF holder[M!sendLock(m)] = NULL THEN 1 ELSE 0
  /\ (\A c \in Client : M!Home(c) = m => pc[c] # "sent")
       => sending[m] = <<>> /\ value[M!messageSent(m)] = 0
  /\ \A c \in Client :
       M!Home(c) = m /\ pc[c] = "sent" =>
         IF pending[c] = NULL
         THEN sending[m] = <<>> /\ value[M!messageSent(m)] = 0 /\ c \in interrupted
         ELSE \/ sending[m] = <<c>> /\ value[M!messageSent(m)] = 0
              \/ sending[m] = <<>> /\ value[M!messageSent(m)] = 1 /\ c \in interrupted

MInv == MSync /\ MType /\ \A m \in Machine : Arrival(m) /\ Departure(m)

\* Steps that do not concern machine m's arriving, or departing, packets.
LEMMA ArrivalFrame ==
  ASSUME NEW m \in Machine, Arrival(m),
         pc'[M!worker(m)] = pc[M!worker(m)], pending'[M!worker(m)] = pending[M!worker(m)],
         value'[M!messageAvailable(m)] = value[M!messageAvailable(m)],
         inbox'[m] = inbox[m], hand'[m] = hand[m], delivered'[m] = delivered[m],
         sock'[m] = sock[m], accepted'[m] = accepted[m]
  PROVE  Arrival(m)'
<1>1. M!InHand(m)' = M!InHand(m) /\ M!Held(inbox[m])' = M!Held(inbox[m])
  BY DEF M!InHand, M!Held
<1> QED
  BY <1>1 DEF Arrival

\* What decides which client is sending on a machine: a step that leaves it alone keeps Departure.
LEMMA DepartureFrame ==
  ASSUME NEW m \in Machine, Departure(m), config' = config,
         \A c \in Client : M!Home(c) = m =>
           /\ pc'[c] = "net" <=> pc[c] = "net"
           /\ pc'[c] = "sent" <=> pc[c] = "sent"
           /\ pc[c] \in {"net", "sent"} => pending'[c] = pending[c]
           /\ c \in interrupted' <=> c \in interrupted,
         value'[M!sendLock(m)] = value[M!sendLock(m)],
         value'[M!messageSent(m)] = value[M!messageSent(m)],
         holder'[M!sendLock(m)] = holder[M!sendLock(m)], sending'[m] = sending[m]
  PROVE  Departure(m)'
<1>1. \A c \in Client : M!Home(c)' = M!Home(c)
  BY DEF M!Home
<1>2. \A c \in Client : M!Home(c) = m => (SendHolds(c)' <=> SendHolds(c))
  BY DEF SendHolds
<1> QED
  BY <1>1, <1>2 DEF Departure

\* The step of one thread t, which goes to loc with the call q pending.
LEMMA SyncFrame ==
  ASSUME MSync, NEW t \in MThread, NEW loc, NEW q,
         config' = config, value' \in [MailSemaphore -> Nat],
         holder' = [l \in MailLock |-> holder'[l]],
         pc' = [pc EXCEPT ![t] = loc], pending' = [pending EXCEPT ![t] = q],
         t \in Client => ClientAt(t)', \A m \in Machine : t = M!worker(m) => WorkerAt(m)'
  PROVE  /\ MSync' /\ pc'[t] = loc /\ pending'[t] = q
         /\ \A u \in MThread \ {t} : pc'[u] = pc[u] /\ pending'[u] = pending[u]
<1>1. /\ pc = [u \in MThread |-> pc[u]] /\ pending = [u \in MThread |-> pending[u]]
      /\ \A c \in Client : ClientAt(c)
      /\ \A m \in Machine : WorkerAt(m)
  BY DEF MSync
<1>2. /\ pc'[t] = loc /\ pending'[t] = q
      /\ \A u \in MThread \ {t} : pc'[u] = pc[u] /\ pending'[u] = pending[u]
      /\ pc' = [u \in MThread |-> pc'[u]] /\ pending' = [u \in MThread |-> pending'[u]]
  BY <1>1
<1>3. ASSUME NEW c \in Client PROVE ClientAt(c)'
  <2>1. CASE c = t
    BY <2>1
  <2>2. CASE c # t
    <3>1. pc'[c] = pc[c] /\ pending'[c] = pending[c] /\ M!Home(c)' = M!Home(c)
      BY <1>2, <2>2, MailThreadNames DEF M!Home
    <3> QED
      BY <1>1, <3>1 DEF ClientAt
  <2> QED
    BY <2>1, <2>2
<1>4. ASSUME NEW m \in Machine PROVE WorkerAt(m)'
  <2>1. CASE M!worker(m) = t
    BY <2>1
  <2>2. CASE M!worker(m) # t
    <3>1. pc'[M!worker(m)] = pc[M!worker(m)] /\ pending'[M!worker(m)] = pending[M!worker(m)]
      BY <1>2, <2>2, MailThreadNames
    <3> QED
      BY <1>1, <3>1 DEF WorkerAt
  <2> QED
    BY <2>1, <2>2
<1> QED
  BY <1>2, <1>3, <1>4 DEF MSync

\* A turn of P() takes a unit or leaves the thread in the call.
LEMMA MailP ==
  ASSUME MSync, NEW t \in MThread, NEW s \in MailSemaphore, s # NULL, M!P(t, s)
  PROVE  \E q \in {s, NULL} :
           /\ pending' = [pending EXCEPT ![t] = q] /\ value' \in [MailSemaphore -> Nat]
           /\ \A r \in MailSemaphore \ {s} : value'[r] = value[r]
           /\ q = s => value[s] = 0 /\ value'[s] = 0
           /\ q = NULL => value[s] # 0 /\ value'[s] = value[s] - 1
<1>1. value \in [MailSemaphore -> Nat]
  BY DEF MSync
<1>2. CASE value[s] = 0
  <2>1. pending' = [pending EXCEPT ![t] = s] /\ value' = value
    BY <1>2 DEF M!P
  <2> WITNESS s \in {s, NULL}
  <2> QED
    BY <1>1, <1>2, <2>1
<1>3. CASE value[s] # 0
  <2>1. pending' = [pending EXCEPT ![t] = NULL] /\ value' = [value EXCEPT ![s] = @ - 1]
    BY <1>3 DEF M!P
  <2> WITNESS NULL \in {s, NULL}
  <2>2. value[s] \in Nat /\ value[s] - 1 \in Nat
    BY <1>1, <1>3
  <2> QED
    BY <1>1, <1>3, <2>1, <2>2
<1> QED
  BY <1>2, <1>3

\* Acquire is the P of the semaphore in the lock; the thread that passes it becomes the holder.
LEMMA MailAcquire ==
  ASSUME MSync, NEW t \in MThread, NEW l \in MailLock, M!Acquire(t, l)
  PROVE  /\ M!P(t, l) /\ holder' = [k \in MailLock |-> holder'[k]]
         /\ \A k \in MailLock \ {l} : holder'[k] = holder[k]
         /\ holder'[l] = IF value[l] = 0 THEN holder[l] ELSE t
<1>1. holder = [k \in MailLock |-> holder[k]]
  BY DEF MSync
<1> QED
  BY <1>1 DEF M!Acquire

\* Release comes from the holder only, frees the lock and gives its semaphore one unit.
LEMMA MailRelease ==
  ASSUME MSync, NEW t \in MThread, NEW l \in MailLock, l \in MailSemaphore, M!Release(t, l)
  PROVE  /\ holder[l] = t /\ holder' = [k \in MailLock |-> holder'[k]] /\ holder'[l] = NULL
         /\ \A k \in MailLock \ {l} : holder'[k] = holder[k]
         /\ value' \in [MailSemaphore -> Nat] /\ value'[l] = value[l] + 1
         /\ \A r \in MailSemaphore \ {l} : value'[r] = value[r]
         /\ pending' = pending
<1>1. holder = [k \in MailLock |-> holder[k]] /\ value \in [MailSemaphore -> Nat]
  BY DEF MSync
<1>2. /\ holder[l] = t /\ holder' = [holder EXCEPT ![l] = NULL] /\ pending' = pending
      /\ value' = [value EXCEPT ![l] = @ + 1]
  BY DEF M!Release
<1> QED
  BY <1>1, <1>2

\* How a packet moves along the four places it can be in.
LEMMA PacketTaken ==
  ASSUME NEW S, NEW d \in Seq(S), NEW k \in Seq(S), NEW x \in S
  PROVE  d \o <<>> \o <<x>> \o k = d \o <<x>> \o <<>> \o k
<1>1. d \o <<>> = d /\ d \o <<x>> \o <<>> = d \o <<x>>
  OBVIOUS
<1> QED
  BY <1>1

\* The postal worker moves the packet it took from the network into the mailbox.
LEMMA PacketPut ==
  ASSUME NEW S, NEW d \in Seq(S), NEW h \in Seq(S), NEW k \in Seq(S), NEW x \in S
  PROVE  d \o <<x>> \o h \o k = Append(d, x) \o <<>> \o h \o k
<1>1. Append(d, x) \o <<>> = Append(d, x) /\ Append(d, x) = d \o <<x>>
  OBVIOUS
<1> QED
  BY <1>1

\* CheckPktAvail takes the first packet in flight to the network input.
LEMMA PacketArrives ==
  ASSUME NEW S, NEW d \in Seq(S), NEW i \in Seq(S), NEW k \in Seq(S), k # <<>>
  PROVE  d \o i \o <<>> \o k = d \o i \o <<Head(k)>> \o Tail(k)
<1> DEFINE e == d \o i
           y == Head(k)
<1>1. e \in Seq(S) /\ e \o <<>> = e /\ y \in S
  OBVIOUS
<1>2. Append(e, y) \o Tail(k) = e \o k
  BY <1>1, MoveOne
<1> HIDE DEF e, y
<1>3. e \o <<y>> = Append(e, y)
  BY <1>1
<1> QED
  BY <1>1, <1>2, <1>3 DEF e, y

\* Send puts a packet at the end of the ones in flight.
LEMMA PacketSent ==
  ASSUME NEW S, NEW d \in Seq(S), NEW i \in Seq(S), NEW h \in Seq(S), NEW k \in Seq(S), NEW x \in S
  PROVE  d \o i \o h \o Append(k, x) = Append(d \o i \o h \o k, x)
<1>1. d \o i \o h \in Seq(S)
  OBVIOUS
<1>2. \A e \in Seq(S) : e \o Append(k, x) = Append(e \o k, x)
  OBVIOUS
<1> QED
  BY <1>1, <1>2

\* The steps of the postal worker.
LEMMA WorkerStep ==
  ASSUME MInv, NEW m \in Machine,
         M!AwaitPacket(m) \/ M!TakePacket(m) \/ M!PutMail(m) \/ M!PutDone(m)
  PROVE  MInv'
<1> DEFINE w == M!worker(m)
           s == M!messageAvailable(m)
<1>1. MSync /\ MType /\ \A n \in Machine : Arrival(n) /\ Departure(n)
  BY DEF MInv
<1>2. /\ w \in MThread /\ w \notin Client
      /\ \A n \in Machine : w = M!worker(n) => n = m
      /\ \A n \in Machine \ {m} : M!worker(n) \in MThread \ {w}
      /\ \A c \in Client : c \in MThread \ {w}
  BY MailThreadNames
<1>3. /\ value \in [MailSemaphore -> Nat] /\ holder = [l \in MailLock |-> holder[l]]
      /\ pending = [t \in MThread |-> pending[t]] /\ pc = [t \in MThread |-> pc[t]]
  BY <1>1 DEF MSync
\* What a step of w that leaves the rest of the mail alone keeps.
<1>4. ASSUME config' = config, UNCHANGED <<sending, interrupted>>,
             \A t \in MThread \ {w} : pc'[t] = pc[t] /\ pending'[t] = pending[t],
             \A n \in Machine : /\ value'[M!sendLock(n)] = value[M!sendLock(n)]
                                /\ value'[M!messageSent(n)] = value[M!messageSent(n)]
                                /\ holder'[M!sendLock(n)] = holder[M!sendLock(n)]
      PROVE  \A n \in Machine : Departure(n)'
  <2> TAKE n \in Machine
  <2> QED
    BY <1>1, <1>2, <1>4, DepartureFrame
<1>5. CASE M!AwaitPacket(m)
  <2>1. /\ pc[w] = "idle" /\ pending[w] = NULL /\ pc' = [pc EXCEPT ![w] = "avail"]
        /\ M!P(w, s) /\ UNCHANGED <<holder, config, sock, inbox, sending, boxes, hand, round, mail,
                                    accepted, delivered, interrupted>>
    BY <1>5 DEF M!AwaitPacket, M!At, M!Running, M!Goto, M!mailVars
  <2>2. s \in MailSemaphore /\ s # NULL
    BY MailNames
  <2>3. PICK q \in {s, NULL} :
           /\ pending' = [pending EXCEPT ![w] = q] /\ value' \in [MailSemaphore -> Nat]
           /\ \A r \in MailSemaphore \ {s} : value'[r] = value[r]
           /\ q = s => value[s] = 0 /\ value'[s] = 0
           /\ q = NULL => value[s] # 0 /\ value'[s] = value[s] - 1
    BY <1>1, <1>2, <2>1, <2>2, MailP
  <2>4. pc'[w] = "avail" /\ pending'[w] = q
    BY <1>2, <1>3, <2>1, <2>3
  <2>5. WorkerAt(m)'
    BY <2>4, MailNames DEF WorkerAt
  <2>6. /\ MSync' /\ \A u \in MThread \ {w} : pc'[u] = pc[u] /\ pending'[u] = pending[u]
    BY <1>1, <1>2, <1>3, <2>1, <2>3, <2>5, SyncFrame
  <2>7. MType'
    BY <1>1, <2>1 DEF MType
  <2>8. \A n \in Machine : Departure(n)'
    BY <1>4, <2>1, <2>3, <2>6, MailNames
  <2>9. ASSUME NEW n \in Machine PROVE Arrival(n)'
    <3>1. CASE n # m
      BY <1>1, <1>2, <2>1, <2>3, <2>6, <3>1, MailNames, ArrivalFrame
    <3>2. CASE n = m
      <4>1. Arrival(m)
        BY <1>1
      <4>2. M!InHand(m)' = M!InHand(m) /\ M!Held(inbox[m])' = M!Held(inbox[m])
        BY <2>1, <2>4 DEF M!InHand, M!Held
      <4>3. value'[s] + (IF pc'[w] = "avail" /\ pending'[w] = NULL THEN 1 ELSE 0)
              = IF inbox'[m] = NULL THEN 0 ELSE 1
        BY <1>3, <2>1, <2>2, <2>3, <2>4, <4>1 DEF Arrival
      <4> QED
        BY <2>1, <2>4, <3>2, <4>1, <4>2, <4>3 DEF Arrival
    <3> QED
      BY <3>1, <3>2
  <2> QED
    BY <2>6, <2>7, <2>8, <2>9 DEF MInv
<1>6. CASE M!TakePacket(m)
  <2> DEFINE l == M!boxLock(m, inbox[m].box)
  <2>1. /\ pc[w] = "avail" /\ pending[w] = NULL /\ pc' = [pc EXCEPT ![w] = "put"]
        /\ hand' = [hand EXCEPT ![m] = inbox[m]] /\ inbox' = [inbox EXCEPT ![m] = NULL]
        /\ M!Acquire(w, l) /\ UNCHANGED <<config, sock, sending, boxes, round, mail,
                                          accepted, delivered, interrupted>>
    BY <1>6 DEF M!TakePacket, M!At, M!Running, M!Goto
  <2>2. inbox[m] \in Mail /\ inbox[m] # NULL /\ value[s] = 0
    <3>1. value[s] \in Nat
      BY <1>3, MailNames
    <3>2. value[s] + 1 = IF inbox[m] = NULL THEN 0 ELSE 1
      BY <1>1, <2>1 DEF Arrival
    <3>3. inbox[m] # NULL /\ value[s] = 0
      BY <3>1, <3>2
    <3> QED
      BY <1>1, <3>3 DEF MType
  <2>3. l \in {M!boxLock(m, 0), M!boxLock(m, 1)}
    BY <2>2 DEF Mail
  <2>4. /\ l \in MailLock /\ l \in MailSemaphore /\ l # NULL /\ s # l /\ s \in MailSemaphore
        /\ \A n \in Machine : /\ M!sendLock(n) \in MailLock \ {l} /\ M!sendLock(n) \in MailSemaphore \ {l}
                              /\ M!messageSent(n) \in MailSemaphore \ {l}
                              /\ M!messageAvailable(n) \in MailSemaphore \ {l}
    BY <2>3, MailNames
  <2>5. /\ M!P(w, l) /\ holder' = [k \in MailLock |-> holder'[k]]
        /\ \A k \in MailLock \ {l} : holder'[k] = holder[k]
    BY <1>1, <1>2, <2>1, <2>4, MailAcquire
  <2>6. PICK q \in {l, NULL} :
           /\ pending' = [pending EXCEPT ![w] = q] /\ value' \in [MailSemaphore -> Nat]
           /\ \A r \in MailSemaphore \ {l} : value'[r] = value[r]
    BY <1>1, <1>2, <2>4, <2>5, MailP
  <2>7. pc'[w] = "put" /\ pending'[w] = q
    BY <1>2, <1>3, <2>1, <2>6
  <2>8. WorkerAt(m)'
    BY <2>3, <2>6, <2>7 DEF WorkerAt
  <2>9. MSync' /\ \A u \in MThread \ {w} : pc'[u] = pc[u] /\ pending'[u] = pending[u]
    BY <1>1, <1>2, <2>1, <2>5, <2>6, <2>8, SyncFrame
  <2>10. MType'
    BY <1>1, <2>1, <2>2 DEF MType
  <2>11. \A n \in Machine : Departure(n)'
    BY <1>4, <2>1, <2>4, <2>5, <2>6, <2>9
  <2>12. ASSUME NEW n \in Machine PROVE Arrival(n)'
    <3>1. CASE n # m
      <4>1. inbox'[n] = inbox[n] /\ hand'[n] = hand[n]
        BY <1>1, <2>1, <3>1 DEF MType
      <4> QED
        BY <1>1, <1>2, <2>1, <2>4, <2>6, <2>9, <3>1, <4>1, ArrivalFrame
    <3>2. CASE n = m
      <4>1. hand'[m] = inbox[m] /\ inbox'[m] = NULL
        BY <1>1, <2>1 DEF MType
      <4>2. /\ M!InHand(m)' = <<inbox[m]>> /\ M!Held(inbox[m])' = <<>>
            /\ M!InHand(m) = <<>> /\ M!Held(inbox[m]) = <<inbox[m]>>
        BY <2>1, <2>2, <2>7, <4>1 DEF M!InHand, M!Held
      <4>3. delivered[m] \in Seq(Mail) /\ sock[m] \in Seq(Mail)
        BY <1>1 DEF MType
      <4>4. delivered[m] \o <<>> \o <<inbox[m]>> \o sock[m] = delivered[m] \o <<inbox[m]>> \o <<>> \o sock[m]
        BY <2>2, <4>3, PacketTaken
      <4>5. delivered'[m] \o M!InHand(m)' \o M!Held(inbox[m])' \o sock'[m] = accepted'[m]
        BY <1>1, <2>1, <4>2, <4>4 DEF Arrival
      <4>6. value'[s] = 0
        BY <2>2, <2>4, <2>6
      <4> QED
        BY <2>2, <2>7, <3>2, <4>1, <4>5, <4>6 DEF Arrival
    <3> QED
      BY <3>1, <3>2
  <2> QED
    BY <2>9, <2>10, <2>11, <2>12 DEF MInv
<1>7. CASE M!PutMail(m)
  <2> DEFINE b == hand[m].box
  <2>1. /\ pc[w] = "put" /\ pending[w] = NULL /\ pc' = [pc EXCEPT ![w] = "leave"]
        /\ boxes' = [boxes EXCEPT ![m][b] = Append(@, hand[m])]
        /\ delivered' = [delivered EXCEPT ![m] = Append(@, hand[m])]
        /\ UNCHANGED <<value, holder, pending, config, sock, inbox, sending, hand, round, mail,
                       accepted, interrupted>>
    BY <1>7 DEF M!PutMail, M!Signal, M!At, M!Running, M!Goto
  <2>2. hand[m] \in Mail /\ b \in {0, 1} /\ hand[m] # NULL
    BY <1>1, <2>1, DeviceObjects DEF Arrival, Mail
  <2>3. pc'[w] = "leave" /\ pending'[w] = NULL /\ pending' = [pending EXCEPT ![w] = NULL]
    BY <1>2, <1>3, <2>1
  <2>4. WorkerAt(m)'
    BY <2>3 DEF WorkerAt
  <2>5. MSync' /\ \A u \in MThread \ {w} : pc'[u] = pc[u] /\ pending'[u] = pending[u]
    BY <1>1, <1>2, <1>3, <2>1, <2>3, <2>4, SyncFrame
  <2>6. MType'
    BY <1>1, <2>1, <2>2, SMTT(60) DEF MType
  <2>7. \A n \in Machine : Departure(n)'
    BY <1>4, <2>1, <2>5
  <2>8. ASSUME NEW n \in Machine PROVE Arrival(n)'
    <3>1. CASE n # m
      <4>1. delivered'[n] = delivered[n]
        BY <1>1, <2>1, <3>1 DEF MType
      <4> QED
        BY <1>1, <1>2, <2>1, <2>5, <3>1, <4>1, ArrivalFrame
    <3>2. CASE n = m
      <4> DEFINE h == M!Held(inbox[m])
      <4>1. delivered[m] \in Seq(Mail) /\ sock[m] \in Seq(Mail) /\ inbox[m] \in Mail \cup {NULL}
        BY <1>1 DEF MType
      <4>2. h \in Seq(Mail) /\ h' = h
        BY <2>1, <4>1 DEF M!Held
      <4>3. M!InHand(m) = <<hand[m]>> /\ M!InHand(m)' = <<>>
        BY <2>1, <2>2, <2>3 DEF M!InHand, M!Held
      <4>4. delivered'[m] = Append(delivered[m], hand[m])
        BY <1>1, <2>1 DEF MType
      <4>5. delivered[m] \o <<hand[m]>> \o h \o sock[m] = Append(delivered[m], hand[m]) \o <<>> \o h \o sock[m]
        <5> DEFINE d == delivered[m]
                   k == sock[m]
                   x == hand[m]
        <5>1. d \in Seq(Mail) /\ h \in Seq(Mail) /\ k \in Seq(Mail) /\ x \in Mail
          BY <2>2, <4>1, <4>2
        <5> HIDE DEF d, k, x, h
        <5>2. d \o <<x>> \o h \o k = Append(d, x) \o <<>> \o h \o k
          BY <5>1, PacketPut, SMTT(60)
        <5> QED
          BY <5>2 DEF d, k, x
      <4>6. delivered'[m] \o M!InHand(m)' \o h' \o sock'[m] = accepted'[m]
        BY <1>1, <2>1, <4>2, <4>3, <4>4, <4>5 DEF Arrival
      <4> QED
        BY <1>1, <2>1, <2>2, <2>3, <3>2, <4>6 DEF Arrival
    <3> QED
      BY <3>1, <3>2
  <2> QED
    BY <2>5, <2>6, <2>7, <2>8 DEF MInv
<1>8. CASE M!PutDone(m)
  <2> DEFINE l == M!boxLock(m, hand[m].box)
  <2>1. /\ pc[w] = "leave" /\ pending[w] = NULL /\ pc' = [pc EXCEPT ![w] = "idle"]
        /\ hand' = [hand EXCEPT ![m] = NULL] /\ M!Release(w, l)
        /\ UNCHANGED <<config, sock, inbox, sending, boxes, round, mail,
                       accepted, delivered, interrupted>>
    BY <1>8 DEF M!PutDone, M!At, M!Running, M!Goto
  <2>2. hand[m] \in Mail /\ hand[m].box \in {0, 1}
    BY <1>1, <2>1 DEF Arrival, Mail
  <2>3. /\ l \in MailLock /\ l \in MailSemaphore
        /\ \A n \in Machine : /\ M!sendLock(n) \in MailLock \ {l} /\ M!sendLock(n) \in MailSemaphore \ {l}
                              /\ M!messageSent(n) \in MailSemaphore \ {l}
                              /\ M!messageAvailable(n) \in MailSemaphore \ {l}
    BY <2>2, MailNames
  <2>4. /\ holder' = [k \in MailLock |-> holder'[k]]
        /\ \A k \in MailLock \ {l} : holder'[k] = holder[k]
        /\ value' \in [MailSemaphore -> Nat]
        /\ \A r \in MailSemaphore \ {l} : value'[r] = value[r]
        /\ pending' = pending
    BY <1>1, <1>2, <2>1, <2>3, MailRelease
  <2>5. pc'[w] = "idle" /\ pending'[w] = NULL /\ pending' = [pending EXCEPT ![w] = NULL]
    BY <1>2, <1>3, <2>1, <2>4
  <2>6. WorkerAt(m)'
    BY <2>5 DEF WorkerAt
  <2>7. MSync' /\ \A u \in MThread \ {w} : pc'[u] = pc[u] /\ pending'[u] = pending[u]
    BY <1>1, <1>2, <2>1, <2>4, <2>5, <2>6, SyncFrame, ZenonT(60)
  <2>8. MType'
    BY <1>1, <2>1 DEF MType
  <2>9. \A n \in Machine : Departure(n)'
    BY <1>4, <2>1, <2>3, <2>4, <2>7
  <2>10. ASSUME NEW n \in Machine PROVE Arrival(n)'
    <3>1. CASE n # m
      <4>1. hand'[n] = hand[n]
        BY <1>1, <2>1, <3>1 DEF MType
      <4> QED
        BY <1>1, <1>2, <2>1, <2>3, <2>4, <2>7, <3>1, <4>1, ArrivalFrame
    <3>2. CASE n = m
      <4>1. /\ M!InHand(m)' = <<>> /\ M!InHand(m) = <<>>
            /\ M!Held(inbox[m])' = M!Held(inbox[m])
        BY <2>1, <2>5 DEF M!InHand, M!Held
      <4>2. value'[s] = value[s]
        BY <2>3, <2>4
      <4> QED
        BY <1>1, <2>1, <2>5, <3>2, <4>1, <4>2 DEF Arrival
    <3> QED
      BY <3>1, <3>2
  <2> QED
    BY <2>7, <2>8, <2>9, <2>10 DEF MInv
<1> QED
  BY <1>5, <1>6, <1>7, <1>8

\* The interrupt handlers of the network.
LEMMA NetworkStep ==
  ASSUME MInv, NEW m \in Machine, M!CheckPktAvail(m) \/ M!SendDone(m)
  PROVE  MInv'
<1>1. MSync /\ MType /\ \A n \in Machine : Arrival(n) /\ Departure(n)
  BY DEF MInv
<1>2. value \in [MailSemaphore -> Nat]
  BY <1>1 DEF MSync
<1>3. CASE M!CheckPktAvail(m)
  <2> DEFINE s == M!messageAvailable(m)
  <2>1. /\ inbox[m] = NULL /\ sock[m] # <<>>
        /\ inbox' = [inbox EXCEPT ![m] = Head(sock[m])] /\ sock' = [sock EXCEPT ![m] = Tail(@)]
        /\ value' = [value EXCEPT ![s] = @ + 1]
        /\ UNCHANGED <<holder, pending, pc, config, sending, boxes, hand, round, mail,
                       accepted, delivered, interrupted>>
    BY <1>3 DEF M!CheckPktAvail, M!V
  <2>2. /\ s \in MailSemaphore /\ value' \in [MailSemaphore -> Nat] /\ value'[s] = value[s] + 1
        /\ \A r \in MailSemaphore \ {s} : value'[r] = value[r]
    BY <1>2, <2>1, MailNames
  <2>3. sock[m] \in Seq(Mail) /\ Head(sock[m]) \in Mail /\ Tail(sock[m]) \in Seq(Mail)
    BY <1>1, <2>1 DEF MType
  <2>4. MSync'
    BY <1>1, <2>1, <2>2 DEF MSync, ClientAt, WorkerAt, M!Home
  <2>5. MType'
    BY <1>1, <2>1, <2>3 DEF MType
  <2>6. ASSUME NEW n \in Machine PROVE Departure(n)'
    BY <1>1, <2>1, <2>2, MailNames, DepartureFrame
  <2>7. ASSUME NEW n \in Machine PROVE Arrival(n)'
    <3>1. CASE n # m
      <4>1. inbox'[n] = inbox[n] /\ sock'[n] = sock[n] /\ M!messageAvailable(n) \in MailSemaphore \ {s}
        BY <1>1, <2>1, <3>1, MailNames DEF MType
      <4> QED
        BY <1>1, <2>1, <2>2, <3>1, <4>1, ArrivalFrame
    <3>2. CASE n = m
      <4> DEFINE i == M!InHand(m)
      <4>1. inbox'[m] = Head(sock[m]) /\ sock'[m] = Tail(sock[m]) /\ Head(sock[m]) # NULL
        BY <1>1, <2>1, <2>3, DeviceObjects DEF MType
      <4>2. delivered[m] \in Seq(Mail) /\ hand[m] \in Mail \cup {NULL}
        BY <1>1 DEF MType
      <4>3. i \in Seq(Mail) /\ i' = i
        BY <2>1, <4>2 DEF M!InHand, M!Held
      <4>4. M!Held(inbox[m]) = <<>> /\ M!Held(inbox[m])' = <<Head(sock[m])>>
        BY <2>1, <4>1 DEF M!Held
      <4>5. delivered[m] \o i \o <<>> \o sock[m] = delivered[m] \o i \o <<Head(sock[m])>> \o Tail(sock[m])
        <5> DEFINE d == delivered[m]
                   k == sock[m]
        <5>1. d \in Seq(Mail) /\ i \in Seq(Mail) /\ k \in Seq(Mail) /\ k # <<>>
          BY <2>1, <2>3, <4>2, <4>3
        <5> HIDE DEF d, k, i
        <5>2. d \o i \o <<>> \o k = d \o i \o <<Head(k)>> \o Tail(k)
          BY <5>1, PacketArrives
        <5> QED
          BY <5>2 DEF d, k
      <4>6. delivered'[m] \o i' \o M!Held(inbox[m])' \o sock'[m] = accepted'[m]
        BY <1>1, <2>1, <4>1, <4>3, <4>4, <4>5 DEF Arrival
      <4>7. /\ value'[s] + (IF pc[M!worker(m)] = "avail" /\ pending[M!worker(m)] = NULL THEN 1 ELSE 0) = 1
            /\ pc[M!worker(m)] \in {"put", "leave"} => hand[m] \in Mail
        <5>1. value[s] \in Nat
          BY <1>2, <2>2
        <5>2. /\ value[s] + (IF pc[M!worker(m)] = "avail" /\ pending[M!worker(m)] = NULL THEN 1 ELSE 0) = 0
              /\ pc[M!worker(m)] \in {"put", "leave"} => hand[m] \in Mail
          BY <1>1, <2>1 DEF Arrival
        <5> QED
          BY <2>2, <5>1, <5>2
      <4> QED
        BY <2>1, <3>2, <4>1, <4>6, <4>7 DEF Arrival
    <3> QED
      BY <3>1, <3>2
  <2> QED
    BY <2>4, <2>5, <2>6, <2>7 DEF MInv
<1>4. CASE M!SendDone(m)
  <2> DEFINE s == M!messageSent(m)
  <2>1. /\ sending[m] # <<>> /\ sending' = [sending EXCEPT ![m] = Tail(@)]
        /\ interrupted' = interrupted \cup {Head(sending[m])}
        /\ value' = [value EXCEPT ![s] = @ + 1]
        /\ UNCHANGED <<holder, pending, pc, config, sock, inbox, boxes, hand, round, mail,
                       accepted, delivered>>
    BY <1>4 DEF M!SendDone, M!V
  <2>2. /\ s \in MailSemaphore /\ value' \in [MailSemaphore -> Nat] /\ value'[s] = value[s] + 1
        /\ \A r \in MailSemaphore \ {s} : value'[r] = value[r]
    BY <1>2, <2>1, MailNames
  <2>3. PICK c \in Client : M!Home(c) = m /\ pc[c] = "sent"
    BY <1>1, <2>1 DEF Departure
  <2>4. sending[m] = <<c>> /\ value[s] = 0 /\ pending[c] # NULL
    BY <1>1, <2>1, <2>3 DEF Departure
  <2>5. Head(sending[m]) = c /\ Tail(sending[m]) = <<>>
    BY <2>4
  <2>6. /\ sending'[m] = <<>> /\ \A n \in Machine \ {m} : sending'[n] = sending[n]
        /\ sending' \in [Machine -> Seq(Client)]
    BY <1>1, <2>1, <2>5 DEF MType
  <2>7. MSync'
    BY <1>1, <2>1, <2>2 DEF MSync, ClientAt, WorkerAt, M!Home
  <2>8. MType'
    BY <1>1, <2>1, <2>6 DEF MType
  <2>9. ASSUME NEW n \in Machine PROVE Arrival(n)'
    BY <1>1, <2>1, <2>2, MailNames, ArrivalFrame
  <2>10. ASSUME NEW n \in Machine PROVE Departure(n)'
    <3>1. CASE n # m
      <4>1. \A d \in Client : M!Home(d) = n => (d \in interrupted' <=> d \in interrupted)
        BY <2>1, <2>3, <2>5, <3>1
      <4>2. M!messageSent(n) \in MailSemaphore \ {s} /\ M!sendLock(n) \in MailSemaphore \ {s}
        BY <3>1, MailNames
      <4> QED
        BY <1>1, <2>1, <2>2, <2>6, <3>1, <4>1, <4>2, DepartureFrame
    <3>2. CASE n = m
      <4>1. \A d \in Client : M!Home(d) = m /\ pc[d] = "sent" => d = c
        <5>1. holder[M!sendLock(m)] = c
          BY <1>1, <2>3 DEF Departure, SendHolds
        <5> QED
          BY <1>1, <5>1 DEF Departure, SendHolds
      <4>2. M!sendLock(m) \in MailSemaphore \ {s} /\ value'[M!sendLock(m)] = value[M!sendLock(m)]
        BY <2>2, MailNames
      <4>3. \A d \in Client : M!Home(d)' = M!Home(d) /\ (SendHolds(d)' <=> SendHolds(d))
        BY <2>1 DEF M!Home, SendHolds
      <4>4. value'[s] = 1 /\ c \in interrupted'
        BY <2>1, <2>2, <2>4, <2>5
      <4> QED
        BY <1>1, <2>1, <2>3, <2>4, <2>6, <3>2, <4>1, <4>2, <4>3, <4>4 DEF Departure
    <3> QED
      BY <3>1, <3>2
  <2> QED
    BY <2>7, <2>8, <2>9, <2>10 DEF MInv
<1> QED
  BY <1>3, <1>4

\* The packet a client sends.
LEMMA PacketType ==
  ASSUME MType, NEW c \in Client
  PROVE  M!Packet(c) \in Mail /\ M!Home(c) \in Machine
<1>1. /\ config \in Config /\ round[c] \in {1, 2} /\ (round[c] = 2 => mail[c] \in Mail)
  BY DEF MType
<1>2. M!Home(c) \in Machine /\ config.far[c] \in Machine
  BY <1>1, DevicesAssumption DEF M!Home
<1>3. CASE round[c] = 1
  BY <1>2, <1>3 DEF M!Packet, Mail
<1>4. CASE round[c] = 2
  <2>1. mail[c].from \in Machine /\ mail[c].reply = 1 /\ mail[c].by \in Client
    BY <1>1, <1>4 DEF Mail
  <2> QED
    BY <1>2, <1>4, <2>1 DEF M!Packet, Mail
<1> QED
  BY <1>1, <1>2, <1>3, <1>4

\* A step that changes nothing MInv speaks of, as halting a machine does, keeps it.
LEMMA MailStutter ==
  ASSUME MInv,
         UNCHANGED <<value, holder, pending, pc, config, sock, inbox, sending, boxes, hand,
                     round, mail, accepted, delivered, interrupted>>
  PROVE  MInv'
<1>1. MSync'
  BY DEF MInv, MSync, ClientAt, WorkerAt, M!Home
<1>2. MType'
  BY DEF MInv, MType
<1>3. \A m \in Machine : Arrival(m)'
  BY ArrivalFrame DEF MInv
<1>4. \A m \in Machine : Departure(m)'
  BY DepartureFrame DEF MInv
<1> QED
  BY <1>1, <1>2, <1>3, <1>4 DEF MInv

\* The steps of a client of MailTest.
LEMMA ClientStep ==
  ASSUME MInv, NEW c \in Client,
         M!Send(c) \/ M!GiveToNetwork(c) \/ M!SendReturns(c) \/ M!Receive(c) \/ M!GetMail(c)
  PROVE  MInv'
<1> DEFINE m == M!Home(c)
           s == M!messageSent(m)
           l == M!sendLock(m)
<1>1. MSync /\ MType /\ \A n \in Machine : Arrival(n) /\ Departure(n)
  BY DEF MInv
<1>2. m \in Machine /\ M!Packet(c) \in Mail /\ round[c] - 1 \in {0, 1}
  BY <1>1, PacketType DEF MType
<1>3. /\ c \in MThread /\ \A n \in Machine : M!worker(n) \in MThread \ {c}
      /\ \A d \in Client \ {c} : d \in MThread \ {c}
  BY MailThreadNames
<1>4. /\ value \in [MailSemaphore -> Nat] /\ holder = [k \in MailLock |-> holder[k]]
      /\ pending = [t \in MThread |-> pending[t]] /\ pc = [t \in MThread |-> pc[t]]
  BY <1>1 DEF MSync
<1>5. /\ s \in MailSemaphore /\ l \in MailLock /\ l \in MailSemaphore /\ s # l /\ s # NULL /\ l # NULL
      /\ \A n \in Machine : M!messageAvailable(n) \in MailSemaphore \ {s, l}
      /\ \A n \in Machine \ {m} : /\ M!sendLock(n) \in MailSemaphore \ {s, l}
                                  /\ M!sendLock(n) \in MailLock \ {l}
                                  /\ M!messageSent(n) \in MailSemaphore \ {s, l}
  BY <1>2, MailNames
<1>6. CASE M!Send(c)
  <2>1. /\ pc[c] = "send" /\ pending[c] = NULL /\ pc' = [pc EXCEPT ![c] = "net"]
        /\ M!Acquire(c, l) /\ UNCHANGED <<config, sock, inbox, sending, boxes, hand, round, mail,
                                          accepted, delivered, interrupted>>
    BY <1>6 DEF M!Send, M!At, M!Running, M!Goto, M!mailVars
  <2>2. /\ M!P(c, l) /\ holder' = [k \in MailLock |-> holder'[k]]
        /\ \A k \in MailLock \ {l} : holder'[k] = holder[k]
        /\ holder'[l] = IF value[l] = 0 THEN holder[l] ELSE c
    BY <1>1, <1>3, <1>5, <2>1, MailAcquire
  <2>3. PICK q \in {l, NULL} :
           /\ pending' = [pending EXCEPT ![c] = q] /\ value' \in [MailSemaphore -> Nat]
           /\ \A r \in MailSemaphore \ {l} : value'[r] = value[r]
           /\ q = l => value[l] = 0 /\ value'[l] = 0
           /\ q = NULL => value[l] # 0 /\ value'[l] = value[l] - 1
    BY <1>1, <1>3, <1>5, <2>2, MailP
  <2>4. pc'[c] = "net" /\ pending'[c] = q
    BY <1>3, <1>4, <2>1, <2>3
  <2>5. ClientAt(c)'
    BY <2>1, <2>3, <2>4 DEF ClientAt, M!Home
  <2>6. MSync' /\ \A u \in MThread \ {c} : pc'[u] = pc[u] /\ pending'[u] = pending[u]
    BY <1>1, <1>3, <2>1, <2>2, <2>3, <2>5, SyncFrame
  <2>7. MType'
    BY <1>1, <2>1 DEF MType
  <2>8. ASSUME NEW n \in Machine PROVE Arrival(n)'
    BY <1>1, <1>3, <1>5, <2>1, <2>3, <2>6, ArrivalFrame
  <2>9. ASSUME NEW n \in Machine PROVE Departure(n)'
    <3>1. CASE n # m
      <4>1. \A d \in Client : M!Home(d) = n => d \in MThread \ {c}
        BY <1>3, <3>1
      <4> QED
        BY <1>1, <1>5, <2>1, <2>2, <2>3, <2>6, <3>1, <4>1, DepartureFrame
    <3>2. CASE n = m
      <4>1. \A d \in Client : M!Home(d)' = M!Home(d)
        BY <2>1 DEF M!Home
      <4>2. \A d \in Client \ {c} : pc'[d] = pc[d] /\ pending'[d] = pending[d]
                                    /\ (SendHolds(d)' <=> SendHolds(d))
        BY <1>3, <2>6 DEF SendHolds
      <4>3. ~SendHolds(c) /\ (SendHolds(c)' <=> q = NULL)
        BY <2>1, <2>4 DEF SendHolds
      <4>4. Departure(m) /\ value'[s] = value[s]
        BY <1>1, <1>2, <1>5, <2>3
      <4>5. holder[l] # c /\ \A d \in Client : d # NULL
        BY <4>3, <4>4, MailThreadNames DEF Departure
      <4>6. q = l => holder[l] # NULL /\ holder'[l] = holder[l] /\ value'[l] = value[l]
        BY <1>5, <2>2, <2>3, <4>4 DEF Departure
      <4>7. q = NULL => holder[l] = NULL /\ holder'[l] = c /\ value'[l] = 0
        BY <1>5, <2>2, <2>3, <4>4 DEF Departure
      <4>8. CASE q = l
        BY <1>5, <2>1, <2>4, <3>2, <4>1, <4>2, <4>3, <4>4, <4>5, <4>6, <4>8 DEF Departure
      <4>9. CASE q = NULL
        BY <1>5, <2>1, <2>4, <3>2, <4>1, <4>2, <4>3, <4>4, <4>5, <4>7, <4>9 DEF Departure
      <4> QED
        BY <4>8, <4>9
    <3> QED
      BY <3>1, <3>2
  <2> QED
    BY <2>6, <2>7, <2>8, <2>9 DEF MInv
<1>7. CASE M!GiveToNetwork(c)
  <2> DEFINE x == M!Packet(c)
  <2>1. /\ pc[c] = "net" /\ pending[c] = NULL /\ pc' = [pc EXCEPT ![c] = "sent"]
        /\ sending' = [sending EXCEPT ![m] = Append(@, c)] /\ interrupted' = interrupted \ {c}
        /\ M!P(c, s) /\ M!NetworkSend(x)
        /\ UNCHANGED <<holder, config, inbox, boxes, hand, round, mail, delivered>>
    BY <1>7 DEF M!GiveToNetwork, M!At, M!Running, M!Goto
  <2>2. Departure(m) /\ holder[l] = c
    BY <1>1, <1>2, <2>1 DEF Departure, SendHolds
  <2>3. \A d \in Client \ {c} : M!Home(d) = m => ~SendHolds(d) /\ pc[d] # "sent"
    BY <2>2 DEF Departure, SendHolds
  <2>4. sending[m] = <<>> /\ value[s] = 0
    BY <2>1, <2>2, <2>3 DEF Departure
  <2>5. pending' = [pending EXCEPT ![c] = s] /\ value' = value
    BY <2>1, <2>4 DEF M!P
  <2>6. pc'[c] = "sent" /\ pending'[c] = s
    BY <1>3, <1>4, <2>1, <2>5
  <2>7. ClientAt(c)'
    BY <2>1, <2>6 DEF ClientAt, M!Home
  <2>8. MSync' /\ \A u \in MThread \ {c} : pc'[u] = pc[u] /\ pending'[u] = pending[u]
    BY <1>1, <1>3, <1>4, <2>1, <2>5, <2>7, SyncFrame
  <2>9. /\ sending'[m] = <<c>> /\ sending' \in [Machine -> Seq(Client)]
        /\ \A n \in Machine \ {m} : sending'[n] = sending[n]
    BY <1>1, <1>2, <2>1, <2>4 DEF MType
  <2>10. x \in Mail /\ x.to \in Machine
    BY <1>2 DEF Mail
  <2>11. \/ UNCHANGED <<sock, accepted>>
         \/ /\ sock' = [sock EXCEPT ![x.to] = Append(@, x)]
            /\ accepted' = [accepted EXCEPT ![x.to] = Append(@, x)]
    BY <2>1 DEF M!NetworkSend
  <2>12. MType'
    <3>1. sock' \in [Machine -> Seq(Mail)] /\ accepted' \in [Machine -> Seq(Mail)]
      <4>1. sock \in [Machine -> Seq(Mail)] /\ accepted \in [Machine -> Seq(Mail)]
        BY <1>1 DEF MType
      <4> HIDE DEF x
      <4>2. \A r \in Seq(Mail) : Append(r, x) \in Seq(Mail)
        BY <2>10
      <4>3. PICK y \in Machine : \/ UNCHANGED <<sock, accepted>>
                                 \/ /\ sock' = [sock EXCEPT ![y] = Append(sock[y], x)]
                                    /\ accepted' = [accepted EXCEPT ![y] = Append(accepted[y], x)]
        BY <2>10, <2>11
      <4>4. sock[y] \in Seq(Mail) /\ accepted[y] \in Seq(Mail)
        BY <4>1
      <4>5. Append(sock[y], x) \in Seq(Mail) /\ Append(accepted[y], x) \in Seq(Mail)
        BY <4>2, <4>4
      <4> QED
        BY <4>1, <4>3, <4>5
    <3> QED
      BY <1>1, <2>1, <2>9, <3>1 DEF MType
  <2>13. ASSUME NEW n \in Machine PROVE Arrival(n)'
    <3>1. CASE sock'[n] = sock[n] /\ accepted'[n] = accepted[n]
      BY <1>1, <1>3, <2>1, <2>5, <2>8, <3>1, ArrivalFrame
    <3>2. CASE sock'[n] = Append(sock[n], x) /\ accepted'[n] = Append(accepted[n], x)
      <4> DEFINE i == M!InHand(n)
                 h == M!Held(inbox[n])
                 d == delivered[n]
                 k == sock[n]
      <4>1. /\ d \in Seq(Mail) /\ k \in Seq(Mail) /\ inbox[n] \in Mail \cup {NULL}
            /\ hand[n] \in Mail \cup {NULL}
        BY <1>1 DEF MType
      <4>2. pc'[M!worker(n)] = pc[M!worker(n)] /\ pending'[M!worker(n)] = pending[M!worker(n)]
        BY <1>3, <2>8
      <4>3. i \in Seq(Mail) /\ h \in Seq(Mail) /\ i' = i /\ h' = h
        BY <2>1, <4>1, <4>2 DEF M!InHand, M!Held
      <4>4. d \o i \o h \o Append(k, x) = Append(d \o i \o h \o k, x)
        <5> HIDE DEF d, i, h, k, x
        <5> QED
          BY <2>10, <4>1, <4>3, PacketSent, SMTT(60)
      <4>5. delivered'[n] \o i' \o h' \o sock'[n] = accepted'[n]
        BY <1>1, <2>1, <3>2, <4>3, <4>4 DEF Arrival
      <4> QED
        BY <1>1, <2>1, <2>5, <4>2, <4>5 DEF Arrival
    <3> QED
      BY <1>1, <2>10, <2>11, <3>1, <3>2, SMTT(60) DEF MType
  <2>14. ASSUME NEW n \in Machine PROVE Departure(n)'
    <3>1. CASE n # m
      <4>1. \A d \in Client : M!Home(d) = n => d \in MThread \ {c} /\ (d \in interrupted' <=> d \in interrupted)
        BY <1>3, <2>1, <3>1
      <4> QED
        BY <1>1, <2>1, <2>5, <2>8, <2>9, <3>1, <4>1, DepartureFrame
    <3>2. CASE n = m
      <4>1. \A d \in Client : M!Home(d)' = M!Home(d)
        BY <2>1 DEF M!Home
      <4>2. \A d \in Client \ {c} : pc'[d] = pc[d] /\ (SendHolds(d)' <=> SendHolds(d))
        BY <1>3, <2>8 DEF SendHolds
      <4>3. SendHolds(c)' /\ SendHolds(c)
        BY <2>1, <2>6 DEF SendHolds
      <4> QED
        BY <1>5, <2>1, <2>2, <2>3, <2>4, <2>5, <2>6, <2>9, <3>2, <4>1, <4>2, <4>3 DEF Departure
    <3> QED
      BY <3>1, <3>2
  <2> QED
    BY <2>8, <2>12, <2>13, <2>14 DEF MInv
<1>8. CASE M!SendReturns(c)
  <2>1. /\ pc[c] = "sent" /\ pending[c] = NULL /\ pc' = [pc EXCEPT ![c] = "receive"]
        /\ M!Release(c, l) /\ UNCHANGED <<config, sock, inbox, sending, boxes, hand, round, mail,
                                          accepted, delivered, interrupted>>
    BY <1>8 DEF M!SendReturns, M!At, M!Running, M!Goto, M!mailVars
  <2>2. /\ holder[l] = c /\ holder' = [k \in MailLock |-> holder'[k]] /\ holder'[l] = NULL
        /\ \A k \in MailLock \ {l} : holder'[k] = holder[k]
        /\ value' \in [MailSemaphore -> Nat] /\ value'[l] = value[l] + 1
        /\ \A r \in MailSemaphore \ {l} : value'[r] = value[r]
        /\ pending' = pending
    BY <1>1, <1>3, <1>5, <2>1, MailRelease
  <2>3. pc'[c] = "receive" /\ pending'[c] = NULL /\ pending' = [pending EXCEPT ![c] = NULL]
    BY <1>3, <1>4, <2>1, <2>2
  <2>4. ClientAt(c)'
    BY <2>3 DEF ClientAt
  <2>5. MSync' /\ \A u \in MThread \ {c} : pc'[u] = pc[u] /\ pending'[u] = pending[u]
    BY <1>1, <1>3, <2>1, <2>2, <2>3, <2>4, SyncFrame
  <2>6. MType'
    BY <1>1, <2>1 DEF MType
  <2>7. ASSUME NEW n \in Machine PROVE Arrival(n)'
    BY <1>1, <1>3, <1>5, <2>1, <2>2, <2>5, ArrivalFrame
  <2>8. ASSUME NEW n \in Machine PROVE Departure(n)'
    <3>1. CASE n # m
      <4>1. \A d \in Client : M!Home(d) = n => d \in MThread \ {c}
        BY <1>3, <3>1
      <4> QED
        BY <1>1, <1>5, <2>1, <2>2, <2>5, <3>1, <4>1, DepartureFrame
    <3>2. CASE n = m
      <4>1. \A d \in Client : M!Home(d)' = M!Home(d) /\ d # NULL
        BY <2>1, MailThreadNames DEF M!Home
      <4>2. \A d \in Client \ {c} : pc'[d] = pc[d] /\ (SendHolds(d)' <=> SendHolds(d))
        BY <1>3, <2>5 DEF SendHolds
      <4>3. Departure(m) /\ ~SendHolds(c)' /\ value'[s] = value[s]
        BY <1>1, <1>2, <1>5, <2>2, <2>3 DEF SendHolds
      <4>4. \A d \in Client \ {c} : M!Home(d) = m => ~SendHolds(d) /\ pc[d] # "sent"
        BY <2>2, <4>3 DEF Departure, SendHolds
      <4>5. sending[m] = <<>> /\ value[s] = 0 /\ value[l] = 0
        BY <2>1, <2>2, <4>1, <4>3 DEF Departure
      <4> QED
        BY <1>5, <2>1, <2>2, <2>3, <3>2, <4>1, <4>2, <4>3, <4>4, <4>5 DEF Departure
    <3> QED
      BY <3>1, <3>2
  <2> QED
    BY <2>5, <2>6, <2>7, <2>8 DEF MInv
<1> DEFINE b == round[c] - 1
           k == M!boxLock(m, b)
<1>9. /\ k \in {M!boxLock(m, 0), M!boxLock(m, 1)} /\ k \in MailLock /\ k \in MailSemaphore /\ k # NULL
      /\ \A n \in Machine : /\ M!messageAvailable(n) \in MailSemaphore \ {k}
                            /\ M!sendLock(n) \in MailSemaphore \ {k} /\ M!sendLock(n) \in MailLock \ {k}
                            /\ M!messageSent(n) \in MailSemaphore \ {k}
  BY <1>2, MailNames
\* A step of c at its mailbox concerns no packet under way.
<1>10. ASSUME config' = config, UNCHANGED <<sock, inbox, sending, hand, accepted, delivered, interrupted>>,
              \A u \in MThread \ {c} : pc'[u] = pc[u] /\ pending'[u] = pending[u],
              pc[c] \notin {"net", "sent"}, pc'[c] \notin {"net", "sent"},
              \A r \in MailSemaphore \ {k} : value'[r] = value[r],
              \A j \in MailLock \ {k} : holder'[j] = holder[j],
              NEW n \in Machine
       PROVE  Arrival(n)' /\ Departure(n)'
  <2>1. Arrival(n)'
    BY <1>1, <1>3, <1>9, <1>10, ArrivalFrame
  <2>2. \A d \in Client : /\ pc'[d] = "net" <=> pc[d] = "net"
                          /\ pc'[d] = "sent" <=> pc[d] = "sent"
                          /\ pc[d] \in {"net", "sent"} => pending'[d] = pending[d]
    BY <1>3, <1>10
  <2>3. Departure(n)'
    BY <1>1, <1>9, <1>10, <2>2, DepartureFrame
  <2> QED
    BY <2>1, <2>3
<1>11. CASE M!Receive(c)
  <2>1. /\ pc[c] = "receive" /\ pending[c] = NULL /\ pc' = [pc EXCEPT ![c] = "get"]
        /\ M!Acquire(c, k) /\ UNCHANGED <<config, sock, inbox, sending, boxes, hand, round, mail,
                                          accepted, delivered, interrupted>>
    BY <1>11 DEF M!Receive, M!ReceiveBox, M!At, M!Running, M!Goto, M!mailVars
  <2>2. /\ M!P(c, k) /\ holder' = [j \in MailLock |-> holder'[j]]
        /\ \A j \in MailLock \ {k} : holder'[j] = holder[j]
    BY <1>1, <1>3, <1>9, <2>1, MailAcquire
  <2>3. PICK q \in {k, NULL} :
           /\ pending' = [pending EXCEPT ![c] = q] /\ value' \in [MailSemaphore -> Nat]
           /\ \A r \in MailSemaphore \ {k} : value'[r] = value[r]
    BY <1>1, <1>3, <1>9, <2>2, MailP
  <2>4. pc'[c] = "get" /\ pending'[c] = q
    BY <1>3, <1>4, <2>1, <2>3
  <2>5. ClientAt(c)'
    BY <1>9, <2>1, <2>3, <2>4 DEF ClientAt, M!Home
  <2>6. MSync' /\ \A u \in MThread \ {c} : pc'[u] = pc[u] /\ pending'[u] = pending[u]
    BY <1>1, <1>3, <2>1, <2>2, <2>3, <2>5, SyncFrame
  <2>7. MType'
    BY <1>1, <2>1 DEF MType
  <2>8. \A n \in Machine : Arrival(n)' /\ Departure(n)'
    BY <1>10, <2>1, <2>2, <2>3, <2>4, <2>6
  <2> QED
    BY <2>6, <2>7, <2>8 DEF MInv
<1>12. CASE M!GetMail(c)
  <2>1. /\ pc[c] = "get" /\ pending[c] = NULL
        /\ UNCHANGED <<config, sock, inbox, sending, hand, accepted, delivered, interrupted>>
    BY <1>12 DEF M!GetMail, M!At, M!Running
  <2>2. CASE boxes[m][b] = <<>>
    <3>1. /\ holder' = [holder EXCEPT ![k] = NULL] /\ value' = [value EXCEPT ![k] = @ + 1]
          /\ pending' = [pending EXCEPT ![c] = k] /\ UNCHANGED <<boxes, mail, round, pc>>
      BY <1>12, <2>2 DEF M!GetMail, M!ReceiveBox, M!Wait
    <3>2. /\ holder' = [j \in MailLock |-> holder'[j]] /\ value' \in [MailSemaphore -> Nat]
          /\ \A j \in MailLock \ {k} : holder'[j] = holder[j]
          /\ \A r \in MailSemaphore \ {k} : value'[r] = value[r]
      BY <1>4, <1>9, <3>1
    <3>3. /\ pc'[c] = "get" /\ pending'[c] = k /\ pc' = [pc EXCEPT ![c] = "get"]
          /\ pending' = [pending EXCEPT ![c] = k]
      BY <1>3, <1>4, <2>1, <3>1
    <3>4. ClientAt(c)'
      BY <1>9, <2>1, <3>3 DEF ClientAt, M!Home
    <3>5. MSync' /\ \A u \in MThread \ {c} : pc'[u] = pc[u] /\ pending'[u] = pending[u]
      <4> HIDE DEF k
      <4> QED
        BY <1>1, <1>3, <2>1, <3>2, <3>3, <3>4, SyncFrame, ZenonT(60)
    <3>6. MType'
      BY <1>1, <2>1, <3>1 DEF MType
    <3>7. \A n \in Machine : Arrival(n)' /\ Departure(n)'
      BY <1>10, <2>1, <3>2, <3>3, <3>5
    <3> QED
      BY <3>5, <3>6, <3>7 DEF MInv
  <2>3. CASE boxes[m][b] # <<>>
    <3>1. /\ mail' = [mail EXCEPT ![c] = Head(boxes[m][b])]
          /\ boxes' = [boxes EXCEPT ![m][b] = Tail(@)] /\ M!Release(c, k) /\ M!GotMail(c)
      BY <1>12, <2>3 DEF M!GetMail, M!ReceiveBox
    <3>2. /\ holder' = [j \in MailLock |-> holder'[j]] /\ value' \in [MailSemaphore -> Nat]
          /\ \A j \in MailLock \ {k} : holder'[j] = holder[j]
          /\ \A r \in MailSemaphore \ {k} : value'[r] = value[r]
          /\ pending' = pending
      BY <1>1, <1>3, <1>9, <3>1, MailRelease
    <3>3. PICK loc \in {"send", "done"} : pc' = [pc EXCEPT ![c] = loc]
      BY <3>1 DEF M!GotMail, M!Goto
    <3>4. pc'[c] = loc /\ pending'[c] = NULL /\ pending' = [pending EXCEPT ![c] = NULL]
      BY <1>3, <1>4, <2>1, <3>2, <3>3
    <3>5. ClientAt(c)'
      BY <3>3, <3>4 DEF ClientAt
    <3>6. MSync' /\ \A u \in MThread \ {c} : pc'[u] = pc[u] /\ pending'[u] = pending[u]
      BY <1>1, <1>3, <2>1, <3>2, <3>3, <3>4, <3>5, SyncFrame
    <3>7. boxes[m][b] \in Seq(Mail) /\ Head(boxes[m][b]) \in Mail /\ Tail(boxes[m][b]) \in Seq(Mail)
      BY <1>1, <1>2, <2>3 DEF MType
    <3>8. boxes' \in [Machine -> [{0, 1} -> Seq(Mail)]]
      BY <1>1, <1>2, <3>1, <3>7 DEF MType
    <3>9. /\ mail' \in [Client -> Mail \cup {NULL}] /\ round' \in [Client -> {1, 2}]
          /\ \A d \in Client : round'[d] = 2 => mail'[d] \in Mail
      <4>1. mail'[c] \in Mail /\ (\A d \in Client \ {c} : mail'[d] = mail[d] /\ round'[d] = round[d])
        BY <1>1, <3>1, <3>7 DEF MType, M!GotMail
      <4>2. mail' \in [Client -> Mail \cup {NULL}] /\ round' \in [Client -> {1, 2}]
        BY <1>1, <3>1, <3>7 DEF MType, M!GotMail
      <4> QED
        BY <1>1, <4>1, <4>2 DEF MType
    <3>10. MType'
      BY <1>1, <2>1, <3>8, <3>9 DEF MType
    <3>11. \A n \in Machine : Arrival(n)' /\ Departure(n)'
      BY <1>10, <2>1, <3>2, <3>3, <3>4, <3>6
    <3> QED
      BY <3>6, <3>10, <3>11 DEF MInv
  <2> QED
    BY <2>2, <2>3
<1> QED
  BY <1>6, <1>7, <1>8, <1>11, <1>12

\* A thread that goes round the loop of its P().
LEMMA MailRetry ==
  ASSUME MInv, NEW m \in Machine, NEW t \in MThread, M!OnMachine(t, m), M!Retry(t)
  PROVE  MInv'
<1> DEFINE p == pending[t]
<1>1. MSync /\ MType /\ \A n \in Machine : Arrival(n) /\ Departure(n)
  BY DEF MInv
<1>2. /\ value \in [MailSemaphore -> Nat] /\ holder = [k \in MailLock |-> holder[k]]
      /\ pending = [u \in MThread |-> pending[u]] /\ pc = [u \in MThread |-> pc[u]]
  BY <1>1 DEF MSync
<1>3. /\ p # NULL /\ M!P(t, p)
      /\ p \in MailLock => M!Acquire(t, p)
      /\ p \notin MailLock => holder' = holder
      /\ UNCHANGED <<config, sock, inbox, sending, boxes, hand, round, mail,
                     accepted, delivered, interrupted, pc>>
  BY DEF M!Retry, M!Resume, M!Acquire, M!mailVars
<1>4. MType'
  BY <1>1, <1>3 DEF MType
<1>5. \/ t = M!worker(m) /\ p = M!messageAvailable(m) /\ pc[t] = "avail"
      \/ t = M!worker(m) /\ p \in {M!boxLock(m, 0), M!boxLock(m, 1)} /\ pc[t] = "put"
      \/ t \in Client /\ M!Home(t) = m /\ p = M!sendLock(m) /\ pc[t] = "net"
      \/ t \in Client /\ M!Home(t) = m /\ p = M!messageSent(m) /\ pc[t] = "sent"
      \/ t \in Client /\ M!Home(t) = m /\ p \in {M!boxLock(m, 0), M!boxLock(m, 1)} /\ pc[t] = "get"
  <2>1. CASE t = M!worker(m)
    <3>1. WorkerAt(m)
      BY <1>1 DEF MSync
    <3> QED
      BY <1>3, <2>1, <3>1 DEF WorkerAt
  <2>2. CASE t \in Client /\ M!Home(t) = m
    <3>1. ClientAt(t)
      BY <1>1, <2>2 DEF MSync
    <3> QED
      BY <1>3, <2>2, <3>1 DEF ClientAt
  <2> QED
    BY <2>1, <2>2 DEF M!OnMachine
<1>6. p \in MailSemaphore
  BY <1>5, MailNames
<1>7. PICK q \in {p, NULL} :
         /\ pending' = [pending EXCEPT ![t] = q] /\ value' \in [MailSemaphore -> Nat]
         /\ \A r \in MailSemaphore \ {p} : value'[r] = value[r]
         /\ q = p => value[p] = 0 /\ value'[p] = 0
         /\ q = NULL => value[p] # 0 /\ value'[p] = value[p] - 1
  BY <1>1, <1>3, <1>6, MailP
<1>8. /\ holder' = [k \in MailLock |-> holder'[k]]
      /\ \A k \in MailLock \ {p} : holder'[k] = holder[k]
      /\ p \in MailLock => holder'[p] = IF value[p] = 0 THEN holder[p] ELSE t
  <2>1. CASE p \in MailLock
    BY <1>1, <1>3, <2>1, MailAcquire
  <2>2. CASE p \notin MailLock
    BY <1>2, <1>3, <2>2
  <2> QED
    BY <2>1, <2>2
<1>9. pc' = [pc EXCEPT ![t] = pc[t]] /\ pc'[t] = pc[t] /\ pending'[t] = q
  BY <1>2, <1>3, <1>7
<1>10. /\ t \in Client => ClientAt(t)'
       /\ \A n \in Machine : t = M!worker(n) => WorkerAt(n)'
  <2>1. t \in Client => ClientAt(t)'
    <3> SUFFICES ASSUME t \in Client PROVE ClientAt(t)'
      OBVIOUS
    <3>1. ClientAt(t) /\ M!Home(t)' = M!Home(t)
      BY <1>1, <1>3 DEF MSync, M!Home
    <3> QED
      BY <1>7, <1>9, <3>1 DEF ClientAt
  <2>2. ASSUME NEW n \in Machine, t = M!worker(n) PROVE WorkerAt(n)'
    <3>1. WorkerAt(n)
      BY <1>1 DEF MSync
    <3> QED
      BY <1>7, <1>9, <2>2, <3>1 DEF WorkerAt
  <2> QED
    BY <2>1, <2>2
<1>11. MSync' /\ \A u \in MThread \ {t} : pc'[u] = pc[u] /\ pending'[u] = pending[u]
  BY <1>1, <1>3, <1>7, <1>8, <1>9, <1>10, SyncFrame
<1> HIDE DEF p
<1>12. ASSUME NEW n \in Machine PROVE Arrival(n)'
  <2> DEFINE w == M!worker(n)
  <2>1. CASE p # M!messageAvailable(n)
    <3>1. value'[M!messageAvailable(n)] = value[M!messageAvailable(n)]
      BY <1>7, <2>1, MailNames
    <3>2. CASE t # w
      <4>1. pc'[w] = pc[w] /\ pending'[w] = pending[w]
        BY <1>11, <3>2, MailThreadNames
      <4> QED
        BY <1>1, <1>3, <3>1, <4>1, ArrivalFrame
    <3>3. CASE t = w
      <4>1. n = m /\ pc[w] # "avail"
        BY <1>5, <2>1, <3>3, MailThreadNames
      <4>2. M!InHand(n)' = M!InHand(n) /\ M!Held(inbox[n])' = M!Held(inbox[n])
        BY <1>3 DEF M!InHand, M!Held
      <4> QED
        BY <1>1, <1>3, <3>1, <4>1, <4>2 DEF Arrival
    <3> QED
      BY <3>2, <3>3
  <2>2. CASE p = M!messageAvailable(n)
    <3>1. n = m /\ t = w /\ pc[w] = "avail"
      BY <1>5, <2>2, MailNames
    <3>2. M!InHand(n)' = M!InHand(n) /\ M!Held(inbox[n])' = M!Held(inbox[n])
      BY <1>3 DEF M!InHand, M!Held
    <3>3. value[p] \in Nat /\ pending[w] # NULL
      BY <1>2, <1>3, <1>6, <3>1 DEF p
    <3>4. value'[p] + (IF pc'[w] = "avail" /\ pending'[w] = NULL THEN 1 ELSE 0) = value[p]
      BY <1>3, <1>7, <1>9, <3>1, <3>3
    <3>5. value[p] = IF inbox[n] = NULL THEN 0 ELSE 1
      <4>1. value[M!messageAvailable(n)] + (IF pc[w] = "avail" /\ pending[w] = NULL THEN 1 ELSE 0)
              = IF inbox[n] = NULL THEN 0 ELSE 1
        BY <1>1 DEF Arrival
      <4> QED
        BY <2>2, <3>3, <4>1
    <3> QED
      BY <1>1, <1>3, <2>2, <3>1, <3>2, <3>4, <3>5 DEF Arrival
  <2> QED
    BY <2>1, <2>2
<1>13. ASSUME NEW n \in Machine PROVE Departure(n)'
  <2> DEFINE l == M!sendLock(n)
             s == M!messageSent(n)
  <2>1. /\ l \in MailLock /\ l \in MailSemaphore /\ s \in MailSemaphore /\ s \notin MailLock /\ s # l
    BY MailNames
  <2>2. Departure(n) /\ \A d \in Client : M!Home(d)' = M!Home(d) /\ d # NULL /\ d \in MThread
    BY <1>1, <1>3, MailThreadNames DEF M!Home
  <2>3. CASE p \notin {l, s}
    <3>1. \A d \in Client : M!Home(d) = n /\ pc[d] \in {"net", "sent"} => d \in MThread \ {t}
      BY <1>5, <2>2, <2>3, MailThreadNames
    <3>2. /\ value'[l] = value[l] /\ value'[s] = value[s] /\ holder'[l] = holder[l]
      BY <1>7, <1>8, <2>1, <2>3
    <3> QED
      BY <1>3, <1>11, <2>2, <3>1, <3>2, DepartureFrame
  <2>4. CASE p = l
    <3>1. t \in Client /\ M!Home(t) = n /\ n = m /\ pc[t] = "net" /\ pending[t] = l
      BY <1>5, <2>1, <2>4, MailNames DEF p
    <3>2. \A d \in Client \ {t} : pc'[d] = pc[d] /\ pending'[d] = pending[d]
                                  /\ (SendHolds(d)' <=> SendHolds(d))
      BY <1>11, <2>2 DEF SendHolds
    <3>3. ~SendHolds(t) /\ (SendHolds(t)' <=> q = NULL)
      BY <1>3, <1>9, <3>1 DEF SendHolds, p
    <3>4. value'[s] = value[s] /\ value[l] \in Nat
      BY <1>2, <1>7, <2>1, <2>4
    <3>5. holder[l] # t
      BY <2>2, <3>1, <3>3 DEF Departure
    <3>6. CASE q = l
      <4>1. holder[l] # NULL /\ holder'[l] = holder[l] /\ value'[l] = value[l]
        BY <1>7, <1>8, <2>1, <2>2, <2>4, <3>4, <3>6 DEF Departure
      <4>2. q # NULL
        BY <1>3, <2>4, <3>6 DEF p
      <4> QED
        BY <1>3, <1>9, <2>2, <3>1, <3>2, <3>3, <3>4, <3>5, <4>1, <4>2 DEF Departure
    <3>7. CASE q = NULL
      <4>1. holder[l] = NULL /\ holder'[l] = t /\ value'[l] = 0
        BY <1>7, <1>8, <2>1, <2>2, <2>4, <3>4, <3>7 DEF Departure
      <4> QED
        BY <1>3, <1>9, <2>2, <3>1, <3>2, <3>3, <3>4, <3>5, <3>7, <4>1 DEF Departure
    <3> QED
      BY <1>7, <2>4, <3>6, <3>7
  <2>5. CASE p = s
    <3>1. t \in Client /\ M!Home(t) = n /\ n = m /\ pc[t] = "sent" /\ pending[t] # NULL
      BY <1>3, <1>5, <2>1, <2>5, MailNames DEF p
    <3>2. \A d \in Client \ {t} : pc'[d] = pc[d] /\ pending'[d] = pending[d]
                                  /\ (SendHolds(d)' <=> SendHolds(d))
      BY <1>11, <2>2 DEF SendHolds
    <3>3. SendHolds(t) /\ SendHolds(t)' /\ pc'[t] = "sent"
      BY <1>9, <3>1 DEF SendHolds
    <3>4. value'[l] = value[l] /\ holder'[l] = holder[l] /\ value[s] \in Nat
      BY <1>2, <1>7, <1>8, <2>1, <2>5
    <3>5. \A d \in Client \ {t} : M!Home(d) = n => pc[d] # "sent"
      BY <2>2, <3>1, <3>3 DEF Departure, SendHolds
    <3>6. CASE q = s
      <4>1. value'[s] = value[s] /\ pending'[t] # NULL
        BY <1>3, <1>7, <1>9, <2>5, <3>6 DEF p
      <4> QED
        BY <1>3, <2>2, <3>1, <3>2, <3>3, <3>4, <3>5, <4>1 DEF Departure
    <3>7. CASE q = NULL
      <4>1. value[s] # 0 /\ value'[s] = value[s] - 1 /\ pending'[t] = NULL
        BY <1>7, <1>9, <2>5, <3>7
      <4>2. sending[n] = <<>> /\ value'[s] = 0 /\ t \in interrupted
        BY <2>2, <3>1, <3>4, <4>1 DEF Departure
      <4> QED
        BY <1>3, <2>2, <3>1, <3>2, <3>3, <3>4, <3>5, <4>1, <4>2 DEF Departure
    <3> QED
      BY <1>7, <2>5, <3>6, <3>7
  <2> QED
    BY <2>3, <2>4, <2>5
<1> QED
  BY <1>4, <1>11, <1>12, <1>13 DEF MInv

-----------------------------------------------------------------------------
(* What MailTest acknowledges *)

\* The client has sent its acknowledgement.
Acked(c) == round[c] = 2 /\ pc[c] \in {"sent", "receive", "get", "done"}

\* What a packet that the network took for machine m says is so: a message is to the
\* machine its client writes to, and an acknowledgement is from that machine.
Genuine(p, m) ==
  /\ p.to = m /\ p.from = M!Home(p.by)
  /\ p.box = 0 => config.far[p.by] = m
  /\ p.box = 1 => /\ p.re \in Client /\ M!Home(p.re) = m
                  /\ config.far[p.re] = p.from /\ Acked(p.by)

\* The last mail of client c came from the network, into mailbox b.
Got(c, b) == mail[c] \in Range(delivered[M!Home(c)]) /\ mail[c].box = b

\* Every packet is genuine, a mailbox holds what was delivered for it, a client has
\* the message it answers or the acknowledgement it halted for, and only a client that
\* is done has halted its machine.
PostInv ==
  /\ \A m \in Machine : \A p \in Range(accepted[m]) : Genuine(p, m)
  /\ \A m \in Machine, b \in {0, 1} :
       \A p \in Range(boxes[m][b]) : p \in Range(delivered[m]) /\ p.box = b
  /\ \A c \in Client : /\ round[c] = 2 /\ pc[c] # "done" => Got(c, 0)
                       /\ pc[c] = "done" => round[c] = 2 /\ Got(c, 1)
  /\ \A m \in halted : \E c \in Client : M!Home(c) = m /\ pc[c] = "done"

\* What was delivered was accepted by the network.
LEMMA DeliveredAccepted ==
  ASSUME NEW m \in Machine, MType, Arrival(m)
  PROVE  Range(delivered[m]) \subseteq Range(accepted[m])
<1> DEFINE d == delivered[m]
           i == M!InHand(m)
           b == M!Held(inbox[m])
           k == sock[m]
<1>1. d \in Seq(Mail) /\ k \in Seq(Mail)
  BY DEF MType
<1>2. b \in Seq(Mail)
  BY DEF MType, M!Held
<1>3. i \in Seq(Mail)
  BY DEF MType, M!Held, M!InHand
<1>4. accepted[m] = d \o i \o b \o k
  BY DEF Arrival
<1> HIDE DEF d, i, b, k
<1>5. ASSUME NEW x \in DOMAIN d PROVE d[x] \in Range(d \o i \o b \o k)
  <2>1. x \in DOMAIN (d \o i \o b \o k) /\ (d \o i \o b \o k)[x] = d[x]
    BY <1>1, <1>2, <1>3, <1>5
  <2> QED
    BY <2>1 DEF Range
<1> QED
  BY <1>4, <1>5 DEF Range, d

\* A packet stays genuine while acknowledgements are not taken back.
LEMMA GenuineStays ==
  ASSUME NEW p, NEW m, p.by \in Client, Genuine(p, m), config' = config,
         \A c \in Client : Acked(c) => Acked(c)'
  PROVE  Genuine(p, m)'
<1>1. \A c : M!Home(c)' = M!Home(c)
  BY DEF M!Home
<1> QED
  BY <1>1 DEF Genuine

\* The mail of a client is a genuine packet to its machine.
LEMMA MailGenuine ==
  ASSUME MInv, PostInv, NEW c \in Client, NEW b \in {0, 1}, Got(c, b)
  PROVE  Genuine(mail[c], M!Home(c)) /\ mail[c] \in Mail /\ mail[c].box = b
<1>1. M!Home(c) \in Machine
  BY PacketType DEF MInv
<1>2. mail[c] \in Range(accepted[M!Home(c)])
  BY <1>1, DeliveredAccepted DEF MInv, Got
<1>3. accepted[M!Home(c)] \in Seq(Mail)
  BY <1>1 DEF MInv, MType
<1>4. mail[c] \in Mail
  BY <1>2, <1>3 DEF Range
<1> QED
  BY <1>1, <1>2, <1>4 DEF PostInv, Got

\* A step that moves no mail keeps PostInv.
LEMMA PostFrame ==
  ASSUME MType, PostInv,
         UNCHANGED <<config, accepted, delivered, boxes, mail, round, halted>>,
         \A c \in Client : (Acked(c) => Acked(c)') /\ (pc'[c] = "done" <=> pc[c] = "done")
  PROVE  PostInv'
<1>1. ASSUME NEW m \in Machine, NEW p \in Range(accepted[m]) PROVE Genuine(p, m)'
  <2>1. accepted[m] \in Seq(Mail)
    BY <1>1 DEF MType
  <2>2. p \in Mail
    BY <1>1, <2>1 DEF Range
  <2>3. p.by \in Client
    BY <2>2 DEF Mail
  <2> QED
    BY <1>1, <2>3, GenuineStays DEF PostInv
<1>2. \A c : M!Home(c)' = M!Home(c)
  BY DEF M!Home
<1>3. \A c \in Client, b \in {0, 1} : Got(c, b)' <=> Got(c, b)
  BY <1>2 DEF Got
<1> QED
  BY <1>1, <1>2, <1>3 DEF PostInv

\* The postal worker puts its packet into the mailbox and delivers it at once.
LEMMA PostWorker ==
  ASSUME MInv, PostInv, NEW m \in Machine,
         M!AwaitPacket(m) \/ M!TakePacket(m) \/ M!PutMail(m) \/ M!PutDone(m)
  PROVE  PostInv'
<1> DEFINE w == M!worker(m)
           h == hand[m]
<1>1. MType /\ pc = [t \in MThread |-> pc[t]] /\ w \in MThread \ Client
  BY MailThreadNames DEF MInv, MSync
<1>2. \E loc : pc' = [pc EXCEPT ![w] = loc]
  BY DEF M!AwaitPacket, M!TakePacket, M!PutMail, M!PutDone, M!Goto
<1>3. \A c \in Client : pc'[c] = pc[c]
  BY <1>1, <1>2
<1>4. UNCHANGED <<config, accepted, mail, round, halted>>
  BY DEF M!AwaitPacket, M!TakePacket, M!PutMail, M!PutDone, M!mailVars
<1>5. \A c \in Client : Acked(c)' <=> Acked(c)
  BY <1>3, <1>4 DEF Acked
<1>6. CASE M!AwaitPacket(m) \/ M!TakePacket(m) \/ M!PutDone(m)
  <2>1. UNCHANGED <<delivered, boxes>>
    BY <1>6 DEF M!AwaitPacket, M!TakePacket, M!PutDone, M!mailVars
  <2> QED
    BY <1>1, <1>3, <1>4, <1>5, <2>1, PostFrame
<1>7. CASE M!PutMail(m)
  <2>1. /\ pc[w] = "put" /\ boxes' = [boxes EXCEPT ![m][h.box] = Append(@, h)]
        /\ delivered' = [delivered EXCEPT ![m] = Append(@, h)]
    BY <1>7 DEF M!PutMail, M!At
  <2>2. h \in Mail /\ h.box \in {0, 1}
    <3>1. h \in Mail
      BY <2>1 DEF MInv, Arrival
    <3> QED
      BY <3>1 DEF Mail
  <2>3. delivered[m] \in Seq(Mail) /\ \A b \in {0, 1} : boxes[m][b] \in Seq(Mail)
    BY <1>1 DEF MType
  <2>4. /\ delivered'[m] = Append(delivered[m], h)
        /\ \A n \in Machine \ {m} : delivered'[n] = delivered[n] /\ boxes'[n] = boxes[n]
        /\ boxes'[m][h.box] = Append(boxes[m][h.box], h)
        /\ \A b \in {0, 1} \ {h.box} : boxes'[m][b] = boxes[m][b]
    BY <1>1, <2>1, <2>2 DEF MType
  <2>5. /\ Range(delivered'[m]) = Range(delivered[m]) \cup {h}
        /\ Range(boxes'[m][h.box]) = Range(boxes[m][h.box]) \cup {h}
    BY <2>2, <2>3, <2>4, RangeOfAppend
  <2>6. \A n \in Machine : Range(delivered[n]) \subseteq Range(delivered'[n])
    BY <2>4, <2>5
  <2>7. ASSUME NEW n \in Machine, NEW b \in {0, 1}, NEW p \in Range(boxes'[n][b])
        PROVE  p \in Range(delivered'[n]) /\ p.box = b
    <3>1. CASE p \in Range(boxes[n][b])
      BY <2>6, <3>1 DEF PostInv
    <3>2. CASE p \notin Range(boxes[n][b])
      <4>1. n = m /\ b = h.box /\ p = h
        BY <2>4, <2>5, <2>7, <3>2
      <4> QED
        BY <2>5, <4>1
    <3> QED
      BY <3>1, <3>2
  <2>8. ASSUME NEW n \in Machine, NEW p \in Range(accepted[n]) PROVE Genuine(p, n)'
    <3>1. accepted[n] \in Seq(Mail)
      BY <1>1 DEF MType
    <3>2. p \in Mail
      BY <2>8, <3>1 DEF Range
    <3>3. p.by \in Client
      BY <3>2 DEF Mail
    <3> QED
      BY <1>4, <1>5, <2>8, <3>3, GenuineStays DEF PostInv
  <2>9. \A c \in Client : M!Home(c)' = M!Home(c) /\ M!Home(c) \in Machine
    BY <1>1, <1>4, PacketType DEF M!Home
  <2>10. \A c \in Client, b \in {0, 1} : Got(c, b) => Got(c, b)'
    BY <1>4, <2>6, <2>9 DEF Got
  <2> QED
    BY <1>3, <1>4, <2>7, <2>8, <2>9, <2>10 DEF PostInv
<1> QED
  BY <1>6, <1>7

\* What the network takes from a client is genuine: its message goes where it writes to,
\* and its acknowledgement to where the message it answers came from.
LEMMA PostSends ==
  ASSUME MInv, PostInv, NEW c \in Client, M!GiveToNetwork(c)
  PROVE  PostInv'
<1>1. MType /\ pc = [t \in MThread |-> pc[t]] /\ c \in MThread
  BY MailThreadNames DEF MInv, MSync
<1>2. PICK p \in Mail : p = M!Packet(c)
  BY <1>1, PacketType
<1>3. PICK n \in Machine : n = p.to /\ p.by \in Client
  BY DEF Mail
<1>4. /\ pc[c] = "net" /\ pc' = [pc EXCEPT ![c] = "sent"]
      /\ UNCHANGED <<config, boxes, delivered, mail, round, halted>>
      /\ accepted' = [accepted EXCEPT ![n] = Append(@, p)] \/ accepted' = accepted
  BY <1>2, <1>3 DEF M!GiveToNetwork, M!NetworkSend, M!At, M!Goto
<1>5. pc'[c] = "sent" /\ \A d \in Client \ {c} : pc'[d] = pc[d]
  BY <1>1, <1>4, MailThreadNames
<1>6. \A d \in Client : (Acked(d) => Acked(d)') /\ (pc'[d] = "done" <=> pc[d] = "done")
  BY <1>4, <1>5 DEF Acked
<1>7. \A d : M!Home(d)' = M!Home(d)
  BY <1>4 DEF M!Home
<1>8. Genuine(p, n)'
  <2>1. CASE round[c] = 1
    <3>1. p.from = M!Home(c) /\ n = config.far[c] /\ p.box = 0 /\ p.by = c
      BY <1>2, <1>3, <2>1 DEF M!Packet
    <3> QED
      BY <1>4, <1>3, <1>7, <3>1 DEF Genuine
  <2>2. CASE round[c] = 2
    <3>1. /\ p.from = M!Home(c) /\ n = mail[c].from /\ p.box = mail[c].reply
          /\ p.by = c /\ p.re = mail[c].by
      BY <1>2, <1>3, <2>2 DEF M!Packet
    <3>2. Genuine(mail[c], M!Home(c)) /\ mail[c] \in Mail /\ mail[c].box = 0
      BY <1>4, <2>2, MailGenuine DEF PostInv
    <3>3. p.box = 1 /\ p.re \in Client
      BY <3>1, <3>2 DEF Mail
    <3>4. M!Home(p.re) = n /\ config.far[p.re] = p.from
      BY <3>1, <3>2 DEF Genuine
    <3>5. Acked(p.by)'
      BY <1>4, <1>5, <2>2, <3>1 DEF Acked
    <3> QED
      BY <1>4, <1>3, <1>7, <3>1, <3>3, <3>4, <3>5 DEF Genuine
  <2> QED
    BY <1>1, <2>1, <2>2 DEF MType
<1>9. ASSUME NEW m \in Machine, NEW q \in Range(accepted'[m]) PROVE Genuine(q, m)'
  <2>1. accepted[m] \in Seq(Mail) /\ accepted \in [Machine -> Seq(Mail)]
    BY <1>1 DEF MType
  <2>2. CASE q \in Range(accepted[m])
    <3>1. q \in Mail
      BY <2>1, <2>2 DEF Range
    <3>2. q.by \in Client
      BY <3>1 DEF Mail
    <3> QED
      BY <1>4, <1>6, <2>2, <3>2, GenuineStays DEF PostInv
  <2>3. CASE q \notin Range(accepted[m])
    <3>1. accepted' = [accepted EXCEPT ![n] = Append(@, p)] /\ m = n
      BY <1>4, <1>3, <1>9, <2>1, <2>3
    <3>2. accepted'[m] = Append(accepted[m], p)
      BY <1>3, <2>1, <3>1
    <3>3. Range(accepted'[m]) = Range(accepted[m]) \cup {p}
      BY <1>2, <2>1, <3>2, RangeOfAppend
    <3> QED
      BY <1>8, <1>9, <2>3, <3>1, <3>3
  <2> QED
    BY <2>2, <2>3
<1>10. \A d \in Client, b \in {0, 1} : Got(d, b)' <=> Got(d, b)
  BY <1>4, <1>7 DEF Got
<1> QED
  BY <1>4, <1>6, <1>7, <1>9, <1>10 DEF PostInv

\* What a client takes from its mailbox was delivered for it: the message it then
\* answers, or the acknowledgement for which it halts its machine.
LEMMA PostReceives ==
  ASSUME MInv, PostInv, NEW c \in Client, M!GetMail(c)
  PROVE  PostInv'
<1>1. MType /\ pc = [t \in MThread |-> pc[t]] /\ c \in MThread
  BY MailThreadNames DEF MInv, MSync
<1>2. PICK m \in Machine, b \in {0, 1} : m = M!Home(c) /\ b = round[c] - 1
  BY <1>1, PacketType DEF MType
<1>3. pc[c] = "get" /\ UNCHANGED <<config, accepted, delivered, halted>>
  BY DEF M!GetMail, M!At
<1>4. ASSUME UNCHANGED <<boxes, mail, round, pc>> PROVE PostInv'
  <2>1. \A d \in Client : Acked(d)' <=> Acked(d)
    BY <1>4 DEF Acked
  <2> QED
    BY <1>1, <1>3, <1>4, <2>1, PostFrame
<1>5. ASSUME boxes[m][b] # <<>>, mail' = [mail EXCEPT ![c] = Head(boxes[m][b])],
             boxes' = [boxes EXCEPT ![m][b] = Tail(@)], M!GotMail(c)
      PROVE  PostInv'
  <2> DEFINE p == Head(boxes[m][b])
             loc == IF round[c] = 1 THEN "send" ELSE "done"
  <2>1. /\ round' = [round EXCEPT ![c] = 2] /\ pc' = [pc EXCEPT ![c] = loc]
    <3>1. round = [round EXCEPT ![c] = round[c]] /\ round[c] \in {1, 2}
      BY <1>1 DEF MType
    <3> QED
      BY <1>2, <1>5, <3>1 DEF M!GotMail, M!Goto
  <2>2. /\ round'[c] = 2 /\ pc'[c] = loc /\ mail'[c] = p
        /\ \A d \in Client \ {c} : /\ round'[d] = round[d] /\ pc'[d] = pc[d]
                                   /\ mail'[d] = mail[d]
    BY <1>1, <1>5, <2>1, MailThreadNames DEF MType
  <2>3. boxes \in [Machine -> [{0, 1} -> Seq(Mail)]] /\ round[c] \in {1, 2}
    BY <1>1 DEF MType
  <2>4. /\ p \in Range(boxes[m][b]) /\ Range(Tail(boxes[m][b])) \subseteq Range(boxes[m][b])
    BY <1>5, <2>3, RangeOfTail
  <2>5. \A n \in Machine, a \in {0, 1} : Range(boxes'[n][a]) \subseteq Range(boxes[n][a])
    BY <1>5, <2>3, <2>4
  <2>6. p \in Range(delivered[m]) /\ p.box = b
    BY <2>4 DEF PostInv
  <2>7. \A d \in Client : Acked(d) => Acked(d)'
    BY <1>3, <2>2, <2>3 DEF Acked
  <2>8. \A d : M!Home(d)' = M!Home(d)
    BY <1>3 DEF M!Home
  <2>9. ASSUME NEW n \in Machine, NEW q \in Range(accepted[n]) PROVE Genuine(q, n)'
    <3>1. accepted[n] \in Seq(Mail)
      BY <1>1 DEF MType
    <3>2. q \in Mail
      BY <2>9, <3>1 DEF Range
    <3>3. q.by \in Client
      BY <3>2 DEF Mail
    <3> QED
      BY <1>3, <2>7, <2>9, <3>3, GenuineStays DEF PostInv
  <2>10. ASSUME NEW d \in Client
         PROVE  /\ round'[d] = 2 /\ pc'[d] # "done" => Got(d, 0)'
                /\ pc'[d] = "done" => round'[d] = 2 /\ Got(d, 1)'
    <3>1. CASE d = c
      <4>1. Got(c, b)'
        BY <1>2, <1>3, <2>2, <2>6, <2>8 DEF Got
      <4> QED
        BY <1>2, <2>2, <2>3, <3>1, <4>1
    <3>2. CASE d # c
      <4>1. \A a \in {0, 1} : Got(d, a)' <=> Got(d, a)
        BY <1>3, <2>2, <2>8, <3>2 DEF Got
      <4> QED
        BY <2>2, <3>2, <4>1 DEF PostInv
    <3> QED
      BY <3>1, <3>2
  <2>11. ASSUME NEW n \in halted' PROVE \E d \in Client : M!Home(d)' = n /\ pc'[d] = "done"
    <3>1. PICK d \in Client : M!Home(d) = n /\ pc[d] = "done"
      BY <1>3, <2>11 DEF PostInv
    <3>2. d # c
      BY <1>3, <3>1
    <3> QED
      BY <2>2, <2>8, <3>1, <3>2
  <2>12. \A n \in Machine, a \in {0, 1} :
           \A q \in Range(boxes'[n][a]) : q \in Range(delivered'[n]) /\ q.box = a
    BY <1>3, <2>5 DEF PostInv
  <2> QED
    BY <1>3, <2>9, <2>10, <2>11, <2>12 DEF PostInv
<1> QED
  BY <1>2, <1>4, <1>5 DEF M!GetMail, M!ReceiveBox

\* A client that halts its machine has received its acknowledgement.
LEMMA PostHalts ==
  ASSUME MInv, PostInv, NEW c \in Client, M!Halt(c)
  PROVE  MInv' /\ PostInv'
<1>1. /\ pc[c] = "done" /\ halted' = halted \cup {M!Home(c)}
      /\ UNCHANGED <<value, holder, pending, pc, config, sock, inbox, sending, boxes, hand,
                     round, mail, accepted, delivered, interrupted>>
  BY DEF M!Halt, M!At, M!synchVars
<1>2. MInv'
  BY <1>1, MailStutter
<1>3. \A d : M!Home(d)' = M!Home(d)
  BY <1>1 DEF M!Home
<1>4. \A d \in Client, b \in {0, 1} : Got(d, b)' <=> Got(d, b)
  BY <1>1, <1>3 DEF Got
<1>5. \A d \in Client : Acked(d) => Acked(d)'
  BY <1>1 DEF Acked
<1>6. ASSUME NEW m \in Machine, NEW p \in Range(accepted[m]) PROVE Genuine(p, m)'
  <2>1. accepted[m] \in Seq(Mail)
    BY <1>6 DEF MInv, MType
  <2>2. p \in Mail
    BY <1>6, <2>1 DEF Range
  <2>3. p.by \in Client
    BY <2>2 DEF Mail
  <2> QED
    BY <1>1, <1>5, <1>6, <2>3, GenuineStays DEF PostInv
<1>7. \A m \in halted' : \E d \in Client : M!Home(d)' = m /\ pc'[d] = "done"
  BY <1>1, <1>3 DEF PostInv
<1> QED
  BY <1>1, <1>2, <1>4, <1>6, <1>7 DEF PostInv

\* The other steps of MailTest move no mail.
LEMMA PostOthers ==
  ASSUME MInv, PostInv,
         \/ \E c \in Client : M!Send(c) \/ M!SendReturns(c) \/ M!Receive(c)
         \/ \E t \in MThread : M!Retry(t)
         \/ \E m \in Machine : M!CheckPktAvail(m) \/ M!SendDone(m)
  PROVE  PostInv'
<1>1. MType /\ pc = [t \in MThread |-> pc[t]]
  BY DEF MInv, MSync
<1>2. UNCHANGED <<config, accepted, delivered, boxes, mail, round, halted>>
  BY DEF M!Send, M!SendReturns, M!Receive, M!Retry, M!CheckPktAvail, M!SendDone, M!mailVars
<1>3. \/ UNCHANGED pc
      \/ \E c \in Client :
           \/ pc[c] = "send" /\ pc' = [pc EXCEPT ![c] = "net"]
           \/ pc[c] = "sent" /\ pc' = [pc EXCEPT ![c] = "receive"]
           \/ pc[c] = "receive" /\ pc' = [pc EXCEPT ![c] = "get"]
  BY DEF M!Send, M!SendReturns, M!Receive, M!Retry, M!CheckPktAvail, M!SendDone,
         M!At, M!Goto
<1>4. CASE UNCHANGED pc
  BY <1>1, <1>2, <1>4, PostFrame DEF Acked
<1>5. ASSUME NEW c \in Client, NEW loc, pc' = [pc EXCEPT ![c] = loc],
             \/ pc[c] = "send" /\ loc = "net"
             \/ pc[c] = "sent" /\ loc = "receive"
             \/ pc[c] = "receive" /\ loc = "get"
      PROVE  PostInv'
  <2>1. pc'[c] = loc /\ \A d \in Client \ {c} : pc'[d] = pc[d]
    BY <1>1, <1>5, MailThreadNames
  <2>2. \A d \in Client : (Acked(d) => Acked(d)') /\ (pc'[d] = "done" <=> pc[d] = "done")
    BY <1>2, <1>5, <2>1 DEF Acked
  <2> QED
    BY <1>1, <1>2, <2>2, PostFrame
<1> QED
  BY <1>3, <1>4, <1>5

-----------------------------------------------------------------------------
(* The timing of the disk *)

\* ModuloDiff is the number of sectors to wait until the one looked for comes.
LEMMA ModuloDiffReaches ==
  ASSUME NEW S \in Nat \ {0}, NEW to \in Int, NEW from \in Int, NEW d,
         d = (((to % S) - (from % S)) + S) % S
  PROVE  d \in 0 .. S - 1 /\ (from + d) % S = to % S
<1> DEFINE Q == from \div S
           a == from % S
           b == to % S
<1>1. Q \in Int /\ a \in 0 .. S - 1 /\ b \in 0 .. S - 1 /\ from = Q * S + a
  BY DivMod
<1> HIDE DEF Q, a, b
<1>2. d = ((b - a) + S) % S
  BY DEF a, b
<1>3. PICK e \in Nat, j \in Int, k \in Int :
        e < S /\ (b - a) + S = j * S + e /\ from + e = k * S + b
  <2>1. CASE b >= a
    <3>1. b - a \in Nat /\ b - a < S /\ (b - a) + S = 1 * S + (b - a) /\ 1 \in Int
      BY <1>1, <2>1
    <3>2. from + (b - a) = Q * S + b /\ Q \in Int
      BY <1>1
    <3> QED
      BY <3>1, <3>2, Zenon
  <2>2. CASE b < a
    <3> DEFINE e == (b - a) + S
    <3>1. e \in Nat /\ e < S /\ (b - a) + S = 0 * S + e /\ 0 \in Int
      BY <1>1, <2>2
    <3>2. from + e = (Q + 1) * S + b /\ Q + 1 \in Int
      BY <1>1
    <3> HIDE DEF e
    <3> QED
      BY <3>1, <3>2, Zenon
  <2> QED
    BY <1>1, <2>1, <2>2
<1>4. (j * S + e) % S = e
  BY <1>3, DivModUnique
<1>5. d = e
  BY <1>2, <1>3, <1>4
<1>6. (k * S + b) % S = b
  <2>1. b \in Nat /\ b < S
    BY <1>1
  <2> QED
    BY <2>1, DivModUnique
<1>7. (from + d) % S = b
  BY <1>3, <1>5, <1>6
<1>8. d \in 0 .. S - 1
  BY <1>3, <1>5
<1> QED
  BY <1>7, <1>8 DEF b

\* The track of a sector.
LEMMA TrackOf ==
  ASSUME NEW S \in Nat \ {0}, NEW N \in Nat \ {0}, NEW s \in 0 .. S * N - 1
  PROVE  s \div S \in 0 .. N - 1
<1> DEFINE q == s \div S
<1>1. s \in Int /\ S * N \in Nat /\ s < S * N /\ s >= 0
  OBVIOUS
<1>2. q \in Int /\ s % S \in 0 .. S - 1 /\ s = q * S + (s % S)
  BY <1>1, DivMod
<1>3. q * S <= s /\ s < (q + 1) * S
  BY <1>2
<1> HIDE DEF q
<1>4. q >= 0
  BY <1>1, <1>2, <1>3
<1>5. q < N
  BY <1>1, <1>2, <1>3
<1> QED
  BY <1>2, <1>4, <1>5 DEF q

\* A seek crosses at most all tracks.
LEMMA SeekBound ==
  ASSUME lastSector \in 0 .. L!NumSectors - 1, NEW s \in 0 .. L!NumSectors - 1
  PROVE  L!Seek(s) \in Nat /\ L!Seek(s) <= (NumTracks - 1) * SeekTime
<1> DEFINE a == s \div SectorsPerTrack
           b == lastSector \div SectorsPerTrack
<1>1. {SectorsPerTrack, NumTracks, SeekTime, RotationTime} \subseteq Nat \ {0}
  BY DevicesAssumption
<1>2. a \in 0 .. NumTracks - 1 /\ b \in 0 .. NumTracks - 1
  BY <1>1, TrackOf DEF L!NumSectors
<1> HIDE DEF a, b
<1>3. L!Abs(a - b) \in Nat /\ L!Abs(a - b) <= NumTracks - 1 /\ NumTracks - 1 \in Nat
  BY <1>1, <1>2 DEF L!Abs
<1>4. L!Seek(s) = L!Abs(a - b) * SeekTime
  BY DEF L!Seek, a, b
<1> QED
  BY <1>1, <1>3, <1>4, TimesBound

\* What holds of the disk between requests: its times, and that the track buffer
\* starts at a sector boundary, when the head came to the track.
Timing ==
  /\ totalTicks \in Nat /\ lastSector \in 0 .. L!NumSectors - 1
  /\ bufferInit \in Nat /\ request.since = bufferInit
  /\ \E k \in Nat : bufferInit = k * RotationTime

\* When the seek and the rest of a sector are over, the head is at a sector boundary.
LEMMA AfterSeek ==
  ASSUME Timing, NEW s \in 0 .. L!NumSectors - 1
  PROVE  /\ L!Seek(s) \in Nat /\ L!RotationAfter(L!Seek(s)) \in 0 .. RotationTime - 1
         /\ L!Seek(s) <= (NumTracks - 1) * SeekTime
         /\ \E k \in Nat : /\ L!TimeAfter(s) = k * RotationTime
                            /\ L!TimeAfter(s) \div RotationTime = k
<1> DEFINE seek == L!Seek(s)
           r == L!RotationAfter(seek)
           t == totalTicks + seek
<1>1. RotationTime \in Nat \ {0} /\ totalTicks \in Nat
  BY DevicesAssumption DEF Timing
<1>2. seek \in Nat /\ seek <= (NumTracks - 1) * SeekTime
  BY SeekBound DEF Timing
<1>3. r = IF t % RotationTime > 0 THEN RotationTime - (t % RotationTime) ELSE 0
  BY DEF L!RotationAfter
<1>4. t \in Nat
  BY <1>1, <1>2
<1>5. L!TimeAfter(s) = t + r
  BY DEF L!TimeAfter
<1> HIDE DEF seek, r, t
<1>6. r \in 0 .. RotationTime - 1 /\ \E k \in Nat : t + r = k * RotationTime
  <2>1. /\ t \div RotationTime \in Nat /\ t % RotationTime \in 0 .. RotationTime - 1
        /\ t = (t \div RotationTime) * RotationTime + (t % RotationTime)
    <3>1. /\ t \div RotationTime \in Int /\ t % RotationTime \in 0 .. RotationTime - 1
          /\ t = (t \div RotationTime) * RotationTime + (t % RotationTime)
      BY <1>1, <1>4, DivMod
    <3> QED
      BY <1>1, <1>4, <3>1
  <2> DEFINE q == t \div RotationTime
             o == t % RotationTime
  <2> HIDE DEF q, o
  <2>2. /\ q \in Nat /\ o \in 0 .. RotationTime - 1 /\ t = q * RotationTime + o
        /\ r = IF o > 0 THEN RotationTime - o ELSE 0
    BY <1>3, <2>1 DEF q, o
  <2>3. CASE o > 0
    <3>1. r = RotationTime - o /\ r \in 0 .. RotationTime - 1
      BY <1>1, <2>2, <2>3
    <3>2. t + r = (q + 1) * RotationTime /\ q + 1 \in Nat
      BY <1>1, <2>2, <3>1
    <3> QED
      BY <3>1, <3>2
  <2>4. CASE ~(o > 0)
    <3>1. r = 0 /\ o = 0
      BY <1>1, <2>2, <2>4
    <3>2. t + r = q * RotationTime
      BY <1>1, <2>2, <3>1
    <3> QED
      BY <1>1, <2>2, <3>1, <3>2
  <2> QED
    BY <2>3, <2>4
<1>7. PICK k \in Nat : t + r = k * RotationTime
  BY <1>6
<1>8. (k * RotationTime + 0) \div RotationTime = k /\ k * RotationTime + 0 = k * RotationTime
  BY <1>1, <1>7, DivModUnique
<1>9. L!TimeAfter(s) = k * RotationTime /\ L!TimeAfter(s) \div RotationTime = k
  BY <1>5, <1>7, <1>8
<1> QED
  BY <1>2, <1>6, <1>7, <1>9, Zenon DEF seek, r

\* The head is behind the sector it waited for.
LEMMA SectorPasses ==
  ASSUME NEW k \in Nat, NEW s \in Int, NEW d, d = L!ModuloDiff(s, k)
  PROVE  /\ d \in 0 .. SectorsPerTrack - 1
         /\ ((k + d + 1) * RotationTime) % RotationTime = 0
         /\ L!JustPassed((k + d + 1) * RotationTime) = s % SectorsPerTrack
<1>1. RotationTime \in Nat \ {0} /\ SectorsPerTrack \in Nat \ {0}
  BY DevicesAssumption
<1>2. d \in 0 .. SectorsPerTrack - 1 /\ (k + d) % SectorsPerTrack = s % SectorsPerTrack
  <2>1. /\ k \in Int
        /\ d = (((s % SectorsPerTrack) - (k % SectorsPerTrack)) + SectorsPerTrack) % SectorsPerTrack
    BY DEF L!ModuloDiff
  <2> QED
    BY <1>1, <2>1, ModuloDiffReaches
<1>3. k + d + 1 \in Int /\ (k + d + 1) - 1 = k + d
  BY <1>2
<1> DEFINE n == k + d + 1
<1> HIDE DEF n
<1>4. n \in Int /\ n - 1 = k + d
  BY <1>3 DEF n
<1>5. (n * RotationTime + 0) \div RotationTime = n /\ (n * RotationTime + 0) % RotationTime = 0
  BY <1>1, <1>4, DivModUnique
<1>6. n * RotationTime + 0 = n * RotationTime
  BY <1>1, <1>4
<1>7. (n * RotationTime) \div RotationTime = n /\ (n * RotationTime) % RotationTime = 0
  BY <1>5, <1>6
<1>8. L!JustPassed(n * RotationTime) = (k + d) % SectorsPerTrack
  BY <1>4, <1>7 DEF L!JustPassed
<1> QED
  BY <1>2, <1>7, <1>8 DEF n

\* ComputeLatency makes a request that goes to the surface end at its sector.
LEMMA RequestEnds ==
  ASSUME Timing, NEW s \in 0 .. L!NumSectors - 1, NEW w \in BOOLEAN, L!Request(s, w)
  PROVE  L!EndsAtSector'
<1> DEFINE seek == L!Seek(s)
           r == L!RotationAfter(seek)
           T == L!TimeAfter(s)
           R == RotationTime
           S == SectorsPerTrack
           d == L!ModuloDiff(s, T \div R)
<1>1. R \in Nat \ {0} /\ S \in Nat \ {0} /\ totalTicks \in Nat /\ s \in Int
  BY DevicesAssumption DEF Timing
<1>2. /\ request'.sector = s /\ request'.start = totalTicks
      /\ request'.latency = L!ComputeLatency(s, w) /\ request'.buffered = L!InTrackBuffer(s, w)
  BY DEF L!Request
<1> SUFFICES ASSUME ~L!InTrackBuffer(s, w)
             PROVE  /\ (request'.start + request'.latency) % R = 0
                    /\ L!JustPassed(request'.start + request'.latency) = s % S
                    /\ request'.latency <= (NumTracks - 1) * SeekTime + (S + 1) * R
  BY <1>2 DEF L!EndsAtSector
<1>3. /\ seek \in Nat /\ r \in 0 .. R - 1 /\ seek <= (NumTracks - 1) * SeekTime
      /\ \E k \in Nat : T = k * R /\ T \div R = k
  BY AfterSeek
<1>4. PICK k \in Nat : T = k * R /\ T \div R = k
  BY <1>3
<1>5. request'.latency = seek + (r + d * R) + R
  BY <1>2 DEF L!ComputeLatency
<1>6. /\ d \in 0 .. S - 1 /\ ((k + d + 1) * R) % R = 0
      /\ L!JustPassed((k + d + 1) * R) = s % S
  BY <1>1, <1>4, SectorPasses
<1>7. T = totalTicks + seek + r
  BY DEF L!TimeAfter
<1>8. (NumTracks - 1) * SeekTime \in Int
  BY DevicesAssumption
<1> HIDE DEF seek, r, T, R, S, d
<1>9. d * R \in Nat /\ d * R <= (S - 1) * R
  <2>1. d \in Nat /\ S - 1 \in Nat /\ d <= S - 1
    BY <1>1, <1>6
  <2> QED
    BY <1>1, <2>1, TimesBound
<1>10. request'.start + request'.latency = (k + d + 1) * R
  <2>1. (k + d + 1) * R = k * R + d * R + R
    BY <1>1, <1>4, <1>6
  <2> QED
    BY <1>1, <1>2, <1>3, <1>4, <1>5, <1>7, <1>9, <2>1
<1>11. request'.latency <= (NumTracks - 1) * SeekTime + (S + 1) * R
  <2>1. (S + 1) * R = (S - 1) * R + R + R /\ (S - 1) * R \in Nat
    BY <1>1
  <2> QED
    BY <1>1, <1>3, <1>5, <1>8, <1>9, <2>1
<1> QED
  BY <1>6, <1>10, <1>11

\* A sector that is answered from the track buffer went by since the head came.
LEMMA BufferedPassed ==
  ASSUME Timing, NEW s \in 0 .. L!NumSectors - 1, NEW w \in BOOLEAN, L!Request(s, w)
  PROVE  L!BufferHolds'
<1> DEFINE T == L!TimeAfter(s)
           R == RotationTime
           S == SectorsPerTrack
<1>1. R \in Nat \ {0} /\ S \in Nat \ {0} /\ totalTicks \in Nat /\ s \in Int /\ bufferInit \in Nat
  BY DevicesAssumption DEF Timing
<1>2. /\ request'.sector = s /\ request'.start = totalTicks
      /\ request'.buffered = L!InTrackBuffer(s, w)
      /\ L!Seek(s) = 0 => request'.since = bufferInit
  BY DEF L!Request, Timing
<1> SUFFICES ASSUME L!InTrackBuffer(s, w)
             PROVE  \E x \in request'.since + R .. request'.start + R - 1 :
                      x % R = 0 /\ L!JustPassed(x) = s % S
  BY <1>2 DEF L!BufferHolds
<1>3. L!Seek(s) = 0 /\ (T - bufferInit) \div R > L!ModuloDiff(s, bufferInit \div R)
  BY DEF L!InTrackBuffer
<1>4. PICK b \in Nat : bufferInit = b * R
  BY DEF Timing
<1>5. PICK k \in Nat : T = k * R
  BY AfterSeek
<1>6. L!RotationAfter(L!Seek(s)) \in 0 .. R - 1 /\ L!Seek(s) \in Nat
  BY AfterSeek
<1>7. T < totalTicks + R /\ T \in Int
  BY <1>1, <1>3, <1>6 DEF L!TimeAfter
<1> HIDE DEF T, R, S
<1>8. bufferInit \div R = b
  <2>1. (b * R + 0) \div R = b /\ b * R + 0 = b * R
    BY <1>1, <1>4, DivModUnique
  <2> QED
    BY <1>4, <2>1
<1>9. (T - bufferInit) \div R = k - b
  <2>1. k - b \in Int /\ T - bufferInit = (k - b) * R + 0
    BY <1>1, <1>4, <1>5
  <2> QED
    BY <1>1, <2>1, DivModUnique
<1> DEFINE d == L!ModuloDiff(s, b)
           x == (b + d + 1) * R
<1>10. d \in 0 .. S - 1 /\ x % R = 0 /\ L!JustPassed(x) = s % S
  BY <1>1, <1>4, SectorPasses DEF R, S
<1>11. k - b > d
  BY <1>3, <1>8, <1>9
<1> HIDE DEF d
<1>12. x \in Int /\ bufferInit + R <= x /\ x <= T
  <2>1. d \in Nat /\ b + 1 <= b + d + 1 /\ b + d + 1 <= k
    BY <1>1, <1>4, <1>5, <1>10, <1>11
  <2>2. (b + 1) * R <= x /\ x \in Nat
    <3>1. b + 1 \in Nat /\ b + d + 1 \in Nat
      BY <1>4, <2>1
    <3> QED
      BY <1>1, <2>1, <3>1, TimesBound
  <2>3. x <= k * R
    <3>1. b + d + 1 \in Nat
      BY <1>4, <2>1
    <3> QED
      BY <1>1, <1>5, <2>1, <3>1, TimesBound
  <2>4. (b + 1) * R = b * R + R
    BY <1>1, <1>4
  <2> QED
    BY <1>4, <1>5, <2>2, <2>3, <2>4
<1> HIDE DEF x
<1>13. x \in request'.since + R .. request'.start + R - 1
  BY <1>1, <1>2, <1>3, <1>7, <1>12
<1> QED
  BY <1>10, <1>13

\* What holds of the disk and of its last request.
LatencyInv == Timing /\ L!EndsAtSector /\ L!BufferHolds

\* The clock, and a request, keep the times of the disk right.
LEMMA TimingStep ==
  ASSUME LatencyInv, L!Step
  PROVE  LatencyInv'
<1>1. CASE L!Tick
  <2>1. UNCHANGED <<lastSector, bufferInit, request>> /\ totalTicks' = totalTicks + 1
    BY <1>1 DEF L!Tick
  <2>2. Timing'
    BY <2>1 DEF LatencyInv, Timing
  <2>3. L!EndsAtSector' /\ L!BufferHolds'
    BY <2>1 DEF LatencyInv, L!EndsAtSector, L!BufferHolds
  <2> QED
    BY <2>2, <2>3 DEF LatencyInv
<1>2. ASSUME NEW s \in 0 .. L!NumSectors - 1, NEW w \in BOOLEAN, L!Request(s, w)
      PROVE  LatencyInv'
  <2>1. Timing
    BY DEF LatencyInv
  <2>2. Timing'
    <3>1. /\ totalTicks' = totalTicks /\ lastSector' = s
          /\ request'.since = IF L!Seek(s) # 0 THEN L!TimeAfter(s) ELSE request.since
          /\ bufferInit' = IF L!Seek(s) # 0 THEN L!TimeAfter(s) ELSE bufferInit
      BY <1>2 DEF L!Request
    <3>2. PICK k \in Nat : L!TimeAfter(s) = k * RotationTime
      BY <1>2, <2>1, AfterSeek
    <3>3. L!TimeAfter(s) \in Nat
      BY <3>2, DevicesAssumption
    <3>4. bufferInit' \in Nat /\ request'.since = bufferInit'
      BY <2>1, <3>1, <3>3 DEF Timing
    <3>5. \E j \in Nat : bufferInit' = j * RotationTime
      BY <2>1, <3>1, <3>2, Zenon DEF Timing
    <3> QED
      BY <1>2, <2>1, <3>1, <3>4, <3>5 DEF Timing
  <2> QED
    BY <1>2, <2>1, <2>2, RequestEnds, BufferedPassed DEF LatencyInv
<1> QED
  BY <1>1, <1>2 DEF L!Step

-----------------------------------------------------------------------------
(* The invariant of the program that runs, and what follows from it *)

DevicesInv ==
  /\ program = "Disk" => LatencyInv
  /\ program = "SynchDisk" => DInv
  /\ program = "ConsoleTest" => CInv
  /\ program = "MailTest" => MInv /\ PostInv

\* Every configuration starts in the invariant.
LEMMA DevicesInit == Init => DevicesInv
<1> SUFFICES ASSUME Init PROVE DevicesInv
  OBVIOUS
<1> USE DevicesAssumption, DeviceObjects
<1>1. ASSUME program = "SynchDisk" PROVE DInv
  <2>1. /\ value = [s \in {lock, semaphore} |-> IF s = lock THEN 1 ELSE 0]
        /\ holder = [l \in {lock} |-> NULL] /\ pending = [t \in DiskThread |-> NULL]
        /\ pc = [t \in DiskThread |-> "idle"] /\ active = NULL
        /\ op = [t \in DiskThread |-> NULL] /\ buffer = [t \in DiskThread |-> NULL]
    BY <1>1 DEF Init, D!Init, D!SynchInit, D!DataInit
  <2>2. DType /\ DPending
    BY <2>1 DEF DType, DPending
  <2>3. DLock /\ DInterrupt /\ DData
    BY <2>1 DEF DLock, DHolds, DInterrupt, DData
  <2> QED
    BY <2>2, <2>3 DEF DInv
<1>2. ASSUME program = "ConsoleTest" PROVE CInv
  <2>1. /\ value = [s \in {readAvail, writeDone} |-> 0] /\ pending = [t \in {echo} |-> NULL]
        /\ pc = [t \in {echo} |-> "read"] /\ typed \in Typed /\ keyboard = typed
        /\ incoming = EOF /\ putBusy = FALSE /\ display = <<>>
    BY <1>2 DEF Init, C!Init, C!SynchInit, C!DataInit
  <2>2. typed \in Seq(Char)
    BY <2>1
  <2>3. CType /\ CPending
    <3>1. /\ value \in [{readAvail, writeDone} -> Nat] /\ pending[echo] = NULL
          /\ pending \in [{echo} -> {NULL, readAvail, writeDone}]
          /\ pc \in [{echo} -> {"read", "get", "put", "done"}]
      BY <2>1
    <3>2. keyboard \in Seq(Char) /\ display \in Seq(Char) /\ incoming \in Char \cup {EOF}
      BY <2>1, <2>2
    <3> QED
      BY <2>1, <3>1, <3>2 DEF CType, CPending
  <2>4. CUnits
    BY <2>1 DEF CUnits
  <2>5. typed = <<>> \o <<>> \o typed
    BY <2>2
  <2>6. C!EchoExact
    BY <2>1, <2>5 DEF C!EchoExact
  <2> QED
    BY <2>3, <2>4, <2>6 DEF CInv
<1>3. ASSUME program = "MailTest" PROVE MInv
  <2>1. /\ value = [s \in MailSemaphore |-> IF s \in MailLock THEN 1 ELSE 0]
        /\ holder = [l \in MailLock |-> NULL] /\ pending = [t \in MThread |-> NULL]
        /\ pc = [t \in MThread |-> IF t \in Client THEN "send" ELSE "idle"]
        /\ config \in Config
        /\ sock = [m \in Machine |-> <<>>] /\ inbox = [m \in Machine |-> NULL]
        /\ sending = [m \in Machine |-> <<>>] /\ hand = [m \in Machine |-> NULL]
        /\ boxes = [m \in Machine |-> [b \in 0 .. 1 |-> <<>>]]
        /\ round = [c \in Client |-> 1] /\ mail = [c \in Client |-> NULL]
        /\ accepted = [m \in Machine |-> <<>>] /\ delivered = [m \in Machine |-> <<>>]
    BY <1>3 DEF Init, M!Init, M!SynchInit, M!DataInit, M!Box, MThread
  <2>2. /\ \A c \in Client : pc[c] = "send" /\ pending[c] = NULL
        /\ \A m \in Machine : pc[M!worker(m)] = "idle" /\ pending[M!worker(m)] = NULL
    BY <2>1, MailThreadNames
  <2>3. MSync
    <3>1. \A c \in Client : ClientAt(c)
      BY <2>2 DEF ClientAt
    <3>2. \A m \in Machine : WorkerAt(m)
      BY <2>2 DEF WorkerAt
    <3> QED
      BY <2>1, <3>1, <3>2 DEF MSync
  <2>4. MType
    <3>1. 0 .. 1 = {0, 1}
      OBVIOUS
    <3> QED
      BY <2>1, <3>1 DEF MType
  <2>5. ASSUME NEW m \in Machine PROVE Arrival(m) /\ Departure(m)
    <3>1. /\ value[M!messageAvailable(m)] = 0 /\ value[M!messageSent(m)] = 0
          /\ value[M!sendLock(m)] = 1 /\ holder[M!sendLock(m)] = NULL
      BY <2>1, MailNames
    <3>2. M!InHand(m) = <<>> /\ M!Held(inbox[m]) = <<>>
      BY <2>1, <2>2 DEF M!InHand, M!Held
    <3>3. Arrival(m)
      BY <2>1, <2>2, <3>1, <3>2, SMTT(60) DEF Arrival
    <3>4. Departure(m)
      BY <2>1, <2>2, <3>1, MailThreadNames DEF Departure, SendHolds
    <3> QED
      BY <3>3, <3>4
  <2> QED
    BY <2>3, <2>4, <2>5 DEF MInv
<1>4. ASSUME program = "MailTest" PROVE PostInv
  <2>1. /\ pc = [t \in MThread |-> IF t \in Client THEN "send" ELSE "idle"]
        /\ boxes = [m \in Machine |-> [b \in 0 .. 1 |-> <<>>]]
        /\ round = [c \in Client |-> 1] /\ halted = {}
        /\ accepted = [m \in Machine |-> <<>>]
    BY <1>4 DEF Init, M!Init, M!DataInit, M!Box, MThread
  <2>2. \A c \in Client : pc[c] = "send" /\ round[c] = 1
    BY <2>1, MailThreadNames
  <2>3. \A m \in Machine : Range(accepted[m]) = {}
    BY <2>1, EmptyRange
  <2>4. \A m \in Machine, b \in {0, 1} : Range(boxes[m][b]) = {}
    <3>1. 0 .. 1 = {0, 1}
      OBVIOUS
    <3> QED
      BY <2>1, <3>1, EmptyRange
  <2>5. \A c \in Client : pc[c] # "done" /\ round[c] # 2
    BY <2>2
  <2> QED
    BY <2>1, <2>3, <2>4, <2>5, Zenon DEF PostInv
<1>5. ASSUME program = "Disk" PROVE LatencyInv
  <2>1. /\ totalTicks = 0 /\ lastSector = 0 /\ bufferInit = 0 /\ request.since = 0
        /\ request.sector = 0 /\ request.start = 0
        /\ request.latency = 0 /\ request.buffered = FALSE
    BY DEF Init, L!Init
  <2>2. L!NumSectors - 1 \in Nat
    BY DEF L!NumSectors
  <2>3. Timing
    <3>1. 0 \in Nat /\ 0 = 0 * RotationTime
      OBVIOUS
    <3>2. \E k \in Nat : 0 = k * RotationTime
      BY <3>1, Zenon
    <3> QED
      BY <2>1, <2>2, <3>2 DEF Timing
  <2> QED
    BY <2>1, <2>3 DEF LatencyInv, L!EndsAtSector, L!BufferHolds
<1> QED
  BY <1>1, <1>2, <1>3, <1>4, <1>5 DEF DevicesInv

\* Every step of every configuration keeps the invariant.
LEMMA DevicesStep == DevicesInv /\ [Next]_vars => DevicesInv'
<1> SUFFICES ASSUME DevicesInv, [Next]_vars PROVE DevicesInv'
  OBVIOUS
<1>1. CASE UNCHANGED vars
  <2>1. UNCHANGED <<program, synchVars, pc, diskVars, charVars, mailVars, timeVars>>
    BY <1>1 DEF vars
  <2>2. UNCHANGED <<value, holder, pending, pc>>
    BY <2>1 DEF synchVars
  <2>3. program = "SynchDisk" => DInv'
    BY <2>1, <2>2 DEF DevicesInv, DInv, DType, DPending, DLock, DHolds, DInterrupt, DData, diskVars
  <2>4. program = "ConsoleTest" => CInv'
    BY <2>1, <2>2 DEF DevicesInv, CInv, CType, CPending, CUnits, C!EchoExact, charVars
  <2>5. program = "MailTest" => MInv'
    <3> SUFFICES ASSUME MInv PROVE MInv'
      BY DEF DevicesInv
    <3>1. UNCHANGED <<config, sock, inbox, sending, boxes, hand, round, mail,
                      accepted, delivered, interrupted>>
      BY <2>1 DEF mailVars
    <3> QED
      BY <2>2, <3>1, MailStutter
  <2>6. program = "MailTest" => PostInv'
    <3> SUFFICES ASSUME MInv, PostInv PROVE PostInv'
      BY DEF DevicesInv
    <3>1. UNCHANGED <<config, accepted, delivered, boxes, mail, round, halted>>
      BY <2>1 DEF mailVars
    <3>2. \A c \in Client : Acked(c)' <=> Acked(c)
      BY <2>2, <3>1 DEF Acked
    <3> QED
      BY <2>2, <3>1, <3>2, PostFrame DEF MInv
  <2>7. program = "Disk" => LatencyInv'
    BY <2>1 DEF DevicesInv, LatencyInv, Timing, L!EndsAtSector, L!BufferHolds, timeVars
  <2> QED
    BY <2>1, <2>3, <2>4, <2>5, <2>6, <2>7 DEF DevicesInv
<1>2. CASE DiskTiming
  BY <1>2, TimingStep DEF DiskTiming, DevicesInv
<1>3. CASE DiskThreads \/ DiskInterrupt
  BY <1>3, DStep DEF DiskThreads, DiskInterrupt, DiskOnly, DevicesInv
<1>4. CASE EchoThread \/ ConsoleInterrupt
  BY <1>4, CStep DEF EchoThread, ConsoleInterrupt, ConsoleOnly, DevicesInv
<1>5. ASSUME NEW m \in Machine, MailThreads(m) \/ NetworkInterrupt(m) PROVE DevicesInv'
  <2>1. program = "MailTest" /\ UNCHANGED program /\ MInv /\ PostInv
    BY <1>5 DEF MailThreads, NetworkInterrupt, MailOnly, DevicesInv
  <2>2. MInv' /\ PostInv'
    <3>1. CASE NetworkInterrupt(m)
      BY <2>1, <3>1, NetworkStep, PostOthers DEF NetworkInterrupt, M!Interrupts
    <3>2. CASE MailThreads(m)
      <4>1. \/ M!AwaitPacket(m) \/ M!TakePacket(m) \/ M!PutMail(m) \/ M!PutDone(m)
            \/ \E c \in Client : \/ M!Send(c) \/ M!GiveToNetwork(c) \/ M!SendReturns(c)
                                 \/ M!Receive(c) \/ M!GetMail(c) \/ M!Halt(c)
            \/ \E t \in MThread : M!OnMachine(t, m) /\ M!Retry(t)
        BY <3>2 DEF MailThreads, M!ThreadStep, MThread
      <4>2. MInv'
        BY <2>1, <4>1, WorkerStep, ClientStep, PostHalts, MailRetry
      <4>3. PostInv'
        BY <2>1, <4>1, PostWorker, PostSends, PostReceives, PostHalts, PostOthers
      <4> QED
        BY <4>2, <4>3
    <3> QED
      BY <1>5, <3>1, <3>2
  <2> QED
    BY <2>1, <2>2 DEF DevicesInv
<1> QED
  BY <1>1, <1>2, <1>3, <1>4, <1>5 DEF Next, Processor, Interrupts

\* The invariant of the disk, console and mail configurations always holds.
LEMMA DevicesInvariance == Spec => []DevicesInv
  BY DevicesInit, DevicesStep, PTL DEF Spec

\* Console::PutChar and Disk::ReadRequest and WriteRequest never find the device busy,
\* however threads and interrupts interleave.
THEOREM DevicesAccept == Spec => []RequestAccepted
<1>1. DevicesInv => RequestAccepted
  <2>1. DInv => D!RequestAccepted
    <3> SUFFICES ASSUME DInv, NEW t \in DiskThread, D!At(t, "acquire") PROVE active = NULL
      BY DEF D!RequestAccepted
    <3>1. holder[lock] = t
      BY DEF DInv, DLock, DHolds, D!At, D!Running
    <3>2. \A u \in DiskThread : pc[u] # "disk"
      BY <3>1 DEF DInv, DLock, DHolds, D!At, D!Running
    <3> QED
      BY <3>2 DEF DInv, DInterrupt
  <2>2. CInv => C!PutAccepted
    BY DevicesAssumption, DeviceObjects DEF CInv, CUnits, CType, C!PutAccepted, C!At, C!Running
  <2> QED
    BY <2>1, <2>2 DEF DevicesInv, RequestAccepted
<1> QED
  BY <1>1, DevicesInvariance, PTL

\* Whatever the geometry and the speed of the disk, and however its requests follow each
\* other, ComputeLatency makes a request that goes to the surface end exactly when its
\* sector has rotated past the head, within the seek, the rest of a sector and one turn.
THEOREM DiskEndsAtSector == Spec => []EndsAtSector
<1>1. DevicesInv => EndsAtSector
  BY DEF DevicesInv, LatencyInv, EndsAtSector
<1> QED
  BY <1>1, DevicesInvariance, PTL

\* A read that ComputeLatency answers from the track buffer is of a sector that has gone
\* by in full since UpdateLast put the head on the track.
THEOREM TrackBufferHolds == Spec => []BufferHolds
<1>1. DevicesInv => BufferHolds
  BY DEF DevicesInv, LatencyInv, BufferHolds
<1> QED
  BY <1>1, DevicesInvariance, PTL

\* A thread that comes back from the disk, the console or the network has been woken by
\* the interrupt of its own request, and what it read is what the sector holds.
THEOREM DevicesAnswer == Spec => []OwnInterrupt
<1>1. DevicesInv => OwnInterrupt
  <2>1. DInv => D!OwnInterrupt
    BY DEF DInv, DInterrupt, DData, D!OwnInterrupt, D!At, D!Running
  <2>2. CInv => C!OwnWriteDone
    BY DevicesAssumption, DeviceObjects DEF CInv, CUnits, CType, C!OwnWriteDone, C!At, C!Running
  <2>3. MInv => M!OwnSendDone
    <3> SUFFICES ASSUME MInv PROVE M!OwnSendDone
      OBVIOUS
    <3>1. ASSUME NEW c \in Client, M!At(c, "sent") PROVE c \in interrupted
      <4>1. M!Home(c) \in Machine
        BY PacketType DEF MInv
      <4>2. Departure(M!Home(c)) /\ pc[c] = "sent" /\ pending[c] = NULL
        BY <3>1, <4>1 DEF MInv, M!At, M!Running
      <4> QED
        BY <4>2 DEF Departure
    <3>2. ASSUME NEW m \in Machine PROVE Len(sending[m]) <= 1
      <4>1. sending[m] = <<>> \/ \E c \in Client : sending[m] = <<c>>
        BY DEF MInv, Departure
      <4>2. ASSUME NEW c \in Client, sending[m] = <<c>> PROVE Len(sending[m]) = 1
        BY <4>2
      <4>3. ASSUME sending[m] = <<>> PROVE Len(sending[m]) = 0
        BY <4>3
      <4> DEFINE n == Len(sending[m])
      <4>4. n = 0 \/ n = 1
        BY <4>1, <4>2, <4>3
      <4> HIDE DEF n
      <4>5. n <= 1
        BY <4>4
      <4> QED
        BY <4>5 DEF n
    <3> QED
      BY <3>1, <3>2 DEF M!OwnSendDone
  <2> QED
    BY <2>1, <2>2, <2>3 DEF DevicesInv, OwnInterrupt
<1> QED
  BY <1>1, DevicesInvariance, PTL

\* ConsoleTest puts out what is typed, in order, whatever is typed.
THEOREM ConsoleEchoes == Spec => []EchoExact
<1>1. DevicesInv => EchoExact
  BY DEF DevicesInv, CInv, EchoExact
<1> QED
  BY <1>1, DevicesInvariance, PTL

\* Between any number of machines and clients, what the network took for a machine is
\* what its worker delivers, in order, with at most one packet in each place between.
THEOREM NetworkConserves == Spec => []MailConserved
<1>1. DevicesInv => MailConserved
  BY DEF DevicesInv, MInv, Arrival, MailConserved, M!MailConserved
<1> QED
  BY <1>1, DevicesInvariance, PTL

\* MailTest halts for the acknowledgement of its own message, also if packets were lost,
\* and nobody sends to a machine that has halted and removed its socket: for any number
\* of pairs of machines that write to each other.
THEOREM AckReceived == Spec => []AckMeansReceived
<1>1. ASSUME MInv, PostInv PROVE M!AckMeansReceived
  <2>1. MType /\ config \in Config
    BY <1>1 DEF MInv, MType
  <2>2. \A c \in Client : M!Home(c) = config.home[c]
    BY DEF M!Home
  <2>3. ASSUME NEW d \in Client, pc[d] = "done"
        PROVE  /\ mail[d].re \in Client /\ M!Home(mail[d].re) = M!Home(d)
               /\ config.far[mail[d].re] = M!Home(mail[d].by)
               /\ mail[d].by \in Client /\ Acked(mail[d].by)
    <3>1. Got(d, 1)
      BY <1>1, <2>3 DEF PostInv
    <3>2. Genuine(mail[d], M!Home(d)) /\ mail[d] \in Mail /\ mail[d].box = 1
      BY <1>1, <3>1, MailGenuine
    <3>3. mail[d].by \in Client
      BY <3>2 DEF Mail
    <3> QED
      BY <3>2, <3>3 DEF Genuine
  <2>4. ASSUME NEW c \in Client, M!At(c, "net"), M!Home(c) \notin halted,
               M!Packet(c).to \in halted
        PROVE  FALSE
    <3> DEFINE n == M!Packet(c).to
    <3>1. pc[c] = "net" /\ ~Acked(c)
      BY <2>4 DEF M!At, Acked
    <3>2. PICK d \in Client : M!Home(d) = n /\ pc[d] = "done"
      BY <1>1, <2>4 DEF PostInv
    <3>3. \/ round[c] = 1 /\ n = config.far[c]
          \/ \E e \in Client : /\ round[c] = 2 /\ n = M!Home(e)
                               /\ config.far[e] = M!Home(c)
      <4>1. CASE round[c] = 1
        BY <4>1 DEF M!Packet
      <4>2. CASE round[c] = 2
        <5>1. Got(c, 0)
          BY <1>1, <3>1, <4>2 DEF PostInv
        <5>2. Genuine(mail[c], M!Home(c)) /\ mail[c] \in Mail /\ mail[c].box = 0
          BY <1>1, <5>1, MailGenuine
        <5>3. mail[c].by \in Client /\ n = mail[c].from
          BY <4>2, <5>2 DEF Mail, M!Packet
        <5> QED
          BY <4>2, <5>2, <5>3 DEF Genuine
      <4> QED
        BY <2>1, <4>1, <4>2 DEF MType
    <3>4. ASSUME \A a, b \in Client : config.home[a] = config.home[b] /\ config.far[a] = config.home[a]
          PROVE  FALSE
      BY <2>2, <2>4, <3>3, <3>4
    <3>5. ASSUME \A a, b \in Client : a # b => config.home[a] # config.home[b],
                 \A a \in Client : \E b \in Client : /\ config.home[b] = config.far[a]
                                                     /\ config.far[b] = config.home[a]
          PROVE  FALSE
      <4>1. PICK e \in Client : n = config.home[e] /\ config.far[e] = config.home[c]
        BY <2>2, <3>3, <3>5
      <4>2. d = e
        BY <2>2, <3>2, <3>5, <4>1
      <4>3. mail[d].re = d
        BY <2>2, <2>3, <3>2, <3>5
      <4>4. config.home[mail[d].by] = config.home[c]
        BY <2>2, <2>3, <3>2, <4>1, <4>2, <4>3
      <4>5. mail[d].by = c
        BY <2>3, <3>2, <3>5, <4>4
      <4> QED
        BY <2>3, <3>1, <3>2, <4>5
    <3> QED
      BY <2>1, <3>4, <3>5, MailTestPairs
  <2>5. ASSUME \A c, d \in Client : c # d => M!Home(c) # M!Home(d),
               NEW c \in Client, M!Home(c) \in halted
        PROVE  mail[c].re = c
    <3>1. PICK d \in Client : M!Home(d) = M!Home(c) /\ pc[d] = "done"
      BY <1>1, <2>5 DEF PostInv
    <3> QED
      BY <2>3, <2>5, <3>1
  <2> QED
    BY <2>4, <2>5 DEF M!AckMeansReceived
<1>2. DevicesInv => AckMeansReceived
  BY <1>1 DEF DevicesInv, AckMeansReceived
<1> QED
  BY <1>2, DevicesInvariance, PTL
=============================================================================
