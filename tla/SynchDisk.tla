----------------------------- MODULE SynchDisk -----------------------------
(***************************************************************************)
(* class SynchDisk of filesys/synchdisk.cc on top of the asynchronous disk *)
(* of machine/disk.cc.                                                     *)
(*                                                                         *)
(* The disk transfers the data when the request is made and interrupts     *)
(* later; the latency is in DiskLatency, here the interrupt comes at any   *)
(* later time.  pc[t]:                                                     *)
(*   "idle"                                                                *)
(*   "acquire"  in lock->Acquire()                                         *)
(*   "disk"     request made, in semaphore->P()                            *)
(***************************************************************************)
EXTENDS Synch

CONSTANTS lock, semaphore,
          Sector, Data,
          Calls               \* bound: calls each thread makes

VARIABLES platter,   \* the UNIX file: contents of each sector
          active,    \* the thread whose request the disk works on, or NULL
          pc, calls,
          op,        \* the call a thread is in
          buffer,    \* the buffer of the call
          done       \* history: threads whose current request has interrupted

diskVars == <<platter, active, done>>

Request == [write : {TRUE}, sector : Sector, data : Data]
             \cup [write : {FALSE}, sector : Sector]

DataInit ==
  /\ platter \in [Sector -> Data]
  /\ active = NULL /\ done = {}
  /\ calls = [t \in Thread |-> 0]
  /\ op = [t \in Thread |-> NULL]
  /\ buffer = [t \in Thread |-> NULL]

Init == SynchInit /\ DataInit /\ pc = [t \in Thread |-> "idle"]

At(t, loc) == Running(t) /\ pc[t] = loc
Goto(t, loc) == pc' = [pc EXCEPT ![t] = loc]

\* ReadSector or WriteSector: lock->Acquire().
Call(t, r) ==
  /\ At(t, "idle") /\ calls[t] < Calls
  /\ op' = [op EXCEPT ![t] = r]
  /\ Acquire(t, lock) /\ Goto(t, "acquire")
  /\ UNCHANGED <<diskVars, calls, buffer>>

\* Mutant: WriteSector does not wait for the interrupt.
DiskRequest_NoWait(t) ==
  /\ At(t, "acquire")
  /\ active' = t /\ done' = done \ {t}
  /\ IF op[t].write
       THEN /\ platter' = [platter EXCEPT ![op[t].sector] = op[t].data]
            /\ UNCHANGED <<synchVars, buffer>>
       ELSE /\ buffer' = [buffer EXCEPT ![t] = platter[op[t].sector]]
            /\ P(t, semaphore) /\ UNCHANGED <<holder, platter>>
  /\ Goto(t, "disk")
  /\ UNCHANGED <<calls, op>>

\* Disk::ReadRequest or WriteRequest, and the first turn of semaphore->P(); no
\* interrupt can come between the two.  The request needs an inactive disk
\* (ASSERT(!active)): RequestAccepted says that it always is.
DiskRequest(t) ==
  /\ At(t, "acquire")
  /\ active' = t /\ done' = done \ {t}
  /\ IF op[t].write
       THEN platter' = [platter EXCEPT ![op[t].sector] = op[t].data] /\ UNCHANGED buffer
       ELSE buffer' = [buffer EXCEPT ![t] = platter[op[t].sector]] /\ UNCHANGED platter
  /\ P(t, semaphore) /\ Goto(t, "disk")
  /\ UNCHANGED <<holder, calls, op>>

\* Mutant: the handler leaves the disk active.
HandleInterrupt_StaysActive ==
  /\ active # NULL /\ active \notin done
  /\ done' = done \cup {active}
  /\ V(semaphore)
  /\ UNCHANGED <<active, platter, pc, calls, op, buffer>>

\* Mutant: the interrupt is lost.
HandleInterrupt_NoV ==
  /\ active # NULL
  /\ active' = NULL /\ done' = done \cup {active}
  /\ UNCHANGED <<synchVars, platter, pc, calls, op, buffer>>

\* Disk::HandleInterrupt, DiskRequestDone, SynchDisk::RequestDone.
HandleInterrupt ==
  /\ active # NULL
  /\ active' = NULL /\ done' = done \cup {active}
  /\ V(semaphore)
  /\ UNCHANGED <<platter, pc, calls, op, buffer>>

\* P() has returned: lock->Release().
Return(t) ==
  /\ At(t, "disk") /\ Release(t, lock) /\ Goto(t, "idle")
  /\ calls' = [calls EXCEPT ![t] = @ + 1]
  /\ op' = [op EXCEPT ![t] = NULL] /\ buffer' = [buffer EXCEPT ![t] = NULL]
  /\ UNCHANGED diskVars

Retry(t) == Resume(t) /\ UNCHANGED <<diskVars, pc, calls, op, buffer>>

Step(t) ==
  (\E r \in Request : Call(t, r)) \/ DiskRequest(t) \/ Return(t) \/ Retry(t)

Finished == \A t \in Thread : At(t, "idle") /\ calls[t] = Calls

-----------------------------------------------------------------------------
(* Properties *)

\* "Only one request at a time": the ASSERT(!active) of ReadRequest and
\* WriteRequest holds whenever a thread gets to it.
RequestAccepted == \A t \in Thread : At(t, "acquire") => active = NULL

\* "Return only after the data has been read": the interrupt that lets a thread out
\* of semaphore->P() is the one of its own request, although the semaphore does not
\* know whose it is, and what was read is still what the sector holds.
OwnInterrupt ==
  \A t \in Thread :
    At(t, "disk") => t \in done /\ (~op[t].write => buffer[t] = platter[op[t].sector])
=============================================================================
