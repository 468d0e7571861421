------------------------------- MODULE Console -------------------------------
(***************************************************************************)
(* The console device (machine/console.cc) and ConsoleTest                 *)
(* (userprog/progtest.cc), which echoes what is typed until a 'q'.         *)
(*                                                                         *)
(* The device polls the keyboard and interrupts when it has a character,   *)
(* and interrupts again some time after a character was put out.  pc:      *)
(*   "read"   at readAvail->P()                                            *)
(*   "get"    readAvail->P() called                                        *)
(*   "put"    character put out, writeDone->P() called                     *)
(*   "done"   returned                                                     *)
(***************************************************************************)
EXTENDS Synch

CONSTANTS echo,               \* the thread that runs ConsoleTest
          readAvail, writeDone,
          Typed,              \* what the user may type
          Quit,               \* 'q'
          EOF

VARIABLES typed,              \* all that is typed
          keyboard,           \* what of it the device has not read
          incoming, putBusy,
          display, ch, pc

charVars == <<typed, keyboard, incoming, putBusy, display, ch>>

DataInit ==
  /\ typed \in Typed /\ keyboard = typed
  /\ incoming = EOF /\ putBusy = FALSE /\ display = <<>> /\ ch = NULL

Init == SynchInit /\ DataInit /\ pc = [t \in Thread |-> "read"]

At(loc) == Running(echo) /\ pc[echo] = loc
Goto(loc) == pc' = [pc EXCEPT ![echo] = loc]

\* Mutant: the poll does not look whether a character is buffered.
CheckCharAvail_NoTest ==
  /\ keyboard # <<>>
  /\ incoming' = Head(keyboard) /\ keyboard' = Tail(keyboard)
  /\ V(readAvail)
  /\ UNCHANGED <<typed, putBusy, display, ch, pc>>

\* CheckCharAvail when it finds a character; otherwise it only schedules itself.
CheckCharAvail ==
  /\ incoming = EOF /\ keyboard # <<>>
  /\ incoming' = Head(keyboard) /\ keyboard' = Tail(keyboard)
  /\ V(readAvail)
  /\ UNCHANGED <<typed, putBusy, display, ch, pc>>

WriteDone ==
  /\ putBusy /\ putBusy' = FALSE
  /\ V(writeDone)
  /\ UNCHANGED <<typed, keyboard, incoming, display, ch, pc>>

\* The head of the loop.
WaitChar ==
  /\ At("read") /\ P(echo, readAvail) /\ Goto("get")
  /\ UNCHANGED <<holder, charVars>>

\* GetChar, PutChar and the first turn of writeDone->P().  PutChar asserts that
\* the device is not busy.
Echo ==
  /\ At("get")
  /\ ch' = incoming /\ incoming' = EOF
  /\ display' = Append(display, incoming) /\ putBusy' = TRUE
  /\ P(echo, writeDone) /\ Goto("put")
  /\ UNCHANGED <<holder, typed, keyboard>>

\* writeDone->P() has returned.
Next1 ==
  /\ At("put") /\ Goto(IF ch = Quit THEN "done" ELSE "read")
  /\ UNCHANGED <<synchVars, charVars>>

Retry == Resume(echo) /\ UNCHANGED <<charVars, pc>>

Step == WaitChar \/ Echo \/ Next1 \/ Retry

Finished == At("done")

-----------------------------------------------------------------------------
(* Properties *)

\* Every character typed is put out once and in order: what was put out, what is
\* buffered and what is still to be read are together what was typed.
EchoExact ==
  typed = display \o (IF incoming = EOF THEN <<>> ELSE <<incoming>>) \o keyboard

\* PutChar's ASSERT(putBusy == FALSE) holds when the thread gets to it.
PutAccepted == At("get") => ~putBusy

\* writeDone->P() returns for the character that was just put out.
OwnWriteDone == At("put") => ~putBusy
=============================================================================
