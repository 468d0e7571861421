----------------------------- MODULE RWLockSpec -----------------------------
(***************************************************************************)
(* What a reader-writer lock promises: any number of threads inside to     *)
(* read, or one to write.  RWLock is shown to implement this.              *)
(***************************************************************************)
CONSTANTS Reader, Writer

VARIABLES readers, writers          \* the threads inside

Init == readers = {} /\ writers = {}

BeginRead(t) ==
  /\ t \notin readers /\ writers = {}
  /\ readers' = readers \cup {t} /\ UNCHANGED writers

BeginWrite(t) ==
  /\ readers = {} /\ writers = {}
  /\ writers' = {t} /\ UNCHANGED readers

EndRead(t) ==
  t \in readers /\ readers' = readers \ {t} /\ UNCHANGED writers

EndWrite(t) ==
  t \in writers /\ writers' = writers \ {t} /\ UNCHANGED readers

Next ==
  \/ \E t \in Reader : BeginRead(t) \/ EndRead(t)
  \/ \E t \in Writer : BeginWrite(t) \/ EndWrite(t)

Spec == Init /\ [][Next]_<<readers, writers>>
=============================================================================
