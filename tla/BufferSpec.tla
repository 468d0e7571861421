----------------------------- MODULE BufferSpec -----------------------------
(***************************************************************************)
(* What the producers and consumers of synchtest.cc promise: a buffer that *)
(* never holds more than N items nor gives out one it does not have.       *)
(***************************************************************************)
EXTENDS Naturals

CONSTANT N

VARIABLE count

Init == count = 0

Insert == count < N /\ count' = count + 1

Remove == count > 0 /\ count' = count - 1

Spec == Init /\ [][Insert \/ Remove]_count
=============================================================================
