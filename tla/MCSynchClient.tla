--------------------------- MODULE MCSynchClient ---------------------------
(* Three threads, one plain semaphore, two locks and two conditions.      *)
EXTENDS SynchClient, TLC

CONSTANTS t1, t2, t3, sem, lockA, lockB, condA, condB

MCThread == {t1, t2, t3}
MCSemaphore == {sem, lockA, lockB}
MCLock == {lockA, lockB}
MCCondition == {condA, condB}
MCInitialValue == [s \in MCSemaphore |-> IF s \in MCLock THEN 1 ELSE 0]

Symmetry == Permutations(MCThread) \cup Permutations(MCLock)
              \cup Permutations(MCCondition)
=============================================================================
