----------------------------- MODULE MCListImpl -----------------------------
(* Lists of up to four elements, with keys below, at and above the key 0   *)
(* that Append and Prepend give.  The addresses are interchangeable.        *)
EXTENDS ListImpl, TLC

CONSTANTS n1, n2, n3, n4, a, b

MCNode == {n1, n2, n3, n4}
MCItem == {a, b}
MCKey == -1 .. 1
MCSymmetry == Permutations(MCNode)
=============================================================================
