------------------------------ MODULE FifoSpec ------------------------------
(***************************************************************************)
(* What SynchList promises: items come out in the order they went in, each *)
(* once.                                                                   *)
(***************************************************************************)
EXTENDS Naturals, Sequences

CONSTANT Item

VARIABLES put, got

Init == put = <<>> /\ got = <<>>

Append1(x) == put' = Append(put, x) /\ UNCHANGED got

Remove1 ==
  /\ Len(got) < Len(put)
  /\ got' = Append(got, put[Len(got) + 1]) /\ UNCHANGED put

Next == (\E x \in Item : Append1(x)) \/ Remove1

Spec == Init /\ [][Next]_<<put, got>>
=============================================================================
