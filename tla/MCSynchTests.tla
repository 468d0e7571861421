---------------------------- MODULE MCSynchTests ----------------------------
(* Two readers and two writers; four threads at a barrier for three; two   *)
(* producers and two consumers on the list (with a walker) and on a buffer *)
(* for two items, where the consumers ask for more than is produced.       *)
EXTENDS SynchTests

CONSTANTS r1, r2, w1, w2, b1, b2, b3, b4, p1, p2, c1, c2, walker

MCTest == {"ReadWriteTest", "BarrierTest", "SemTest", "CondTest", "SynchList"}
MCReader == {r1, r2}
MCWriter == {w1, w2}
MCComer == {b1, b2, b3, b4}
MCProducer == {p1, p2}
MCConsumer == {c1, c2}
MCWalker == {walker}
MCCalls == [t \in MCProducer \cup MCConsumer \cup MCWalker |-> IF t = walker THEN 1 ELSE 2]
MCLoops == [t \in MCProducer \cup MCConsumer |-> IF t \in MCProducer THEN 2 ELSE 3]
=============================================================================
