---------------------------- MODULE MCScheduler ----------------------------
(* Up to four threads.  MAX_PRIORITY is scaled down from 20, with           *)
(* NORM_PRIORITY half of it, and MaxThreadNum from 128.                     *)
EXTENDS Scheduler

CONSTANTS t1, t2, t3

MCThread3 == {main, t1, t2}
MCThread == {main, t1, t2, t3}
MCPriorityBound == 0 .. 2
MCPolicy == {"SCHED_RR", "SCHED_PRIO_P"}
MCSuspendable == [p \in MCPolicy |-> IF p = "SCHED_RR" THEN {t1, t2} ELSE {}]
MCPriority == [p \in MCPolicy |-> IF p = "SCHED_RR" THEN {1} ELSE {2}]
MCRRPriority == [p \in {"SCHED_RR"} |-> {1}]
MCNoSuspend == [p \in {"SCHED_RR"} |-> {}]
MCUninit == {NULL}
=============================================================================
