---------------------------- MODULE MCInterrupt ----------------------------
(* Two threads.  Ticks and delays are scaled down so that a tick can make   *)
(* several interrupts due, in either order.                                 *)
EXTENDS Interrupt

CONSTANTS t1, timer1, console

MCThread == {main, t1}
=============================================================================
