------------------------------ MODULE MCDevices ------------------------------
(* Three tracks of three sectors, with a seek that is not a multiple of    *)
(* the rotation; three threads on one sector; up to three characters and a *)
(* q; two mail clients, on a machine each or both on one that sends to     *)
(* itself, with and without loss.                                          *)
EXTENDS Devices

CONSTANTS t1, t2, t3, c1, c2

MCProgram == {"Disk", "SynchDisk", "ConsoleTest", "MailTest"}
MCDiskThread == {t1, t2, t3}
MCClient == {c1, c2}
MCTyped == {<<"q">>, <<"a", "b", "q">>, <<"a", "a", "b", "q">>}
MCApart == [c \in MCClient |-> IF c = c1 THEN 0 ELSE 1]
MCConfig == {[home |-> MCApart, far |-> [c \in MCClient |-> 1 - MCApart[c]]],
             [home |-> [c \in MCClient |-> 0], far |-> [c \in MCClient |-> 0]]}
=============================================================================
