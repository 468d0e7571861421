------------------------------- MODULE Devices -------------------------------
(***************************************************************************)
(* The devices and the threads that wait for them: the timing of the disk, *)
(* clients of the synchronous disk, ConsoleTest and MailTest.  As in       *)
(* main.cc the command line picks what this run of Nachos does; the        *)
(* variables of the other programs keep their first value.                 *)
(***************************************************************************)
EXTENDS Naturals, Sequences

CONSTANTS NULL, Program,
          DiskThread, lock, semaphore, Sector, Data, Calls,
          echo, readAvail, writeDone, Typed, Quit, EOF,
          Machine, Client, Config, Reliable,
          SectorsPerTrack, NumTracks, SeekTime, RotationTime, MaxTicks

ASSUME DevicesAssumption ==
  /\ Program \subseteq {"Disk", "SynchDisk", "ConsoleTest", "MailTest"}
  /\ {SectorsPerTrack, NumTracks, SeekTime, RotationTime} \subseteq Nat \ {0}
  /\ MaxTicks \in Nat
  /\ lock # semaphore /\ readAvail # writeDone /\ Calls \in Nat
  /\ \A k \in Config : k.home \in [Client -> Machine] /\ k.far \in [Client -> Machine]
  /\ Reliable \subseteq BOOLEAN /\ 0 \in Machine

\* The characters that can be typed.
Char == UNION {{s[i] : i \in DOMAIN s} : s \in Typed}

\* What goes over the wire: where from and where to, the mailbox and the box to reply
\* to, and, to tell the messages apart, whose it is and whose it answers.
Mail == [from : Machine, to : Machine, box : {0, 1}, reply : {1}, by : Client,
         re : Client \cup {NULL}]

\* A thread's pointer is not 0, and neither is that of a lock, a semaphore or a packet;
\* the keyboard sends no EOF.
ASSUME DeviceObjects ==
  /\ NULL \notin DiskThread \cup {lock, semaphore, readAvail, writeDone}
  /\ Typed \subseteq Seq(Char) /\ EOF \notin Char
  /\ NULL \notin Client \cup Mail /\ Client \cap ({"worker"} \X Machine) = {}
  /\ NULL \notin {"worker", "messageAvailable", "messageSent", "sendLock"} \X Machine
  /\ NULL \notin {"box"} \X Machine \X {0, 1}

\* MailTest runs in pairs of copies that write to each other, "./nachos -m 0 -o 1" and
\* "./nachos -m 1 -o 0" (nettest.cc:5-8), or on one machine that writes to itself.
ASSUME MailTestPairs ==
  \A k \in Config :
    \/ \A c, d \in Client : k.home[c] = k.home[d] /\ k.far[c] = k.home[c]
    \/ /\ \A c, d \in Client : c # d => k.home[c] # k.home[d]
       /\ \A c \in Client : \E d \in Client : k.home[d] = k.far[c] /\ k.far[d] = k.home[c]

VARIABLES program,
          status, value, queue, holder, waitCondQueue, condLock, pending, pc,
          platter, active, calls, op, buffer, done,
          typed, keyboard, incoming, putBusy, display, ch,
          config, reliable, sock, inbox, sending, boxes, hand, round, mail, halted,
          accepted, delivered, interrupted,
          totalTicks, lastSector, bufferInit, request

synchVars == <<status, value, queue, holder, waitCondQueue, condLock, pending>>
diskVars == <<platter, active, calls, op, buffer, done>>
charVars == <<typed, keyboard, incoming, putBusy, display, ch>>
mailVars == <<config, reliable, sock, inbox, sending, boxes, hand, round, mail, halted,
              accepted, delivered, interrupted>>
timeVars == <<totalTicks, lastSector, bufferInit, request>>
vars == <<program, synchVars, pc, diskVars, charVars, mailVars, timeVars>>

L == INSTANCE DiskLatency

D == INSTANCE SynchDisk WITH
       Thread <- DiskThread, Lock <- {lock}, Semaphore <- {lock, semaphore},
       Condition <- {}, InitialValue <- [s \in {lock, semaphore} |-> IF s = lock THEN 1 ELSE 0]

C == INSTANCE Console WITH
       Thread <- {echo}, Lock <- {}, Semaphore <- {readAvail, writeDone},
       Condition <- {}, InitialValue <- [s \in {readAvail, writeDone} |-> 0]

\* The objects of a post office with two boxes, on each machine.
MailLock == ({"sendLock"} \X Machine) \cup ({"box"} \X Machine \X {0, 1})
MailSemaphore == MailLock \cup ({"messageAvailable", "messageSent"} \X Machine)

M == INSTANCE PostOffice WITH
       Thread <- Client \cup ({"worker"} \X Machine), Lock <- MailLock,
       Semaphore <- MailSemaphore, Condition <- {"mail"} \X Machine \X {0, 1},
       InitialValue <- [s \in MailSemaphore |-> IF s \in MailLock THEN 1 ELSE 0]

Init ==
  /\ program \in Program
  /\ D!DataInit /\ C!DataInit /\ M!DataInit /\ L!Init
  /\ program # "SynchDisk" => platter = CHOOSE p \in [Sector -> Data] : TRUE
  /\ program # "ConsoleTest" => typed = CHOOSE s \in Typed : TRUE
  /\ program # "MailTest" => /\ config = CHOOSE k \in Config : TRUE
                             /\ reliable = CHOOSE r \in Reliable : TRUE
  /\ CASE program \in {"Disk", "SynchDisk"} -> D!Init
       [] program = "ConsoleTest" -> C!Init
       [] OTHER -> M!Init

\* The data of the programs that do not run.
DiskOnly == program = "SynchDisk" /\ UNCHANGED <<program, charVars, mailVars, timeVars>>
ConsoleOnly == program = "ConsoleTest" /\ UNCHANGED <<program, diskVars, mailVars, timeVars>>
MailOnly == program = "MailTest" /\ UNCHANGED <<program, diskVars, charVars, timeVars>>

DiskThreads == DiskOnly /\ \E t \in DiskThread : D!Step(t)
EchoThread == ConsoleOnly /\ C!Step
MailThreads(m) == MailOnly /\ M!ThreadStep(m)

DiskInterrupt == DiskOnly /\ D!HandleInterrupt
ConsoleInterrupt == ConsoleOnly /\ (C!CheckCharAvail \/ C!WriteDone)
NetworkInterrupt(m) == MailOnly /\ M!Interrupts(m)

\* The disk and the console are those of machine 0.
Processor(m) == (m = 0 /\ (DiskThreads \/ EchoThread)) \/ MailThreads(m)
Interrupts(m) == (m = 0 /\ (DiskInterrupt \/ ConsoleInterrupt)) \/ NetworkInterrupt(m)

\* The disk alone, asked whenever it is idle.
DiskTiming ==
  /\ program = "Disk" /\ L!Step
  /\ UNCHANGED <<program, synchVars, pc, diskVars, charVars, mailVars>>

Next == DiskTiming \/ \E m \in Machine : Processor(m) \/ Interrupts(m)

\* On each machine ready threads run, and a scheduled interrupt fires when the clock
\* gets there: Interrupt::Idle moves the clock to it when nothing else can run.
Spec ==
  /\ Init /\ [][Next]_vars
  /\ \A m \in Machine : WF_vars(Processor(m)) /\ WF_vars(Interrupts(m))

-----------------------------------------------------------------------------
(* Properties *)

\* A device is asked only when it is not busy: the ASSERTs of Disk::ReadRequest and
\* WriteRequest and of Console::PutChar hold whenever a thread gets to them.
RequestAccepted ==
  /\ program = "SynchDisk" => D!RequestAccepted
  /\ program = "ConsoleTest" => C!PutAccepted

\* A request that goes to the surface ends exactly when its sector has rotated
\* completely past the head, and costs no more than the seek, the rest of a
\* sector and one turn (ComputeLatency).
EndsAtSector == program = "Disk" => L!EndsAtSector

\* A read is answered from the track buffer only if the sector has gone by under
\* the head in full since the head came to the track (UpdateLast, ComputeLatency).
BufferHolds == program = "Disk" => L!BufferHolds

\* The interrupt that lets a thread go on is the one of its own request, for the
\* disk, the console and the network, although the semaphores between handler and
\* thread do not know whose it is.
OwnInterrupt ==
  /\ program = "SynchDisk" => D!OwnInterrupt
  /\ program = "ConsoleTest" => C!OwnWriteDone
  /\ program = "MailTest" => M!OwnSendDone

\* The console's one-character buffer loses nothing: ConsoleTest echoes all that is
\* typed, in order.
EchoExact == program = "ConsoleTest" => C!EchoExact

\* The network's one-packet buffer and the mailboxes lose, repeat and reorder nothing.
MailConserved == program = "MailTest" => M!MailConserved

\* MailTest halts for the acknowledgement of its own message, and nobody sends to a
\* machine that has halted.
AckMeansReceived == program = "MailTest" => M!AckMeansReceived

\* Every disk call returns, the echo ends with the 'q', and MailTest comes to its end
\* if no packet is lost.
Finished ==
  CASE program = "Disk" -> TRUE
    [] program = "SynchDisk" -> D!Finished
    [] program = "ConsoleTest" -> C!Finished
    [] OTHER -> M!Finished
Completion == (program = "MailTest" => reliable) ~> Finished
=============================================================================
