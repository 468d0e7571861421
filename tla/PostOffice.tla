----------------------------- MODULE PostOffice -----------------------------
(***************************************************************************)
(* Mail between machines: the network device (machine/network.cc), the     *)
(* post office with its mailboxes (network/post.cc) and the threads that   *)
(* run MailTest (network/nettest.cc).                                      *)
(*                                                                         *)
(* Every machine has its own processor, device and post office.  A mailbox *)
(* is a SynchList: its lock and condition are <<"box", m, b>> and          *)
(* <<"mail", m, b>>.  A socket is a queue that loses nothing; the device   *)
(* loses packets on purpose before it writes to it.  pc of a client:       *)
(*   "send"     at postOffice->Send                                        *)
(*   "net"      sendLock->Acquire() called                                 *)
(*   "sent"     packet given to the network, messageSent->P() called       *)
(*   "receive"  at postOffice->Receive                                     *)
(*   "get"      the box's Acquire() or Wait() called                       *)
(*   "done"     the last Receive has returned, at interrupt->Halt()        *)
(* and of a postal worker:                                                 *)
(*   "idle"     at messageAvailable->P()                                   *)
(*   "avail"    messageAvailable->P() called                               *)
(*   "put"      packet received, the box's Acquire() called                *)
(*   "leave"    mail appended and signalled, the box's lock held           *)
(***************************************************************************)
EXTENDS Synch

CONSTANTS Machine, Client,
          Config,             \* where the clients run and whom they write to
          Reliable            \* whether the network loses nothing

VARIABLES config, reliable,
          sock, inbox,        \* of each device: its socket; inHdr and inbox, or NULL
          sending,            \* clients whose SendDone interrupt is scheduled
          boxes, hand,        \* mailboxes; the packet a postal worker holds
          round, mail,        \* 1: message, 2: acknowledgement; the last mail received
          halted, pc,
          accepted, delivered, interrupted   \* history

mailVars == <<config, reliable, sock, inbox, sending, boxes, hand, round, mail, halted,
              accepted, delivered, interrupted>>

messageAvailable(m) == <<"messageAvailable", m>>
messageSent(m) == <<"messageSent", m>>
sendLock(m) == <<"sendLock", m>>
boxLock(m, b) == <<"box", m, b>>
listEmpty(m, b) == <<"mail", m, b>>
worker(m) == <<"worker", m>>

Box == 0 .. 1
Home(c) == config.home[c]
OnMachine(t, m) == t = worker(m) \/ (t \in Client /\ Home(t) = m)

DataInit ==
  /\ config \in Config /\ reliable \in Reliable
  /\ sock = [m \in Machine |-> <<>>] /\ inbox = [m \in Machine |-> NULL]
  /\ sending = [m \in Machine |-> <<>>]
  /\ boxes = [m \in Machine |-> [b \in Box |-> <<>>]]
  /\ hand = [m \in Machine |-> NULL]
  /\ round = [c \in Client |-> 1] /\ mail = [c \in Client |-> NULL]
  /\ halted = {} /\ interrupted = {}
  /\ accepted = [m \in Machine |-> <<>>] /\ delivered = [m \in Machine |-> <<>>]

Init ==
  /\ SynchInit /\ DataInit
  /\ pc = [t \in Thread |-> IF t \in Client THEN "send" ELSE "idle"]

At(t, loc) == Running(t) /\ pc[t] = loc
Goto(t, loc) == pc' = [pc EXCEPT ![t] = loc]

-----------------------------------------------------------------------------
(* Network *)

\* Mutant: the poll does not look whether a packet is buffered.
CheckPktAvail_NoTest(m) ==
  /\ sock[m] # <<>>
  /\ inbox' = [inbox EXCEPT ![m] = Head(sock[m])]
  /\ sock' = [sock EXCEPT ![m] = Tail(@)]
  /\ V(messageAvailable(m))
  /\ UNCHANGED <<config, reliable, sending, boxes, hand, round, mail, halted, pc,
                 accepted, delivered, interrupted>>

\* CheckPktAvail when it finds a packet, with PostOffice::IncomingPacket; otherwise
\* it only schedules itself.
CheckPktAvail(m) ==
  /\ inbox[m] = NULL /\ sock[m] # <<>>
  /\ inbox' = [inbox EXCEPT ![m] = Head(sock[m])]
  /\ sock' = [sock EXCEPT ![m] = Tail(@)]
  /\ V(messageAvailable(m))
  /\ UNCHANGED <<config, reliable, sending, boxes, hand, round, mail, halted, pc,
                 accepted, delivered, interrupted>>

\* SendDone, with PostOffice::PacketSent.
SendDone(m) ==
  /\ sending[m] # <<>>
  /\ sending' = [sending EXCEPT ![m] = Tail(@)]
  /\ interrupted' = interrupted \cup {Head(sending[m])}
  /\ V(messageSent(m))
  /\ UNCHANGED <<config, reliable, sock, inbox, boxes, hand, round, mail, halted, pc,
                 accepted, delivered>>

\* The socket half of Network::Send: the packet is written, or lost on purpose.
NetworkSend(packet) ==
  \/ /\ sock' = [sock EXCEPT ![packet.to] = Append(@, packet)]
     /\ accepted' = [accepted EXCEPT ![packet.to] = Append(@, packet)]
  \/ ~reliable /\ UNCHANGED <<sock, accepted>>

-----------------------------------------------------------------------------
(* PostOffice::PostalDelivery on machine m *)

AwaitPacket(m) ==
  /\ At(worker(m), "idle") /\ P(worker(m), messageAvailable(m))
  /\ Goto(worker(m), "avail") /\ UNCHANGED <<holder, mailVars>>

\* Network::Receive, and Acquire of the box's lock.
TakePacket(m) ==
  /\ At(worker(m), "avail")
  /\ hand' = [hand EXCEPT ![m] = inbox[m]] /\ inbox' = [inbox EXCEPT ![m] = NULL]
  /\ Acquire(worker(m), boxLock(m, inbox[m].box)) /\ Goto(worker(m), "put")
  /\ UNCHANGED <<config, reliable, sock, sending, boxes, round, mail, halted,
                 accepted, delivered, interrupted>>

\* SynchList::Append with the lock.
PutMail(m) ==
  LET b == hand[m].box IN
  /\ At(worker(m), "put")
  /\ boxes' = [boxes EXCEPT ![m][b] = Append(@, hand[m])]
  /\ delivered' = [delivered EXCEPT ![m] = Append(@, hand[m])]
  /\ Signal(worker(m), listEmpty(m, b), boxLock(m, b)) /\ Goto(worker(m), "leave")
  /\ UNCHANGED <<config, reliable, sock, inbox, sending, hand, round, mail, halted,
                 accepted, interrupted>>

PutDone(m) ==
  /\ At(worker(m), "leave") /\ Release(worker(m), boxLock(m, hand[m].box))
  /\ hand' = [hand EXCEPT ![m] = NULL] /\ Goto(worker(m), "idle")
  /\ UNCHANGED <<config, reliable, sock, inbox, sending, boxes, round, mail, halted,
                 accepted, delivered, interrupted>>

-----------------------------------------------------------------------------
(* MailTest, with PostOffice::Send and PostOffice::Receive *)

\* The packet of client c: its message to box 0, to be answered to box 1, or the
\* answer to the mail it has got.
Packet(c) ==
  IF round[c] = 1
  THEN [from |-> Home(c), to |-> config.far[c], box |-> 0, reply |-> 1, by |-> c, re |-> NULL]
  ELSE [from |-> Home(c), to |-> mail[c].from, box |-> mail[c].reply, reply |-> 1,
        by |-> c, re |-> mail[c].by]

Send(c) ==
  /\ At(c, "send") /\ Acquire(c, sendLock(Home(c))) /\ Goto(c, "net")
  /\ UNCHANGED mailVars

\* Network::Send and the first turn of messageSent->P().
GiveToNetwork(c) ==
  /\ At(c, "net")
  /\ NetworkSend(Packet(c))
  /\ sending' = [sending EXCEPT ![Home(c)] = Append(@, c)]
  /\ interrupted' = interrupted \ {c}
  /\ P(c, messageSent(Home(c))) /\ Goto(c, "sent")
  /\ UNCHANGED <<holder, config, reliable, inbox, boxes, hand, round, mail, halted,
                 delivered>>

SendReturns(c) ==
  /\ At(c, "sent") /\ Release(c, sendLock(Home(c))) /\ Goto(c, "receive")
  /\ UNCHANGED mailVars

\* Receive from box 0, then from box 1.
ReceiveBox(c) == round[c] - 1

Receive(c) ==
  /\ At(c, "receive") /\ Acquire(c, boxLock(Home(c), ReceiveBox(c))) /\ Goto(c, "get")
  /\ UNCHANGED mailVars

\* Mutant: the machine halts without waiting for the acknowledgement.
GotMail_Halts(c) == Goto(c, "done") /\ UNCHANGED round

\* Behind Receive: acknowledge the message, or go on to halt the machine.
GotMail(c) ==
  IF round[c] = 1
  THEN round' = [round EXCEPT ![c] = 2] /\ Goto(c, "send")
  ELSE Goto(c, "done") /\ UNCHANGED round

\* SynchList::Remove with the lock, on entry and each time Wait() returns.
GetMail(c) ==
  LET m == Home(c)
      b == ReceiveBox(c)
  IN
  /\ At(c, "get")
  /\ \/ /\ boxes[m][b] = <<>> /\ Wait(c, listEmpty(m, b), boxLock(m, b))
        /\ UNCHANGED <<boxes, mail, round, pc>>
     \/ /\ boxes[m][b] # <<>>
        /\ mail' = [mail EXCEPT ![c] = Head(boxes[m][b])]
        /\ boxes' = [boxes EXCEPT ![m][b] = Tail(@)]
        /\ Release(c, boxLock(m, b)) /\ GotMail(c)
  /\ UNCHANGED <<config, reliable, sock, inbox, sending, hand, halted, accepted,
                 delivered, interrupted>>

\* Interrupt::Halt, which ends the whole machine and removes its socket.
Halt(c) ==
  /\ At(c, "done") /\ halted' = halted \cup {Home(c)}
  /\ UNCHANGED <<synchVars, pc, config, reliable, sock, inbox, sending, boxes, hand,
                 round, mail, accepted, delivered, interrupted>>

Retry(t) == Resume(t) /\ UNCHANGED <<mailVars, pc>>

\* One step of machine m, which runs until it halts.
ThreadStep(m) ==
  /\ m \notin halted
  /\ \/ AwaitPacket(m) \/ TakePacket(m) \/ PutMail(m) \/ PutDone(m)
     \/ \E c \in {d \in Client : Home(d) = m} :
          \/ Send(c) \/ GiveToNetwork(c) \/ SendReturns(c)
          \/ Receive(c) \/ GetMail(c) \/ Halt(c)
     \/ \E t \in Thread : OnMachine(t, m) /\ Retry(t)

Interrupts(m) == m \notin halted /\ (CheckPktAvail(m) \/ SendDone(m))

Finished == \A c \in Client : Home(c) \in halted

-----------------------------------------------------------------------------
(* Properties *)

Held(x) == IF x = NULL THEN <<>> ELSE <<x>>

\* What a worker holds and has not put into its box yet.
InHand(m) == IF pc[worker(m)] = "put" THEN Held(hand[m]) ELSE <<>>

\* "in order but unreliably" (network.h:46): every packet the network took for machine m is
\* put into a mailbox once, in the order it was sent; none is overwritten in the
\* device's buffer, delivered twice or made up when the worker is woken.
MailConserved ==
  \A m \in Machine : delivered[m] \o InHand(m) \o Held(inbox[m]) \o sock[m] = accepted[m]

\* "only one message can be sent to the network at any one time": the interrupt that
\* lets a client out of messageSent->P() is the one of its own packet.
OwnSendDone ==
  /\ \A m \in Machine : Len(sending[m]) <= 1
  /\ \A c \in Client : At(c, "sent") => c \in interrupted

\* When each client has a machine of its own, the acknowledgement for which a client
\* halts answers its own message, also if packets were lost; and nobody sends to a
\* machine that has halted and removed its socket.
AckMeansReceived ==
  /\ \A c \in Client :
       At(c, "net") /\ Home(c) \notin halted => Packet(c).to \notin halted
  /\ (\A c, d \in Client : c # d => Home(c) # Home(d)) =>
       \A c \in Client : Home(c) \in halted => mail[c].re = c
=============================================================================
