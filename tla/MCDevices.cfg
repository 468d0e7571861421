SPECIFICATION Spec
CONSTANTS
  t1 = t1
  t2 = t2
  t3 = t3
  c1 = c1
  c2 = c2
  NULL = NULL
  lock = lock
  semaphore = semaphore
  echo = echo
  readAvail = readAvail
  writeDone = writeDone
  EOF = EOF
  Program <- MCProgram
  DiskThread <- MCDiskThread
  Sector = {0}
  Data = {"a", "b"}
  Calls = 2
  Typed <- MCTyped
  Quit = "q"
  Machine = {0, 1}
  Client <- MCClient
  Config <- MCConfig
  Reliable = {TRUE, FALSE}
  SectorsPerTrack = 3
  NumTracks = 3
  SeekTime = 2
  RotationTime = 3
  MaxTicks = 40
INVARIANTS EndsAtSector BufferHolds RequestAccepted OwnInterrupt EchoExact MailConserved AckMeansReceived
PROPERTY Completion
\* A machine that has halted does nothing more, and one whose packet was lost waits.
CHECK_DEADLOCK FALSE
