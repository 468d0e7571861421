SPECIFICATION Spec
CONSTANTS
  main = main
  t1 = t1
  timer1 = timer1
  console = console
  None = None
  Thread <- MCThread
  Timer = {timer1}
  Poller = {console}
  SystemTick = 2
  UserTick = 1
  TimerDelay = {2, 3}
  IODelay = {1, 3}
  PollDelay = 3
INVARIANTS NoMissedInterrupt ModeOfThread YieldFlagLocal HaltsWhenDone
PROPERTIES IOCompletes Halts
