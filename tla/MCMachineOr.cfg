SPECIFICATION Spec
CONSTANTS
  ByteBits = 2
  PageSize = 16
  NumPhysPages = 3
  TLBSize = 2
  NumGPRegs = 5
  StackReg = 3
  R31 = 4
  DataStart = 32
  AddressLimit = 64
  Program <- MCComputing
INVARIANT ManualExact
\* A program ends.
CHECK_DEADLOCK FALSE
