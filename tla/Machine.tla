------------------------------- MODULE Machine -------------------------------
(***************************************************************************)
(* A user program on the simulated machine: OneInstruction of mipssim.cc,  *)
(* ReadMem and WriteMem of translate.cc, RaiseException of machine.cc, the *)
(* ExceptionHandler, and what StartProcess sets up.                        *)
(*                                                                         *)
(* Beside it runs ref, a processor that follows the MIPS manual: a flat    *)
(* memory, no TLB, and loads that are not delayed.  Programs obey the rule *)
(* that goes with the delay: the instruction after a load does not name    *)
(* the register that is loaded.                                            *)
(*                                                                         *)
(* The code of a program is text, a sequence of instructions that no store *)
(* overwrites; the bytes of mainMemory and of the swap file are data.  The *)
(* program is loaded as under USE_SWAP, which no Makefile defines.         *)
(***************************************************************************)
EXTENDS MipsManual, Translation

CONSTANTS NumGPRegs, StackReg,
          Program,        \* records [text, pages]; pages is realNumPages
          DataStart, AddressLimit    \* the addresses of a program's data

ASSUME MachineAssumption ==
  /\ 2 < NumGPRegs /\ {StackReg, R31} \subseteq 1 .. NumGPRegs - 1
  /\ \A p \in Program : 4 * Len(p.text) <= MemorySize /\ p.pages \in Nat \ {0}
  /\ AddressLimit \in MemorySize .. Word /\ DataStart \in 0 .. MemorySize

VARIABLES program,
          machine,    \* the Machine object
          status,     \* "run", "halt", "abort" (an ASSERT) or "crash" (of the host)
          ref,        \* the reference processor
          intact      \* no access so far that the swap file cannot serve

vars == <<program, machine, status, ref, intact>>

GPReg == 0 .. NumGPRegs - 1

\* InitRegisters.
InitRegisters(pages) ==
  [r \in GPReg |-> IF r = StackReg THEN pages * PageSize - 16 ELSE 0]

\* The executable is at the start of the swap file; addresses in it are less the
\* noffCodeOffset.  Past its end a Unix file has holes of zeros.
Init ==
  /\ program \in Program
  /\ machine = [reg |-> InitRegisters(program.pages), hi |-> 0, lo |-> 0,
                pc |-> 0, nextPC |-> 4, loadReg |-> 0, loadValue |-> 0,
                mmu |-> FirstMMU(program.pages),
                mainMemory |-> [a \in 0 .. MemorySize - 1 |-> 0],
                swap |-> [a \in MemorySize .. AddressLimit - 1 |-> 0],
                length |-> 4 * Len(program.text),
                disk |-> [i \in 0 .. 3 |-> 0]]
  /\ ref = [reg |-> InitRegisters(program.pages), hi |-> 0, lo |-> 0,
            pc |-> 0, nextPC |-> 4, mem |-> [a \in DataStart .. AddressLimit - 1 |-> 0], status |-> "run"]
  /\ status = "run" /\ intact = TRUE

-----------------------------------------------------------------------------
(* Memory *)

\* Mutant: a load stays pending until another one is.
DelayedLoad_KeepsPending(m, nextReg, nextValue) ==
  [m EXCEPT !.reg[m.loadReg] = m.loadValue, !.reg[0] = 0,
            !.loadReg = IF nextReg = 0 THEN @ ELSE nextReg,
            !.loadValue = IF nextReg = 0 THEN @ ELSE nextValue]

DelayedLoad(m, nextReg, nextValue) ==
  [m EXCEPT !.reg[m.loadReg] = m.loadValue, !.reg[0] = 0,
            !.loadReg = nextReg, !.loadValue = nextValue]

\* Translate, with the DelayedLoad of the RaiseException for a TLB miss.
Reached(m, t, offset) ==
  [m |-> IF t.tlb_miss THEN DelayedLoad([m EXCEPT !.mmu = t.mmu], 0, 0)
         ELSE [m EXCEPT !.mmu = t.mmu],
   pa |-> t.pageFrame * PageSize + offset]
Reach(m, addr, writing) ==
  Reached(m, Translate(m.mmu, addr \div PageSize, writing), addr % PageSize)

\* A read past the end of the swap file leaves the rest of disk as it was.
ReadSwap(m, pa, size) ==
  [i \in 0 .. 3 |-> IF i < size /\ pa + i < m.length THEN m.swap[pa + i] ELSE m.disk[i]]
ReadAt(m, pa, size) ==
  IF pa >= MemorySize
  THEN [m |-> [m EXCEPT !.disk = ReadSwap(m, pa, size)],
        value |-> FromBytes(ReadSwap(m, pa, size), size)]
  ELSE [m |-> m, value |-> FromBytes([i \in 0 .. size - 1 |-> m.mainMemory[pa + i]], size)]
ReadThere(at, size) == ReadAt(at.m, at.pa, size)
ReadMem(m, addr, size) == ReadThere(Reach(m, addr, FALSE), size)

\* For the swap file only disk[0] is set, whatever the size.
WriteSwap(m, pa, size, disk) ==
  [m EXCEPT !.disk = disk,
            !.swap = [a \in DOMAIN @ |-> IF a \in pa .. pa + size - 1 THEN disk[a - pa] ELSE @[a]],
            !.length = Max({@, pa + size})]
WriteAt(m, pa, size, v) ==
  IF pa >= MemorySize THEN WriteSwap(m, pa, size, [m.disk EXCEPT ![0] = ByteOf(v, 0)])
  ELSE [m EXCEPT !.mainMemory = [a \in DOMAIN @ |->
          IF a \in pa .. pa + size - 1 THEN ByteOf(v, a - pa) ELSE @[a]]]
WriteThere(at, size, v) == WriteAt(at.m, at.pa, size, v)
WriteMem(m, addr, size, v) == WriteThere(Reach(m, addr, TRUE), size, v)

\* What the swap file can serve: bytes, and reads before its end.
ServedAt(pa, size, writing, length) ==
  pa >= MemorySize => IF writing THEN size = 1 ELSE pa + size <= length
Served(m, addr, size, writing) ==
  ServedAt(Reach(m, addr, writing).pa, size, writing, m.length)

-----------------------------------------------------------------------------
(* OneInstruction: m is the machine after the fetch, i the instruction *)

\* Translate refuses a misaligned address, and SwitchPageTable has the bitmap test a
\* bit for the page: in both cases an ASSERT stops Nachos.
Refused(addr, size) == addr % size # 0 \/ addr \div PageSize >= MemorySize

\* The end of OneInstruction.
Finish(m, nextReg, nextValue, pcAfter) ==
  /\ machine' = [DelayedLoad(m, nextReg, nextValue) EXCEPT
                   !.pc = m.nextPC, !.nextPC = pcAfter]
  /\ UNCHANGED status
Advance(m) == Finish(m, 0, 0, (m.nextPC + 4) % Word)

\* RaiseException for anything but a page fault: the handler halts for SC_Halt and
\* fails its ASSERT otherwise.
Trap(m, result) ==
  /\ machine' = DelayedLoad(m, 0, 0)
  /\ status' = result

\* The instructions that compute a general register.
Compute(m, i) ==
  /\ i.op \in RdOp \cup RtOp
  /\ IF Overflows(i.op, m.reg[i.rs], m.reg[i.rt], i.extra) THEN Trap(m, "abort")
     ELSE Advance(IF i.op \in RdOp
                  THEN [m EXCEPT !.reg[i.rd] =
                          RdValue(i.op, m.reg[i.rs], m.reg[i.rt], i.extra)]
                  ELSE [m EXCEPT !.reg[i.rt] = RtValue(i.op, m.reg[i.rs], i.extra)])
  /\ UNCHANGED intact

InHiLo(m, r) == [m EXCEPT !.hi = r.hi, !.lo = r.lo]
MultiplyDivide(m, i) ==
  /\ i.op \in {"MULT", "MULTU", "DIV", "DIVU"}
  /\ IF Unrepresentable(i.op, m.reg[i.rs], m.reg[i.rt]) THEN Trap(m, "crash")
     ELSE Advance(InHiLo(m, IF i.op \in {"DIV", "DIVU"}
                            THEN Divide(i.op, m.reg[i.rs], m.reg[i.rt])
                            ELSE Mult(m.reg[i.rs], m.reg[i.rt], i.op = "MULT")))
  /\ UNCHANGED intact

MoveHiLo(m, i) ==
  /\ i.op \in {"MFHI", "MFLO", "MTHI", "MTLO"}
  /\ Advance(CASE i.op = "MFHI" -> [m EXCEPT !.reg[i.rd] = m.hi]
               [] i.op = "MFLO" -> [m EXCEPT !.reg[i.rd] = m.lo]
               [] i.op = "MTHI" -> [m EXCEPT !.hi = m.reg[i.rs]]
               [] i.op = "MTLO" -> [m EXCEPT !.lo = m.reg[i.rs]])
  /\ UNCHANGED intact

\* JALR writes its link before it reads rs.
Link(m, i) ==
  IF i.op \in Linked
  THEN [m EXCEPT !.reg[IF i.op = "JALR" THEN i.rd ELSE R31] = (m.nextPC + 4) % Word]
  ELSE m
Go(m, i) == Finish(m, 0, 0, PCAfter(i.op, m.nextPC, m.reg[i.rs], m.reg[i.rt], i.extra))
Branch(m, i) == i.op \in Jumps /\ Go(Link(m, i), i) /\ UNCHANGED intact

\* LWL and LWR look for the old value of rt in the pending load.
Loaded(m, i, value) ==
  Finish(m, i.rt,
         LoadValue(i.op, value, IF m.loadReg = i.rt THEN m.loadValue ELSE m.reg[i.rt]),
         (m.nextPC + 4) % Word)
LoadFrom(i, read) == Loaded(read.m, i, read.value)
Load(m, i) ==
  /\ i.op \in LoadOp
  /\ IF Refused(AddressOf(i, m.reg), Size(i.op)) THEN Trap(m, "abort") /\ UNCHANGED intact
     ELSE /\ LoadFrom(i, ReadMem(m, AddressOf(i, m.reg), Size(i.op)))
          /\ intact' = (intact /\ Served(m, AddressOf(i, m.reg), Size(i.op), FALSE))

\* SWL and SWR read the word, then write it back merged with rt.
Merge(i, addr, read) ==
  WriteMem(read.m, addr, 4, MergedValue(i.op, read.value, read.m.reg[i.rt]))
Store(m, i) ==
  /\ i.op \in StoreOp
  /\ IF Refused(AddressOf(i, m.reg), Size(i.op)) THEN Trap(m, "abort") /\ UNCHANGED intact
     ELSE /\ Advance(IF i.op \in {"SWL", "SWR"}
                     THEN Merge(i, AddressOf(i, m.reg), ReadMem(m, AddressOf(i, m.reg), 4))
                     ELSE WriteMem(m, AddressOf(i, m.reg), Size(i.op), m.reg[i.rt]))
          /\ intact' = (intact /\ Served(m, AddressOf(i, m.reg), Size(i.op), TRUE))

Exception(m, i) ==
  /\ i.op \in {"SYSCALL", "RES", "UNIMP"}
  /\ Trap(m, IF i.op = "SYSCALL" /\ DelayedLoad(m, 0, 0).reg[2] = 0 THEN "halt" ELSE "abort")
  /\ UNCHANGED intact

BadFetch ==
  /\ Refused(machine.pc, 4)
  /\ Trap(machine, "abort")
  /\ UNCHANGED intact

\* The ReadMem of the fetch finds text in memory.
GoodFetch ==
  /\ ~ Refused(machine.pc, 4)
  /\ \E m \in {Reach(machine, machine.pc, FALSE).m},
        i \in {Decode(program.text[(machine.pc \div 4) + 1])} :
       \/ Compute(m, i) \/ MultiplyDivide(m, i) \/ MoveHiLo(m, i) \/ Branch(m, i)
       \/ Load(m, i) \/ Store(m, i) \/ Exception(m, i)

OneInstruction ==
  /\ status = "run" /\ machine.pc < 4 * Len(program.text)
  /\ BadFetch \/ GoodFetch
  /\ ref' = Manual(ref, program.text)
  /\ UNCHANGED program

Next == OneInstruction

Spec == Init /\ [][Next]_vars

-----------------------------------------------------------------------------
(* Properties *)

SameRegisters ==
  LET m == DelayedLoad(machine, 0, 0)
  IN /\ status = ref.status
     /\ status # "abort" => <<m.reg, m.hi, m.lo>> = <<ref.reg, ref.hi, ref.lo>>
     /\ status = "run" => <<m.pc, m.nextPC>> = <<ref.pc, ref.nextPC>>

\* The instructions that are not as in the manual: OR ignores rt, SRL and SRLV copy the
\* sign, and LWL, LWR, SWL and SWR do at a word's address what a big-endian processor
\* does, and fail an ASSERT at the others, although the machine is little-endian.
NotAsManual == {"OR", "SRL", "SRLV"} \cup PartWord
AsManual == \A k \in DOMAIN program.text : program.text[k].op \notin NotAsManual

\* A program without the instructions of NotAsManual cannot tell the machine from the
\* manual's processor: TLB misses and page faults, which finish a pending load early,
\* delay slots, decoding, arithmetic at the limits of a word and the multiplication in
\* two words leave it the same registers at every instruction, and the same one stops it.
RegistersExact == intact /\ status # "crash" /\ AsManual => SameRegisters

\* What the program would read from its data at address a.
Seen(a) ==
  LET pa == Reach(machine, a, FALSE).pa
  IN IF pa < MemorySize THEN machine.mainMemory[pa] ELSE machine.swap[pa]

\* Page faults replace page table entries whose pages are still in the TLB, and whose
\* pages come back through another entry: whatever the order, every byte the program
\* wrote is what it will read.  Programs with an instruction of NotAsManual are left out.
MemoryExact ==
  intact /\ status = ref.status /\ AsManual => \A a \in DOMAIN ref.mem : Seen(a) = ref.mem[a]

\* An entry that stays in the TLB after its page table entry has gone to another page
\* is never joined by a second one for its page, and still names the page's own frame.
TlbCoherent ==
  LET tlb == machine.mmu.tlb
      valid == {i \in DOMAIN tlb : IsValid(tlb[i])}
  IN \A i \in valid :
       /\ tlb[i].physicalPage = tlb[i].virtualPage
       /\ \A j \in valid \ {i} : tlb[j].virtualPage # tlb[i].virtualPage

\* opStrings lists the operands of OR as RD, RS, RT, and the instructions are to be
\* executed "cf. Kane's book": every program has the registers of the manual.
ManualExact == intact /\ status # "crash" => SameRegisters
=============================================================================
