------------------------------ MODULE MCMachine ------------------------------
(* Bytes of two bits.  Pages of four words, three frames, a TLB of two      *)
(* entries: programs whose text takes up to three pages and whose data is   *)
(* on the pages 2 and 3, the first of which is beyond the page table when   *)
(* the program has two pages, and the second beyond the memory always.      *)
EXTENDS Machine

R(op, rd, rs, rt, shift) == [op |-> op, rs |-> rs, rt |-> rt, rd |-> rd, low |-> shift]
I(op, rt, rs, imm) == [op |-> op, rs |-> rs, rt |-> rt, rd |-> 0, low |-> imm % Half]
J(op, target) == [op |-> op, rs |-> 0, rt |-> 0, rd |-> 0, low |-> target]
Set(r, v) == <<I("LUI", r, 0, v \div Half), I("ORI", r, r, v % Half)>>
Halt == <<R("SYSCALL", 0, 0, 0, 0)>>

\* One operation on two registers.
Values == {0, 1, 5, 127, 128, 129, 250, 255}
Computing ==
  LET One == {<<R(op, 4, 1, 3, n)>> : op \in RFMT \ {"JR", "JALR", "SYSCALL", "SRA", "SLL"},
                                       n \in {0}}
        \cup {<<R(op, 4, 1, 3, n)>> : op \in {"SRA", "SLL", "SRL"}, n \in {1, 7}}
        \cup {<<I(op, 4, 1, n)>> : op \in RtOp, n \in {-8, -1, 1, 7}}
        \cup {<<R("MULT", 0, 1, 3, 0), R("MFHI", 4, 0, 0, 0)>>,
              <<R("MTLO", 0, 1, 0, 0), R("MFLO", 4, 0, 0, 0)>>,
              <<R("RES", 0, 0, 0, 0)>>, <<R("ADDU", 0, 1, 3, 0)>>,
              <<R("ADDU", 2, 1, 3, 0)>>}
  IN {Set(1, a) \o Set(3, b) \o op \o Halt : a \in Values, b \in Values, op \in One}

\* A branch, what is in its delay slot, and a call that returns.
Branching ==
  {Set(1, v) \o <<br, slot, I("ADDIU", 3, 3, 1), I("ADDIU", 4, 0, 1)>> \o Halt :
     v \in {0, 1, 32, 128, 255},
     br \in {I(op, 0, 1, off) : op \in {"BEQ", "BNE", "BGTZ", "BLEZ"}, off \in {2, -3}}
              \cup {I(op, StackReg, 1, 2) : op \in {"BEQ", "BNE"}}
              \cup {I("BCOND", sel, 1, 2) : sel \in {0, 1, 2, 16, 17}}
              \cup {J("J", 5), R("JR", 0, 0, 0, 0)},
     slot \in {I("ADDIU", 3, 0, 5), I("LW", 2, 3, 0)}}
  \cup {<<call, I("ADDIU", 1, 0, at)>> \o Halt \o <<R("JR", 0, 4, 0, 0), I("ADDIU", 3, 0, 1)>> :
          call \in {J("JAL", 3)}, at \in {0, 1}}
  \cup {Set(1, at) \o <<R("JALR", 4, 1, 0, 0), I("ADDIU", 3, 0, 1)>> \o Halt
          \o <<R("JR", 0, 4, 0, 0), I("ADDIU", 3, 3, 1)>> : at \in {18, 20}}

\* Loads and stores on pages 2 (from 32, register 1) and 3 (from 48, register 4), in
\* any order that keeps off a register being loaded.
Access ==
  {I("LW", 3, 1, 0), I("LB", 3, 4, 1), I("LBU", 3, 1, 3), I("LHU", 3, 1, 2),
   I("SB", 4, 4, 1), I("SB", 3, 1, 3), I("SH", 4, 1, 2), I("SW", 3, 4, 0),
   I("SW", 4, 1, 0), I("ADDIU", 3, 3, 5), I("LH", 3, 4, 1)}
PartAccess == {I(op, 3, base, 0) : op \in PartWord, base \in {1, 4}}
KeepsOff(s) ==
  \A k \in 1 .. Len(s) - 1 :
    s[k].op \in LoadOp => s[k].rt \notin {s[k + 1].rs, s[k + 1].rt}
Sequence(A, n) ==
  {<<I("LUI", 1, 0, 2), I("LUI", 4, 0, 3)>> \o s \o Halt : s \in {s \in [1 .. n -> A] : KeepsOff(s)}}
Accessing ==
  {Set(1, 32) \o Set(3, v) \o <<I("SW", 3, 1, 0), load, I("ADDIU", 2, 0, 0)>> \o Halt :
     v \in Values, load \in {I("LW", 4, 1, 0), I("LH", 4, 1, 2), I("LHU", 4, 1, 2), I("LH", 4, 1, 0),
                            I("LB", 4, 1, 3), I("LBU", 4, 1, 3), I("LB", 0, 1, 0)}}
  \cup Sequence(Access, 4) \cup Sequence(Access \cup PartAccess, 2)
  \cup {Set(1, 32) \o <<I(op, 1, 1, 1), I("ADDIU", 3, 1, 1), I("ADDIU", 2, 0, 0)>>
          \o <<I("LBU", 3, 1, 0)>> \o Halt : op \in StoreOp}

MCProgram ==
  {[text |-> t, pages |-> 3] : t \in Computing \cup Branching}
    \cup [text : Accessing, pages : {2, 3}]
\* Without the right shifts, which differ from the manual for another reason than OR.
MCComputing ==
  {[text |-> t, pages |-> 3] :
     t \in {u \in Computing : \A k \in DOMAIN u : u[k].op \notin {"SRL", "SRLV"}}}
=============================================================================
