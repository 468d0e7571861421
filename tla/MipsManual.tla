----------------------------- MODULE MipsManual -----------------------------
(***************************************************************************)
(* The processor the simulator is to behave like, as the MIPS manual (the  *)
(* "Kane's book" of mipssim.cc) has it, in the little-endian byte order    *)
(* that mipssim.cc:4 names, for programs that obey the rules for delay     *)
(* slots: r is [reg, hi, lo, pc, nextPC, mem, status] with a flat memory   *)
(* and loads that take effect at once.  A division by zero, which the      *)
(* manual leaves without result, gives the simulator's zeros.              *)
(*                                                                         *)
(* It starts from the instruction's fields, not from what Decode makes of  *)
(* them, and says bit by bit what module Mips computes with C's operators. *)
(***************************************************************************)
EXTENDS Mips, Sequences

Bit(x, k) == (x \div 2 ^ k) % 2
Word01(P(_)) == MapThenSumSet(LAMBDA k : 2 ^ k, {k \in 0 .. WordBits - 1 : P(k)})
Top == WordBits - 1

\* A word as an int; the int of a 16-bit immediate.
IntOf(x) == IF Bit(x, Top) = 1 THEN x - 2 ^ WordBits ELSE x
Immediate(i) == IF Bit(i.low, 2 * ByteBits - 1) = 1 THEN i.low - 2 ^ (2 * ByteBits) ELSE i.low
IntRange == -(2 ^ Top) .. 2 ^ Top - 1
Wrapped(n) == n % 2 ^ WordBits

\* Comparison of two words: the first bit in which they differ decides.
BelowU(a, b) ==
  \E k \in 0 .. Top : /\ Bit(a, k) = 0 /\ Bit(b, k) = 1
                      /\ \A j \in k + 1 .. Top : Bit(a, j) = Bit(b, j)
Below(a, b) == IF Bit(a, Top) # Bit(b, Top) THEN Bit(a, Top) = 1 ELSE BelowU(a, b)
OneIf(p) == IF p THEN 1 ELSE 0

\* Shifts of the word b by n bits.
ShiftedLeft(b, n) == Word01(LAMBDA k : k >= n /\ Bit(b, k - n) = 1)
ShiftedRight(b, n) == Word01(LAMBDA k : k + n <= Top /\ Bit(b, k + n) = 1)
ShiftedArith(b, n) == Word01(LAMBDA k : Bit(b, IF k + n <= Top THEN k + n ELSE Top) = 1)

ManualRd(op, a, b, shift) ==
  CASE op \in {"ADD", "ADDU"} -> Wrapped(IntOf(a) + IntOf(b))
    [] op \in {"SUB", "SUBU"} -> Wrapped(IntOf(a) - IntOf(b))
    [] op = "AND" -> Word01(LAMBDA k : Bit(a, k) = 1 /\ Bit(b, k) = 1)
    [] op = "OR" -> Word01(LAMBDA k : Bit(a, k) = 1 \/ Bit(b, k) = 1)
    [] op = "XOR" -> Word01(LAMBDA k : Bit(a, k) # Bit(b, k))
    [] op = "NOR" -> Word01(LAMBDA k : Bit(a, k) = 0 /\ Bit(b, k) = 0)
    [] op = "SLT" -> OneIf(Below(a, b))
    [] op = "SLTU" -> OneIf(BelowU(a, b))
    [] op = "SLL" -> ShiftedLeft(b, shift)
    [] op = "SLLV" -> ShiftedLeft(b, a % WordBits)
    [] op = "SRL" -> ShiftedRight(b, shift)
    [] op = "SRLV" -> ShiftedRight(b, a % WordBits)
    [] op = "SRA" -> ShiftedArith(b, shift)
    [] op = "SRAV" -> ShiftedArith(b, a % WordBits)

\* The logical operations take the immediate with zeros in front, the others with its
\* sign; SLTIU compares what results without sign.
ManualRt(op, a, i) ==
  CASE op \in {"ADDI", "ADDIU"} -> Wrapped(IntOf(a) + Immediate(i))
    [] op = "ANDI" -> Word01(LAMBDA k : Bit(a, k) = 1 /\ Bit(i.low, k) = 1)
    [] op = "ORI" -> Word01(LAMBDA k : Bit(a, k) = 1 \/ Bit(i.low, k) = 1)
    [] op = "XORI" -> Word01(LAMBDA k : Bit(a, k) # Bit(i.low, k))
    [] op = "SLTI" -> OneIf(IntOf(a) < Immediate(i))
    [] op = "SLTIU" -> OneIf(BelowU(a, Wrapped(Immediate(i))))
    [] op = "LUI" -> ShiftedLeft(i.low, 2 * ByteBits)

ManualHiLo(op, a, b) ==
  LET n == IF op = "DIV" THEN IntOf(a) ELSE a
      d == IF op = "DIV" THEN IntOf(b) ELSE b
      product == IF op = "MULT" THEN IntOf(a) * IntOf(b) ELSE a * b
      Goes(q) == LET r == n - q * d
                 IN /\ IF d < 0 THEN r \in d + 1 .. -d - 1 ELSE r \in 1 - d .. d - 1
                    /\ r # 0 => (r < 0) = (n < 0)
      q == CHOOSE q \in -(2 ^ WordBits) .. 2 ^ WordBits : Goes(q)
  IN IF op \in {"MULT", "MULTU"}
     THEN [hi |-> Wrapped(product \div 2 ^ WordBits), lo |-> Wrapped(product)]
     ELSE IF d = 0 THEN [hi |-> 0, lo |-> 0]
     ELSE [hi |-> Wrapped(n - q * d), lo |-> Wrapped(q)]

-----------------------------------------------------------------------------
(* Branches *)

\* In a BCOND the lowest bit of rt is for >= and the highest for a link.
ManualBranches == {"BEQ", "BNE", "BGTZ", "BLEZ", "BCOND"}
Condition(i, a, b) ==
  CASE i.op = "BEQ" -> \A k \in 0 .. Top : Bit(a, k) = Bit(b, k)
    [] i.op = "BNE" -> \E k \in 0 .. Top : Bit(a, k) # Bit(b, k)
    [] i.op = "BGTZ" -> Bit(a, Top) = 0 /\ a # 0
    [] i.op = "BLEZ" -> Bit(a, Top) = 1 \/ a = 0
    [] i.op = "BCOND" -> Bit(a, Top) # i.rt % 2

\* Where the instruction behind the delay slot is: r.nextPC is the slot's address.
ManualTarget(r, i) ==
  CASE i.op \in {"J", "JAL"} ->
         Word01(LAMBDA k : IF k > Top - ByteBits \div 2 THEN Bit(r.nextPC, k) = 1
                           ELSE k >= 2 /\ Bit(i.low, k - 2) = 1)
    [] i.op \in {"JR", "JALR"} -> r.reg[i.rs]
    [] i.op \in ManualBranches /\ Condition(i, r.reg[i.rs], r.reg[i.rt]) ->
         Wrapped(r.nextPC + 4 * Immediate(i))
    [] OTHER -> Wrapped(r.nextPC + 4)

\* The register that gets the return address; 0 for none.
ManualLink(i) ==
  CASE i.op = "JALR" -> i.rd
    [] i.op = "JAL" \/ (i.op = "BCOND" /\ i.rt >= 16) -> R31
    [] OTHER -> 0

-----------------------------------------------------------------------------
(* Loads and stores *)

ManualSize(op) == CASE op \in {"LB", "LBU", "SB"} -> 1 [] op \in {"LH", "LHU", "SH"} -> 2
                    [] op \in {"LW", "SW"} -> 4
\* These take any address, and go from there to one end of its word.
PartWord == {"LWL", "LWR", "SWL", "SWR"}
ManualAddress(r, i) == Wrapped(IntOf(r.reg[i.rs]) + Immediate(i))

\* Bit k of what begins at address a.
MemBit(r, a, k) == Bit(r.mem[a + (k \div ByteBits)], k % ByteBits)

\* LWL fills the register from its high end with the bytes of the word up to address
\* a; LWR fills it from its low end with those from address a on.
ManualLoad(r, i) ==
  LET a == ManualAddress(r, i)
      n == ByteBits * ManualSize(i.op)
      word == a - (a % 4)
      skipL == ByteBits * (3 - (a % 4))
      skipR == ByteBits * (a % 4)
      old == r.reg[i.rt]
  IN CASE i.op \in {"LB", "LH"} -> Word01(LAMBDA k : MemBit(r, a, IF k < n THEN k ELSE n - 1) = 1)
       [] i.op \in {"LBU", "LHU", "LW"} -> Word01(LAMBDA k : k < n /\ MemBit(r, a, k) = 1)
       [] i.op = "LWL" -> Word01(LAMBDA k : IF k >= skipL THEN MemBit(r, word, k - skipL) = 1
                                            ELSE Bit(old, k) = 1)
       [] i.op = "LWR" -> Word01(LAMBDA k : IF k + skipR <= Top THEN MemBit(r, word, k + skipR) = 1
                                            ELSE Bit(old, k) = 1)

\* The addresses a store writes, and the byte of the register that goes to each.
ManualStore(r, i) ==
  LET a == ManualAddress(r, i)
      word == a - (a % 4)
      written == CASE i.op = "SWL" -> word .. a
                   [] i.op = "SWR" -> a .. word + 3
                   [] OTHER -> a .. a + ManualSize(i.op) - 1
      From(b) == IF i.op = "SWL" THEN 3 - (a - b) ELSE b - a
  IN [b \in DOMAIN r.mem |->
        IF b \in written THEN (r.reg[i.rt] \div 2 ^ (ByteBits * From(b))) % 2 ^ ByteBits
        ELSE r.mem[b]]

-----------------------------------------------------------------------------
(* One instruction *)

ManualTrap(r, i) ==
  LET a == IntOf(r.reg[i.rs])
  IN \/ i.op = "ADD" /\ a + IntOf(r.reg[i.rt]) \notin IntRange
     \/ i.op = "SUB" /\ a - IntOf(r.reg[i.rt]) \notin IntRange
     \/ i.op = "ADDI" /\ a + Immediate(i) \notin IntRange
     \/ /\ i.op \in (LoadOp \cup StoreOp) \ PartWord
        /\ ManualAddress(r, i) % ManualSize(i.op) # 0
     \/ i.op = "BCOND" /\ i.rt \notin {0, 1, 16, 17}
     \/ i.op = "SYSCALL" /\ r.reg[2] # 0
     \/ i.op \in {"RES", "UNIMP"}

ManualDone(r, i) ==
  LET a == r.reg[i.rs]
      b == r.reg[i.rt]
  IN CASE i.op \in RdOp -> [r EXCEPT !.reg[i.rd] = ManualRd(i.op, a, b, i.low)]
       [] i.op \in RtOp -> [r EXCEPT !.reg[i.rt] = ManualRt(i.op, a, i)]
       [] i.op \in {"MULT", "MULTU", "DIV", "DIVU"} ->
            [r EXCEPT !.hi = ManualHiLo(i.op, a, b).hi, !.lo = ManualHiLo(i.op, a, b).lo]
       [] i.op = "MFHI" -> [r EXCEPT !.reg[i.rd] = r.hi]
       [] i.op = "MFLO" -> [r EXCEPT !.reg[i.rd] = r.lo]
       [] i.op = "MTHI" -> [r EXCEPT !.hi = a]
       [] i.op = "MTLO" -> [r EXCEPT !.lo = a]
       [] i.op \in LoadOp -> [r EXCEPT !.reg[i.rt] = ManualLoad(r, i)]
       [] i.op \in StoreOp -> [r EXCEPT !.mem = ManualStore(r, i)]
       [] OTHER -> [r EXCEPT !.reg[ManualLink(i)] = Wrapped(r.nextPC + 4)]

\* The processor fetches by its own program counter.
Manual(r, text) ==
  LET i == text[(r.pc \div 4) + 1]
  IN IF r.status # "run" \/ r.pc >= 4 * Len(text) THEN r
     ELSE IF r.pc % 4 # 0 \/ ManualTrap(r, i) THEN [r EXCEPT !.status = "abort"]
     ELSE IF i.op = "SYSCALL" THEN [r EXCEPT !.status = "halt"]
     ELSE [ManualDone(r, i) EXCEPT !.reg[0] = 0, !.pc = r.nextPC,
                                   !.nextPC = ManualTarget(r, i)]
=============================================================================
