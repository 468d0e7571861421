-------------------------------- MODULE Mips --------------------------------
(***************************************************************************)
(* The arithmetic of the MIPS simulator, machine/mipssim.cc.               *)
(*                                                                         *)
(* A word has four bytes of ByteBits bits (8 in the code) and is kept as a *)
(* natural number below Word; a C int with the same bits is Signed(x).     *)
(***************************************************************************)
EXTENDS Integers, Bitwise, FiniteSetsExt

CONSTANTS ByteBits, R31

ASSUME MipsAssumption == ByteBits \in Nat \ {0} /\ R31 \in Nat \ {0}

WordBits == 4 * ByteBits
Byte == 2 ^ ByteBits
Half == Byte ^ 2
Word == Half ^ 2

SignBit(x) == x >= Word \div 2
Signed(x) == IF SignBit(x) THEN x - Word ELSE x

\* A field of m values widened to a word with its sign.
Extend(x, m) == IF x >= m \div 2 THEN x + (Word - m) ELSE x

Complement(x) == Word - 1 - x
ShiftLeft(x, n) == (x * 2 ^ n) % Word
\* C's >> on an int.
ShiftRight(x, n) == (Signed(x) \div 2 ^ n) % Word
IndexToAddr(x) == ShiftLeft(x, 2)

Truth(p) == IF p THEN 1 ELSE 0

-----------------------------------------------------------------------------
(* Decode *)

\* opTable: the operation codes in the J format, and in the R format (SPECIAL).
JFMT == {"J", "JAL"}
RFMT == {"SLL", "SRL", "SRA", "SLLV", "SRLV", "SRAV", "JR", "JALR", "SYSCALL",
         "MFHI", "MTHI", "MFLO", "MTLO", "MULT", "MULTU", "DIV", "DIVU", "ADD",
         "ADDU", "SUB", "SUBU", "AND", "OR", "XOR", "NOR", "SLT", "SLTU"}

\* The rt field of a BCOND selects the operation.
BranchOf(rt) ==
  CASE rt = 0 -> "BLTZ" [] rt = 1 -> "BGEZ"
    [] rt = 16 -> "BLTZAL" [] rt = 17 -> "BGEZAL" [] OTHER -> "UNIMP"

\* An instruction in memory is a record; low is the field below the registers.
Decode(i) ==
  [op |-> IF i.op = "BCOND" THEN BranchOf(i.rt) ELSE i.op,
   rs |-> i.rs, rt |-> i.rt, rd |-> i.rd,
   extra |-> IF i.op \in JFMT THEN i.low
             ELSE IF i.op \in RFMT THEN i.low % WordBits
             ELSE Extend(i.low % Half, Half)]

-----------------------------------------------------------------------------
(* Results: a and b are the registers rs and rt, x is extra *)

\* What the instructions with three registers, and the shifts, put into rd.
RdOp == RFMT \ {"JR", "JALR", "SYSCALL", "MFHI", "MTHI", "MFLO", "MTLO", "MULT",
                "MULTU", "DIV", "DIVU"}
RdValue(op, a, b, x) ==
  CASE op \in {"ADD", "ADDU"} -> (a + b) % Word
    [] op \in {"SUB", "SUBU"} -> (a - b) % Word
    [] op = "AND" -> a & b
    [] op = "OR" -> a | a
    [] op = "XOR" -> a ^^ b
    [] op = "NOR" -> Complement(a | b)
    [] op = "SLT" -> Truth(Signed(a) < Signed(b))
    [] op = "SLTU" -> Truth(a < b)
    [] op = "SLL" -> ShiftLeft(b, x)
    [] op = "SLLV" -> ShiftLeft(b, a % WordBits)
    [] op \in {"SRA", "SRL"} -> ShiftRight(b, x)
    [] op \in {"SRAV", "SRLV"} -> ShiftRight(b, a % WordBits)

\* What the instructions with an immediate put into rt.
RtOp == {"ADDI", "ADDIU", "ANDI", "ORI", "XORI", "SLTI", "SLTIU", "LUI"}
RtValue(op, a, x) ==
  CASE op \in {"ADDI", "ADDIU"} -> (a + x) % Word
    [] op = "ANDI" -> a & (x % Half)
    [] op = "ORI" -> a | (x % Half)
    [] op = "XORI" -> a ^^ (x % Half)
    [] op = "SLTI" -> Truth(Signed(a) < Signed(x))
    [] op = "SLTIU" -> Truth(a < x)
    [] op = "LUI" -> ShiftLeft(x, WordBits \div 2)

\* The overflow tests of ADD, ADDI and SUB.
Overflows(op, a, b, x) ==
  CASE op = "ADD" -> SignBit(a) = SignBit(b) /\ SignBit(a) # SignBit((a + b) % Word)
    [] op = "ADDI" -> SignBit(a) = SignBit(x) /\ SignBit(x) # SignBit((a + x) % Word)
    [] op = "SUB" -> SignBit(a) # SignBit(b) /\ SignBit(a) # SignBit((a - b) % Word)
    [] OTHER -> FALSE

\* C's / and %, which round towards zero.
Quotient(n, d) ==
  LET q == (IF n < 0 THEN -n ELSE n) \div (IF d < 0 THEN -d ELSE d)
  IN IF (n < 0) = (d < 0) THEN q ELSE -q
Divide(op, a, b) ==
  IF b = 0 THEN [hi |-> 0, lo |-> 0]
  ELSE IF op = "DIVU" THEN [hi |-> a % b, lo |-> a \div b]
  ELSE LET q == Quotient(Signed(a), Signed(b))
       IN [hi |-> (Signed(a) - q * Signed(b)) % Word, lo |-> q % Word]

\* The division of the least int by -1 stops the simulator itself.
Unrepresentable(op, a, b) == op = "DIV" /\ a = Word \div 2 /\ b = Word - 1

\* Mult: b, shifted left, is added for every bit of a, in two words.
Mult(a0, b0, signedArith) ==
  LET negative == signedArith /\ SignBit(a0) # SignBit(b0)
      Positive(v) == IF signedArith /\ SignBit(v) THEN (Word - v) % Word ELSE v
      Added(s) ==
        LET lo == (s.lo + s.bLo) % Word
        IN [s EXCEPT !.lo = lo, !.hi = (@ + Truth(lo < s.bLo) + s.bHi) % Word,
                     !.done = s.a \div 2 = 0]
      Shifted(s) ==
        IF s.done THEN s
        ELSE [s EXCEPT !.bHi = ShiftLeft(@, 1) + Truth(SignBit(s.bLo)),
                       !.bLo = ShiftLeft(@, 1), !.a = ShiftRight(@, 1)]
      s[i \in 0 .. WordBits] ==
        IF i = 0 THEN [a |-> Positive(a0), bLo |-> Positive(b0), bHi |-> 0,
                       lo |-> 0, hi |-> 0, done |-> FALSE]
        ELSE IF s[i - 1].done THEN s[i - 1]
        ELSE Shifted(IF s[i - 1].a % 2 = 1 THEN Added(s[i - 1]) ELSE s[i - 1])
      end == s[WordBits]
      lo == (Complement(end.lo) + 1) % Word
  IN IF a0 = 0 \/ b0 = 0 THEN [hi |-> 0, lo |-> 0]
     ELSE IF ~ negative THEN [hi |-> end.hi, lo |-> end.lo]
     ELSE [hi |-> (Complement(end.hi) + Truth(lo = 0)) % Word, lo |-> lo]

-----------------------------------------------------------------------------
(* Branches *)

Linked == {"BGEZAL", "BLTZAL", "JAL", "JALR"}
Jumps == Linked \cup {"BEQ", "BNE", "BGEZ", "BLTZ", "BGTZ", "BLEZ", "J", "JR"}

Taken(op, a, b) ==
  CASE op = "BEQ" -> a = b
    [] op = "BNE" -> a # b
    [] op \in {"BGEZ", "BGEZAL"} -> ~ SignBit(a)
    [] op \in {"BLTZ", "BLTZAL"} -> SignBit(a)
    [] op = "BGTZ" -> Signed(a) > 0
    [] op = "BLEZ" -> Signed(a) <= 0

\* pcAfter, for the branch with the register rs when it is read.
PCAfter(op, nextPC, a, b, x) ==
  LET after == (nextPC + 4) % Word
      Region == 2 ^ (WordBits - ByteBits \div 2)
  IN CASE op \in JFMT -> (after - (after % Region)) + (IndexToAddr(x) % Region)
       [] op \in {"JR", "JALR"} -> a
       [] OTHER -> IF Taken(op, a, b) THEN (nextPC + IndexToAddr(x)) % Word ELSE after

-----------------------------------------------------------------------------
(* Loads and stores *)

ByteOf(v, i) == (v \div Byte ^ i) % Byte
\* The host is little-endian.
FromBytes(f, size) == MapThenSumSet(LAMBDA i : f[i] * Byte ^ i, 0 .. size - 1)

Size(op) == CASE op \in {"LB", "LBU", "SB"} -> 1
              [] op \in {"LH", "LHU", "SH"} -> 2 [] OTHER -> 4
LoadOp == {"LB", "LBU", "LH", "LHU", "LW", "LWL", "LWR"}
StoreOp == {"SB", "SH", "SW", "SWL", "SWR"}
AddressOf(i, reg) == (reg[i.rs] + i.extra) % Word

\* The word that is put into rt, from what ReadMem returned and the register.
LoadValue(op, value, old) ==
  CASE op = "LB" -> Extend(value, Byte)
    [] op = "LH" -> Extend(value, Half)
    [] op = "LWR" -> (old - (old % Byte)) + ByteOf(value, 3)
    [] OTHER -> value

\* The word SWL and SWR write, from the one they have read.
MergedValue(op, value, b) ==
  IF op = "SWL" THEN b ELSE (value % Byte ^ 3) + ByteOf(b, 0) * Byte ^ 3
=============================================================================
