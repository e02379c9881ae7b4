--------------------------------- MODULE Alu ---------------------------------
(***************************************************************************)
(* What the arithmetic and logical instructions of avrtest.c compute: the   *)
(* registers, and the flags in SREG, which come from tables that            *)
(* gen-flag-tables.c has computed in advance and that are indexed with bits *)
(* collected from the operands and the result.                              *)
(*                                                                         *)
(* SREG is the set of the flags that are set, so that `sreg & ~flags' is a  *)
(* set difference and `sreg | new' a union.  `insn' is the instruction to   *)
(* be executed; what may follow it is a constant of the program, and the    *)
(* operands are whatever the code before it has left in the registers.      *)
(***************************************************************************)
EXTENDS Integers

CONSTANTS
  Regs,        (* numbers of the general purpose registers                  *)
  Insns,       (* the instructions of the program                           *)
  Follow,      (* Follow[i]: the instructions that may come after i         *)
  First,       (* the instructions it may start with                        *)
  Operands,    (* the bytes its registers may hold when it starts           *)
  Flags        (* the values SREG may have then                             *)

Byte == 0 .. 255
AllFlags == {"I", "T", "H", "S", "V", "N", "Z", "C"}

OneReg   == {"ROL", "LSL", "TST", "CLR", "ASR", "COM", "DEC", "INC", "LSR",
             "NEG", "ROR", "SWAP"}
TwoRegs  == {"ADC", "ADD", "AND", "CP", "CPC", "EOR", "MOV", "OR", "SBC", "SUB"}
Products == {"MUL", "MULS", "MULSU", "FMUL", "FMULS", "FMULSU"}
RegConst == {"ANDI", "CPI", "LDI", "ORI", "SBCI", "SUBI", "BLD", "BST"}
RegPair  == {"ADIW", "SBIW", "MOVW"}
OnSreg   == {"BCLR", "BSET"}
Ids == OneReg \cup TwoRegs \cup Products \cup RegConst \cup RegPair \cup OnSreg
       \cup {"NOP"}

(* Operands: the registers rd and rr, a constant k, a flag f of SREG.       *)
InsnType == [op : Ids, rd : Regs, rr : Regs, k : Byte, f : AllFlags]

ASSUME RegsAssumption == {0, 1} \subseteq Regs /\ Regs \subseteq 0 .. 31
ASSUME InsnsAssumption ==
  /\ Insns \subseteq InsnType
  /\ \A i \in Insns :
       /\ i.op \in {"ADIW", "SBIW"} => i.k <= 63
       /\ i.op \in RegPair => {i.rd + 1, i.rr + 1} \subseteq Regs
ASSUME ProgramAssumption ==
  /\ Follow \in [Insns -> SUBSET Insns]
  /\ First \subseteq Insns
  /\ Operands \subseteq Byte
  /\ Flags \subseteq SUBSET AllFlags

VARIABLES reg, sreg, insn
vars == << reg, sreg, insn >>

TypeOK == /\ reg \in [Regs -> Byte]
          /\ sreg \in SUBSET AllFlags
          /\ insn \in Insns

-----------------------------------------------------------------------------
(* Numbers: x & p for a power of two, and the bytes as sets of bits         *)

Bit(x, p) == (x \div p) % 2 = 1
BitValue(x, p) == ((x \div p) % 2) * p

BitsOf(x)  == {p \in {1, 2, 4, 8, 16, 32, 64, 128} : Bit(x, p)}
Number(bs) ==
  LET value(p) == IF p \in bs THEN p ELSE 0
  IN  value(128) + value(64) + value(32) + value(16)
      + value(8) + value(4) + value(2) + value(1)

And(x, y) == Number(BitsOf(x) \cap BitsOf(y))
Or(x, y)  == Number(BitsOf(x) \cup BitsOf(y))
Eor(x, y) == Number((BitsOf(x) \cup BitsOf(y)) \ (BitsOf(x) \cap BitsOf(y)))

Int8(x) == IF x < 128 THEN x ELSE x - 256

(* if (c) sreg |= f                                                         *)
Flag(f, c) == IF c THEN {f} ELSE {}

-----------------------------------------------------------------------------
(* gen-flag-tables.c: the tables                                            *)

UpdateZns(result, flags) ==
  flags \cup Flag("Z", result % 256 = 0) \cup Flag("N", Bit(result, 128))
        \cup Flag("S", Bit(result, 128) <=> "V" \notin flags)

TableAdd8(i) ==
  LET result == i % 512
      Rd7 == Bit(i, 1024)    Rr7 == Bit(i, 512)    R7 == Bit(result, 128)
      Rd3 == Bit(i, 4096)    Rr3 == Bit(i, 2048)   R3 == Bit(result, 8)
  IN  UpdateZns(result,
        Flag("V", (Rd7 /\ Rr7 /\ ~R7) \/ (~Rd7 /\ ~Rr7 /\ R7))
        \cup Flag("C", Bit(result, 256))
        \cup Flag("H", (Rd3 /\ Rr3) \/ (Rr3 /\ ~R3) \/ (~R3 /\ Rd3)))

TableSub8(i) ==
  LET result == i % 512
      Rd7 == Bit(i, 1024)    Rr7 == Bit(i, 512)    R7 == Bit(result, 128)
      Rd3 == Bit(i, 4096)    Rr3 == Bit(i, 2048)   R3 == Bit(result, 8)
  IN  UpdateZns(result,
        Flag("V", (Rd7 /\ ~Rr7 /\ ~R7) \/ (~Rd7 /\ Rr7 /\ R7))
        \cup Flag("C", Bit(result, 256))
        \cup Flag("H", (~Rd3 /\ Rr3) \/ (Rr3 /\ R3) \/ (R3 /\ ~Rd3)))

TableRor8(i) ==
  UpdateZns(i \div 2, Flag("C", Bit(i, 1))
                      \cup Flag("V", Bit(i \div 2, 128) # Bit(i, 1)))

TableInc(i)     == UpdateZns(i, Flag("V", i = 128))
TableDec(i)     == UpdateZns(i, Flag("V", i = 127))
TableLogical(i) == UpdateZns(i, {})

(* The index: bits 3 and 7 of both operands, moved by one multiplication in *)
(* 16 bits to the bits 9 to 12, above the 9 bits of the result.             *)
Bits88(x) == BitValue(x, 128) + BitValue(x, 8)

FutAddSubIndexSwapped(v1, v2, res) ==
  LET v == ((Bits88(v1) + 2 * Bits88(v2)) * 260) % 65536
  IN  (res % 512) + ((v \div 512) % 16) * 512

FutAddSubIndex(v1, v2, res) ==
  LET v == ((2 * Bits88(v1) + Bits88(v2)) * 260) % 65536
  IN  (res % 512) + ((v \div 512) % 16) * 512

FutAddSub16Index(v1, res) ==
  BitValue(v1 \div 256, 128) * 8 + ((res \div 256) % 512)

-----------------------------------------------------------------------------
(* avrtest.c: flags, carry, and the helpers of the instructions             *)

Arith   == {"H", "S", "V", "N", "Z", "C"}
Logical == {"S", "V", "N", "Z"}

UpdateFlags(flags, new) == sreg' = (sreg \ flags) \cup new

GetCarry == IF "C" \in sreg THEN 1 ELSE 0

PutRegWide(rd, value) == reg' = [reg EXCEPT ![rd] = value]
PutReg(rd, value) == reg' = [reg EXCEPT ![rd] = value % 256]

Word(rd) == reg[rd] + 256 * reg[rd + 1]
PutWordReg(rd, value) ==
  reg' = [reg EXCEPT ![rd] = value % 256, ![rd + 1] = (value \div 256) % 256]

DoAddition8(rd, rr, carry) ==
  LET result == reg[rd] + reg[rr] + carry
  IN  /\ PutReg(rd, result)
      /\ UpdateFlags(Arith, TableAdd8(FutAddSubIndex(reg[rd], reg[rr], result)))

DoShift8(rd, carry) == DoAddition8(rd, rd, carry)

DoSubtraction8SetsZ(rd, v1, v2, carry, use_carry, writeback) ==
  LET result == v1 - v2 - carry
  IN  /\ IF writeback THEN PutReg(rd, result) ELSE UNCHANGED reg
      /\ UpdateFlags(Arith, TableSub8(FutAddSubIndex(v1, v2, result)))

(* With carry, Z is only ever cleared.                                      *)
DoSubtraction8(rd, v1, v2, carry, use_carry, writeback) ==
  LET result == v1 - v2 - carry
      flags  == TableSub8(FutAddSubIndex(v1, v2, result))
      kept   == IF use_carry /\ "Z" \notin sreg THEN flags \ {"Z"} ELSE flags
  IN  /\ IF writeback THEN PutReg(rd, result) ELSE UNCHANGED reg
      /\ UpdateFlags(Arith, kept)

StoreLogicalResult(rd, result) ==
  PutReg(rd, result) /\ UpdateFlags(Logical, TableLogical(result))

RotateRight(rd, value) ==
  /\ PutReg(rd, value \div 2)
  /\ UpdateFlags(Logical \cup {"C"}, TableRor8(value))

DoMultiplyShiftFirst(v1, v2, shift) ==
  LET result == ((v1 * v2) % 65536) * shift
  IN  /\ UpdateFlags({"Z", "C"}, Flag("C", Bit(result, 32768))
                               \cup Flag("Z", result = 0))
      /\ PutWordReg(0, result)

DoMultiply(v1, v2, shift) ==
  LET product == (v1 * v2) % 65536
      result  == product * shift
  IN  /\ UpdateFlags({"Z", "C"}, Flag("C", Bit(product, 32768))
                               \cup Flag("Z", result = 0))
      /\ PutWordReg(0, result)

DoAddSubWord(rd, result, flags) ==
  /\ PutWordReg(rd, result)
  /\ UpdateFlags(Logical \cup {"C"},
                 (flags \ {"H"}) \ (IF result % 65536 # 0 THEN {"Z"} ELSE {}))

-----------------------------------------------------------------------------
(* The instructions                                                         *)

Rd == insn.rd
Rr == insn.rr
D  == reg[Rd]
R  == reg[Rr]
K  == insn.k
Is(op) == insn.op = op

Additions ==
  \/ Is("ADC") /\ DoAddition8(Rd, Rr, GetCarry)
  \/ Is("ADD") /\ DoAddition8(Rd, Rr, 0)
  \/ Is("ROL") /\ DoShift8(Rd, GetCarry)
  \/ Is("LSL") /\ DoShift8(Rd, 0)

Compares ==
  \/ Is("CP")  /\ DoSubtraction8(Rd, D, R, 0, FALSE, FALSE)
  \/ Is("CPC") /\ DoSubtraction8(Rd, D, R, GetCarry, TRUE, FALSE)

Subtractions ==
  \/ Is("SUB") /\ DoSubtraction8(Rd, D, R, 0, FALSE, TRUE)
  \/ Is("SBC") /\ DoSubtraction8(Rd, D, R, GetCarry, TRUE, TRUE)

SubtractionsOfK ==
  \/ Is("CPI")  /\ DoSubtraction8(Rd, D, K, 0, FALSE, FALSE)
  \/ Is("SUBI") /\ DoSubtraction8(Rd, D, K, 0, FALSE, TRUE)
  \/ Is("SBCI") /\ DoSubtraction8(Rd, D, K, GetCarry, TRUE, TRUE)

Neg == Is("NEG") /\ DoSubtraction8(Rd, 0, D, 0, FALSE, TRUE)

Logicals ==
  \/ Is("AND")  /\ StoreLogicalResult(Rd, And(D, R))
  \/ Is("ANDI") /\ StoreLogicalResult(Rd, And(D, K))
  \/ Is("OR")   /\ StoreLogicalResult(Rd, Or(D, R))
  \/ Is("ORI")  /\ StoreLogicalResult(Rd, Or(D, K))
  \/ Is("EOR")  /\ StoreLogicalResult(Rd, Eor(D, R))
  \/ Is("CLR")  /\ StoreLogicalResult(Rd, 0)
  \/ Is("TST")  /\ UpdateFlags(Logical, TableLogical(D)) /\ UNCHANGED reg
  \/ Is("COM")  /\ PutReg(Rd, 255 - D)
                /\ UpdateFlags(Logical \cup {"C"}, TableLogical(255 - D) \cup {"C"})

Lsr == Is("LSR") /\ RotateRight(Rd, D)
Ror == Is("ROR") /\ RotateRight(Rd, D + 256 * GetCarry)
Asr == Is("ASR") /\ RotateRight(Rd, Int8(D) % 512)

Counts ==
  \/ Is("INC") /\ PutReg(Rd, D + 1)
               /\ UpdateFlags(Logical, TableInc((D + 1) % 256))
  \/ Is("DEC") /\ PutReg(Rd, D - 1)
               /\ UpdateFlags(Logical, TableDec((D - 1) % 256))

Multiplications ==
  \/ Is("MUL")    /\ DoMultiply(D, R, 1)
  \/ Is("MULS")   /\ DoMultiply(Int8(D), Int8(R), 1)
  \/ Is("MULSU")  /\ DoMultiply(Int8(D), R, 1)
  \/ Is("FMUL")   /\ DoMultiply(D, R, 2)
  \/ Is("FMULS")  /\ DoMultiply(Int8(D), Int8(R), 2)
  \/ Is("FMULSU") /\ DoMultiply(Int8(D), R, 2)

Words ==
  \/ Is("ADIW") /\ LET result == Word(Rd) + K
                   IN  DoAddSubWord(Rd, result,
                         TableAdd8(FutAddSub16Index(Word(Rd), result)))
  \/ Is("SBIW") /\ LET result == Word(Rd) - K
                   IN  DoAddSubWord(Rd, result,
                         TableSub8(FutAddSub16Index(Word(Rd), result)))
  \/ Is("MOVW") /\ PutWordReg(Rd, Word(Rr)) /\ UNCHANGED sreg

Moves ==
  /\ UNCHANGED sreg
  /\ \/ Is("MOV")  /\ PutReg(Rd, R)
     \/ Is("LDI")  /\ PutReg(Rd, K)
     \/ Is("SWAP") /\ PutReg(Rd, (D % 16) * 16 + D \div 16)
     \/ Is("BLD")  /\ PutReg(Rd, IF "T" \in sreg THEN Or(D, K)
                                 ELSE Or(D, K) - And(Or(D, K), K))
     \/ Is("NOP")  /\ UNCHANGED reg

FlagMoves ==
  /\ UNCHANGED reg
  /\ \/ Is("BST")  /\ UpdateFlags({"T"}, IF And(D, K) # 0 THEN {"T"} ELSE {})
     \/ Is("BCLR") /\ UpdateFlags({insn.f}, {})
     \/ Is("BSET") /\ UpdateFlags({insn.f}, {insn.f})

Execute == \/ Additions \/ Compares \/ Subtractions \/ SubtractionsOfK \/ Neg
           \/ Logicals \/ Lsr \/ Ror \/ Asr \/ Counts
           \/ Multiplications \/ Words \/ Moves \/ FlagMoves

Init == reg \in [Regs -> Operands] /\ sreg \in Flags /\ insn \in First

Step == Execute /\ insn' \in Follow[insn]

Next == Step

Spec == Init /\ [][Next]_vars
=============================================================================
