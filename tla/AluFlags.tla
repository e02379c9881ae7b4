------------------------------- MODULE AluFlags -------------------------------
(***************************************************************************)
(* What the instructions of Alu promise: the flags that tests/sreg compute  *)
(* for them, and arithmetic on numbers of several bytes, the first byte     *)
(* with an instruction without carry, the further ones with carry.          *)
(*                                                                         *)
(* `chain' is such a number of several bytes: op tells whether it is added  *)
(* or subtracted, x and y are the numbers that the operands make up so far, *)
(* m is 256 ^ (number of bytes).                                            *)
(***************************************************************************)
EXTENDS Alu

VARIABLE chain
hvars == << vars, chain >>

NoChain == [op |-> "none", x |-> 0, y |-> 0, m |-> 1]
ChainType == [op : {"none", "add", "sub"}, x : Nat, y : Nat, m : Nat \ {0}]

(* The operands of an addition or subtraction.                              *)
Adds      == insn.op \in {"ADD", "LSL"}
AddsMore  == insn.op \in {"ADC", "ROL"}
Subs      == insn.op \in {"CP", "CPI", "SUB", "SUBI", "NEG"}
SubsMore  == insn.op \in {"CPC", "SBC", "SBCI"}
KeepFlags == insn.op \in {"MOV", "MOVW", "LDI", "SWAP", "BLD", "BST", "NOP"}

Left  == IF insn.op = "NEG" THEN 0 ELSE D
Right == CASE insn.op \in {"CPI", "SUBI", "SBCI"} -> K
            [] insn.op \in {"NEG", "LSL", "ROL"} -> D
            [] OTHER -> R

Begin(op) == [op |-> op, x |-> Left, y |-> Right, m |-> 256]
Extend == [chain EXCEPT !.x = @ + chain.m * Left,
                        !.y = @ + chain.m * Right,
                        !.m = @ * 256]

NextChain ==
  CASE Adds -> Begin("add")
    [] Subs -> Begin("sub")
    [] (AddsMore /\ chain.op = "add") \/ (SubsMore /\ chain.op = "sub") -> Extend
    [] KeepFlags -> chain
    [] OTHER -> NoChain

HInit == Init /\ chain = NoChain
HNext == Next /\ chain' = NextChain
HSpec == HInit /\ [][HNext]_hvars

-----------------------------------------------------------------------------
(* tests/sreg: the flags of an instruction, and the result                  *)

Signs(n, v) == Flag("N", n) \cup Flag("V", v) \cup Flag("S", n <=> ~v)

flags_adc(d, r, c) ==
  LET res == (d + r + c) % 256
      Rd7 == Bit(d, 128)   Rr7 == Bit(r, 128)   R7 == Bit(res, 128)
      Rd3 == Bit(d, 8)     Rr3 == Bit(r, 8)     R3 == Bit(res, 8)
      v   == (Rd7 /\ Rr7 /\ ~R7) \/ (~Rd7 /\ ~Rr7 /\ R7)
  IN  [res |-> res, mask |-> Arith, flags |-> Signs(R7, v)
         \cup Flag("Z", res = 0)
         \cup Flag("C", (Rd7 /\ Rr7) \/ (Rr7 /\ ~R7) \/ (~R7 /\ Rd7))
         \cup Flag("H", (Rd3 /\ Rr3) \/ (Rr3 /\ ~R3) \/ (~R3 /\ Rd3))]

flags_add(d, r) == flags_adc(d, r, 0)

flags_sbc(d, r, c, z) ==
  LET res == (d - r - c) % 256
      Rd7 == Bit(d, 128)   Rr7 == Bit(r, 128)   R7 == Bit(res, 128)
      Rd3 == Bit(d, 8)     Rr3 == Bit(r, 8)     R3 == Bit(res, 8)
      v   == (Rd7 /\ ~Rr7 /\ ~R7) \/ (~Rd7 /\ Rr7 /\ R7)
  IN  [res |-> res, mask |-> Arith, flags |-> Signs(R7, v)
         \cup Flag("Z", res = 0 /\ z)
         \cup Flag("C", (~Rd7 /\ Rr7) \/ (Rr7 /\ R7) \/ (R7 /\ ~Rd7))
         \cup Flag("H", (~Rd3 /\ Rr3) \/ (Rr3 /\ R3) \/ (R3 /\ ~Rd3))]

flags_sub(d, r) == flags_sbc(d, r, 0, TRUE)

flags_neg(d) ==
  LET res == (256 - d) % 256
      v   == res = 128
  IN  [res |-> res, mask |-> Arith, flags |-> Signs(Bit(res, 128), v)
         \cup Flag("Z", res = 0) \cup Flag("C", res # 0)
         \cup Flag("H", Bit(res, 8) \/ Bit(d, 8))]

Logic(res, v, more, mask) ==
  [res |-> res, mask |-> Logical \cup mask,
   flags |-> more \cup Signs(Bit(res, 128), v) \cup Flag("Z", res = 0)]

flags_bitop(res) == Logic(res, FALSE, {}, {})
flags_com(d) == Logic(255 - d, FALSE, {"C"}, {"C"})
flags_inc(d) == Logic((d + 1) % 256, d = 127, {}, {})
flags_dec(d) == Logic((d - 1) % 256, d = 128, {}, {})

Rotated(d, res) ==
  Logic(res, Bit(res, 128) # Bit(d, 1), Flag("C", Bit(d, 1)), {"C"})
flags_asr(d)    == Rotated(d, d \div 2 + BitValue(d, 128))
flags_ror(d, c) == Rotated(d, (d + 256 * c) \div 2)

Word16(res, v, c) ==
  [res |-> res, mask |-> Logical \cup {"C"},
   flags |-> Signs(Bit(res, 32768), v) \cup Flag("Z", res = 0) \cup Flag("C", c)]

flags_adiw(d, r) ==
  LET res == (d + r) % 65536
      R15 == Bit(res, 32768)   Rdh7 == Bit(d, 32768)
  IN  Word16(res, ~Rdh7 /\ R15, ~R15 /\ Rdh7)
flags_sbiw(d, r) ==
  LET res == (d - r) % 65536
      R15 == Bit(res, 32768)   Rdh7 == Bit(d, 32768)
  IN  Word16(res, ~R15 /\ Rdh7, R15 /\ ~Rdh7)

Tested ==
  {"ADD", "ADC", "SUB", "SBC", "NEG", "COM", "INC", "DEC", "ASR", "ROR",
   "ADIW", "SBIW", "AND", "EOR", "OR"}

Expected ==
  CASE Is("ADD") -> flags_add(D, R)
    [] Is("ADC") -> flags_adc(D, R, GetCarry)
    [] Is("SUB") -> flags_sub(D, R)
    [] Is("SBC") -> flags_sbc(D, R, GetCarry, "Z" \in sreg)
    [] Is("NEG") -> flags_neg(D)
    [] Is("COM") -> flags_com(D)
    [] Is("INC") -> flags_inc(D)
    [] Is("DEC") -> flags_dec(D)
    [] Is("ASR") -> flags_asr(D)
    [] Is("ROR") -> flags_ror(D, GetCarry)
    [] Is("ADIW") -> flags_adiw(Word(Rd), K)
    [] Is("SBIW") -> flags_sbiw(Word(Rd), K)
    [] Is("AND") -> flags_bitop(And(D, R))
    [] Is("EOR") -> flags_bitop(Eor(D, R))
    [] Is("OR")  -> flags_bitop(Or(D, R))

(* The tables, looked up with bits of the operands, give the result and the *)
(* flags of tests/sreg, and leave the flags alone that tests/sreg mask out. *)
FlagsAsTested ==
  [][insn.op \in Tested =>
       /\ reg'[Rd] + (IF insn.op \in RegPair THEN 256 * reg'[Rd + 1] ELSE 0)
            = Expected.res
       /\ sreg' = (sreg \ Expected.mask) \cup Expected.flags]_hvars

-----------------------------------------------------------------------------
(* Numbers of several bytes                                                 *)

Signed(x, m) == IF 2 * x < m THEN x ELSE x - m

Compared(x, y, m) ==
  /\ "C" \in sreg <=> x < y
  /\ "Z" \in sreg <=> x = y
  /\ "S" \in sreg <=> Signed(x, m) < Signed(y, m)

Added(x, y, m) ==
  /\ "C" \in sreg <=> x + y >= m
  /\ "S" \in sreg <=> Signed(x, m) + Signed(y, m) < 0

(* After SUB or CP of the low bytes and SBC or CPC of the further ones the  *)
(* flags compare the whole numbers: C unsigned, S signed, Z for equality;   *)
(* after ADD and ADC, C is the carry out of the whole sum and S its sign,   *)
(* which V corrects.  Branches of compiled code rely on it.                 *)
ChainedFlags ==
  /\ chain.op = "sub" => Compared(chain.x, chain.y, chain.m)
  /\ chain.op = "add" => Added(chain.x, chain.y, chain.m)

(* Z after a multiplication is taken from a result that may need 17 bits;   *)
(* it tells whether R1:R0 is 0 all the same, and C is the bit that a        *)
(* fractional multiplication shifts out of R1:R0.                           *)
LeftFactor  == IF insn.op \in {"MUL", "FMUL"} THEN D ELSE Int8(D)
RightFactor == IF insn.op \in {"MULS", "FMULS"} THEN Int8(R) ELSE R

ProductFlags ==
  [][insn.op \in Products =>
       LET product == (LeftFactor * RightFactor) % 65536
           word    == reg'[0] + 256 * reg'[1]
       IN  /\ "Z" \in sreg' <=> word = 0
           /\ IF insn.op \in {"FMUL", "FMULS", "FMULSU"}
              THEN word + (IF "C" \in sreg' THEN 65536 ELSE 0) = 2 * product
              ELSE word = product /\ ("C" \in sreg' <=> word >= 32768)]_hvars
=============================================================================
