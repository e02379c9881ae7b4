------------------------------- MODULE Decoder -------------------------------
(***************************************************************************)
(* decode_flash of load-flash.c: before a program runs, each word of its    *)
(* code is decoded once, as if it were the start of an instruction; what    *)
(* follows is given to the decoder because some instructions need it.       *)
(*                                                                         *)
(* A group of opcodes is a table: the opcode without its operand bits is    *)
(* looked up in it.  The decoder tries the groups one after the other.      *)
(***************************************************************************)
EXTENDS Integers, Sequences, FiniteSets, FiniteSetsExt

CONSTANT
  Programs    \* bound: the words of flash: one of .words between one of the
              \* sequences .before and one of .behind; where the code starts
              \* and ends, and the variant of AVRtest

VARIABLES
  isa,               \* "classic", "xmega" or "tiny", the variant of AVRtest
  flash, start, end, \* the words; where the code starts and ends
  i,                 \* the next word to decode
  decoded_flash, max_pc

vars == << isa, flash, start, end, i, decoded_flash, max_pc >>

is_tiny == isa = "tiny"
io_base == IF isa = "classic" THEN 32 ELSE 0

Word == 0 .. 2^16 - 1
invalid_opcode == 65535

(* There is a word behind the code.                                        *)
ASSUME ProgramsAssumption ==
  \A p \in Programs :
    /\ p.before \subseteq Seq(Word) /\ p.words \subseteq Word /\ p.behind \subseteq Seq(Word)
    /\ p.start \in Nat /\ p.end \in Nat /\ p.isa \in {"classic", "xmega", "tiny"}
    /\ \A b \in p.before, c \in p.behind : p.end < Len(b) + Len(c)

(* The bits of w from lo on, n of them.                                     *)
Bits(w, lo, n) == (w \div 2^lo) % 2^n
Without(w, lo, n) == w - 2^lo * Bits(w, lo, n)

(* A function given by pairs.                                               *)
Table(pairs) == [x \in {p[1] : p \in pairs} |-> (CHOOSE p \in pairs : p[1] = x)[2]]

-----------------------------------------------------------------------------
(* Tables.  The opcode without operands, or without the bits of the operands.*)

avr_op_16 ==
  Table({<<\h9598, "BREAK">>, <<\h9519, "EICALL">>, <<\h9419, "EIJMP">>,
         <<\h95D8, "ELPM">>, <<\h95F8, "ESPM">>, <<\h9509, "ICALL">>,
         <<\h9409, "IJMP">>, <<\h95C8, "LPM">>, <<\h9508, "RET">>,
         <<\h9518, "RETI">>, <<\h9588, "SLEEP">>, <<\h95E8, "SPM">>,
         <<\h95A8, "WDR">>, <<0, "NOP">>})

avr_op_6 ==
  Table({<<\h1C00, "ADC">>, <<\h0C00, "ADD">>, <<\h2000, "AND">>,
         <<\h1400, "CP">>, <<\h0400, "CPC">>, <<\h1000, "CPSE">>,
         <<\h2400, "EOR">>, <<\h2C00, "MOV">>, <<\h9C00, "MUL">>,
         <<\h2800, "OR">>, <<\h0800, "SBC">>, <<\h1800, "SUB">>})

avr_op_74 ==
  Table({<<\h9405, "ASR">>, <<\h9400, "COM">>, <<\h940A, "DEC">>,
         <<\h9006, "ELPM_Z">>, <<\h9007, "ELPM_Z_incr">>, <<\h9403, "INC">>,
         <<\h9000, "LDS">>, <<\h900C, "LD_X">>, <<\h900E, "LD_X_decr">>,
         <<\h900D, "LD_X_incr">>, <<\h900A, "LD_Y_decr">>,
         <<\h9009, "LD_Y_incr">>, <<\h9002, "LD_Z_decr">>,
         <<\h9001, "LD_Z_incr">>, <<\h9004, "LPM_Z">>,
         <<\h9005, "LPM_Z_incr">>, <<\h9406, "LSR">>, <<\h9401, "NEG">>,
         <<\h900F, "POP">>, <<\h9204, "XCH">>, <<\h9205, "LAS">>,
         <<\h9206, "LAC">>, <<\h9207, "LAT">>, <<\h920F, "PUSH">>,
         <<\h9407, "ROR">>, <<\h9200, "STS">>, <<\h920C, "ST_X">>,
         <<\h920E, "ST_X_decr">>, <<\h920D, "ST_X_incr">>,
         <<\h920A, "ST_Y_decr">>, <<\h9209, "ST_Y_incr">>,
         <<\h9202, "ST_Z_decr">>, <<\h9201, "ST_Z_incr">>,
         <<\h9402, "SWAP">>})

immediate ==
  Table({<<\h3000, "CPI">>, <<\h4000, "SBCI">>, <<\h5000, "SUBI">>,
         <<\h6000, "ORI">>, <<\h7000, "ANDI">>, <<\hE000, "LDI">>})

register_bit ==
  Table({<<\hF800, "BLD">>, <<\hFA00, "BST">>, <<\hFC00, "SBRC">>,
         <<\hFE00, "SBRS">>})

branch == Table({<<\hF400, "BRBC">>, <<\hF000, "BRBS">>})

displacement ==
  Table({<<\h8008, "LDD_Y">>, <<\h8000, "LDD_Z">>, <<\h8208, "STD_Y">>,
         <<\h8200, "STD_Z">>})

tiny_data == Table({<<\hA000, "LDS1">>, <<\hA800, "STS1">>})

absolute == Table({<<\h940E, "CALL">>, <<\h940C, "JMP">>})

sreg_bit ==
  Table({<<\h9488, "BCLR">>, <<\h9408, "BSET">>, <<\h948B, "DES">>,
         <<\h940B, "DES">>})

word_immediate == Table({<<\h9600, "ADIW">>, <<\h9700, "SBIW">>})

io_bit ==
  Table({<<\h9800, "CBI">>, <<\h9A00, "SBI">>, <<\h9900, "SBIC">>,
         <<\h9B00, "SBIS">>})

io == Table({<<\hB000, "IN">>, <<\hB800, "OUT">>})

relative == Table({<<\hD000, "RCALL">>, <<\hC000, "RJMP">>})

movw == Table({<<\h0100, "MOVW">>})
muls == Table({<<\h0200, "MULS">>})

fractional ==
  Table({<<\h0300, "MULSU">>, <<\h0308, "FMUL">>, <<\h0380, "FMULS">>,
         <<\h0388, "FMULSU">>})

-----------------------------------------------------------------------------
(* Operands of a group: op1 and op2, from the opcode and the next word.     *)

Rd5(w)    == Bits(w, 4, 5)
BitMask(w) == 2^Bits(w, 0, 3)

(* A number of n bits with a sign, in w bits.                               *)
SignExtended(x, n, w) == IF x < 2^(n - 1) THEN x ELSE x + 2^w - 2^n

\* Seeded fault: bit 9 is not moved down to bit 4.
Rr5Low(w) == Bits(w, 0, 4)

Rr5(w) == Bits(w, 0, 4) + 16 * Bits(w, 9, 1)

Displacement(w) == Bits(w, 0, 3) + 8 * Bits(w, 10, 2) + 32 * Bits(w, 13, 1)

WithoutQ(w) == Without(Without(Without(w, 0, 3), 10, 2), 13, 1)

(* The address of LDS and STS of devices with 16 registers: bit 8 is bit 6  *)
(* and its complement bit 7.                                               *)
TinyAddress(w) == Bits(w, 0, 4) + 16 * Bits(w, 9, 2)
                  + IF Bits(w, 8, 1) = 1 THEN 64 ELSE 128

Imm8(w) == Bits(w, 0, 4) + 16 * Bits(w, 8, 4)

(* DES: the bit of the mask is that of BSET, and 8 for the upper half.      *)
SregBit(w) ==
  LET bit == 2^Bits(w, 4, 3)
  IN  IF Without(w, 4, 3) = \h948B /\ bit # 8 THEN bit + 8 ELSE bit

(* A group: its table, the opcode without the bits of the operands, and the *)
(* operands.  `next' is the word that follows.                              *)
Group(table, key, op1, op2) ==
  [table |-> table, key |-> key, op1 |-> op1, op2 |-> op2]

Groups(w, next) ==
  << Group(avr_op_16, w, 0, 0),
     Group(avr_op_6, Without(w, 0, 10), Rd5(w), Rr5(w)),
     Group(avr_op_74, Without(w, 4, 5), Rd5(w), next),
     Group(immediate, Without(w, 0, 12), 16 + Bits(w, 4, 4), Imm8(w)),
     Group(register_bit, Without(Without(w, 4, 5), 0, 3), Rd5(w), BitMask(w)),
     Group(branch, Without(w, 0, 10), SignExtended(Bits(w, 3, 7), 7, 8), BitMask(w)),
     Group(IF ~is_tiny \/ Displacement(w) = 0 THEN displacement ELSE << >>,
           WithoutQ(Without(w, 4, 5)), Rd5(w), Displacement(w)),
     Group(IF is_tiny THEN tiny_data ELSE << >>, Without(w, 0, 11),
           16 + Bits(w, 4, 4), TinyAddress(w)),
     Group(absolute, Without(Without(w, 4, 5), 0, 1),
           Bits(w, 0, 1) + 2 * Bits(w, 4, 5), next),
     Group(sreg_bit, Without(w, 4, 3), SregBit(w), next),
     Group(word_immediate, Without(w, 0, 8), 24 + 2 * Bits(w, 4, 2),
           Bits(w, 0, 4) + 16 * Bits(w, 6, 2)),
     Group(io_bit, Without(w, 0, 8), Bits(w, 3, 5) + io_base, BitMask(w)),
     Group(io, Without(w, 0, 11), Rd5(w),
           Bits(w, 0, 4) + 16 * Bits(w, 9, 2) + io_base),
     Group(relative, Without(w, 0, 12), 0, SignExtended(Bits(w, 0, 12), 12, 16)),
     Group(movw, Without(w, 0, 8), 2 * Bits(w, 4, 4), 2 * Bits(w, 0, 4)),
     Group(muls, Without(w, 0, 8), 16 + Bits(w, 4, 4), 16 + Bits(w, 0, 4)),
     Group(fractional, Without(Without(w, 4, 3), 0, 3),
           16 + Bits(w, 4, 3), 16 + Bits(w, 0, 3)) >>

-----------------------------------------------------------------------------
(* Special cases                                                           *)

Decoded(id, op1, op2) == [id |-> id, op1 |-> op1, op2 |-> op2]
Illegal == Decoded("ILLEGAL", 0, 0)

Z_updates == {"LPM_Z_incr", "ELPM_Z_incr", "LD_Z_incr", "ST_Z_incr",
              "LD_Z_decr", "ST_Z_decr"}
Y_updates == {"LD_Y_incr", "ST_Y_incr", "LD_Y_decr", "ST_Y_decr"}
X_updates == {"LD_X_incr", "ST_X_incr", "LD_X_decr", "ST_X_decr"}

(* An address register that is changed and is the operand, too.             *)
Overlaps(id, rd) ==
  \/ id \in Z_updates /\ rd \in {30, 31}
  \/ id \in Y_updates /\ rd \in {28, 29}
  \/ id \in X_updates /\ rd \in {26, 27}

SameRegister ==
  Table({<<"ADD", "LSL">>, <<"ADC", "ROL">>, <<"EOR", "CLR">>,
         <<"AND", "TST">>})

Skip2 ==
  Table({<<"CPSE", "CPSE2">>, <<"SBRC", "SBRC2">>, <<"SBRS", "SBRS2">>,
         <<"SBIC", "SBIC2">>, <<"SBIS", "SBIS2">>})

MaskLDSSTS(next) == Without(Without(next, 4, 5), 9, 1) = \h9000
MaskJMPCALL(next) == Without(Without(next, 4, 5), 0, 2) = \h940C

\* Seeded fault: avrtest-tiny skips like the others.
SkipsOnTiny(d, next) ==
  IF d.id = "CPSE" /\ d.op1 = d.op2 /\ next = invalid_opcode
  THEN [d EXCEPT !.id = "SYSCALL"]
  ELSE IF MaskLDSSTS(next) \/ MaskJMPCALL(next)
  THEN [d EXCEPT !.id = Skip2[d.id]]
  ELSE d

(* do_skip: what a skip instruction is depends on what it skips.            *)
Skips(d, next) ==
  IF d.id = "CPSE" /\ d.op1 = d.op2 /\ next = invalid_opcode
  THEN [d EXCEPT !.id = "SYSCALL"]
  ELSE IF ~is_tiny /\ (MaskLDSSTS(next) \/ MaskJMPCALL(next))
  THEN [d EXCEPT !.id = Skip2[d.id]]
  ELSE d

decode_opcode(opcode1, opcode2) ==
  LET gs     == Groups(opcode1, opcode2)
      claims == {k \in DOMAIN gs : gs[k].key \in DOMAIN gs[k].table}
      g      == gs[Min(claims)]
      d      == Decoded(g.table[g.key], g.op1, g.op2)
  IN
  IF claims = {} THEN Illegal
  ELSE IF d.id \in DOMAIN SameRegister /\ d.op1 = d.op2
       THEN [d EXCEPT !.id = SameRegister[d.id]]
  ELSE IF Overlaps(d.id, d.op1) THEN Decoded("UNDEF", d.id, opcode1)
  ELSE IF d.id \in DOMAIN Skip2 THEN Skips(d, opcode2)
  ELSE d

NotOnTiny ==
  {"LDS", "JMP", "MOVW", "STS", "CALL", "ADIW", "MUL", "FMUL", "SBIW", "MULS",
   "FMULS", "EICALL", "MULSU", "FMULSU", "EIJMP", "DES", "LPM", "ELPM", "XCH",
   "LPM_Z", "ELPM_Z", "LAS", "LPM_Z_incr", "ELPM_Z_incr", "LAC", "ESPM", "LAT"}

tiny_opcode_maybe_illegal(d) == IF d.id \in NotOnTiny THEN Illegal ELSE d

-----------------------------------------------------------------------------
(* decode_flash.  Addresses are of words; start and end are the code's.     *)

BadPC == Decoded("BAD_PC", 0, 0)

Init ==
  /\ \E p \in Programs :
       /\ \E b \in p.before, w \in p.words, c \in p.behind :
            flash = [k \in 0 .. Len(b) + Len(c) |-> (b \o <<w>> \o c)[k + 1]]
       /\ start = p.start /\ end = p.end /\ isa = p.isa
  /\ i = start
  /\ decoded_flash = [k \in DOMAIN flash |-> BadPC]
  /\ max_pc = 0

DecodeWord ==
  /\ i <= end
  /\ LET d == decode_opcode(flash[i], flash[i + 1])
     IN  decoded_flash' = [decoded_flash EXCEPT ![i] =
           IF is_tiny THEN tiny_opcode_maybe_illegal(d) ELSE d]
  /\ i' = i + 1
  /\ UNCHANGED << isa, flash, start, end, max_pc >>

SetMaxPC ==
  /\ i > end /\ max_pc = 0
  /\ max_pc' = end + 1
  /\ UNCHANGED << isa, flash, start, end, i, decoded_flash >>

Next == DecodeWord \/ SetMaxPC

Spec == Init /\ [][Next]_vars

-----------------------------------------------------------------------------
(* Properties are about the words between start and i.                      *)

Done == start .. i - 1
At(k) == decoded_flash[k]

TwoWords == {"LDS", "STS", "JMP", "CALL"}
SkipIds  == DOMAIN Skip2 \cup {Skip2[s] : s \in DOMAIN Skip2}

(* A skip instruction jumps over the whole instruction that follows, as it   *)
(* was decoded itself one word later, and over no more: opcode masks in     *)
(* do_skip, the decoder and what avrtest-tiny lacks agree.  A syscall, which *)
(* is told from a CPSE by the word behind it, skips nothing: that word is no *)
(* instruction, so that a jump to it is caught.                             *)
SkipsWholeInstruction ==
  \A k \in Done : k + 1 \in Done =>
    /\ At(k).id \in SkipIds =>
         (At(k).id \in DOMAIN Skip2 <=> At(k + 1).id \notin TwoWords)
    /\ At(k).id = "SYSCALL" => At(k + 1) = Illegal /\ At(k).op1 \in 0 .. 31

=============================================================================
