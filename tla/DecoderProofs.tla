----------------------------- MODULE DecoderProofs -----------------------------
(***************************************************************************)
(* Of every word: it is decoded as it is listed, and what skips it skips    *)
(* all of it.                                                              *)
(***************************************************************************)
EXTENDS InstructionSet, ByteArithmetic, TLAPS

-----------------------------------------------------------------------------
(* Tables                                                                  *)

LEMMA TableIs ==
  ASSUME NEW P, NEW x \in DOMAIN Table(P)
  PROVE  \E p \in P : p[1] = x /\ Table(P)[x] = p[2]
<1>1. x \in {p[1] : p \in P} /\ Table(P)[x] = (CHOOSE p \in P : p[1] = x)[2]
  BY DEF Table
<1>2. \E p \in P : p[1] = x
  BY <1>1
<1>3. (CHOOSE p \in P : p[1] = x) \in P /\ (CHOOSE p \in P : p[1] = x)[1] = x
  BY <1>2
<1> QED BY <1>1, <1>3

(* Names that the decoder treats as special.                                *)
Doubled == {"ADD", "ADC", "EOR", "AND"}
Skipping == {"CPSE", "SBRC", "SBRS", "SBIC", "SBIS"}
Made == {"LSL", "ROL", "CLR", "TST", "CPSE2", "SBRC2", "SBRS2", "SBIC2", "SBIS2",
         "SYSCALL", "UNDEF", "ILLEGAL"}
Ordinary(id) == id \notin Made /\ id \notin TwoWords /\ id \notin Skipping

LEMMA Op16Names ==
  ASSUME NEW x \in DOMAIN avr_op_16
  PROVE  LET id == avr_op_16[x] IN
         /\ x \in {\h9598, \h9519, \h9419, \h95D8, \h95F8, \h9509, \h9409,
                  \h95C8, \h9508, \h9518, \h9588, \h95E8, \h95A8, 0}
         /\ Ordinary(id)
BY TableIs DEF avr_op_16, Made, TwoWords, Skipping, Ordinary

LEMMA Op6Names ==
  ASSUME NEW x \in DOMAIN avr_op_6
  PROVE  LET id == avr_op_6[x] IN
         /\ x \in {\h1C00, \h0C00, \h2000, \h1400, \h0400, \h1000, \h2400,
                  \h2C00, \h9C00, \h2800, \h0800, \h1800}
         /\ id \notin Made /\ id \notin TwoWords /\ id \notin Skipping \ {"CPSE"}
BY TableIs DEF avr_op_6, Made, TwoWords, Skipping, Ordinary

LEMMA Op74Names ==
  ASSUME NEW x \in DOMAIN avr_op_74
  PROVE  LET id == avr_op_74[x] IN
         /\ x \in {\h9405, \h9400, \h940A, \h9006, \h9007, \h9403, \h9000,
                  \h900C, \h900E, \h900D, \h900A, \h9009, \h9002, \h9001,
                  \h9004, \h9005, \h9406, \h9401, \h900F, \h9204, \h9205,
                  \h9206, \h9207, \h920F, \h9407, \h9200, \h920C, \h920E,
                  \h920D, \h920A, \h9209, \h9202, \h9201, \h9402}
         /\ id \notin Made /\ id \notin Skipping
         /\ id \in TwoWords <=> x \in {\h9000, \h9200}
BY TableIs DEF avr_op_74, Made, TwoWords, Skipping, Ordinary

LEMMA ImmediateNames ==
  ASSUME NEW x \in DOMAIN immediate
  PROVE  LET id == immediate[x] IN
         /\ x \in {\h3000, \h4000, \h5000, \h6000, \h7000, \hE000}
         /\ Ordinary(id)
BY TableIs DEF immediate, Made, TwoWords, Skipping, Ordinary

LEMMA RegisterBitNames ==
  ASSUME NEW x \in DOMAIN register_bit
  PROVE  LET id == register_bit[x] IN
         /\ x \in {\hF800, \hFA00, \hFC00, \hFE00}
         /\ id \in {"BLD", "BST", "SBRC", "SBRS"}
BY TableIs DEF register_bit, Made, TwoWords, Skipping, Ordinary

LEMMA BranchNames ==
  ASSUME NEW x \in DOMAIN branch
  PROVE  LET id == branch[x] IN
         /\ x \in {\hF400, \hF000}
         /\ Ordinary(id)
BY TableIs DEF branch, Made, TwoWords, Skipping, Ordinary

LEMMA DisplacementOfNames ==
  ASSUME NEW x \in DOMAIN displacement
  PROVE  LET id == displacement[x] IN
         /\ x \in {\h8008, \h8000, \h8208, \h8200}
         /\ Ordinary(id)
BY TableIs DEF displacement, Made, TwoWords, Skipping, Ordinary

LEMMA TinyDataNames ==
  ASSUME NEW x \in DOMAIN tiny_data
  PROVE  LET id == tiny_data[x] IN
         /\ x \in {\hA000, \hA800}
         /\ Ordinary(id)
BY TableIs DEF tiny_data, Made, TwoWords, Skipping, Ordinary

LEMMA AbsoluteNames ==
  ASSUME NEW x \in DOMAIN absolute
  PROVE  LET id == absolute[x] IN
         /\ x \in {\h940E, \h940C}
         /\ id \in {"CALL", "JMP"}
BY TableIs DEF absolute, Made, TwoWords, Skipping, Ordinary

LEMMA SregBitOfNames ==
  ASSUME NEW x \in DOMAIN sreg_bit
  PROVE  LET id == sreg_bit[x] IN
         /\ x \in {\h9488, \h9408, \h948B, \h940B}
         /\ Ordinary(id)
BY TableIs DEF sreg_bit, Made, TwoWords, Skipping, Ordinary

LEMMA WordImmediateNames ==
  ASSUME NEW x \in DOMAIN word_immediate
  PROVE  LET id == word_immediate[x] IN
         /\ x \in {\h9600, \h9700}
         /\ Ordinary(id)
BY TableIs DEF word_immediate, Made, TwoWords, Skipping, Ordinary

LEMMA IoBitNames ==
  ASSUME NEW x \in DOMAIN io_bit
  PROVE  LET id == io_bit[x] IN
         /\ x \in {\h9800, \h9A00, \h9900, \h9B00}
         /\ id \in {"CBI", "SBI", "SBIC", "SBIS"}
BY TableIs DEF io_bit, Made, TwoWords, Skipping, Ordinary

LEMMA IoNames ==
  ASSUME NEW x \in DOMAIN io
  PROVE  LET id == io[x] IN
         /\ x \in {\hB000, \hB800}
         /\ Ordinary(id)
BY TableIs DEF io, Made, TwoWords, Skipping, Ordinary

LEMMA RelativeNames ==
  ASSUME NEW x \in DOMAIN relative
  PROVE  LET id == relative[x] IN
         /\ x \in {\hD000, \hC000}
         /\ Ordinary(id)
BY TableIs DEF relative, Made, TwoWords, Skipping, Ordinary

LEMMA MovwNames ==
  ASSUME NEW x \in DOMAIN movw
  PROVE  LET id == movw[x] IN
         /\ x \in {\h0100}
         /\ Ordinary(id)
BY TableIs DEF movw, Made, TwoWords, Skipping, Ordinary

LEMMA MulsNames ==
  ASSUME NEW x \in DOMAIN muls
  PROVE  LET id == muls[x] IN
         /\ x \in {\h0200}
         /\ Ordinary(id)
BY TableIs DEF muls, Made, TwoWords, Skipping, Ordinary

LEMMA FractionalNames ==
  ASSUME NEW x \in DOMAIN fractional
  PROVE  LET id == fractional[x] IN
         /\ x \in {\h0300, \h0308, \h0380, \h0388}
         /\ Ordinary(id)
BY TableIs DEF fractional, Made, TwoWords, Skipping, Ordinary

-----------------------------------------------------------------------------
(* The groups and what is listed, in the order of the decoder.              *)

Entry ==
  << Lists(avr_op_16, None, "number", None, "number"),
     Lists(avr_op_6, d5, "number", r5, "number"),
     Lists(avr_op_74, d5, "number", None, "next"),
     Lists(immediate, d4, "high", K8, "number"),
     Lists(register_bit, d5, "number", b3, "mask"),
     Lists(branch, k7, "byte", b3, "mask"),
     Lists(displacement, d5, "number", q6, "number"),
     Lists(tiny_data, d4, "high", k7tiny, "tiny"),
     Lists(absolute, k22, "number", None, "next"),
     Lists(sreg_bit, s3, "mask", None, "next"),
     Lists(word_immediate, d2, "pointer", K6, "number"),
     Lists(io_bit, A5, "port", b3, "mask"),
     Lists(io, d5, "number", A6, "port"),
     Lists(relative, None, "number", k12, "word"),
     Lists(movw, d4, "pair", r4, "pair"),
     Lists(muls, d4, "high", r4, "high"),
     Lists(fractional, d3, "high", r3, "high") >>

LEMMA EntriesAreListed == Listing = {Entry[k] : k \in 1 .. 17}
BY DEF Listing, Entry

(* Which group a word belongs to.                                           *)
ClassOf(w) ==
  IF w < \h0300 THEN IF w = 0 THEN 1 ELSE IF w < \h0200 THEN 15 ELSE 16
  ELSE IF w < \h0400 THEN 17
  ELSE IF w < \h3000 \/ (\h9C00 <= w /\ w < \hA000) THEN 2
  ELSE IF w < \h8000 \/ (\hE000 <= w /\ w < \hF000) THEN 4
  ELSE IF w < \h9000 THEN 7
  ELSE IF w < \h9400 THEN 3
  ELSE IF w < \h9600 THEN
         IF w % 16 = 9 \/ (w % 16 = 8 /\ \h9500 <= w) THEN 1
         ELSE IF w % 16 \in {8, 11} THEN 10 ELSE IF w % 16 < 12 THEN 3 ELSE 9
  ELSE IF w < \h9800 THEN 11
  ELSE IF w < \h9C00 THEN 12
  ELSE IF w < \hB000 THEN IF is_tiny THEN 8 ELSE 7
  ELSE IF w < \hC000 THEN 13
  ELSE IF w < \hE000 THEN 14
  ELSE IF w < \hF800 THEN 6 ELSE 5

(* What is to be shown of the group and the entry with number k.  Of DES,   *)
(* which is not executed, the operand does not count.                      *)
OperandsAgree(k, w, n) ==
  LET g == Groups(w, n)[k]  l == Entry[k] IN
  /\ g.key = Key(w, l)
  /\ g.op2 = Meaning(l.kind2, Number(w, l.f2), w, n)
  /\ g.op1 = Meaning(l.kind1, Number(w, l.f1), w, n) \/ (k = 10 /\ g.key = \h948B)

Claimed(k, w, n) == Groups(w, n)[k].key \in DOMAIN Groups(w, n)[k].table

Agree(k, w, n) == OperandsAgree(k, w, n) /\ (Claimed(k, w, n) => ClassOf(w) = k)

LEMMA Powers ==
  /\ 2^0 = 1 /\ 2^1 = 2 /\ 2^2 = 4 /\ 2^3 = 8 /\ 2^4 = 16
  /\ 2^5 = 32 /\ 2^6 = 64 /\ 2^7 = 128 /\ 2^8 = 256 /\ 2^9 = 512
  /\ 2^10 = 1024 /\ 2^11 = 2048 /\ 2^12 = 4096 /\ 2^13 = 8192
  /\ 2^16 = 65536
OBVIOUS

LEMMA WordIs ==
  ASSUME NEW w \in Word
  PROVE  w \in Nat /\ w < 65536
BY Powers DEF Word

(* A word as up to four digits, the lowest first.                           *)
CutInto(w, p, q, r, a, b, c, d) ==
  a < p /\ b < q /\ c < r /\ w = a + p * (b + q * (c + r * d))
Cut(w, p, q, r) == \E a, b, c, d \in Nat : CutInto(w, p, q, r, a, b, c, d)

LEMMA Division ==
  ASSUME NEW n \in Nat, NEW b \in Nat \ {0}
  PROVE  n \div b \in Nat /\ n % b \in Nat /\ n % b < b /\ (n % b) + b * (n \div b) = n
<1>1. n \div b \in Nat /\ n % b \in 0 .. b - 1 /\ n = b * (n \div b) + (n % b)
  BY DivMod
<1>2. b * (n \div b) \in Int
  BY <1>1
<1> QED BY <1>1, <1>2

LEMMA Digits ==
  ASSUME NEW w \in Word, NEW p \in Nat \ {0}, NEW q \in Nat \ {0}, NEW r \in Nat \ {0}
  PROVE  Cut(w, p, q, r)
<1> DEFINE a == w % p  u == w \div p
           b == u % q  v == u \div q
           c == v % r  d == v \div r
<1>1. w \in Nat
  BY WordIs
<1>2. u \in Nat /\ a \in Nat /\ a < p /\ a + p * u = w
  BY <1>1, Division, Zenon
<1> HIDE DEF u, a
<1>3. v \in Nat /\ b \in Nat /\ b < q /\ b + q * v = u
  BY <1>2, Division, Zenon
<1> HIDE DEF v, b
<1>4. d \in Nat /\ c \in Nat /\ c < r /\ c + r * d = v
  BY <1>3, Division, Zenon
<1> HIDE DEF c, d
<1>5. w = a + p * (b + q * (c + r * d))
  BY <1>2, <1>3, <1>4, Zenon
<1>6. CutInto(w, p, q, r, a, b, c, d)
  BY <1>2, <1>3, <1>4, <1>5 DEF CutInto
<1> QED BY <1>2, <1>3, <1>4, <1>6, Zenon DEF Cut

LEMMA Op16Agrees ==
  ASSUME NEW w \in Word, NEW n \in Word
  PROVE  Agree(1, w, n)
<1> DEFINE key == w
<1>0. Cut(w, 16, 1, 1)
  BY Digits
<1>1. PICK a, b, c, d \in Nat :
        a < 16 /\ b < 1 /\ c < 1 /\ w = a + 16 * (b + 1 * (c + 1 * d))
  BY <1>0, Zenon DEF Cut, CutInto
<1>2. /\ w \in Nat /\ w < 65536 /\ w = a + 16 * d
      /\ a \in Nat /\ a < 16 /\ d \in Nat
  BY <1>1, WordIs
<1>3. Clear(Clear(w, None), None) = key
  BY <1>2, Powers DEF Clear, None, Without, Bits, WithoutQ
<1>4. Meaning("number", Number(w, None), w, n) = 0
  BY <1>2, Powers DEF Meaning, Number, None, Bits, Rd5, SignExtended, SregBit, Without
<1>5. Meaning("number", Number(w, None), w, n) = 0
  BY <1>2, Powers DEF Meaning, Number, None, Bits, Rr5, Imm8, BitMask, Displacement,
                      TinyAddress, SignExtended
<1>6. key \in DOMAIN avr_op_16 => ClassOf(w) = 1
  BY <1>2, Powers, Op16Names DEF ClassOf, Bits, Without
<1>7. Groups(w, n)[1] = Group(avr_op_16, w, 0, 0)
  BY DEF Groups
<1>8. Entry[1] = Lists(avr_op_16, None, "number", None, "number")
  BY DEF Entry
<1> QED BY <1>3, <1>4, <1>5, <1>6, <1>7, <1>8
        DEF Agree, OperandsAgree, Claimed, Lists, Group, Key

LEMMA Op6Agrees ==
  ASSUME NEW w \in Word, NEW n \in Word
  PROVE  Agree(2, w, n)
<1> DEFINE key == Without(w, 0, 10)
<1>0. Cut(w, 16, 32, 2)
  BY Digits
<1>1. PICK a, b, c, d \in Nat :
        a < 16 /\ b < 32 /\ c < 2 /\ w = a + 16 * (b + 32 * (c + 2 * d))
  BY <1>0, Zenon DEF Cut, CutInto
<1>2. /\ w \in Nat /\ w < 65536 /\ w = a + 16 * b + 512 * c + 1024 * d
      /\ a \in Nat /\ a < 16 /\ b \in Nat /\ b < 32 /\ c \in Nat /\ c < 2 /\ d \in Nat
  BY <1>1, WordIs
<1>3. Clear(Clear(w, d5), r5) = key
  BY <1>2, Powers DEF Clear, d5, r5, Without, Bits, WithoutQ
<1>4. Meaning("number", Number(w, d5), w, n) = Rd5(w)
  BY <1>2, Powers DEF Meaning, Number, d5, Bits, Rd5, SignExtended, SregBit, Without
<1>5. Meaning("number", Number(w, r5), w, n) = Rr5(w)
  BY <1>2, Powers DEF Meaning, Number, r5, Bits, Rr5, Imm8, BitMask, Displacement,
                      TinyAddress, SignExtended
<1>6. key \in DOMAIN avr_op_6 => ClassOf(w) = 2
  BY <1>2, Powers, Op6Names DEF ClassOf, Bits, Without
<1>7. Groups(w, n)[2] = Group(avr_op_6, Without(w, 0, 10), Rd5(w), Rr5(w))
  BY DEF Groups
<1>8. Entry[2] = Lists(avr_op_6, d5, "number", r5, "number")
  BY DEF Entry
<1> QED BY <1>3, <1>4, <1>5, <1>6, <1>7, <1>8
        DEF Agree, OperandsAgree, Claimed, Lists, Group, Key

LEMMA Op74Agrees ==
  ASSUME NEW w \in Word, NEW n \in Word
  PROVE  Agree(3, w, n)
<1> DEFINE key == Without(w, 4, 5)
<1>0. Cut(w, 16, 32, 1)
  BY Digits
<1>1. PICK a, b, c, d \in Nat :
        a < 16 /\ b < 32 /\ c < 1 /\ w = a + 16 * (b + 32 * (c + 1 * d))
  BY <1>0, Zenon DEF Cut, CutInto
<1>2. /\ w \in Nat /\ w < 65536 /\ w = a + 16 * b + 512 * d
      /\ a \in Nat /\ a < 16 /\ b \in Nat /\ b < 32 /\ d \in Nat
  BY <1>1, WordIs
<1>3. Clear(Clear(w, d5), None) = key
  BY <1>2, Powers DEF Clear, None, d5, Without, Bits, WithoutQ
<1>4. Meaning("number", Number(w, d5), w, n) = Rd5(w)
  BY <1>2, Powers DEF Meaning, Number, d5, Bits, Rd5, SignExtended, SregBit, Without
<1>5. Meaning("next", Number(w, None), w, n) = n
  BY <1>2, Powers DEF Meaning, Number, None, Bits, Rr5, Imm8, BitMask, Displacement,
                      TinyAddress, SignExtended
<1>6. key \in DOMAIN avr_op_74 => ClassOf(w) = 3
  BY <1>2, Powers, Op74Names DEF ClassOf, Bits, Without
<1>7. Groups(w, n)[3] = Group(avr_op_74, Without(w, 4, 5), Rd5(w), n)
  BY DEF Groups
<1>8. Entry[3] = Lists(avr_op_74, d5, "number", None, "next")
  BY DEF Entry
<1> QED BY <1>3, <1>4, <1>5, <1>6, <1>7, <1>8
        DEF Agree, OperandsAgree, Claimed, Lists, Group, Key

LEMMA ImmediateAgrees ==
  ASSUME NEW w \in Word, NEW n \in Word
  PROVE  Agree(4, w, n)
<1> DEFINE key == Without(w, 0, 12)
<1>0. Cut(w, 16, 16, 16)
  BY Digits
<1>1. PICK a, b, c, d \in Nat :
        a < 16 /\ b < 16 /\ c < 16 /\ w = a + 16 * (b + 16 * (c + 16 * d))
  BY <1>0, Zenon DEF Cut, CutInto
<1>2. /\ w \in Nat /\ w < 65536 /\ w = a + 16 * b + 256 * c + 4096 * d
      /\ a \in Nat /\ a < 16 /\ b \in Nat /\ b < 16 /\ c \in Nat /\ c < 16 /\ d \in Nat
  BY <1>1, WordIs
<1>3. Clear(Clear(w, d4), K8) = key
  BY <1>2, Powers DEF Clear, K8, d4, Without, Bits, WithoutQ
<1>4. Meaning("high", Number(w, d4), w, n) = 16 + Bits(w, 4, 4)
  BY <1>2, Powers DEF Meaning, Number, d4, Bits, Rd5, SignExtended, SregBit, Without
<1>5. Meaning("number", Number(w, K8), w, n) = Imm8(w)
  BY <1>2, Powers DEF Meaning, Number, K8, Bits, Rr5, Imm8, BitMask, Displacement,
                      TinyAddress, SignExtended
<1>6. key \in DOMAIN immediate => ClassOf(w) = 4
  BY <1>2, Powers, ImmediateNames DEF ClassOf, Bits, Without
<1>7. Groups(w, n)[4] = Group(immediate, Without(w, 0, 12), 16 + Bits(w, 4, 4), Imm8(w))
  BY DEF Groups
<1>8. Entry[4] = Lists(immediate, d4, "high", K8, "number")
  BY DEF Entry
<1> QED BY <1>3, <1>4, <1>5, <1>6, <1>7, <1>8
        DEF Agree, OperandsAgree, Claimed, Lists, Group, Key

LEMMA RegisterBitAgrees ==
  ASSUME NEW w \in Word, NEW n \in Word
  PROVE  Agree(5, w, n)
<1> DEFINE key == Without(Without(w, 4, 5), 0, 3)
<1>0. Cut(w, 8, 2, 32)
  BY Digits
<1>1. PICK a, b, c, d \in Nat :
        a < 8 /\ b < 2 /\ c < 32 /\ w = a + 8 * (b + 2 * (c + 32 * d))
  BY <1>0, Zenon DEF Cut, CutInto
<1>2. /\ w \in Nat /\ w < 65536 /\ w = a + 8 * b + 16 * c + 512 * d
      /\ a \in Nat /\ a < 8 /\ b \in Nat /\ b < 2 /\ c \in Nat /\ c < 32 /\ d \in Nat
  BY <1>1, WordIs
<1>3. Clear(Clear(w, d5), b3) = key
  BY <1>2, Powers DEF Clear, b3, d5, Without, Bits, WithoutQ
<1>4. Meaning("number", Number(w, d5), w, n) = Rd5(w)
  BY <1>2, Powers DEF Meaning, Number, d5, Bits, Rd5, SignExtended, SregBit, Without
<1>5. Meaning("mask", Number(w, b3), w, n) = BitMask(w)
  BY <1>2, Powers DEF Meaning, Number, b3, Bits, Rr5, Imm8, BitMask, Displacement,
                      TinyAddress, SignExtended
<1>6. key \in DOMAIN register_bit => ClassOf(w) = 5
  BY <1>2, Powers, RegisterBitNames DEF ClassOf, Bits, Without
<1>7. Groups(w, n)[5] =
        Group(register_bit, Without(Without(w, 4, 5), 0, 3), Rd5(w), BitMask(w))
  BY DEF Groups
<1>8. Entry[5] = Lists(register_bit, d5, "number", b3, "mask")
  BY DEF Entry
<1> QED BY <1>3, <1>4, <1>5, <1>6, <1>7, <1>8
        DEF Agree, OperandsAgree, Claimed, Lists, Group, Key

LEMMA BranchAgrees ==
  ASSUME NEW w \in Word, NEW n \in Word
  PROVE  Agree(6, w, n)
<1> DEFINE key == Without(w, 0, 10)
<1>0. Cut(w, 8, 128, 1)
  BY Digits
<1>1. PICK a, b, c, d \in Nat :
        a < 8 /\ b < 128 /\ c < 1 /\ w = a + 8 * (b + 128 * (c + 1 * d))
  BY <1>0, Zenon DEF Cut, CutInto
<1>2. /\ w \in Nat /\ w < 65536 /\ w = a + 8 * b + 1024 * d
      /\ a \in Nat /\ a < 8 /\ b \in Nat /\ b < 128 /\ d \in Nat
  BY <1>1, WordIs
<1>3. Clear(Clear(w, k7), b3) = key
  BY <1>2, Powers DEF Clear, b3, k7, Without, Bits, WithoutQ
<1>4. Meaning("byte", Number(w, k7), w, n) = SignExtended(Bits(w, 3, 7), 7, 8)
  BY <1>2, Powers DEF Meaning, Number, k7, Bits, Rd5, SignExtended, SregBit, Without
<1>5. Meaning("mask", Number(w, b3), w, n) = BitMask(w)
  BY <1>2, Powers DEF Meaning, Number, b3, Bits, Rr5, Imm8, BitMask, Displacement,
                      TinyAddress, SignExtended
<1>6. key \in DOMAIN branch => ClassOf(w) = 6
  BY <1>2, Powers, BranchNames DEF ClassOf, Bits, Without
<1>7. Groups(w, n)[6] =
        Group(branch, Without(w, 0, 10), SignExtended(Bits(w, 3, 7), 7, 8), BitMask(w))
  BY DEF Groups
<1>8. Entry[6] = Lists(branch, k7, "byte", b3, "mask")
  BY DEF Entry
<1> QED BY <1>3, <1>4, <1>5, <1>6, <1>7, <1>8
        DEF Agree, OperandsAgree, Claimed, Lists, Group, Key

LEMMA DisplacementOfAgrees ==
  ASSUME NEW w \in Word, NEW n \in Word
  PROVE  Agree(7, w, n)
<1> DEFINE key == WithoutQ(Without(w, 4, 5))
<1>0. Cut(w, 8, 2, 32)
  BY Digits
<1>1. PICK a, b, c, d \in Nat :
        a < 8 /\ b < 2 /\ c < 32 /\ w = a + 8 * (b + 2 * (c + 32 * d))
  BY <1>0, Zenon DEF Cut, CutInto
<1>2. /\ w \in Nat /\ w < 65536 /\ w = a + 8 * b + 16 * c + 512 * d
      /\ a \in Nat /\ a < 8 /\ b \in Nat /\ b < 2 /\ c \in Nat /\ c < 32 /\ d \in Nat
  BY <1>1, WordIs
<1>3. d \in Word
  BY <1>2, Powers DEF Word
<1>4. Cut(d, 2, 4, 2)
  BY <1>3, Digits
<1>5. PICK e, f, g, h \in Nat :
         e < 2 /\ f < 4 /\ g < 2 /\ d = e + 2 * (f + 4 * (g + 2 * h))
  BY <1>4, Zenon DEF Cut, CutInto
<1>6. h \in Word
  BY <1>2, <1>5, Powers DEF Word
<1>7. Cut(h, 2, 1, 1)
  BY <1>6, Digits
<1>8. PICK k, k1, k2, m \in Nat :
         k < 2 /\ k1 < 1 /\ k2 < 1 /\ h = k + 2 * (k1 + 1 * (k2 + 1 * m))
  BY <1>7, Zenon DEF Cut, CutInto
<1>9. /\ w \in Nat /\ w < 65536
       /\ w = a + 8 * b + 16 * c + 512 * e + 1024 * f + 4096 * g + 8192 * k + 16384 * m
       /\ a \in Nat /\ a < 8 /\ b \in Nat /\ b < 2 /\ c \in Nat /\ c < 32
       /\ e \in Nat /\ e < 2 /\ f \in Nat /\ f < 4 /\ g \in Nat /\ g < 2
       /\ k \in Nat /\ k < 2 /\ m \in Nat
  BY <1>2, <1>5, <1>8
<1>10. PICK x \in Nat :
         /\ x = Without(w, 4, 5)
         /\ x = a + 8 * b + 512 * e + 1024 * f + 4096 * g + 8192 * k + 16384 * m
  BY <1>9, Powers DEF Bits, Without
<1>11. PICK y \in Nat :
         /\ y = Without(x, 0, 3)
         /\ y = 8 * b + 512 * e + 1024 * f + 4096 * g + 8192 * k + 16384 * m
  BY <1>9, <1>10, Powers DEF Bits, Without
<1>12. PICK z \in Nat :
         /\ z = Without(y, 10, 2)
         /\ z = 8 * b + 512 * e + 4096 * g + 8192 * k + 16384 * m
  BY <1>9, <1>11, Powers DEF Bits, Without
<1>13. Without(z, 13, 1) = 8 * b + 512 * e + 4096 * g + 16384 * m
  BY <1>9, <1>12, Powers DEF Bits, Without
<1>14. key = 8 * b + 512 * e + 4096 * g + 16384 * m
  BY <1>10, <1>11, <1>12, <1>13 DEF WithoutQ
<1>15. Displacement(w) = a + 8 * f + 32 * k
  BY <1>9, Powers DEF Bits, Displacement
<1>16. Clear(Clear(w, d5), q6) = key
  BY <1>2, Powers DEF Clear, d5, q6, Without, Bits, WithoutQ
<1>17. Meaning("number", Number(w, d5), w, n) = Rd5(w)
  BY <1>2, Powers DEF Meaning, Number, d5, Bits, Rd5, SignExtended, SregBit, Without
<1>18. Meaning("number", Number(w, q6), w, n) = Displacement(w)
  BY <1>2, Powers DEF Meaning, Number, q6, Bits, Rr5, Imm8, BitMask, Displacement,
                      TinyAddress, SignExtended
<1>19. (~is_tiny \/ Displacement(w) = 0) /\ key \in DOMAIN displacement => ClassOf(w) = 7
  BY <1>9, <1>14, <1>15, DisplacementOfNames DEF ClassOf
<1>20. Groups(w, n)[7] =
        Group(IF ~is_tiny \/ Displacement(w) = 0 THEN displacement ELSE << >>,
              WithoutQ(Without(w, 4, 5)), Rd5(w), Displacement(w))
  BY DEF Groups
<1>21. Entry[7] = Lists(displacement, d5, "number", q6, "number")
  BY DEF Entry
<1> QED BY <1>16, <1>17, <1>18, <1>19, <1>20, <1>21
        DEF Agree, OperandsAgree, Claimed, Lists, Group, Key

LEMMA TinyDataAgrees ==
  ASSUME NEW w \in Word, NEW n \in Word
  PROVE  Agree(8, w, n)
<1> DEFINE key == Without(w, 0, 11)
<1>2. w \in Nat /\ w < 65536
  BY WordIs
<1>3. Clear(Clear(w, d4), k7tiny) = key
  BY <1>2, Powers DEF Clear, d4, k7tiny, Without, Bits, WithoutQ
<1>4. Meaning("high", Number(w, d4), w, n) = 16 + Bits(w, 4, 4)
  BY <1>2, Powers DEF Meaning, Number, d4, Bits, Rd5, SignExtended, SregBit, Without
<1>5. Meaning("tiny", Number(w, k7tiny), w, n) = TinyAddress(w)
  BY <1>2, Powers DEF Meaning, Number, k7tiny, Bits, Rr5, Imm8, BitMask, Displacement,
                      TinyAddress, SignExtended
<1>6. is_tiny /\ key \in DOMAIN tiny_data => ClassOf(w) = 8
  BY <1>2, Powers, TinyDataNames DEF ClassOf, Bits, Without
<1>7. Groups(w, n)[8] =
        Group(IF is_tiny THEN tiny_data ELSE << >>,
              Without(w, 0, 11), 16 + Bits(w, 4, 4), TinyAddress(w))
  BY DEF Groups
<1>8. Entry[8] = Lists(tiny_data, d4, "high", k7tiny, "tiny")
  BY DEF Entry
<1> QED BY <1>3, <1>4, <1>5, <1>6, <1>7, <1>8
        DEF Agree, OperandsAgree, Claimed, Lists, Group, Key

LEMMA AbsoluteAgrees ==
  ASSUME NEW w \in Word, NEW n \in Word
  PROVE  Agree(9, w, n)
<1> DEFINE key == Without(Without(w, 4, 5), 0, 1)
<1>0. Cut(w, 2, 8, 32)
  BY Digits
<1>1. PICK a, b, c, d \in Nat :
        a < 2 /\ b < 8 /\ c < 32 /\ w = a + 2 * (b + 8 * (c + 32 * d))
  BY <1>0, Zenon DEF Cut, CutInto
<1>2. /\ w \in Nat /\ w < 65536 /\ w = a + 2 * b + 16 * c + 512 * d
      /\ a \in Nat /\ a < 2 /\ b \in Nat /\ b < 8 /\ c \in Nat /\ c < 32 /\ d \in Nat
  BY <1>1, WordIs
<1>3. Clear(Clear(w, k22), None) = key
  BY <1>2, Powers DEF Clear, None, k22, Without, Bits, WithoutQ
<1>4. Meaning("number", Number(w, k22), w, n) = Bits(w, 0, 1) + 2 * Bits(w, 4, 5)
  BY <1>2, Powers DEF Meaning, Number, k22, Bits, Rd5, SignExtended, SregBit, Without
<1>5. Meaning("next", Number(w, None), w, n) = n
  BY <1>2, Powers DEF Meaning, Number, None, Bits, Rr5, Imm8, BitMask, Displacement,
                      TinyAddress, SignExtended
<1>6. key \in DOMAIN absolute => ClassOf(w) = 9
  BY <1>2, Powers, AbsoluteNames DEF ClassOf, Bits, Without
<1>7. Groups(w, n)[9] =
        Group(absolute, Without(Without(w, 4, 5), 0, 1), Bits(w, 0, 1) + 2 * Bits(w,
              4, 5), n)
  BY DEF Groups
<1>8. Entry[9] = Lists(absolute, k22, "number", None, "next")
  BY DEF Entry
<1> QED BY <1>3, <1>4, <1>5, <1>6, <1>7, <1>8
        DEF Agree, OperandsAgree, Claimed, Lists, Group, Key

LEMMA SregBitOfAgrees ==
  ASSUME NEW w \in Word, NEW n \in Word
  PROVE  Agree(10, w, n)
<1> DEFINE key == Without(w, 4, 3)
<1>0. Cut(w, 16, 8, 1)
  BY Digits
<1>1. PICK a, b, c, d \in Nat :
        a < 16 /\ b < 8 /\ c < 1 /\ w = a + 16 * (b + 8 * (c + 1 * d))
  BY <1>0, Zenon DEF Cut, CutInto
<1>2. /\ w \in Nat /\ w < 65536 /\ w = a + 16 * b + 128 * d
      /\ a \in Nat /\ a < 16 /\ b \in Nat /\ b < 8 /\ d \in Nat
  BY <1>1, WordIs
<1>3. Clear(Clear(w, s3), None) = key
  BY <1>2, Powers DEF Clear, None, s3, Without, Bits, WithoutQ
<1>4. Meaning("mask", Number(w, s3), w, n) = SregBit(w) \/ key = \h948B
  BY <1>2, Powers DEF Meaning, Number, s3, Bits, Rd5, SignExtended, SregBit, Without
<1>5. Meaning("next", Number(w, None), w, n) = n
  BY <1>2, Powers DEF Meaning, Number, None, Bits, Rr5, Imm8, BitMask, Displacement,
                      TinyAddress, SignExtended
<1>6. key \in DOMAIN sreg_bit => ClassOf(w) = 10
  BY <1>2, Powers, SregBitOfNames DEF ClassOf, Bits, Without
<1>7. Groups(w, n)[10] = Group(sreg_bit, Without(w, 4, 3), SregBit(w), n)
  BY DEF Groups
<1>8. Entry[10] = Lists(sreg_bit, s3, "mask", None, "next")
  BY DEF Entry
<1> QED BY <1>3, <1>4, <1>5, <1>6, <1>7, <1>8
        DEF Agree, OperandsAgree, Claimed, Lists, Group, Key

LEMMA WordImmediateAgrees ==
  ASSUME NEW w \in Word, NEW n \in Word
  PROVE  Agree(11, w, n)
<1> DEFINE key == Without(w, 0, 8)
<1>0. Cut(w, 16, 4, 4)
  BY Digits
<1>1. PICK a, b, c, d \in Nat :
        a < 16 /\ b < 4 /\ c < 4 /\ w = a + 16 * (b + 4 * (c + 4 * d))
  BY <1>0, Zenon DEF Cut, CutInto
<1>2. /\ w \in Nat /\ w < 65536 /\ w = a + 16 * b + 64 * c + 256 * d
      /\ a \in Nat /\ a < 16 /\ b \in Nat /\ b < 4 /\ c \in Nat /\ c < 4 /\ d \in Nat
  BY <1>1, WordIs
<1>3. Clear(Clear(w, d2), K6) = key
  BY <1>2, Powers DEF Clear, K6, d2, Without, Bits, WithoutQ
<1>4. Meaning("pointer", Number(w, d2), w, n) = 24 + 2 * Bits(w, 4, 2)
  BY <1>2, Powers DEF Meaning, Number, d2, Bits, Rd5, SignExtended, SregBit, Without
<1>5. Meaning("number", Number(w, K6), w, n) = Bits(w, 0, 4) + 16 * Bits(w, 6, 2)
  BY <1>2, Powers DEF Meaning, Number, K6, Bits, Rr5, Imm8, BitMask, Displacement,
                      TinyAddress, SignExtended
<1>6. key \in DOMAIN word_immediate => ClassOf(w) = 11
  BY <1>2, Powers, WordImmediateNames DEF ClassOf, Bits, Without
<1>7. Groups(w, n)[11] =
        Group(word_immediate, Without(w, 0, 8), 24 + 2 * Bits(w, 4, 2), Bits(w, 0,
              4) + 16 * Bits(w, 6, 2))
  BY DEF Groups
<1>8. Entry[11] = Lists(word_immediate, d2, "pointer", K6, "number")
  BY DEF Entry
<1> QED BY <1>3, <1>4, <1>5, <1>6, <1>7, <1>8
        DEF Agree, OperandsAgree, Claimed, Lists, Group, Key

LEMMA IoBitAgrees ==
  ASSUME NEW w \in Word, NEW n \in Word
  PROVE  Agree(12, w, n)
<1> DEFINE key == Without(w, 0, 8)
<1>0. Cut(w, 8, 32, 1)
  BY Digits
<1>1. PICK a, b, c, d \in Nat :
        a < 8 /\ b < 32 /\ c < 1 /\ w = a + 8 * (b + 32 * (c + 1 * d))
  BY <1>0, Zenon DEF Cut, CutInto
<1>2. /\ w \in Nat /\ w < 65536 /\ w = a + 8 * b + 256 * d
      /\ a \in Nat /\ a < 8 /\ b \in Nat /\ b < 32 /\ d \in Nat
  BY <1>1, WordIs
<1>3. Clear(Clear(w, A5), b3) = key
  BY <1>2, Powers DEF Clear, A5, b3, Without, Bits, WithoutQ
<1>4. Meaning("port", Number(w, A5), w, n) = Bits(w, 3, 5) + io_base
  BY <1>2, Powers DEF Meaning, Number, A5, Bits, Rd5, SignExtended, SregBit, Without
<1>5. Meaning("mask", Number(w, b3), w, n) = BitMask(w)
  BY <1>2, Powers DEF Meaning, Number, b3, Bits, Rr5, Imm8, BitMask, Displacement,
                      TinyAddress, SignExtended
<1>6. key \in DOMAIN io_bit => ClassOf(w) = 12
  BY <1>2, Powers, IoBitNames DEF ClassOf, Bits, Without
<1>7. Groups(w, n)[12] =
        Group(io_bit, Without(w, 0, 8), Bits(w, 3, 5) + io_base, BitMask(w))
  BY DEF Groups
<1>8. Entry[12] = Lists(io_bit, A5, "port", b3, "mask")
  BY DEF Entry
<1> QED BY <1>3, <1>4, <1>5, <1>6, <1>7, <1>8
        DEF Agree, OperandsAgree, Claimed, Lists, Group, Key

LEMMA IoAgrees ==
  ASSUME NEW w \in Word, NEW n \in Word
  PROVE  Agree(13, w, n)
<1> DEFINE key == Without(w, 0, 11)
<1>0. Cut(w, 16, 32, 4)
  BY Digits
<1>1. PICK a, b, c, d \in Nat :
        a < 16 /\ b < 32 /\ c < 4 /\ w = a + 16 * (b + 32 * (c + 4 * d))
  BY <1>0, Zenon DEF Cut, CutInto
<1>2. /\ w \in Nat /\ w < 65536 /\ w = a + 16 * b + 512 * c + 2048 * d
      /\ a \in Nat /\ a < 16 /\ b \in Nat /\ b < 32 /\ c \in Nat /\ c < 4 /\ d \in Nat
  BY <1>1, WordIs
<1>3. Clear(Clear(w, d5), A6) = key
  BY <1>2, Powers DEF Clear, A6, d5, Without, Bits, WithoutQ
<1>4. Meaning("number", Number(w, d5), w, n) = Rd5(w)
  BY <1>2, Powers DEF Meaning, Number, d5, Bits, Rd5, SignExtended, SregBit, Without
<1>5. Meaning("port", Number(w, A6), w, n) = Bits(w, 0, 4) + 16 * Bits(w, 9, 2) + io_base
  BY <1>2, Powers DEF Meaning, Number, A6, Bits, Rr5, Imm8, BitMask, Displacement,
                      TinyAddress, SignExtended
<1>6. key \in DOMAIN io => ClassOf(w) = 13
  BY <1>2, Powers, IoNames DEF ClassOf, Bits, Without
<1>7. Groups(w, n)[13] =
        Group(io, Without(w, 0, 11), Rd5(w), Bits(w, 0, 4) + 16 * Bits(w, 9,
              2) + io_base)
  BY DEF Groups
<1>8. Entry[13] = Lists(io, d5, "number", A6, "port")
  BY DEF Entry
<1> QED BY <1>3, <1>4, <1>5, <1>6, <1>7, <1>8
        DEF Agree, OperandsAgree, Claimed, Lists, Group, Key

LEMMA RelativeAgrees ==
  ASSUME NEW w \in Word, NEW n \in Word
  PROVE  Agree(14, w, n)
<1> DEFINE key == Without(w, 0, 12)
<1>0. /\ w % 4096 \in Nat /\ w \div 4096 \in Nat /\ w % 4096 < 4096
      /\ w = (w % 4096) + 4096 * (w \div 4096)
  BY WordIs
<1>1. PICK a, d \in Nat : a < 4096 /\ w = a + 4096 * d
  BY <1>0
<1>2. /\ w \in Nat /\ w < 65536 /\ w = a + 4096 * d
      /\ a \in Nat /\ a < 4096 /\ d \in Nat
  BY <1>1, WordIs
<1>3. Clear(Clear(w, None), k12) = key
  BY <1>2, Powers DEF Clear, None, k12, Without, Bits, WithoutQ
<1>4. Meaning("number", Number(w, None), w, n) = 0
  BY <1>2, Powers DEF Meaning, Number, None, Bits, Rd5, SignExtended, SregBit, Without
<1>5. Meaning("word", Number(w, k12), w, n) = SignExtended(Bits(w, 0, 12), 12, 16)
  BY <1>2, Powers DEF Meaning, Number, k12, Bits, Rr5, Imm8, BitMask, Displacement,
                      TinyAddress, SignExtended
<1>6. key \in DOMAIN relative => ClassOf(w) = 14
  BY <1>2, Powers, RelativeNames DEF ClassOf, Bits, Without
<1>7. Groups(w, n)[14] =
        Group(relative, Without(w, 0, 12), 0, SignExtended(Bits(w, 0, 12), 12, 16))
  BY DEF Groups
<1>8. Entry[14] = Lists(relative, None, "number", k12, "word")
  BY DEF Entry
<1> QED BY <1>3, <1>4, <1>5, <1>6, <1>7, <1>8
        DEF Agree, OperandsAgree, Claimed, Lists, Group, Key

LEMMA MovwAgrees ==
  ASSUME NEW w \in Word, NEW n \in Word
  PROVE  Agree(15, w, n)
<1> DEFINE key == Without(w, 0, 8)
<1>0. Cut(w, 16, 16, 1)
  BY Digits
<1>1. PICK a, b, c, d \in Nat :
        a < 16 /\ b < 16 /\ c < 1 /\ w = a + 16 * (b + 16 * (c + 1 * d))
  BY <1>0, Zenon DEF Cut, CutInto
<1>2. /\ w \in Nat /\ w < 65536 /\ w = a + 16 * b + 256 * d
      /\ a \in Nat /\ a < 16 /\ b \in Nat /\ b < 16 /\ d \in Nat
  BY <1>1, WordIs
<1>3. Clear(Clear(w, d4), r4) = key
  BY <1>2, Powers DEF Clear, d4, r4, Without, Bits, WithoutQ
<1>4. Meaning("pair", Number(w, d4), w, n) = 2 * Bits(w, 4, 4)
  BY <1>2, Powers DEF Meaning, Number, d4, Bits, Rd5, SignExtended, SregBit, Without
<1>5. Meaning("pair", Number(w, r4), w, n) = 2 * Bits(w, 0, 4)
  BY <1>2, Powers DEF Meaning, Number, r4, Bits, Rr5, Imm8, BitMask, Displacement,
                      TinyAddress, SignExtended
<1>6. key \in DOMAIN movw => ClassOf(w) = 15
  BY <1>2, Powers, MovwNames DEF ClassOf, Bits, Without
<1>7. Groups(w, n)[15] =
        Group(movw, Without(w, 0, 8), 2 * Bits(w, 4, 4), 2 * Bits(w, 0, 4))
  BY DEF Groups
<1>8. Entry[15] = Lists(movw, d4, "pair", r4, "pair")
  BY DEF Entry
<1> QED BY <1>3, <1>4, <1>5, <1>6, <1>7, <1>8
        DEF Agree, OperandsAgree, Claimed, Lists, Group, Key

LEMMA MulsAgrees ==
  ASSUME NEW w \in Word, NEW n \in Word
  PROVE  Agree(16, w, n)
<1> DEFINE key == Without(w, 0, 8)
<1>0. Cut(w, 16, 16, 1)
  BY Digits
<1>1. PICK a, b, c, d \in Nat :
        a < 16 /\ b < 16 /\ c < 1 /\ w = a + 16 * (b + 16 * (c + 1 * d))
  BY <1>0, Zenon DEF Cut, CutInto
<1>2. /\ w \in Nat /\ w < 65536 /\ w = a + 16 * b + 256 * d
      /\ a \in Nat /\ a < 16 /\ b \in Nat /\ b < 16 /\ d \in Nat
  BY <1>1, WordIs
<1>3. Clear(Clear(w, d4), r4) = key
  BY <1>2, Powers DEF Clear, d4, r4, Without, Bits, WithoutQ
<1>4. Meaning("high", Number(w, d4), w, n) = 16 + Bits(w, 4, 4)
  BY <1>2, Powers DEF Meaning, Number, d4, Bits, Rd5, SignExtended, SregBit, Without
<1>5. Meaning("high", Number(w, r4), w, n) = 16 + Bits(w, 0, 4)
  BY <1>2, Powers DEF Meaning, Number, r4, Bits, Rr5, Imm8, BitMask, Displacement,
                      TinyAddress, SignExtended
<1>6. key \in DOMAIN muls => ClassOf(w) = 16
  BY <1>2, Powers, MulsNames DEF ClassOf, Bits, Without
<1>7. Groups(w, n)[16] =
        Group(muls, Without(w, 0, 8), 16 + Bits(w, 4, 4), 16 + Bits(w, 0, 4))
  BY DEF Groups
<1>8. Entry[16] = Lists(muls, d4, "high", r4, "high")
  BY DEF Entry
<1> QED BY <1>3, <1>4, <1>5, <1>6, <1>7, <1>8
        DEF Agree, OperandsAgree, Claimed, Lists, Group, Key

LEMMA FractionalAgrees ==
  ASSUME NEW w \in Word, NEW n \in Word
  PROVE  Agree(17, w, n)
<1> DEFINE key == Without(Without(w, 4, 3), 0, 3)
<1>0. Cut(w, 8, 2, 8)
  BY Digits
<1>1. PICK a, b, c, d \in Nat :
        a < 8 /\ b < 2 /\ c < 8 /\ w = a + 8 * (b + 2 * (c + 8 * d))
  BY <1>0, Zenon DEF Cut, CutInto
<1>2. /\ w \in Nat /\ w < 65536 /\ w = a + 8 * b + 16 * c + 128 * d
      /\ a \in Nat /\ a < 8 /\ b \in Nat /\ b < 2 /\ c \in Nat /\ c < 8 /\ d \in Nat
  BY <1>1, WordIs
<1>3. Clear(Clear(w, d3), r3) = key
  BY <1>2, Powers DEF Clear, d3, r3, Without, Bits, WithoutQ
<1>4. Meaning("high", Number(w, d3), w, n) = 16 + Bits(w, 4, 3)
  BY <1>2, Powers DEF Meaning, Number, d3, Bits, Rd5, SignExtended, SregBit, Without
<1>5. Meaning("high", Number(w, r3), w, n) = 16 + Bits(w, 0, 3)
  BY <1>2, Powers DEF Meaning, Number, r3, Bits, Rr5, Imm8, BitMask, Displacement,
                      TinyAddress, SignExtended
<1>6. key \in DOMAIN fractional => ClassOf(w) = 17
  BY <1>2, Powers, FractionalNames DEF ClassOf, Bits, Without
<1>7. Groups(w, n)[17] =
        Group(fractional, Without(Without(w, 4, 3), 0, 3), 16 + Bits(w, 4, 3),
              16 + Bits(w, 0, 3))
  BY DEF Groups
<1>8. Entry[17] = Lists(fractional, d3, "high", r3, "high")
  BY DEF Entry
<1> QED BY <1>3, <1>4, <1>5, <1>6, <1>7, <1>8
        DEF Agree, OperandsAgree, Claimed, Lists, Group, Key

-----------------------------------------------------------------------------
(* decode_opcode                                                           *)

LEMMA AllAgree ==
  ASSUME NEW w \in Word, NEW n \in Word, NEW k \in 1 .. 17
  PROVE  Agree(k, w, n)
BY Op16Agrees, Op6Agrees, Op74Agrees, ImmediateAgrees, RegisterBitAgrees, BranchAgrees,
   DisplacementOfAgrees, TinyDataAgrees, AbsoluteAgrees, SregBitOfAgrees,
   WordImmediateAgrees, IoBitAgrees, IoAgrees, RelativeAgrees, MovwAgrees, MulsAgrees,
   FractionalAgrees

(* What the group with number k makes of a word.                            *)
Name(k, w, n) == Groups(w, n)[k].table[Groups(w, n)[k].key]
Raw(k, w, n) == Decoded(Name(k, w, n), Groups(w, n)[k].op1, Groups(w, n)[k].op2)

Special(d, w, n) ==
  IF d.id \in DOMAIN SameRegister /\ d.op1 = d.op2
  THEN [d EXCEPT !.id = SameRegister[d.id]]
  ELSE IF Overlaps(d.id, d.op1) THEN Decoded("UNDEF", d.id, w)
  ELSE IF d.id \in DOMAIN Skip2 THEN Skips(d, n)
  ELSE d

LEMMA OneGroup ==
  ASSUME NEW w \in Word, NEW n \in Word, NEW k \in 1 .. 17, Claimed(k, w, n),
         NEW j \in 1 .. 17, Claimed(j, w, n)
  PROVE  j = k
<1>1. Agree(k, w, n) /\ Agree(j, w, n)
  BY AllAgree
<1>2. ASSUME NEW m, Agree(m, w, n), Claimed(m, w, n)
      PROVE  ClassOf(w) = m
  BY <1>2, Zenon DEF Agree
<1> QED BY <1>1, <1>2

LEMMA MinOfOne == ASSUME NEW k \in Int PROVE Min({k}) = k
BY DEF Min

LEMMA Decodes ==
  ASSUME NEW w \in Word, NEW n \in Word, NEW k \in 1 .. 17, Claimed(k, w, n)
  PROVE  decode_opcode(w, n) = Special(Raw(k, w, n), w, n)
<1> DEFINE gs == Groups(w, n)
           claims == {j \in DOMAIN gs : gs[j].key \in DOMAIN gs[j].table}
<1>1. DOMAIN gs = 1 .. 17
  BY DEF Groups
<1>2. ASSUME NEW j \in claims
      PROVE  j = k
  <2>1. j \in 1 .. 17 /\ Claimed(j, w, n)
    BY <1>1 DEF Claimed
  <2> QED BY <2>1, OneGroup, Zenon
<1>5. k \in claims
  BY <1>1 DEF Claimed
<1>3. Min(claims) = k /\ claims # {}
  <2> HIDE DEF claims
  <2>1. claims = {k}
    BY <1>2, <1>5
  <2> QED BY <2>1, MinOfOne
<1> HIDE DEF claims
<1>4. decode_opcode(w, n) =
        LET g == gs[Min(claims)]
            d == Decoded(g.table[g.key], g.op1, g.op2)
        IN  IF claims = {} THEN Illegal ELSE Special(d, w, n)
  BY Zenon DEF decode_opcode, Special, claims
<1> QED BY <1>3, <1>4, Zenon DEF Raw, Name

LEMMA NotDecoded ==
  ASSUME NEW w \in Word, NEW n \in Word, \A k \in 1 .. 17 : ~Claimed(k, w, n)
  PROVE  decode_opcode(w, n) = Illegal
<1> DEFINE gs == Groups(w, n)
           claims == {j \in DOMAIN gs : gs[j].key \in DOMAIN gs[j].table}
<1>1. DOMAIN gs = 1 .. 17
  BY DEF Groups
<1>2. claims = {}
  BY <1>1 DEF Claimed
<1> QED BY <1>2, Zenon DEF decode_opcode

-----------------------------------------------------------------------------
(* Names                                                                   *)

LEMMA SameRegisterIs ==
  /\ DOMAIN SameRegister = Doubled
  /\ \A id \in Doubled : SameRegister[id] \in {"LSL", "ROL", "CLR", "TST"}
<1>1. DOMAIN SameRegister = Doubled
  BY DEF SameRegister, Table, Doubled
<1>2. ASSUME NEW id \in Doubled
      PROVE  SameRegister[id] \in {"LSL", "ROL", "CLR", "TST"}
  BY <1>1, TableIs DEF SameRegister
<1> QED BY <1>1, <1>2

LEMMA Skip2Is ==
  /\ DOMAIN Skip2 = Skipping
  /\ \A id \in Skipping : Skip2[id] \in {"CPSE2", "SBRC2", "SBRS2", "SBIC2", "SBIS2"}
<1>1. DOMAIN Skip2 = Skipping
  BY DEF Skip2, Table, Skipping
<1>2. ASSUME NEW id \in Skipping
      PROVE  Skip2[id] \in {"CPSE2", "SBRC2", "SBRS2", "SBIC2", "SBIS2"}
  BY <1>1, TableIs DEF Skip2
<1> QED BY <1>1, <1>2

(* Groups that are not tried have no table.                                 *)
LEMMA TablesAre ==
  ASSUME NEW w, NEW n
  PROVE  LET g == Groups(w, n) IN
         /\ g[1].table = avr_op_16
         /\ g[2].table = avr_op_6
         /\ g[3].table = avr_op_74
         /\ g[4].table = immediate
         /\ g[5].table = register_bit
         /\ g[6].table = branch
         /\ g[7].table = (IF ~is_tiny \/ Displacement(w) = 0 THEN displacement ELSE << >>)
         /\ g[8].table = (IF is_tiny THEN tiny_data ELSE << >>)
         /\ g[9].table = absolute
         /\ g[10].table = sreg_bit
         /\ g[11].table = word_immediate
         /\ g[12].table = io_bit
         /\ g[13].table = io
         /\ g[14].table = relative
         /\ g[15].table = movw
         /\ g[16].table = muls
         /\ g[17].table = fractional
<1> DEFINE g == Groups(w, n)
<1>1. g[1].table = avr_op_16
  BY DEF Groups, Group
<1>2. g[2].table = avr_op_6
  BY DEF Groups, Group
<1>3. g[3].table = avr_op_74
  BY DEF Groups, Group
<1>4. g[4].table = immediate
  BY DEF Groups, Group
<1>5. g[5].table = register_bit
  BY DEF Groups, Group
<1>6. g[6].table = branch
  BY DEF Groups, Group
<1>7. g[7].table = (IF ~is_tiny \/ Displacement(w) = 0 THEN displacement ELSE << >>)
  BY DEF Groups, Group
<1>8. g[8].table = (IF is_tiny THEN tiny_data ELSE << >>)
  BY DEF Groups, Group
<1>9. g[9].table = absolute
  BY DEF Groups, Group
<1>10. g[10].table = sreg_bit
  BY DEF Groups, Group
<1>11. g[11].table = word_immediate
  BY DEF Groups, Group
<1>12. g[12].table = io_bit
  BY DEF Groups, Group
<1>13. g[13].table = io
  BY DEF Groups, Group
<1>14. g[14].table = relative
  BY DEF Groups, Group
<1>15. g[15].table = movw
  BY DEF Groups, Group
<1>16. g[16].table = muls
  BY DEF Groups, Group
<1>17. g[17].table = fractional
  BY DEF Groups, Group
<1> QED BY <1>1, <1>2, <1>3, <1>4, <1>5, <1>6, <1>7, <1>8, <1>9, <1>10, <1>11, <1>12,
           <1>13, <1>14, <1>15, <1>16, <1>17

LEMMA NameIs ==
  ASSUME NEW w \in Word, NEW n \in Word, NEW k \in 1 .. 17, Claimed(k, w, n)
  PROVE  LET id == Name(k, w, n)  key == Groups(w, n)[k].key IN
         /\ id \notin Made
         /\ id = "CPSE" => k = 2
         /\ id \in TwoWords <=> (k = 3 /\ key \in {\h9000, \h9200}) \/ k = 9
<1> DEFINE id == Name(k, w, n)  key == Groups(w, n)[k].key
<1>0. key \in DOMAIN Groups(w, n)[k].table /\ id = Groups(w, n)[k].table[key]
  BY DEF Claimed, Name
<1>20. SUFFICES /\ id \notin Made
                /\ id = "CPSE" => k = 2
                /\ id \in TwoWords <=> (k = 3 /\ key \in {\h9000, \h9200}) \/ k = 9
  OBVIOUS
<1> HIDE DEF id, key
<1>1. CASE k = 1
  <2>1. key \in DOMAIN avr_op_16 /\ id = avr_op_16[key]
    BY <1>0, <1>1, TablesAre
  <2> QED BY <1>1, <2>1, Op16Names DEF Ordinary, Skipping, TwoWords, Made
<1>2. CASE k = 2
  <2>1. key \in DOMAIN avr_op_6 /\ id = avr_op_6[key]
    BY <1>0, <1>2, TablesAre
  <2> QED BY <1>2, <2>1, Op6Names DEF Ordinary, Skipping, TwoWords, Made
<1>3. CASE k = 3
  <2>1. key \in DOMAIN avr_op_74 /\ id = avr_op_74[key]
    BY <1>0, <1>3, TablesAre
  <2> QED BY <1>3, <2>1, Op74Names DEF Ordinary, Skipping, TwoWords, Made
<1>4. CASE k = 4
  <2>1. key \in DOMAIN immediate /\ id = immediate[key]
    BY <1>0, <1>4, TablesAre
  <2> QED BY <1>4, <2>1, ImmediateNames DEF Ordinary, Skipping, TwoWords, Made
<1>5. CASE k = 5
  <2>1. key \in DOMAIN register_bit /\ id = register_bit[key]
    BY <1>0, <1>5, TablesAre
  <2> QED BY <1>5, <2>1, RegisterBitNames DEF Ordinary, Skipping, TwoWords, Made
<1>6. CASE k = 6
  <2>1. key \in DOMAIN branch /\ id = branch[key]
    BY <1>0, <1>6, TablesAre
  <2> QED BY <1>6, <2>1, BranchNames DEF Ordinary, Skipping, TwoWords, Made
<1>7. CASE k = 7
  <2>1. key \in DOMAIN displacement /\ id = displacement[key]
    BY <1>0, <1>7, TablesAre
  <2> QED BY <1>7, <2>1, DisplacementOfNames DEF Ordinary, Skipping, TwoWords, Made
<1>8. CASE k = 8
  <2>1. key \in DOMAIN tiny_data /\ id = tiny_data[key]
    BY <1>0, <1>8, TablesAre
  <2> QED BY <1>8, <2>1, TinyDataNames DEF Ordinary, Skipping, TwoWords, Made
<1>9. CASE k = 9
  <2>1. key \in DOMAIN absolute /\ id = absolute[key]
    BY <1>0, <1>9, TablesAre
  <2> QED BY <1>9, <2>1, AbsoluteNames DEF Ordinary, Skipping, TwoWords, Made
<1>10. CASE k = 10
  <2>1. key \in DOMAIN sreg_bit /\ id = sreg_bit[key]
    BY <1>0, <1>10, TablesAre
  <2> QED BY <1>10, <2>1, SregBitOfNames DEF Ordinary, Skipping, TwoWords, Made
<1>11. CASE k = 11
  <2>1. key \in DOMAIN word_immediate /\ id = word_immediate[key]
    BY <1>0, <1>11, TablesAre
  <2> QED BY <1>11, <2>1, WordImmediateNames DEF Ordinary, Skipping, TwoWords, Made
<1>12. CASE k = 12
  <2>1. key \in DOMAIN io_bit /\ id = io_bit[key]
    BY <1>0, <1>12, TablesAre
  <2> QED BY <1>12, <2>1, IoBitNames DEF Ordinary, Skipping, TwoWords, Made
<1>13. CASE k = 13
  <2>1. key \in DOMAIN io /\ id = io[key]
    BY <1>0, <1>13, TablesAre
  <2> QED BY <1>13, <2>1, IoNames DEF Ordinary, Skipping, TwoWords, Made
<1>14. CASE k = 14
  <2>1. key \in DOMAIN relative /\ id = relative[key]
    BY <1>0, <1>14, TablesAre
  <2> QED BY <1>14, <2>1, RelativeNames DEF Ordinary, Skipping, TwoWords, Made
<1>15. CASE k = 15
  <2>1. key \in DOMAIN movw /\ id = movw[key]
    BY <1>0, <1>15, TablesAre
  <2> QED BY <1>15, <2>1, MovwNames DEF Ordinary, Skipping, TwoWords, Made
<1>16. CASE k = 16
  <2>1. key \in DOMAIN muls /\ id = muls[key]
    BY <1>0, <1>16, TablesAre
  <2> QED BY <1>16, <2>1, MulsNames DEF Ordinary, Skipping, TwoWords, Made
<1>17. CASE k = 17
  <2>1. key \in DOMAIN fractional /\ id = fractional[key]
    BY <1>0, <1>17, TablesAre
  <2> QED BY <1>17, <2>1, FractionalNames DEF Ordinary, Skipping, TwoWords, Made
<1> QED BY <1>1, <1>2, <1>3, <1>4, <1>5, <1>6, <1>7, <1>8, <1>9, <1>10, <1>11, <1>12,
           <1>13, <1>14, <1>15, <1>16, <1>17

-----------------------------------------------------------------------------
(* Special cases                                                           *)

(* A skip instruction in front of n skips two words.                        *)
SkipsTwo(n) == ~is_tiny /\ (MaskLDSSTS(n) \/ MaskJMPCALL(n))

(* The special cases neither invent nor lose an instruction.                *)
Kept(d, r, n) ==
  /\ r.id # "ILLEGAL"
  /\ Executed(r.id) => SameName(d.id, r) /\ r.op1 = d.op1 /\ r.op2 = d.op2
  /\ r.id \in NotOnTiny => d.id \in NotOnTiny
  /\ r.id \in TwoWords <=> d.id \in TwoWords
  /\ r.id \in SkipIds => (r.id \in DOMAIN Skip2 <=> ~SkipsTwo(n))
  /\ r.id = "SYSCALL" => d.id = "CPSE" /\ n = invalid_opcode /\ r.op1 = d.op1

LEMMA SkipIdsAre ==
  SkipIds \subseteq Skipping \cup {"CPSE2", "SBRC2", "SBRS2", "SBIC2", "SBIS2"}
BY Skip2Is DEF SkipIds

LEMMA SpecialKeeps ==
  ASSUME NEW id, id \notin Made, NEW a, NEW b, NEW w, NEW n
  PROVE  Kept(Decoded(id, a, b), Special(Decoded(id, a, b), w, n), n)
<1> DEFINE d == Decoded(id, a, b)
           r == Special(d, w, n)
<1>1. d.id = id /\ d.op1 = a /\ d.op2 = b
  BY DEF Decoded
<1>2. CASE id \in DOMAIN SameRegister /\ a = b
  <2>1. r = [d EXCEPT !.id = SameRegister[id]]
    BY <1>1, <1>2, Zenon DEF Special
  <2>2. r.id = SameRegister[id] /\ r.op1 = a /\ r.op2 = b
    BY <2>1 DEF Decoded
  <2>3. id \in Doubled /\ r.id \in {"LSL", "ROL", "CLR", "TST"}
    BY <1>2, <2>2, SameRegisterIs
  <2>4. SameName(id, r)
    BY <1>2, <2>2 DEF SameName
  <2> QED BY <1>1, <2>2, <2>3, <2>4, SkipIdsAre
          DEF Kept, Doubled, NotOnTiny, TwoWords, Skipping
<1>3. CASE ~(id \in DOMAIN SameRegister /\ a = b) /\ Overlaps(id, a)
  <2>1. r = Decoded("UNDEF", id, w)
    BY <1>1, <1>3, Zenon DEF Special
  <2>2. r.id = "UNDEF"
    BY <2>1 DEF Decoded
  <2>3. id \notin TwoWords
    BY <1>3 DEF Overlaps, TwoWords, Z_updates, Y_updates, X_updates
  <2> QED BY <1>1, <2>2, <2>3, SkipIdsAre
          DEF Kept, Executed, NotOnTiny, TwoWords, Skipping
<1>4. CASE /\ ~(id \in DOMAIN SameRegister /\ a = b) /\ ~Overlaps(id, a)
           /\ id \notin DOMAIN Skip2
  <2>1. r = d
    BY <1>1, <1>4, Zenon DEF Special
  <2>2. id \notin SkipIds
    BY <1>4, SkipIdsAre, Skip2Is DEF Made
  <2> QED BY <1>1, <2>1, <2>2 DEF Kept, SameName, Made
<1>5. CASE /\ ~(id \in DOMAIN SameRegister /\ a = b) /\ ~Overlaps(id, a)
           /\ id \in DOMAIN Skip2
  <2>1. r = Skips(d, n)
    BY <1>1, <1>5, Zenon DEF Special
  <2>2. id \in Skipping /\ Skip2[id] \in {"CPSE2", "SBRC2", "SBRS2", "SBIC2", "SBIS2"}
    BY <1>5, Skip2Is
  <2>3. CASE id = "CPSE" /\ a = b /\ n = invalid_opcode
    <3>1. r = [d EXCEPT !.id = "SYSCALL"]
      BY <1>1, <2>1, <2>3, Zenon DEF Skips
    <3>2. r.id = "SYSCALL" /\ r.op1 = a /\ r.op2 = b
      BY <3>1 DEF Decoded
    <3>3. SameName(id, r)
      BY <2>3, <3>2 DEF SameName
    <3> QED BY <1>1, <2>2, <2>3, <3>2, <3>3, SkipIdsAre
            DEF Kept, NotOnTiny, TwoWords, Skipping
  <2>4. CASE ~(id = "CPSE" /\ a = b /\ n = invalid_opcode) /\ SkipsTwo(n)
    <3>1. r = [d EXCEPT !.id = Skip2[id]]
      BY <1>1, <2>1, <2>4, Zenon DEF Skips, SkipsTwo
    <3>2. r.id = Skip2[id] /\ r.op1 = a /\ r.op2 = b
      BY <3>1 DEF Decoded
    <3>3. SameName(id, r)
      BY <1>5, <3>2 DEF SameName
    <3> QED BY <1>1, <2>2, <2>4, <3>2, <3>3, Skip2Is
            DEF Kept, NotOnTiny, TwoWords, Skipping
  <2>5. CASE ~(id = "CPSE" /\ a = b /\ n = invalid_opcode) /\ ~SkipsTwo(n)
    <3>1. r = d
      BY <1>1, <2>1, <2>5, Zenon DEF Skips, SkipsTwo
    <3> QED BY <1>1, <1>5, <2>2, <2>5, <3>1, Skip2Is
            DEF Kept, SameName, NotOnTiny, TwoWords, Skipping
  <2> QED BY <2>3, <2>4, <2>5
<1> QED BY <1>2, <1>3, <1>4, <1>5

-----------------------------------------------------------------------------
(* Words of two-word instructions                                          *)

LEMMA ClaimedNames ==
  ASSUME NEW w \in Word, NEW n \in Word, NEW k \in 1 .. 17, Claimed(k, w, n)
  PROVE  LET d == Raw(k, w, n)  r == decode_opcode(w, n) IN
         /\ Kept(d, r, n)
         /\ d.id = Name(k, w, n) /\ d.id \notin Made
         /\ d.op1 = Groups(w, n)[k].op1 /\ d.op2 = Groups(w, n)[k].op2
<1>1. Name(k, w, n) \notin Made
  BY NameIs
<1>2. decode_opcode(w, n) = Special(Raw(k, w, n), w, n)
  BY Decodes
<1>3. Kept(Raw(k, w, n), Special(Raw(k, w, n), w, n), n)
  BY <1>1, SpecialKeeps, Zenon DEF Raw
<1> QED BY <1>1, <1>2, <1>3 DEF Raw, Decoded

LEMMA IllegalIs ==
  Illegal.id = "ILLEGAL" /\ "ILLEGAL" \notin TwoWords /\ "ILLEGAL" \notin SkipIds
BY SkipIdsAre DEF Illegal, Decoded, TwoWords, Skipping

LEMMA TwoWordKeys ==
  ASSUME NEW v \in Word
  PROVE  LET x == Without(v, 4, 5) IN
         /\ MaskLDSSTS(v) <=> x \in {\h9000, \h9200}
         /\ MaskJMPCALL(v) <=> Without(x, 0, 1) \in {\h940C, \h940E}
<1>1. PICK x \in Nat : x = Without(v, 4, 5)
  BY WordIs, Powers DEF Without, Bits
<1>2. Without(x, 9, 1) = \h9000 <=> x \in {\h9000, \h9200}
  BY Powers DEF Without, Bits
<1>3. Without(x, 0, 2) = \h940C <=> Without(x, 0, 1) \in {\h940C, \h940E}
  BY Powers DEF Without, Bits
<1> QED BY <1>1, <1>2, <1>3 DEF MaskLDSSTS, MaskJMPCALL

LEMMA TwoWordsAre ==
  ASSUME NEW v \in Word, NEW m \in Word
  PROVE  decode_opcode(v, m).id \in TwoWords <=> MaskLDSSTS(v) \/ MaskJMPCALL(v)
<1> DEFINE x == Without(v, 4, 5)
<1>1. Groups(v, m)[3].key = x /\ Groups(v, m)[3].table = avr_op_74
  BY TablesAre DEF Groups, Group
<1>2. Groups(v, m)[9].key = Without(x, 0, 1) /\ Groups(v, m)[9].table = absolute
  BY TablesAre DEF Groups, Group
<1> HIDE DEF x
<1>3. /\ MaskLDSSTS(v) <=> x \in {\h9000, \h9200}
      /\ MaskJMPCALL(v) <=> Without(x, 0, 1) \in {\h940C, \h940E}
  BY TwoWordKeys DEF x
<1>4. ASSUME decode_opcode(v, m).id \in TwoWords
      PROVE  MaskLDSSTS(v) \/ MaskJMPCALL(v)
  <2>1. PICK k \in 1 .. 17 : Claimed(k, v, m)
    BY <1>4, NotDecoded, IllegalIs
  <2>2. Name(k, v, m) \in TwoWords
    BY <1>4, <2>1, ClaimedNames DEF Kept
  <2>3. (k = 3 /\ x \in {\h9000, \h9200}) \/ k = 9
    BY <1>1, <2>1, <2>2, NameIs
  <2>4. k = 9 => Without(x, 0, 1) \in {\h940C, \h940E}
    BY <1>2, <2>1, AbsoluteNames DEF Claimed
  <2> QED BY <1>3, <2>3, <2>4
<1>5. \h9000 \in DOMAIN avr_op_74 /\ \h9200 \in DOMAIN avr_op_74
  BY DEF avr_op_74, Table
<1>6. \h940C \in DOMAIN absolute /\ \h940E \in DOMAIN absolute
  BY DEF absolute, Table
<1>7. ASSUME MaskLDSSTS(v)
      PROVE  decode_opcode(v, m).id \in TwoWords
  <2>1. Claimed(3, v, m)
    BY <1>1, <1>3, <1>5, <1>7 DEF Claimed
  <2>2. Name(3, v, m) \in TwoWords
    BY <1>1, <1>3, <1>7, <2>1, NameIs
  <2> QED BY <2>1, <2>2, ClaimedNames DEF Kept
<1>8. ASSUME MaskJMPCALL(v)
      PROVE  decode_opcode(v, m).id \in TwoWords
  <2>1. Claimed(9, v, m)
    BY <1>2, <1>3, <1>6, <1>8 DEF Claimed
  <2>2. Name(9, v, m) \in TwoWords
    BY <2>1, NameIs
  <2> QED BY <2>1, <2>2, ClaimedNames DEF Kept
<1> QED BY <1>4, <1>7, <1>8

LEMMA InvalidIsIllegal ==
  ASSUME NEW m \in Word
  PROVE  invalid_opcode \in Word /\ decode_opcode(invalid_opcode, m) = Illegal
<1>1. invalid_opcode \in Word
  BY Powers DEF invalid_opcode, Word
<1>2. ASSUME NEW k \in 1 .. 17, Claimed(k, invalid_opcode, m)
      PROVE  FALSE
  <2>1. ClassOf(invalid_opcode) = k
    BY <1>1, <1>2, AllAgree DEF Agree
  <2>2. ClassOf(invalid_opcode) = 5
    BY DEF ClassOf, invalid_opcode
  <2>3. Claimed(5, invalid_opcode, m)
    BY <1>2, <2>1, <2>2
  <2>4. Without(Without(invalid_opcode, 4, 5), 0, 3) \in DOMAIN register_bit
    BY <2>3 DEF Claimed, Groups, Group
  <2>5. Without(Without(invalid_opcode, 4, 5), 0, 3) = \hFE08
    BY Powers DEF Without, Bits, invalid_opcode
  <2> QED BY <2>4, <2>5, RegisterBitNames
<1> QED BY <1>1, <1>2, NotDecoded

-----------------------------------------------------------------------------
(* The loop over flash                                                     *)

(* A word and the next one, after what avrtest-tiny lacks.                  *)
Result(w, n) ==
  LET d == decode_opcode(w, n)
  IN  IF is_tiny THEN tiny_opcode_maybe_illegal(d) ELSE d

LEMMA SameVariant ==
  ASSUME isa' = isa, NEW w, NEW n
  PROVE  Result(w, n)' = Result(w, n)
<1>1. is_tiny' = is_tiny /\ io_base' = io_base
  BY DEF is_tiny, io_base
<1>2. Groups(w, n)' = Groups(w, n)
  BY <1>1, ZenonT(60) DEF Groups
<1>3. ASSUME NEW d PROVE Skips(d, n)' = Skips(d, n)
  BY <1>1, Zenon DEF Skips
<1>4. decode_opcode(w, n)' = decode_opcode(w, n)
  BY <1>2, <1>3, Zenon DEF decode_opcode
<1> QED BY <1>1, <1>4, Zenon DEF Result

DecInv ==
  /\ start \in Nat /\ end \in Nat
  /\ i \in Nat /\ (i = start \/ (start <= i /\ i <= end + 1))
  /\ \A k \in start .. end + 1 : k \in DOMAIN flash /\ flash[k] \in Word
  /\ decoded_flash = [k \in DOMAIN flash |-> decoded_flash[k]]
  /\ \A k \in Done : At(k) = Result(flash[k], flash[k + 1])

LEMMA WordsOf ==
  ASSUME NEW b \in Seq(Word), NEW w \in Word, NEW c \in Seq(Word),
         NEW k \in 0 .. Len(b) + Len(c)
  PROVE  (b \o <<w>> \o c)[k + 1] \in Word
OBVIOUS

LEMMA DecInvInit == Init => DecInv
<1> SUFFICES ASSUME Init PROVE DecInv
  OBVIOUS
<1>1. PICK p \in Programs :
        /\ \E b \in p.before, w \in p.words, c \in p.behind :
             flash = [k \in 0 .. Len(b) + Len(c) |-> (b \o <<w>> \o c)[k + 1]]
        /\ start = p.start /\ end = p.end /\ isa = p.isa
  BY DEF Init
<1>2. PICK b \in p.before, w \in p.words, c \in p.behind :
        flash = [k \in 0 .. Len(b) + Len(c) |-> (b \o <<w>> \o c)[k + 1]]
  BY <1>1
<1>3. b \in Seq(Word) /\ w \in Word /\ c \in Seq(Word)
  BY ProgramsAssumption
<1>4. start \in Nat /\ end \in Nat /\ end < Len(b) + Len(c)
  BY <1>1, ProgramsAssumption
<1>5. Len(b) \in Nat /\ Len(c) \in Nat
  BY <1>3
<1>6. ASSUME NEW k \in start .. end + 1
      PROVE  k \in DOMAIN flash /\ flash[k] \in Word
  <2>1. k \in 0 .. Len(b) + Len(c)
    BY <1>4, <1>5
  <2>2. (b \o <<w>> \o c)[k + 1] \in Word
    BY <1>3, <2>1, WordsOf
  <2> QED BY <1>2, <2>1, <2>2
<1>7. i = start /\ Done = {}
  BY <1>4 DEF Init, Done
<1>8. decoded_flash = [k \in DOMAIN flash |-> decoded_flash[k]]
  BY DEF Init
<1> QED BY <1>4, <1>6, <1>7, <1>8 DEF DecInv

LEMMA DecInvNext == DecInv /\ [Next]_vars => DecInv'
<1> SUFFICES ASSUME DecInv, [Next]_vars PROVE DecInv'
  OBVIOUS
<1>1. CASE DecodeWord
  <2>1. i \in start .. end /\ i \in DOMAIN flash /\ i' = i + 1
    BY <1>1 DEF DecodeWord, DecInv
  <2>2. isa' = isa /\ flash' = flash /\ start' = start /\ end' = end
    BY <1>1 DEF DecodeWord
  <2>3. decoded_flash' = [decoded_flash EXCEPT ![i] = Result(flash[i], flash[i + 1])]
    BY <1>1, Zenon DEF DecodeWord, Result
  <2>4. ASSUME NEW k \in Done'
        PROVE  At(k)' = Result(flash[k], flash[k + 1])'
    <3>1. k \in Done \/ k = i
      BY <2>1, <2>2 DEF Done, DecInv
    <3>2. Result(flash[k], flash[k + 1])' = Result(flash[k], flash[k + 1])
      <4>1. ASSUME NEW w, NEW n PROVE Result(w, n)' = Result(w, n)
        BY <2>2, SameVariant
      <4> QED BY <2>2, <4>1
    <3>3. At(k)' = Result(flash[k], flash[k + 1])
      BY <2>1, <2>3, <3>1 DEF At, DecInv, Done
    <3> QED BY <3>2, <3>3
  <2>5. decoded_flash' = [k \in DOMAIN flash' |-> decoded_flash'[k]]
    BY <2>2, <2>3 DEF DecInv
  <2> QED BY <2>1, <2>2, <2>4, <2>5 DEF DecInv
<1>2. CASE SetMaxPC \/ UNCHANGED vars
  <2>1. isa' = isa /\ flash' = flash /\ start' = start /\ end' = end
    BY <1>2 DEF SetMaxPC, vars
  <2>2. i' = i /\ decoded_flash' = decoded_flash
    BY <1>2 DEF SetMaxPC, vars
  <2>3. ASSUME NEW k \in Done'
        PROVE  At(k)' = Result(flash[k], flash[k + 1])'
    <3>1. ASSUME NEW w, NEW n PROVE Result(w, n)' = Result(w, n)
      BY <2>1, SameVariant
    <3> QED BY <2>1, <2>2, <3>1 DEF At, Done, DecInv
  <2> QED BY <2>1, <2>2, <2>3 DEF DecInv
<1> QED BY <1>1, <1>2 DEF Next

LEMMA DecInvHolds == Spec => []DecInv
BY DecInvInit, DecInvNext, PTL DEF Spec

-----------------------------------------------------------------------------
(* What skips an instruction and what it skips                             *)

LEMMA ResultIs ==
  ASSUME NEW w, NEW n
  PROVE  \/ Result(w, n) = decode_opcode(w, n)
            /\ (is_tiny => decode_opcode(w, n).id \notin NotOnTiny)
         \/ Result(w, n) = Illegal /\ is_tiny /\ decode_opcode(w, n).id \in NotOnTiny
BY Zenon DEF Result, tiny_opcode_maybe_illegal

LEMMA ClaimedUnlessIllegal ==
  ASSUME NEW w \in Word, NEW n \in Word, Result(w, n).id # "ILLEGAL"
  PROVE  /\ Result(w, n) = decode_opcode(w, n)
         /\ \E k \in 1 .. 17 : Claimed(k, w, n)
<1>1. Illegal.id = "ILLEGAL"
  BY IllegalIs
<1>2. Result(w, n) = decode_opcode(w, n)
  BY <1>1, ResultIs
<1>3. decode_opcode(w, n) # Illegal
  BY <1>1, <1>2
<1> QED BY <1>2, <1>3, NotDecoded

LEMMA TwoWordsOnTiny == TwoWords \subseteq NotOnTiny
BY DEF TwoWords, NotOnTiny

LEMMA TwoWordsOfResult ==
  ASSUME NEW n \in Word, NEW m \in Word
  PROVE  Result(n, m).id \in TwoWords <=> SkipsTwo(n)
<1>1. decode_opcode(n, m).id \in TwoWords <=> MaskLDSSTS(n) \/ MaskJMPCALL(n)
  BY TwoWordsAre
<1>2. Illegal.id \notin TwoWords
  BY IllegalIs
<1> QED BY <1>1, <1>2, ResultIs, TwoWordsOnTiny DEF SkipsTwo

LEMMA SkippedWhole ==
  ASSUME NEW w \in Word, NEW n \in Word, NEW m \in Word
  PROVE  LET r == Result(w, n)  s == Result(n, m) IN
         /\ r.id \in SkipIds => (r.id \in DOMAIN Skip2 <=> s.id \notin TwoWords)
         /\ r.id = "SYSCALL" => s = Illegal /\ r.op1 \in 0 .. 31
<1> DEFINE r == Result(w, n)  s == Result(n, m)
<1>1. s.id \in TwoWords <=> SkipsTwo(n)
  BY TwoWordsOfResult
<1>2. CASE r.id = "ILLEGAL"
  BY <1>2, IllegalIs
<1>3. CASE r.id # "ILLEGAL"
  <2>1. PICK k \in 1 .. 17 : Claimed(k, w, n)
    BY <1>3, ClaimedUnlessIllegal
  <2>2. r = decode_opcode(w, n)
    BY <1>3, ClaimedUnlessIllegal
  <2>3. Kept(Raw(k, w, n), r, n)
    BY <2>1, <2>2, ClaimedNames
  <2>4. r.id \in SkipIds => (r.id \in DOMAIN Skip2 <=> ~SkipsTwo(n))
    BY <2>3, Zenon DEF Kept
  <2>5. ASSUME r.id = "SYSCALL"
        PROVE  s = Illegal /\ r.op1 \in 0 .. 31
    <3>1. Raw(k, w, n).id = "CPSE" /\ n = invalid_opcode /\ r.op1 = Raw(k, w, n).op1
      BY <2>3, <2>5, Zenon DEF Kept
    <3>2. k = 2
      BY <2>1, <3>1, ClaimedNames, NameIs
    <3>3. r.op1 = Rd5(w)
      BY <3>1, <3>2 DEF Raw, Decoded, Groups, Group
    <3>4. Rd5(w) \in 0 .. 31
      BY WordIs, Powers DEF Rd5, Bits
    <3>5. decode_opcode(n, m) = Illegal
      BY <3>1, InvalidIsIllegal
    <3>6. s = Illegal
      BY <3>5, ResultIs
    <3> QED BY <3>3, <3>4, <3>6
  <2> QED BY <1>1, <2>4, <2>5
<1> QED BY <1>2, <1>3

-----------------------------------------------------------------------------
(* What is decoded and what is listed                                      *)

LEMMA EntryTables ==
  ASSUME NEW w \in Word, NEW n \in Word, NEW k \in 1 .. 17
  PROVE  \/ Groups(w, n)[k].table = Entry[k].table
         \/ k = 7 /\ is_tiny /\ Displacement(w) # 0 /\ ~Claimed(k, w, n)
         \/ k = 8 /\ ~is_tiny /\ ~Claimed(k, w, n)
<1>1. k \notin {7, 8} => Groups(w, n)[k].table = Entry[k].table
  BY TablesAre DEF Entry, Lists
<1>2. k = 7 => Entry[k].table = displacement
  BY DEF Entry, Lists
<1>3. k = 8 => Entry[k].table = tiny_data
  BY DEF Entry, Lists
<1>4. Groups(w, n)[k].table = << >> => ~Claimed(k, w, n)
  BY DEF Claimed
<1> QED BY <1>1, <1>2, <1>3, <1>4, TablesAre

LEMMA Key10 == \h948B \in DOMAIN sreg_bit => sreg_bit[\h948B] = "DES"
BY TableIs DEF sreg_bit

LEMMA DesIsNotExecuted ==
  ASSUME NEW r, SameName("DES", r)
  PROVE  ~Executed(r.id)
BY SameRegisterIs, Skip2Is DEF SameName, Executed, Doubled, Skipping

(* The result r of the word w in front of n is what l lists.                *)
AsListed(r, w, n, l) ==
  /\ SameName(NameIn(w, l), r)
  /\ r.op1 = Meaning(l.kind1, Number(w, l.f1), w, n)
  /\ r.op2 = Meaning(l.kind2, Number(w, l.f2), w, n)

LEMMA ExecutedIsListed ==
  ASSUME NEW w \in Word, NEW n \in Word, Executed(Result(w, n).id)
  PROVE  \E l \in Listed(w) : AsListed(Result(w, n), w, n, l)
<1> DEFINE r == Result(w, n)
<1>1. r.id # "ILLEGAL"
  BY DEF Executed
<1>2. PICK k \in 1 .. 17 : Claimed(k, w, n)
  BY <1>1, ClaimedUnlessIllegal
<1>3. r = decode_opcode(w, n)
  BY <1>1, ClaimedUnlessIllegal
<1> DEFINE l == Entry[k]  g == Groups(w, n)[k]
<1>4. g.table = l.table /\ g.key \in DOMAIN g.table
  BY <1>2, EntryTables DEF Claimed
<1>5. OperandsAgree(k, w, n)
  BY <1>2, AllAgree DEF Agree
<1>6. /\ g.key = Key(w, l)
      /\ g.op2 = Meaning(l.kind2, Number(w, l.f2), w, n)
      /\ g.op1 = Meaning(l.kind1, Number(w, l.f1), w, n) \/ (k = 10 /\ g.key = \h948B)
  BY <1>5 DEF OperandsAgree
<1>7. l \in Listed(w)
  BY <1>4, <1>6, EntriesAreListed DEF Listed
<1>8. NameIn(w, l) = Name(k, w, n)
  BY <1>4, <1>6 DEF NameIn, Name
<1>9. SameName(Name(k, w, n), r) /\ r.op1 = g.op1 /\ r.op2 = g.op2
  BY <1>2, <1>3, ClaimedNames DEF Kept
<1>10. ~(k = 10 /\ g.key = \h948B)
  <2>1. k = 10 /\ g.key = \h948B => Name(k, w, n) = "DES"
    BY <1>4, Key10, TablesAre DEF Name
  <2> QED BY <1>9, <2>1, DesIsNotExecuted
<1>11. AsListed(r, w, n, l)
  BY <1>6, <1>8, <1>9, <1>10 DEF AsListed
<1> QED BY <1>7, <1>11

LEMMA IllegalIsLacking ==
  ASSUME NEW w \in Word, NEW n \in Word, Result(w, n).id = "ILLEGAL",
         NEW l \in Listed(w)
  PROVE  Lacking(w, l)
<1>1. PICK k \in 1 .. 17 : l = Entry[k] /\ Key(w, l) \in DOMAIN l.table
  BY EntriesAreListed DEF Listed
<1>2. OperandsAgree(k, w, n)
  BY AllAgree DEF Agree
<1>3. CASE k = 8 /\ ~is_tiny
  BY <1>1, <1>3 DEF Lacking, Entry, Lists
<1>4. CASE k = 7 /\ is_tiny /\ Displacement(w) # 0
  <2>1. l.f2 = q6 /\ l.kind2 = "number"
    BY <1>1, <1>4 DEF Entry, Lists
  <2>2. Groups(w, n)[7].op2 = Displacement(w)
    BY DEF Groups, Group
  <2>3. Displacement(w) = Number(w, q6)
    BY <1>1, <1>2, <1>4, <2>1, <2>2 DEF OperandsAgree, Meaning
  <2> QED BY <1>4, <2>1, <2>3 DEF Lacking
<1>5. CASE ~(k = 8 /\ ~is_tiny) /\ ~(k = 7 /\ is_tiny /\ Displacement(w) # 0)
  <2>1. Groups(w, n)[k].table = l.table /\ Groups(w, n)[k].key = Key(w, l)
    BY <1>1, <1>2, <1>5, EntryTables DEF OperandsAgree
  <2>2. Claimed(k, w, n) /\ Name(k, w, n) = NameIn(w, l)
    BY <1>1, <2>1 DEF Claimed, Name, NameIn
  <2>3. Kept(Raw(k, w, n), decode_opcode(w, n), n) /\ Raw(k, w, n).id = Name(k, w, n)
    BY <2>2, ClaimedNames
  <2>4. is_tiny /\ decode_opcode(w, n).id \in NotOnTiny
    BY <2>3, ResultIs DEF Kept
  <2>5. NameIn(w, l) \in NotOnTiny
    BY <2>2, <2>3, <2>4 DEF Kept
  <2> QED BY <2>4, <2>5 DEF Lacking
<1> QED BY <1>3, <1>4, <1>5

-----------------------------------------------------------------------------
(* Theorems                                                                *)

LEMMA ResultsAre ==
  ASSUME DecInv, NEW k \in Done
  PROVE  /\ flash[k] \in Word /\ flash[k + 1] \in Word
         /\ At(k) = Result(flash[k], flash[k + 1])
<1>1. k \in start .. end /\ k \in Int
  BY DEF DecInv, Done
<1> QED BY <1>1 DEF DecInv

(* For programs of any length: whatever word a skip instruction is followed *)
(* by, the skip that do_skip of load-flash.c chose for it leads behind the  *)
(* instruction that decode_flash found at that word; the word that tells a   *)
(* syscall from a CPSE is not an instruction.                               *)
THEOREM SkipsAreWhole == Spec => []SkipsWholeInstruction
<1>1. ASSUME DecInv
      PROVE  SkipsWholeInstruction
  <2>1. SUFFICES ASSUME NEW k \in Done, k + 1 \in Done
                 PROVE  /\ At(k).id \in SkipIds =>
                             (At(k).id \in DOMAIN Skip2 <=> At(k + 1).id \notin TwoWords)
                        /\ At(k).id = "SYSCALL" =>
                             At(k + 1) = Illegal /\ At(k).op1 \in 0 .. 31
    BY DEF SkipsWholeInstruction
  <2>2. PICK w \in Word, n \in Word :
          w = flash[k] /\ n = flash[k + 1] /\ At(k) = Result(w, n)
    BY <1>1, <2>1, ResultsAre
  <2>3. PICK m \in Word : At(k + 1) = Result(n, m)
    BY <1>1, <2>1, <2>2, ResultsAre
  <2> QED BY <2>2, <2>3, SkippedWhole
<1> QED BY <1>1, DecInvHolds, PTL

(* For programs of any length and every pair of words: an instruction that  *)
(* is executed has the name and the operands that the comments next to the  *)
(* opcodes of load-flash.c give its word, whatever group claims the word    *)
(* first, and a word that is illegal is listed nowhere or for other variants*)
(* of AVRtest.                                                              *)
THEOREM DecodedAsListed == Spec => []DecodesAsListed
<1>1. ASSUME DecInv
      PROVE  DecodesAsListed
  <2>1. SUFFICES ASSUME NEW k \in Done
                 PROVE  LET w == flash[k] IN
                        /\ Executed(At(k).id) => \E l \in Listed(w) : DecodedAs(k, w, l)
                        /\ At(k).id = "ILLEGAL" => \A l \in Listed(w) : Lacking(w, l)
    BY DEF DecodesAsListed
  <2>2. PICK w \in Word, n \in Word :
          w = flash[k] /\ n = flash[k + 1] /\ At(k) = Result(w, n)
    BY <1>1, <2>1, ResultsAre
  <2>3. ASSUME Executed(At(k).id)
        PROVE  \E l \in Listed(w) : DecodedAs(k, w, l)
    <3>1. PICK l \in Listed(w) : AsListed(At(k), w, n, l)
      BY <2>2, <2>3, ExecutedIsListed
    <3>2. DecodedAs(k, w, l)
      BY <2>2, <3>1 DEF AsListed, DecodedAs
    <3> QED BY <3>2
  <2>4. At(k).id = "ILLEGAL" => \A l \in Listed(w) : Lacking(w, l)
    BY <2>2, IllegalIsLacking
  <2> QED BY <2>2, <2>3, <2>4
<1> QED BY <1>1, DecInvHolds, PTL

=============================================================================
