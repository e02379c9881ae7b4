------------------------------ MODULE AluProofs ------------------------------
(***************************************************************************)
(* Alu is right for all operands: types, the flags after arithmetic on      *)
(* numbers of any number of bytes, the tables of gen-flag-tables.c, indexed *)
(* the way avrtest.c does, against tests/sreg, and the flags of products.   *)
(***************************************************************************)
EXTENDS AluFlags, TLAPS

-----------------------------------------------------------------------------
(* The index into the tables for addition and subtraction                   *)

(* The multiplication moves the two bits of both operands to their places.  *)
LEMMA BitsMoved ==
  ASSUME NEW a7 \in {0, 1}, NEW a3 \in {0, 1}, NEW b7 \in {0, 1}, NEW b3 \in {0, 1}
  PROVE  ((((2 * (a7 * 128 + a3 * 8) + (b7 * 128 + b3 * 8)) * 260) % 65536) \div 512)
            % 16 = 8 * a3 + 4 * b3 + 2 * a7 + b7
  OBVIOUS

LEMMA TableIndex ==
  ASSUME NEW v1 \in Byte, NEW v2 \in Byte, NEW res \in Int
  PROVE  LET i == FutAddSubIndex(v1, v2, res)
         IN  /\ i % 512 = res % 512
             /\ Bit(i, 1024) <=> v1 >= 128
             /\ Bit(i, 512) <=> v2 >= 128
             /\ i \in Nat
PROOF
  <1> DEFINE a7 == (v1 \div 128) % 2
             a3 == (v1 \div 8) % 2
             b7 == (v2 \div 128) % 2
             b3 == (v2 \div 8) % 2
             n == res % 512
             h == 8 * a3 + 4 * b3 + 2 * a7 + b7
  <1>1. /\ a7 \in {0, 1} /\ a3 \in {0, 1} /\ b7 \in {0, 1} /\ b3 \in {0, 1}
        /\ a7 = 1 <=> v1 >= 128
        /\ b7 = 1 <=> v2 >= 128
    BY DEF Byte
  <1>2. n \in 0 .. 511
    OBVIOUS
  <1>3. Bits88(v1) = a7 * 128 + a3 * 8 /\ Bits88(v2) = b7 * 128 + b3 * 8
    BY DEF Bits88, BitValue
  <1> HIDE DEF a7, a3, b7, b3, n
  <1>4. FutAddSubIndex(v1, v2, res) = n + h * 512
    BY <1>1, <1>3, BitsMoved DEF FutAddSubIndex, n
  <1>5. /\ (n + h * 512) % 512 = n
        /\ Bit(n + h * 512, 1024) <=> a7 = 1
        /\ Bit(n + h * 512, 512) <=> b7 = 1
    BY <1>1, <1>2 DEF Bit
  <1>6. n + h * 512 \in Nat
    BY <1>1, <1>2
  <1> HIDE DEF h
  <1> QED
    BY <1>1, <1>4, <1>5, <1>6 DEF n

(* Flags that are set on conditions.                                        *)
LEMMA FlagCases ==
  ASSUME NEW f, NEW g, NEW c \in BOOLEAN
  PROVE  f \in Flag(g, c) <=> (f = g /\ c)
  BY Zenon DEF Flag

LEMMA Conditions ==
  ASSUME NEW v \in BOOLEAN, NEW c \in BOOLEAN, NEW h \in BOOLEAN
  PROVE  LET f == Flag("V", v) \cup Flag("C", c) \cup Flag("H", h)
         IN  /\ f \subseteq {"V", "C", "H"}
             /\ "V" \in f <=> v
             /\ "C" \in f <=> c
PROOF
  <1> DEFINE f == Flag("V", v) \cup Flag("C", c) \cup Flag("H", h)
  <1>1. \A x : x \in f <=> (x = "V" /\ v) \/ (x = "C" /\ c) \/ (x = "H" /\ h)
    BY Zenon, FlagCases
  <1> HIDE DEF f
  <1>2. f \subseteq {"V", "C", "H"}
    BY <1>1
  <1>3. "V" \in f <=> v
    BY <1>1
  <1>4. "C" \in f <=> c
    BY <1>1
  <1> QED
    BY <1>2, <1>3, <1>4 DEF f

LEMMA ZnsFlags ==
  ASSUME NEW res \in Int, NEW f, f \subseteq {"V", "C", "H"}
  PROVE  LET t == UpdateZns(res, f)
         IN  /\ t \subseteq AllFlags
             /\ "C" \in t <=> "C" \in f
             /\ "Z" \in t <=> res % 256 = 0
             /\ "S" \in t <=> (Bit(res, 128) <=> "V" \notin f)
PROOF
  <1> DEFINE z == res % 256 = 0
             n == Bit(res, 128)
             s == n <=> "V" \notin f
             t == f \cup Flag("Z", z) \cup Flag("N", n) \cup Flag("S", s)
  <1>1. z \in BOOLEAN /\ n \in BOOLEAN /\ s \in BOOLEAN
    BY DEF Bit
  <1> HIDE DEF z, n, s
  <1>2. \A x : x \in t <=> x \in f \/ (x = "Z" /\ z) \/ (x = "N" /\ n) \/ (x = "S" /\ s)
    BY Zenon, <1>1, FlagCases
  <1>3. t = UpdateZns(res, f)
    BY DEF UpdateZns, z, n, s
  <1> HIDE DEF t
  <1>4. t \subseteq AllFlags
    BY <1>2 DEF AllFlags
  <1>5. "C" \in t <=> "C" \in f
    BY <1>2
  <1>6. "Z" \in t <=> z
    BY <1>2
  <1>7. "S" \in t <=> s
    BY <1>2
  <1> QED
    BY <1>3, <1>4, <1>5, <1>6, <1>7 DEF z, n, s

(* Reading the flags C, Z and S off the tables.                             *)
LEMMA TableSub8Flags ==
  ASSUME NEW i \in Nat
  PROVE  LET t == TableSub8(i)
             n == Bit(i % 512, 128)
             a == Bit(i, 1024)
             b == Bit(i, 512)
         IN  /\ t \subseteq AllFlags
             /\ "C" \in t <=> Bit(i % 512, 256)
             /\ "Z" \in t <=> (i % 512) % 256 = 0
             /\ "S" \in t <=> (n <=> ~((a /\ ~b /\ ~n) \/ (~a /\ b /\ n)))
PROOF
  <1> DEFINE res == i % 512
             n == Bit(res, 128)
             a == Bit(i, 1024)
             b == Bit(i, 512)
             p == Bit(i, 4096)
             q == Bit(i, 2048)
             u == Bit(res, 8)
             v == (a /\ ~b /\ ~n) \/ (~a /\ b /\ n)
             c == Bit(res, 256)
             h == (~p /\ q) \/ (q /\ u) \/ (u /\ ~p)
             f == Flag("V", v) \cup Flag("C", c) \cup Flag("H", h)
  <1>1. v \in BOOLEAN /\ c \in BOOLEAN /\ h \in BOOLEAN /\ res \in Int
    BY DEF Bit
  <1>2. TableSub8(i) = UpdateZns(res, f)
    BY DEF TableSub8
  <1> HIDE DEF v, c, h
  <1>3. f \subseteq {"V", "C", "H"} /\ ("V" \in f <=> v) /\ ("C" \in f <=> c)
    BY <1>1, Conditions
  <1> HIDE DEF f, res
  <1>4. LET t == UpdateZns(res, f)
        IN  /\ t \subseteq AllFlags
            /\ "C" \in t <=> "C" \in f
            /\ "Z" \in t <=> res % 256 = 0
            /\ "S" \in t <=> (Bit(res, 128) <=> "V" \notin f)
    BY <1>1, <1>3, ZnsFlags
  <1> HIDE DEF n, a, b
  <1> QED
    BY <1>2, <1>3, <1>4 DEF v, c, n, a, b, res

LEMMA TableAdd8Flags ==
  ASSUME NEW i \in Nat
  PROVE  LET t == TableAdd8(i)
             n == Bit(i % 512, 128)
             a == Bit(i, 1024)
             b == Bit(i, 512)
         IN  /\ t \subseteq AllFlags
             /\ "C" \in t <=> Bit(i % 512, 256)
             /\ "S" \in t <=> (n <=> ~((a /\ b /\ ~n) \/ (~a /\ ~b /\ n)))
PROOF
  <1> DEFINE res == i % 512
             n == Bit(res, 128)
             a == Bit(i, 1024)
             b == Bit(i, 512)
             p == Bit(i, 4096)
             q == Bit(i, 2048)
             u == Bit(res, 8)
             v == (a /\ b /\ ~n) \/ (~a /\ ~b /\ n)
             c == Bit(res, 256)
             h == (p /\ q) \/ (q /\ ~u) \/ (~u /\ p)
             f == Flag("V", v) \cup Flag("C", c) \cup Flag("H", h)
  <1>1. v \in BOOLEAN /\ c \in BOOLEAN /\ h \in BOOLEAN /\ res \in Int
    BY DEF Bit
  <1>2. TableAdd8(i) = UpdateZns(res, f)
    BY DEF TableAdd8
  <1> HIDE DEF v, c, h
  <1>3. f \subseteq {"V", "C", "H"} /\ ("V" \in f <=> v) /\ ("C" \in f <=> c)
    BY <1>1, Conditions
  <1> HIDE DEF f, res
  <1>4. LET t == UpdateZns(res, f)
        IN  /\ t \subseteq AllFlags
            /\ "C" \in t <=> "C" \in f
            /\ "Z" \in t <=> res % 256 = 0
            /\ "S" \in t <=> (Bit(res, 128) <=> "V" \notin f)
    BY <1>1, <1>3, ZnsFlags
  <1> HIDE DEF n, a, b
  <1> QED
    BY <1>2, <1>3, <1>4 DEF v, c, n, a, b, res

LEMMA SubFlags ==
  ASSUME NEW d \in Byte, NEW r \in Byte, NEW c \in {0, 1}
  PROVE  LET t == TableSub8(FutAddSubIndex(d, r, d - r - c))
         IN  /\ t \subseteq AllFlags
             /\ "C" \in t <=> d - r - c < 0
             /\ "Z" \in t <=> (d - r - c) % 256 = 0
             /\ "S" \in t <=> Int8(d) - Int8(r) - c < 0
PROOF
  <1> DEFINE x == d - r - c
             i == FutAddSubIndex(d, r, x)
             res == i % 512
             n == Bit(res, 128)
             v == (d >= 128 /\ r < 128 /\ ~n) \/ (d < 128 /\ r >= 128 /\ n)
  <1>1. /\ res = x % 512
        /\ Bit(i, 1024) <=> d >= 128
        /\ Bit(i, 512) <=> r >= 128
        /\ i \in Nat
    <2>1. x \in Int
      BY DEF Byte
    <2> HIDE DEF x
    <2> QED
      BY <2>1, TableIndex
  <1>2. /\ Bit(res, 256) <=> d - r - c < 0
        /\ res % 256 = (d - r - c) % 256
        /\ n <=> (d - r - c) % 256 >= 128
    BY <1>1 DEF Bit, Byte
  <1>3. (n <=> ~v) <=> Int8(d) - Int8(r) - c < 0
    BY <1>2 DEF Int8, Byte
  <1> HIDE DEF i
  <1>4. LET t == TableSub8(i)
            a == Bit(i, 1024)
            b == Bit(i, 512)
        IN  /\ t \subseteq AllFlags
            /\ "C" \in t <=> Bit(i % 512, 256)
            /\ "Z" \in t <=> (i % 512) % 256 = 0
            /\ "S" \in t <=> (n <=> ~((a /\ ~b /\ ~n) \/ (~a /\ b /\ n)))
    BY <1>1, TableSub8Flags
  <1>5. "C" \in TableSub8(i) <=> d - r - c < 0
    BY <1>2, <1>4
  <1>6. "Z" \in TableSub8(i) <=> (d - r - c) % 256 = 0
    BY <1>2, <1>4
  <1>7. "S" \in TableSub8(i) <=> Int8(d) - Int8(r) - c < 0
    <2>1. "S" \in TableSub8(i) <=> (n <=> ~v)
      <3> DEFINE a == Bit(i, 1024)
                 b == Bit(i, 512)
                 g == d >= 128
                 k == r >= 128
      <3>1. (a <=> g) /\ (b <=> k)
        BY <1>1
      <3>2. (d < 128 <=> ~g) /\ (r < 128 <=> ~k)
        BY DEF Byte
      <3> HIDE DEF a, b, g, k, n
      <3> QED
        BY <1>4, <3>1, <3>2 DEF a, b, g, k
    <2> HIDE DEF v, n
    <2> QED
      BY <2>1, <1>3
  <1> QED
    BY <1>4, <1>5, <1>6, <1>7 DEF i

LEMMA AddFlags ==
  ASSUME NEW d \in Byte, NEW r \in Byte, NEW c \in {0, 1}
  PROVE  LET t == TableAdd8(FutAddSubIndex(d, r, d + r + c))
         IN  /\ t \subseteq AllFlags
             /\ "C" \in t <=> d + r + c >= 256
             /\ "S" \in t <=> Int8(d) + Int8(r) + c < 0
PROOF
  <1> DEFINE x == d + r + c
             i == FutAddSubIndex(d, r, x)
             res == i % 512
             n == Bit(res, 128)
             v == (d >= 128 /\ r >= 128 /\ ~n) \/ (d < 128 /\ r < 128 /\ n)
  <1>1. /\ res = x % 512
        /\ Bit(i, 1024) <=> d >= 128
        /\ Bit(i, 512) <=> r >= 128
        /\ i \in Nat
    <2>1. x \in Int
      BY DEF Byte
    <2> HIDE DEF x
    <2> QED
      BY <2>1, TableIndex
  <1>2. /\ Bit(res, 256) <=> d + r + c >= 256
        /\ n <=> (d + r + c) % 256 >= 128
    BY <1>1 DEF Bit, Byte
  <1>3. (n <=> ~v) <=> Int8(d) + Int8(r) + c < 0
    BY <1>2 DEF Int8, Byte
  <1> HIDE DEF i
  <1>4. LET t == TableAdd8(i)
            a == Bit(i, 1024)
            b == Bit(i, 512)
        IN  /\ t \subseteq AllFlags
            /\ "C" \in t <=> Bit(i % 512, 256)
            /\ "S" \in t <=> (n <=> ~((a /\ b /\ ~n) \/ (~a /\ ~b /\ n)))
    BY <1>1, TableAdd8Flags
  <1>5. "C" \in TableAdd8(i) <=> d + r + c >= 256
    BY <1>2, <1>4
  <1>7. "S" \in TableAdd8(i) <=> Int8(d) + Int8(r) + c < 0
    <2>1. "S" \in TableAdd8(i) <=> (n <=> ~v)
      <3> DEFINE a == Bit(i, 1024)
                 b == Bit(i, 512)
                 g == d >= 128
                 k == r >= 128
      <3>1. (a <=> g) /\ (b <=> k)
        BY <1>1
      <3>2. (d < 128 <=> ~g) /\ (r < 128 <=> ~k)
        BY DEF Byte
      <3> HIDE DEF a, b, g, k, n
      <3> QED
        BY <1>4, <3>1, <3>2 DEF a, b, g, k
    <2> HIDE DEF v, n
    <2> QED
      BY <2>1, <1>3
  <1> QED
    BY <1>4, <1>5, <1>7 DEF i

-----------------------------------------------------------------------------
(* Type correctness                                                         *)

LEMMA PutRegType ==
  ASSUME reg \in [Regs -> Byte], NEW rd \in Regs, NEW v \in Int, PutReg(rd, v)
  PROVE  reg' \in [Regs -> Byte]
PROOF
  <1>1. v % 256 \in Byte
    BY DEF Byte
  <1> QED
    BY <1>1 DEF PutReg

LEMMA PutWordRegType ==
  ASSUME reg \in [Regs -> Byte], NEW rd \in Regs, rd + 1 \in Regs, NEW v \in Int,
         PutWordReg(rd, v)
  PROVE  reg' \in [Regs -> Byte]
PROOF
  <1>1. v % 256 \in Byte /\ (v \div 256) % 256 \in Byte
    BY DEF Byte
  <1> DEFINE lo == v % 256
             hi == (v \div 256) % 256
             one == [reg EXCEPT ![rd] = lo]
  <1>2. reg' = [one EXCEPT ![rd + 1] = hi]
    BY DEF PutWordReg
  <1> HIDE DEF lo, hi
  <1>3. one \in [Regs -> Byte]
    BY <1>1 DEF lo
  <1> HIDE DEF one
  <1> QED
    BY <1>1, <1>2, <1>3 DEF hi

LEMMA LogicType ==
  ASSUME NEW x, NEW y
  PROVE  And(x, y) \in Int /\ Or(x, y) \in Int /\ Eor(x, y) \in Int
PROOF
  <1>1. \A bs : Number(bs) \in Int
    BY DEF Number
  <1> QED
    BY <1>1 DEF And, Or, Eor

(* Sums of bytes, and the number in two registers.                          *)
LEMMA ByteSum ==
  ASSUME NEW a \in Byte, NEW b \in Byte, NEW c \in {0, 1}
  PROVE  a + b + c \in Int /\ a + 256 * b \in Int
  BY DEF Byte

LEMMA WordIsNumber ==
  ASSUME TypeOK, NEW rd \in Regs, rd + 1 \in Regs
  PROVE  Word(rd) \in Int
PROOF
  <1>1. reg[rd] \in Byte /\ reg[rd + 1] \in Byte
    BY DEF TypeOK
  <1> QED
    BY <1>1, ByteSum DEF Word

(* What the instructions find in their operands.                            *)
LEMMA Operand ==
  ASSUME TypeOK
  PROVE  /\ Rd \in Regs /\ Rr \in Regs /\ K \in Byte
         /\ D \in Byte /\ R \in Byte /\ GetCarry \in {0, 1}
         /\ Int8(D) \in Int /\ Int8(R) \in Int
         /\ insn.op \in Ids /\ insn.f \in AllFlags
         /\ insn.op \in RegPair => /\ Rd + 1 \in Regs /\ Rr + 1 \in Regs
                                   /\ Word(Rd) \in Int /\ Word(Rr) \in Int
PROOF
  <1>1. insn \in InsnType
    BY InsnsAssumption DEF TypeOK
  <1>2. Rd \in Regs /\ Rr \in Regs /\ K \in Byte /\ insn.op \in Ids /\ insn.f \in AllFlags
    BY <1>1 DEF InsnType, Rd, Rr, K
  <1>3. D \in Byte /\ R \in Byte /\ GetCarry \in {0, 1}
    BY <1>2 DEF TypeOK, D, R, GetCarry
  <1>4. Int8(D) \in Int /\ Int8(R) \in Int
    BY <1>3 DEF Int8, Byte
  <1>5. ASSUME insn.op \in RegPair
        PROVE  /\ Rd + 1 \in Regs /\ Rr + 1 \in Regs
               /\ Word(Rd) \in Int /\ Word(Rr) \in Int
    <2>1. Rd + 1 \in Regs /\ Rr + 1 \in Regs
      BY <1>5, InsnsAssumption DEF TypeOK, Rd, Rr
    <2> QED
      BY <1>2, <2>1, WordIsNumber
  <1> QED
    BY <1>2, <1>3, <1>4, <1>5

LEMMA FlagsType ==
  ASSUME sreg \in SUBSET AllFlags, NEW flags, NEW new \in SUBSET AllFlags,
         UpdateFlags(flags, new)
  PROVE  sreg' \in SUBSET AllFlags
  BY DEF UpdateFlags

LEMMA OneCondition ==
  ASSUME NEW f \in {"V", "C", "H"}, NEW c
  PROVE  Flag(f, c) \subseteq {"V", "C", "H"}
  BY DEF Flag

LEMMA OneFlag ==
  ASSUME NEW c, NEW d
  PROVE  Flag("C", c) \cup Flag("Z", d) \subseteq AllFlags
PROOF
  <1>1. Flag("C", c) \subseteq {"C"} /\ Flag("Z", d) \subseteq {"Z"}
    BY DEF Flag
  <1> QED
    BY <1>1 DEF AllFlags

LEMMA TablesType ==
  ASSUME NEW i \in Int
  PROVE  /\ TableInc(i) \subseteq AllFlags /\ TableDec(i) \subseteq AllFlags
         /\ TableLogical(i) \subseteq AllFlags
         /\ TableRor8(i) \subseteq AllFlags
PROOF
  <1>1. \A f : f \subseteq {"V", "C", "H"} => /\ UpdateZns(i, f) \subseteq AllFlags
                                         /\ UpdateZns(i \div 2, f) \subseteq AllFlags
    <2>1. i \div 2 \in Int
      OBVIOUS
    <2> QED
      BY <2>1, ZnsFlags
  <1>2. /\ Flag("V", i = 128) \subseteq {"V", "C", "H"}
        /\ Flag("V", i = 127) \subseteq {"V", "C", "H"}
    BY OneCondition
  <1>3. Flag("C", Bit(i, 1)) \cup Flag("V", Bit(i \div 2, 128) # Bit(i, 1))
          \subseteq {"V", "C", "H"}
    BY Zenon DEF Flag
  <1> QED
    BY <1>1, <1>2, <1>3 DEF TableInc, TableDec, TableLogical, TableRor8

LEMMA TableTypes ==
  ASSUME NEW i
  PROVE  TableAdd8(i) \subseteq AllFlags /\ TableSub8(i) \subseteq AllFlags
PROOF
  <1>1. \A v, c, h : Flag("V", v) \cup Flag("C", c) \cup Flag("H", h)
                     \subseteq AllFlags
    BY Zenon DEF Flag, AllFlags
  <1>2. \A res, f : f \subseteq AllFlags => UpdateZns(res, f) \subseteq AllFlags
    BY Zenon DEF UpdateZns, Flag, AllFlags
  <1> QED
    BY <1>1, <1>2 DEF TableAdd8, TableSub8

(* The helpers keep the types.                                              *)
Typed == reg' \in [Regs -> Byte] /\ sreg' \in SUBSET AllFlags

LEMMA AdditionType ==
  ASSUME TypeOK, NEW rd \in Regs, NEW rr \in Regs, NEW c \in {0, 1},
         DoAddition8(rd, rr, c)
  PROVE  Typed
PROOF
  <1>1. reg[rd] \in Byte /\ reg[rr] \in Byte
    BY DEF TypeOK
  <1>2. reg[rd] + reg[rr] + c \in Int
    BY <1>1, ByteSum
  <1>3. reg' \in [Regs -> Byte]
    BY <1>2, PutRegType DEF DoAddition8, TypeOK
  <1>4. TableAdd8(FutAddSubIndex(reg[rd], reg[rr], reg[rd] + reg[rr] + c)) \subseteq AllFlags
    BY <1>1, AddFlags
  <1> QED
    BY <1>3, <1>4, FlagsType DEF DoAddition8, TypeOK, Typed

LEMMA SubtractionType ==
  ASSUME TypeOK, NEW rd \in Regs, NEW v1 \in Byte, NEW v2 \in Byte, NEW c \in {0, 1},
         NEW u \in BOOLEAN, NEW w \in BOOLEAN, DoSubtraction8(rd, v1, v2, c, u, w)
  PROVE  Typed
PROOF
  <1>1. v1 - v2 - c \in Int
    BY DEF Byte
  <1>2. reg' \in [Regs -> Byte]
    BY <1>1, PutRegType DEF DoSubtraction8, TypeOK
  <1>3. TableSub8(FutAddSubIndex(v1, v2, v1 - v2 - c)) \subseteq AllFlags
    BY SubFlags
  <1> DEFINE t == TableSub8(FutAddSubIndex(v1, v2, v1 - v2 - c))
             kept == IF u /\ "Z" \notin sreg THEN t \ {"Z"} ELSE t
  <1>4. UpdateFlags(Arith, kept)
    BY DEF DoSubtraction8
  <1> HIDE DEF t
  <1>5. kept \subseteq AllFlags
    BY <1>3 DEF t
  <1> QED
    BY <1>2, <1>4, <1>5, FlagsType DEF TypeOK, Typed

LEMMA LogicalType ==
  ASSUME TypeOK, NEW rd \in Regs, NEW v \in Int, StoreLogicalResult(rd, v)
  PROVE  Typed
  BY PutRegType, TablesType, FlagsType DEF StoreLogicalResult, TypeOK, Typed

LEMMA RotateType ==
  ASSUME TypeOK, NEW rd \in Regs, NEW v \in Int, RotateRight(rd, v)
  PROVE  Typed
PROOF
  <1>1. v \div 2 \in Int
    OBVIOUS
  <1> QED
    BY <1>1, PutRegType, TablesType, FlagsType DEF RotateRight, TypeOK, Typed

LEMMA MultiplyType ==
  ASSUME TypeOK, NEW v1 \in Int, NEW v2 \in Int, NEW shift \in {1, 2},
         DoMultiply(v1, v2, shift)
  PROVE  Typed
PROOF
  <1> DEFINE p == (v1 * v2) % 65536
             f == Flag("C", Bit(p, 32768)) \cup Flag("Z", p * shift = 0)
  <1>1. p \in Int /\ p * shift \in Int
    <2>1. v1 * v2 \in Int
      OBVIOUS
    <2> HIDE DEF p
    <2> QED
      BY <2>1 DEF p
  <1>2. PutWordReg(0, p * shift) /\ UpdateFlags({"Z", "C"}, f)
    BY DEF DoMultiply
  <1>3. f \subseteq AllFlags
    BY OneFlag
  <1>4. 0 \in Regs /\ 0 + 1 \in Regs
    BY RegsAssumption
  <1> HIDE DEF p, f
  <1>5. reg' \in [Regs -> Byte]
    BY <1>1, <1>2, <1>4, PutWordRegType DEF TypeOK
  <1> QED
    BY <1>2, <1>3, <1>5, FlagsType DEF TypeOK, Typed

LEMMA WordType ==
  ASSUME TypeOK, NEW rd \in Regs, rd + 1 \in Regs, NEW v \in Int, NEW f,
         f \subseteq AllFlags, DoAddSubWord(rd, v, f)
  PROVE  Typed
PROOF
  <1>1. reg' \in [Regs -> Byte]
    BY PutWordRegType DEF DoAddSubWord, TypeOK
  <1>2. (f \ {"H"}) \ (IF v % 65536 # 0 THEN {"Z"} ELSE {}) \subseteq AllFlags
    OBVIOUS
  <1> QED
    BY <1>1, <1>2, FlagsType DEF DoAddSubWord, TypeOK, Typed

(* The operands of the counting, rotating and moving instructions.          *)
LEMMA Results ==
  ASSUME NEW d \in Byte, NEW k \in Byte, NEW c \in {0, 1}
  PROVE  /\ d + 1 \in Int /\ d - 1 \in Int /\ 255 - d \in Int
         /\ (d + 1) % 256 \in Int /\ (d - 1) % 256 \in Int
         /\ d + 256 * c \in Int /\ Int8(d) % 512 \in Int
         /\ (d % 16) * 16 + d \div 16 \in Int
         /\ d \in Int /\ k \in Int
PROOF
  <1>1. Int8(d) \in Int /\ d \in Int /\ k \in Int
    BY DEF Int8, Byte
  <1>2. d + 1 \in Int /\ d - 1 \in Int /\ 255 - d \in Int /\ d + 256 * c \in Int
    BY <1>1
  <1>3. (d + 1) % 256 \in Int /\ (d - 1) % 256 \in Int /\ Int8(d) % 512 \in Int
    BY <1>1
  <1>4. (d % 16) * 16 + d \div 16 \in Int
    BY <1>1
  <1> QED
    BY <1>1, <1>2, <1>3, <1>4

(* One step for each group of instructions.                                 *)
LEMMA ExecuteTypes ==
  ASSUME TypeOK, Execute
  PROVE  Typed
PROOF
  <1> DEFINE c == GetCarry
  <1>1. /\ Rd \in Regs /\ Rr \in Regs /\ K \in Byte
        /\ D \in Byte /\ R \in Byte /\ c \in {0, 1} /\ 0 \in {0, 1} /\ 0 \in Byte
        /\ Int8(D) \in Int /\ Int8(R) \in Int /\ insn.f \in AllFlags
        /\ reg \in [Regs -> Byte] /\ sreg \in SUBSET AllFlags
    BY Operand DEF TypeOK, Byte
  <1>2. /\ D + 1 \in Int /\ D - 1 \in Int /\ 255 - D \in Int
        /\ (D + 1) % 256 \in Int /\ (D - 1) % 256 \in Int
        /\ D + 256 * c \in Int /\ Int8(D) % 512 \in Int
        /\ (D % 16) * 16 + D \div 16 \in Int
        /\ D \in Int /\ R \in Int /\ K \in Int
    BY <1>1, Results
  <1>3. insn.op \in RegPair => /\ Rd + 1 \in Regs /\ Rr + 1 \in Regs
                               /\ Word(Rd) \in Int /\ Word(Rr) \in Int
    BY Operand
  <1>4. \A v \in Int : PutReg(Rd, v) => reg' \in [Regs -> Byte]
    BY <1>1, PutRegType
  <1>5. \A g, n : n \in SUBSET AllFlags /\ UpdateFlags(g, n) => sreg' \in SUBSET AllFlags
    BY <1>1, FlagsType
  <1> HIDE DEF c
  <1>6. CASE Additions
    BY <1>1, <1>6, AdditionType DEF Additions, DoShift8, c
  <1>7. CASE Compares \/ Subtractions \/ SubtractionsOfK \/ Neg
    BY <1>1, <1>7, SubtractionType DEF Compares, Subtractions, SubtractionsOfK, Neg, c
  <1>8. CASE Logicals
    <2>1. ASSUME Is("TST"), UpdateFlags(Logical, TableLogical(D)), UNCHANGED reg
          PROVE  Typed
      BY <1>1, <1>2, <1>5, <2>1, TablesType DEF Typed
    <2>2. ASSUME Is("COM"), PutReg(Rd, 255 - D),
                 UpdateFlags(Logical \cup {"C"}, TableLogical(255 - D) \cup {"C"})
          PROVE  Typed
      <3>1. TableLogical(255 - D) \cup {"C"} \in SUBSET AllFlags
        BY <1>2, TablesType DEF AllFlags
      <3> QED
        BY <1>2, <1>4, <1>5, <2>2, <3>1 DEF Typed
    <2>3. ASSUME NEW v \in Int, StoreLogicalResult(Rd, v)
          PROVE  Typed
      BY <1>1, <2>3, LogicalType
    <2>4. /\ And(D, R) \in Int /\ And(D, K) \in Int /\ Or(D, R) \in Int
          /\ Or(D, K) \in Int /\ Eor(D, R) \in Int /\ 0 \in Int
      BY LogicType
    <2> QED
      BY <1>8, <2>1, <2>2, <2>3, <2>4 DEF Logicals
  <1>9. CASE Lsr \/ Ror \/ Asr
    BY <1>1, <1>2, <1>9, RotateType DEF Lsr, Ror, Asr, c
  <1>10. CASE Counts
    BY <1>2, <1>4, <1>5, <1>10, TablesType DEF Counts, Typed
  <1>11. CASE Multiplications
    BY <1>1, <1>2, <1>11, MultiplyType DEF Multiplications
  <1>12. CASE Words
    <2>1. CASE Is("MOVW") /\ PutWordReg(Rd, Word(Rr)) /\ UNCHANGED sreg
      BY <1>1, <1>3, <2>1, PutWordRegType DEF RegPair, Is, Typed
    <2>2. \A v \in Int : LET i == FutAddSub16Index(Word(Rd), v)
                         IN  TableAdd8(i) \subseteq AllFlags /\ TableSub8(i) \subseteq AllFlags
      <3> SUFFICES ASSUME NEW v \in Int
                   PROVE  LET i == FutAddSub16Index(Word(Rd), v)
                          IN  TableAdd8(i) \subseteq AllFlags /\ TableSub8(i) \subseteq AllFlags
        OBVIOUS
      <3> QED
        BY TableTypes
    <2>3. CASE Is("ADIW")
      <3>1. Word(Rd) + K \in Int /\ Rd + 1 \in Regs
        BY <1>2, <1>3, <2>3 DEF RegPair, Is
      <3>2. DoAddSubWord(Rd, Word(Rd) + K,
                         TableAdd8(FutAddSub16Index(Word(Rd), Word(Rd) + K)))
        BY <1>12, <2>3 DEF Words, Is
      <3> QED
        BY <1>1, <2>2, <3>1, <3>2, WordType
    <2>4. CASE Is("SBIW")
      <3>1. Word(Rd) - K \in Int /\ Rd + 1 \in Regs
        BY <1>2, <1>3, <2>4 DEF RegPair, Is
      <3>2. DoAddSubWord(Rd, Word(Rd) - K,
                         TableSub8(FutAddSub16Index(Word(Rd), Word(Rd) - K)))
        BY <1>12, <2>4 DEF Words, Is
      <3> QED
        BY <1>1, <2>2, <3>1, <3>2, WordType
    <2> QED
      BY <1>12, <2>1, <2>3, <2>4 DEF Words
  <1>13. CASE Moves
    <2>1. Or(D, K) \in Int /\ Or(D, K) - And(Or(D, K), K) \in Int
      BY LogicType
    <2> QED
      BY <1>1, <1>2, <1>4, <1>13, <2>1 DEF Moves, Typed
  <1>14. CASE FlagMoves
    <2>1. (IF And(D, K) # 0 THEN {"T"} ELSE {}) \in SUBSET AllFlags
      BY DEF AllFlags
    <2>2. {insn.f} \in SUBSET AllFlags /\ {} \in SUBSET AllFlags
      BY <1>1
    <2>3. reg' \in [Regs -> Byte]
      BY <1>1, <1>14 DEF FlagMoves
    <2> QED
      BY <1>5, <1>14, <2>1, <2>2, <2>3 DEF FlagMoves, Typed
  <1> QED
    BY <1>6, <1>7, <1>8, <1>9, <1>10, <1>11, <1>12, <1>13, <1>14 DEF Execute

(* Every instruction leaves bytes in the registers, whatever its operands:  *)
(* results are cut to 8 bits as avrtest.c's put_reg does.                   *)
THEOREM TypeCorrect == HSpec => []TypeOK
PROOF
  <1>1. HInit => TypeOK
    BY ProgramAssumption DEF HInit, Init, TypeOK
  <1>2. TypeOK /\ [HNext]_hvars => TypeOK'
    <2> SUFFICES ASSUME TypeOK, [HNext]_hvars
                 PROVE  TypeOK'
      OBVIOUS
    <2>1. CASE HNext
      <3>1. Execute /\ insn' \in Follow[insn]
        BY <2>1 DEF HNext, Next, Step
      <3>2. insn' \in Insns
        BY <3>1, ProgramAssumption DEF TypeOK
      <3> QED
        BY <3>1, <3>2, ExecuteTypes DEF TypeOK, Typed
    <2>2. CASE UNCHANGED hvars
      BY <2>2 DEF hvars, vars, TypeOK
    <2> QED
      BY <2>1, <2>2
  <1> QED
    BY <1>1, <1>2, PTL DEF HSpec

-----------------------------------------------------------------------------
(* Numbers of several bytes                                                 *)

(* One more byte decides, unless it is 0: then the bytes before it do.      *)
LEMMA Scaled ==
  ASSUME NEW m \in Nat, m > 0, NEW k \in Int
  PROVE  /\ m * k \in Int
         /\ k = 0 => m * k = 0
         /\ k = -1 => m * k = -m
         /\ k >= 1 => m * k >= m
         /\ k <= -1 => m * k <= -m
         /\ k <= -2 => m * k <= -(2 * m)
PROOF
  <1>1. m * k \in Int
    OBVIOUS
  <1>2. k >= 1 => m * k >= m
    OBVIOUS
  <1>3. k <= -1 => m * k <= -m
    OBVIOUS
  <1>4. k <= -2 => m * k <= -(2 * m)
    OBVIOUS
  <1>5. (k = 0 => m * k = 0) /\ (k = -1 => m * k = -m)
    OBVIOUS
  <1> QED
    BY <1>1, <1>2, <1>3, <1>4, <1>5

LEMMA Below ==
  ASSUME NEW m \in Nat, m > 0, NEW a \in Int, NEW b \in Int,
         NEW x \in 0 .. m - 1, NEW y \in 0 .. m - 1, NEW c \in {0, 1},
         c = 1 <=> x < y
  PROVE  /\ x + m * a < y + m * b <=> a - b - c < 0
         /\ x + m * a = y + m * b <=> a = b /\ x = y
PROOF
  <1> DEFINE k == a - b
             p == m * k
             q == m * a
             r == m * b
  <1>1. k \in Int /\ q \in Int /\ r \in Int
    OBVIOUS
  <1>2. p = q - r
    OBVIOUS
  <1> HIDE DEF p, q, r
  <1>3. /\ k = 0 => p = 0
        /\ k >= 1 => p >= m
        /\ k <= -1 => p <= -m
    <2> HIDE DEF k
    <2> QED
      BY <1>1, Scaled DEF p
  <1>4. x + q < y + r <=> a - b - c < 0
    BY <1>1, <1>2, <1>3
  <1>5. x + q = y + r <=> a = b /\ x = y
    BY <1>1, <1>2, <1>3
  <1> QED
    BY <1>4, <1>5 DEF q, r

LEMMA Carried ==
  ASSUME NEW m \in Nat, m > 0, NEW a \in Int, NEW b \in Int, NEW g \in Int,
         NEW x \in 0 .. m - 1, NEW y \in 0 .. m - 1, NEW c \in {0, 1},
         c = 1 <=> x + y >= m
  PROVE  (x + m * a) + (y + m * b) >= m * g <=> a + b + c >= g
PROOF
  <1> DEFINE k == a + b - g
             p == m * k
             q == m * a
             r == m * b
             s == m * g
  <1>1. k \in Int /\ q \in Int /\ r \in Int /\ s \in Int
    OBVIOUS
  <1>2. p = q + r - s
    OBVIOUS
  <1> HIDE DEF p, q, r, s
  <1>3. /\ k = 0 => p = 0
        /\ k = -1 => p = -m
        /\ k >= 1 => p >= m
        /\ k <= -2 => p <= -(2 * m)
    <2> HIDE DEF k
    <2> QED
      BY <1>1, Scaled DEF p
  <1>4. (x + q) + (y + r) >= s <=> a + b + c >= g
    BY <1>1, <1>2, <1>3
  <1> QED
    BY <1>4 DEF q, r, s

(* The sign of a number is that of its last byte.                           *)
LEMMA SignOfLastByte ==
  ASSUME NEW m \in Nat, m > 0, NEW d \in Byte, NEW x \in 0 .. m - 1
  PROVE  /\ Signed(x + m * d, m * 256) = x + m * Int8(d)
         /\ x + m * d \in 0 .. (m * 256) - 1
         /\ m * 256 \in Nat /\ m * 256 > 0
PROOF
  <1> DEFINE p == m * d
             q == m * (d - 256)
             h == m * (d - 128)
             t == m * (d - 255)
  <1>1. d \in Int /\ d >= 0 /\ d <= 255 /\ p \in Int /\ q \in Int /\ h \in Int /\ t \in Int
    BY DEF Byte
  <1>2. q = p - 256 * m /\ h = p - 128 * m /\ t = p - 255 * m
    BY <1>1
  <1>3. (d < 128 => h <= -m) /\ (d >= 128 => h >= 0)
    <2> DEFINE k == d - 128
    <2>1. k \in Int /\ (d < 128 => k <= -1) /\ (d >= 128 => k = 0 \/ k >= 1)
      BY <1>1
    <2> HIDE DEF k
    <2> QED
      BY <2>1, Scaled DEF k
  <1>4. p >= 0 /\ t <= 0
    <2> DEFINE k == d - 255
    <2>1. k \in Int /\ (k = 0 \/ k <= -1)
      BY <1>1
    <2>2. (d = 0 \/ d >= 1) /\ d \in Int
      BY <1>1
    <2> HIDE DEF k
    <2>3. t <= 0
      BY <2>1, Scaled DEF k
    <2>4. p >= 0
      BY <2>2, Scaled
    <2> QED
      BY <2>3, <2>4
  <1> HIDE DEF p, q, h, t
  <1>5. 2 * (x + p) < m * 256 <=> d < 128
    BY <1>1, <1>2, <1>3
  <1>6. (x + p) - m * 256 = x + q
    BY <1>1, <1>2
  <1>7. x + p \in 0 .. (m * 256) - 1
    BY <1>1, <1>2, <1>4
  <1>8. Signed(x + p, m * 256) = IF d < 128 THEN x + p ELSE x + q
    <2> DEFINE n == x + p
               l == m * 256
    <2>1. Signed(n, l) = IF 2 * n < l THEN n ELSE n - l
      BY DEF Signed
    <2>2. 2 * n < l <=> d < 128
      BY <1>5
    <2>3. n - l = x + q
      BY <1>6
    <2> HIDE DEF n, l
    <2>4. Signed(n, l) = IF d < 128 THEN n ELSE x + q
      BY <2>1, <2>2, <2>3
    <2> QED
      BY <2>4 DEF n, l
  <1>9. m * Int8(d) = IF d < 128 THEN p ELSE q
    BY DEF Int8, p, q
  <1>10. Signed(x + p, m * 256) = x + m * Int8(d)
    BY <1>8, <1>9
  <1> QED
    BY <1>7, <1>10 DEF p

(* Flags after an addition, and after a subtraction.                        *)
LEMMA FlagsAfter ==
  ASSUME NEW flags, NEW new, UpdateFlags(flags, new), NEW f, f \in flags
  PROVE  f \in sreg' <=> f \in new
  BY DEF UpdateFlags

LEMMA AdditionFlags ==
  ASSUME TypeOK, NEW rd \in Regs, NEW rr \in Regs, NEW c \in {0, 1},
         DoAddition8(rd, rr, c)
  PROVE  /\ "C" \in sreg' <=> reg[rd] + reg[rr] + c >= 256
         /\ "S" \in sreg' <=> Int8(reg[rd]) + Int8(reg[rr]) + c < 0
PROOF
  <1> DEFINE a == reg[rd]
             b == reg[rr]
             t == TableAdd8(FutAddSubIndex(a, b, a + b + c))
  <1>1. a \in Byte /\ b \in Byte
    BY DEF TypeOK
  <1>2. UpdateFlags(Arith, t)
    BY DEF DoAddition8
  <1>3. ("C" \in t <=> a + b + c >= 256) /\ ("S" \in t <=> Int8(a) + Int8(b) + c < 0)
    <2> HIDE DEF a, b
    <2> QED
      BY <1>1, AddFlags
  <1> HIDE DEF t
  <1>4. ("C" \in sreg' <=> "C" \in t) /\ ("S" \in sreg' <=> "S" \in t)
    BY <1>2, FlagsAfter DEF Arith
  <1> QED
    BY <1>3, <1>4

SubTable(v1, v2, c) == TableSub8(FutAddSubIndex(v1, v2, v1 - v2 - c))

LEMMA SubtractionFlags ==
  ASSUME NEW v1 \in Byte, NEW v2 \in Byte, NEW c \in {0, 1}
  PROVE  /\ "C" \in SubTable(v1, v2, c) <=> v1 - v2 - c < 0
         /\ "Z" \in SubTable(v1, v2, c) <=> (v1 - v2 - c) % 256 = 0
         /\ "S" \in SubTable(v1, v2, c) <=> Int8(v1) - Int8(v2) - c < 0
  BY SubFlags DEF SubTable

(* The first byte: with an instruction without carry.                       *)
LEMMA DifferenceOfBytes ==
  ASSUME NEW d \in Byte, NEW r \in Byte
  PROVE  (d - r - 0) % 256 = 0 <=> d = r
PROOF
  <1>1. \A k \in Int : k > -256 /\ k < 256 => (k % 256 = 0 <=> k = 0)
    OBVIOUS
  <1>2. d \in Int /\ r \in Int /\ d >= 0 /\ r >= 0 /\ d < 256 /\ r < 256
    BY DEF Byte
  <1> DEFINE k == d - r - 0
  <1>3. k \in Int /\ k > -256 /\ k < 256 /\ (k = 0 <=> d = r)
    BY <1>2
  <1> HIDE DEF k
  <1>4. k % 256 = 0 <=> d = r
    BY <1>1, <1>3
  <1> QED
    BY <1>4 DEF k

LEMMA FirstByte ==
  ASSUME NEW d \in Byte, NEW r \in Byte
  PROVE  /\ d \in 0 .. 255 /\ r \in 0 .. 255
         /\ Signed(d, 256) = Int8(d) /\ Signed(r, 256) = Int8(r)
         /\ d - r - 0 < 0 <=> d < r
         /\ Int8(d) - Int8(r) - 0 < 0 <=> Int8(d) < Int8(r)
         /\ Int8(d) + Int8(r) + 0 < 0 <=> Int8(d) + Int8(r) < 0
         /\ d + r + 0 >= 256 <=> d + r >= 256
PROOF
  <1>1. d \in Int /\ r \in Int /\ Int8(d) \in Int /\ Int8(r) \in Int
    BY DEF Byte, Int8
  <1>2. Signed(d, 256) = Int8(d) /\ Signed(r, 256) = Int8(r)
    BY <1>1 DEF Int8, Signed
  <1>3. /\ d - r - 0 < 0 <=> d < r
        /\ d + r + 0 >= 256 <=> d + r >= 256
    BY <1>1
  <1>4. \A a, b \in Int : /\ a - b - 0 < 0 <=> a < b
                          /\ a + b + 0 < 0 <=> a + b < 0
    OBVIOUS
  <1> QED
    BY <1>1, <1>2, <1>3, <1>4 DEF Byte

(* The further bytes of a subtraction, and of an addition.                  *)
LEMMA SubExtends ==
  ASSUME NEW m \in Nat, m > 0, NEW d \in Byte, NEW r \in Byte,
         NEW x \in 0 .. m - 1, NEW y \in 0 .. m - 1, NEW c \in {0, 1},
         c = 1 <=> x < y
  PROVE  LET X == x + m * d
             Y == y + m * r
             M == m * 256
         IN  /\ d - r - c < 0 <=> X < Y
             /\ (d - r - c) % 256 = 0 /\ x = y <=> X = Y
             /\ Int8(d) - Int8(r) - c < 0 <=> Signed(X, M) < Signed(Y, M)
PROOF
  <1>1. d \in Int /\ r \in Int /\ Int8(d) \in Int /\ Int8(r) \in Int
    BY DEF Byte, Int8
  <1>2. /\ x + m * d < y + m * r <=> d - r - c < 0
        /\ x + m * d = y + m * r <=> d = r /\ x = y
    BY <1>1, Below
  <1>3. x + m * Int8(d) < y + m * Int8(r) <=> Int8(d) - Int8(r) - c < 0
    BY <1>1, Below
  <1>4. (d - r - c) % 256 = 0 /\ x = y <=> d = r /\ x = y
    <2>1. (d - r - 0) % 256 = 0 <=> d = r
      BY DifferenceOfBytes
    <2>2. x = y => c = 0
      OBVIOUS
    <2> QED
      BY <2>1, <2>2
  <1>5. /\ Signed(x + m * d, m * 256) = x + m * Int8(d)
        /\ Signed(y + m * r, m * 256) = y + m * Int8(r)
    BY SignOfLastByte
  <1> QED
    BY <1>2, <1>3, <1>4, <1>5

LEMMA AddExtends ==
  ASSUME NEW m \in Nat, m > 0, NEW d \in Byte, NEW r \in Byte,
         NEW x \in 0 .. m - 1, NEW y \in 0 .. m - 1, NEW c \in {0, 1},
         c = 1 <=> x + y >= m
  PROVE  LET X == x + m * d
             Y == y + m * r
             M == m * 256
         IN  /\ d + r + c >= 256 <=> X + Y >= M
             /\ Int8(d) + Int8(r) + c < 0 <=> Signed(X, M) + Signed(Y, M) < 0
PROOF
  <1>1. d \in Int /\ r \in Int /\ Int8(d) \in Int /\ Int8(r) \in Int
        /\ 256 \in Int /\ 0 \in Int
    BY DEF Byte, Int8
  <1>2. (x + m * d) + (y + m * r) >= m * 256 <=> d + r + c >= 256
    BY <1>1, Carried
  <1>3. (x + m * Int8(d)) + (y + m * Int8(r)) >= m * 0 <=> Int8(d) + Int8(r) + c >= 0
    BY <1>1, Carried
  <1>4. /\ Signed(x + m * d, m * 256) = x + m * Int8(d)
        /\ Signed(y + m * r, m * 256) = y + m * Int8(r)
    BY SignOfLastByte
  <1> DEFINE s == (x + m * Int8(d)) + (y + m * Int8(r))
             e == Int8(d) + Int8(r) + c
  <1>5. s \in Int /\ e \in Int /\ m * 0 = 0
    BY <1>1
  <1> HIDE DEF s
  <1>6. s < 0 <=> e < 0
    <2>1. s >= 0 <=> e >= 0
      BY <1>3, <1>5 DEF s
    <2> HIDE DEF e
    <2> QED
      BY <1>5, <2>1
  <1> QED
    BY <1>2, <1>4, <1>6 DEF s

-----------------------------------------------------------------------------
(* The chain                                                                *)

(* What x and y are so far fits into the bytes that were taken.             *)
ChainFits == chain \in ChainType /\ chain.x < chain.m /\ chain.y < chain.m

LEMMA ChainCases ==
  /\ Adds => NextChain = Begin("add")
  /\ Subs => NextChain = Begin("sub")
  /\ AddsMore => NextChain = IF chain.op = "add" THEN Extend ELSE NoChain
  /\ SubsMore => NextChain = IF chain.op = "sub" THEN Extend ELSE NoChain
  /\ KeepFlags => NextChain = chain
  /\ ~(Adds \/ Subs \/ AddsMore \/ SubsMore \/ KeepFlags) => NextChain = NoChain
  BY DEF NextChain, Adds, Subs, AddsMore, SubsMore, KeepFlags

LEMMA OperandCases ==
  /\ insn.op = "NEG" => Left = 0
  /\ insn.op # "NEG" => Left = D
  /\ insn.op \in {"CPI", "SUBI", "SBCI"} => Right = K
  /\ insn.op \in {"NEG", "LSL", "ROL"} => Right = D
  /\ insn.op \notin {"CPI", "SUBI", "SBCI", "NEG", "LSL", "ROL"} => Right = R
  BY DEF Left, Right

LEMMA OperandsAreBytes ==
  ASSUME TypeOK
  PROVE  Left \in Byte /\ Right \in Byte
PROOF
  <1>1. D \in Byte /\ R \in Byte /\ K \in Byte /\ 0 \in Byte
    BY Operand DEF Byte
  <1> QED
    BY <1>1, OperandCases

(* What the instructions of a chain execute, in terms of Left and Right.    *)
LEMMA SubsExecute ==
  ASSUME Execute, Subs
  PROVE  UpdateFlags(Arith, SubTable(Left, Right, 0))
PROOF
  <1>1. \E w \in BOOLEAN : DoSubtraction8(Rd, Left, Right, 0, FALSE, w)
    BY OperandCases DEF Execute, Subs, Additions, Compares, Subtractions, SubtractionsOfK, Neg,
       Logicals, Lsr, Ror, Asr, Counts,
       Multiplications, Words, Moves, FlagMoves, Is
  <1> QED
    BY <1>1 DEF DoSubtraction8, SubTable

LEMMA SubsMoreExecute ==
  ASSUME Execute, SubsMore
  PROVE  LET t == SubTable(Left, Right, GetCarry)
         IN  UpdateFlags(Arith, IF "Z" \in sreg THEN t ELSE t \ {"Z"})
PROOF
  <1>1. \E w \in BOOLEAN : DoSubtraction8(Rd, Left, Right, GetCarry, TRUE, w)
    BY OperandCases DEF Execute, SubsMore, Additions, Compares, Subtractions, SubtractionsOfK, Neg,
       Logicals, Lsr, Ror, Asr,
       Counts, Multiplications, Words, Moves, FlagMoves, Is
  <1>2. CASE "Z" \in sreg
    BY <1>1, <1>2 DEF DoSubtraction8, SubTable
  <1>3. CASE "Z" \notin sreg
    BY <1>1, <1>3 DEF DoSubtraction8, SubTable
  <1> QED
    BY <1>2, <1>3

LEMMA AddsExecute ==
  ASSUME Execute, Adds \/ AddsMore, TypeOK
  PROVE  \E rr \in Regs : /\ Left = reg[Rd] /\ Right = reg[rr]
                          /\ DoAddition8(Rd, rr, IF Adds THEN 0 ELSE GetCarry)
PROOF
  <1>1. Rd \in Regs /\ Rr \in Regs
    BY Operand
  <1>2. CASE Is("ADD") \/ Is("ADC")
    <2>1. DoAddition8(Rd, Rr, IF Adds THEN 0 ELSE GetCarry)
      BY <1>2 DEF Execute, Adds, AddsMore, Additions, Compares, Subtractions, SubtractionsOfK, Neg,
         Logicals, Lsr, Ror, Asr,
         Counts, Multiplications, Words, Moves, FlagMoves, Is
    <2> QED
      BY <1>1, <1>2, <2>1, OperandCases DEF Is, D, R
  <1>3. CASE Is("LSL") \/ Is("ROL")
    <2>1. DoAddition8(Rd, Rd, IF Adds THEN 0 ELSE GetCarry)
      BY <1>3 DEF Execute, Adds, AddsMore, Additions, Compares, Subtractions, SubtractionsOfK, Neg,
         Logicals, Lsr, Ror, Asr,
         Counts, Multiplications, Words, Moves, FlagMoves, Is, DoShift8
    <2> QED
      BY <1>1, <1>3, <2>1, OperandCases DEF Is, D, R
  <1> QED
    BY <1>2, <1>3 DEF Adds, AddsMore, Is

LEMMA KeepFlagsExecute ==
  ASSUME Execute, KeepFlags, NEW f \in {"C", "Z", "S"}
  PROVE  f \in sreg' <=> f \in sreg
PROOF
  <1>1. UNCHANGED sreg \/ \E new \in SUBSET {"T"} : UpdateFlags({"T"}, new)
    BY DEF Execute, KeepFlags, Additions, Compares, Subtractions, SubtractionsOfK, Neg,
       Logicals, Lsr, Ror, Asr,
       Counts, Multiplications, Words, Moves, FlagMoves, Is
  <1> QED
    BY <1>1 DEF UpdateFlags

LEMMA CarryBit == GetCarry \in {0, 1} /\ (GetCarry = 1 <=> "C" \in sreg)
  BY DEF GetCarry

(* The chain after a step, and the flags that tell about it.                *)
LEMMA Begun ==
  ASSUME TypeOK, NEW op \in {"add", "sub"}, chain' = Begin(op)
  PROVE  /\ ChainFits'
         /\ chain'.op = op /\ chain'.x = Left /\ chain'.y = Right /\ chain'.m = 256
PROOF
  <1>1. Left \in Nat /\ Right \in Nat /\ Left < 256 /\ Right < 256
    BY OperandsAreBytes DEF Byte
  <1> QED
    BY <1>1 DEF Begin, ChainFits, ChainType

LEMMA Extended ==
  ASSUME TypeOK, ChainFits, chain' = Extend
  PROVE  /\ ChainFits'
         /\ chain'.op = chain.op
         /\ chain'.x = chain.x + chain.m * Left
         /\ chain'.y = chain.y + chain.m * Right
         /\ chain'.m = chain.m * 256
PROOF
  <1> DEFINE m == chain.m
             X == chain.x + m * Left
             Y == chain.y + m * Right
             M == m * 256
             one == [chain EXCEPT !.x = X]
             two == [one EXCEPT !.y = Y]
  <1>1. /\ m \in Nat /\ m > 0
        /\ chain.x \in 0 .. m - 1 /\ chain.y \in 0 .. m - 1
    BY DEF ChainFits, ChainType
  <1>2. Left \in Byte /\ Right \in Byte
    BY OperandsAreBytes
  <1>3. /\ X \in 0 .. M - 1 /\ Y \in 0 .. M - 1
        /\ M \in Nat /\ M > 0
    <2> HIDE DEF m
    <2> QED
      BY <1>1, <1>2, SignOfLastByte
  <1>4. chain' = [two EXCEPT !.m = M]
    BY DEF Extend, ChainFits, ChainType
  <1> HIDE DEF X, Y, M, m
  <1>5. X \in Nat /\ Y \in Nat /\ M \in Nat \ {0} /\ X < M /\ Y < M
    BY <1>3
  <1>6. one \in ChainType /\ one.x = X /\ one.op = chain.op
    BY <1>5 DEF ChainFits, ChainType
  <1> HIDE DEF one
  <1>7. two \in ChainType /\ two.x = X /\ two.y = Y /\ two.op = chain.op
    BY <1>5, <1>6 DEF ChainType
  <1> HIDE DEF two
  <1>8. /\ chain' \in ChainType
        /\ chain'.x = X /\ chain'.y = Y /\ chain'.m = M /\ chain'.op = chain.op
    BY <1>4, <1>5, <1>7 DEF ChainType
  <1> QED
    BY <1>5, <1>8 DEF ChainFits, X, Y, M, m

(* When the flags tell about the chain after a step.                        *)
LEMMA TellSub ==
  ASSUME NEW X, NEW Y, NEW M,
         chain'.op = "sub", chain'.x = X, chain'.y = Y, chain'.m = M,
         "C" \in sreg' <=> X < Y,
         "Z" \in sreg' <=> X = Y,
         "S" \in sreg' <=> Signed(X, M) < Signed(Y, M)
  PROVE  ChainedFlags'
  BY DEF ChainedFlags, Compared

LEMMA TellAdd ==
  ASSUME NEW X, NEW Y, NEW M,
         chain'.op = "add", chain'.x = X, chain'.y = Y, chain'.m = M,
         "C" \in sreg' <=> X + Y >= M,
         "S" \in sreg' <=> Signed(X, M) + Signed(Y, M) < 0
  PROVE  ChainedFlags'
  BY DEF ChainedFlags, Added

(* The flags tell about the chain: one step for each kind of instruction.   *)
LEMMA FlagsTell ==
  ASSUME TypeOK, ChainFits, ChainedFlags, Execute, chain' = NextChain
  PROVE  ChainFits' /\ ChainedFlags'
PROOF
  <1> DEFINE d == Left
             r == Right
             c == GetCarry
             m == chain.m
             x == chain.x
             y == chain.y
             o == 0
  <1>0. o \in {0, 1}
    OBVIOUS
  <1>1. d \in Byte /\ r \in Byte /\ c \in {0, 1} /\ (c = 1 <=> "C" \in sreg)
    BY OperandsAreBytes, CarryBit
  <1>2. m \in Nat /\ m > 0 /\ x \in 0 .. m - 1 /\ y \in 0 .. m - 1
    BY DEF ChainFits, ChainType
  <1> HIDE DEF d, r, c, o
  <1>3. CASE Subs
    <2>1. UpdateFlags(Arith, SubTable(d, r, o))
      BY <1>3, SubsExecute DEF d, r, o
    <2>2. chain' = Begin("sub")
      BY <1>3, ChainCases
    <2>3. ChainFits' /\ chain'.op = "sub" /\ chain'.x = d /\ chain'.y = r /\ chain'.m = 256
      BY <2>2, Begun DEF d, r
    <2>4. /\ "C" \in sreg' <=> d - r - o < 0
          /\ "Z" \in sreg' <=> (d - r - o) % 256 = 0
          /\ "S" \in sreg' <=> Int8(d) - Int8(r) - o < 0
      <3>1. \A f \in Arith : f \in sreg' <=> f \in SubTable(d, r, o)
        BY <2>1, FlagsAfter
      <3> QED
        BY <1>0, <1>1, <3>1, SubtractionFlags DEF Arith
    <2>5. /\ d - r - o < 0 <=> d < r
          /\ (d - r - o) % 256 = 0 <=> d = r
          /\ Int8(d) - Int8(r) - o < 0 <=> Signed(d, 256) < Signed(r, 256)
      BY <1>1, FirstByte, DifferenceOfBytes DEF o
    <2> QED
      BY <2>3, <2>4, <2>5, TellSub
  <1>4. CASE SubsMore /\ chain.op = "sub"
    <2> DEFINE t == SubTable(d, r, c)
               new == IF "Z" \in sreg THEN t ELSE t \ {"Z"}
    <2>1. UpdateFlags(Arith, new)
      BY <1>4, SubsMoreExecute DEF d, r, c
    <2>2. chain' = Extend
      BY <1>4, ChainCases
    <2>3. /\ ChainFits' /\ chain'.op = "sub"
          /\ chain'.x = x + m * d /\ chain'.y = y + m * r /\ chain'.m = m * 256
      BY <1>4, <2>2, Extended DEF d, r
    <2>4. /\ "C" \in sreg' <=> d - r - c < 0
          /\ "Z" \in sreg' <=> (d - r - c) % 256 = 0 /\ "Z" \in sreg
          /\ "S" \in sreg' <=> Int8(d) - Int8(r) - c < 0
      <3>1. /\ "Z" \in new <=> "Z" \in t /\ "Z" \in sreg
            /\ "C" \in new <=> "C" \in t
            /\ "S" \in new <=> "S" \in t
        OBVIOUS
      <3>2. \A f \in Arith : f \in sreg' <=> f \in new
        BY <2>1, FlagsAfter
      <3> HIDE DEF new
      <3> QED
        BY <1>1, <3>1, <3>2, SubtractionFlags DEF Arith
    <2>5. ("C" \in sreg <=> x < y) /\ ("Z" \in sreg <=> x = y)
      BY <1>4 DEF ChainedFlags, Compared
    <2>6. c = 1 <=> x < y
      BY <1>1, <2>5
    <2> HIDE DEF m, x, y
    <2>7. /\ d - r - c < 0 <=> x + m * d < y + m * r
          /\ (d - r - c) % 256 = 0 /\ x = y <=> x + m * d = y + m * r
          /\ Int8(d) - Int8(r) - c < 0
               <=> Signed(x + m * d, m * 256) < Signed(y + m * r, m * 256)
      BY <1>1, <1>2, <2>6, SubExtends
    <2> QED
      BY <2>3, <2>4, <2>5, <2>7, TellSub
  <1>5. CASE Adds
    <2>1. PICK rr \in Regs : /\ d = reg[Rd] /\ r = reg[rr]
                             /\ DoAddition8(Rd, rr, o)
      BY <1>5, AddsExecute DEF d, r, o
    <2>2. chain' = Begin("add")
      BY <1>5, ChainCases
    <2>3. ChainFits' /\ chain'.op = "add" /\ chain'.x = d /\ chain'.y = r /\ chain'.m = 256
      BY <2>2, Begun DEF d, r
    <2>4. /\ "C" \in sreg' <=> d + r + o >= 256
          /\ "S" \in sreg' <=> Int8(d) + Int8(r) + o < 0
      <3>1. Rd \in Regs
        BY Operand
      <3> QED
        BY <1>0, <2>1, <3>1, AdditionFlags
    <2>5. /\ d + r + o >= 256 <=> d + r >= 256
          /\ Int8(d) + Int8(r) + o < 0 <=> Signed(d, 256) + Signed(r, 256) < 0
      BY <1>1, FirstByte DEF o
    <2> QED
      BY <2>3, <2>4, <2>5, TellAdd
  <1>6. CASE AddsMore /\ chain.op = "add"
    <2>1. PICK rr \in Regs : /\ d = reg[Rd] /\ r = reg[rr]
                             /\ DoAddition8(Rd, rr, c)
      BY <1>6, AddsExecute DEF d, r, c, Adds, AddsMore
    <2>2. chain' = Extend
      BY <1>6, ChainCases
    <2>3. /\ ChainFits' /\ chain'.op = "add"
          /\ chain'.x = x + m * d /\ chain'.y = y + m * r /\ chain'.m = m * 256
      BY <1>6, <2>2, Extended DEF d, r
    <2>4. /\ "C" \in sreg' <=> d + r + c >= 256
          /\ "S" \in sreg' <=> Int8(d) + Int8(r) + c < 0
      <3>1. Rd \in Regs
        BY Operand
      <3> QED
        BY <1>1, <2>1, <3>1, AdditionFlags
    <2>5. c = 1 <=> x + y >= m
      BY <1>1, <1>6 DEF ChainedFlags, Added
    <2> HIDE DEF m, x, y
    <2>6. /\ d + r + c >= 256 <=> (x + m * d) + (y + m * r) >= m * 256
          /\ Int8(d) + Int8(r) + c < 0
               <=> Signed(x + m * d, m * 256) + Signed(y + m * r, m * 256) < 0
      BY <1>1, <1>2, <2>5, AddExtends
    <2> QED
      BY <2>3, <2>4, <2>6, TellAdd
  <1>7. CASE KeepFlags
    <2>1. chain' = chain
      BY <1>7, ChainCases
    <2>2. /\ "C" \in sreg' <=> "C" \in sreg
          /\ "Z" \in sreg' <=> "Z" \in sreg
          /\ "S" \in sreg' <=> "S" \in sreg
      BY <1>7, KeepFlagsExecute
    <2> QED
      BY <2>1, <2>2 DEF ChainFits, ChainedFlags, Compared, Added
  <1>8. CASE chain' = NoChain
    BY <1>8 DEF ChainFits, ChainType, ChainedFlags, NoChain
  <1> QED
    BY <1>3, <1>4, <1>5, <1>6, <1>7, <1>8, ChainCases

(* SUB or CP and then SBC or CPC compare, and ADD and then ADC add, numbers *)
(* of any number of bytes: C, Z and S after the last byte are those of the  *)
(* whole numbers, also when moves stand between the instructions.           *)
THEOREM FlagsOfWholeNumbers == HSpec => []ChainedFlags
PROOF
  <1> DEFINE Inv == ChainFits /\ ChainedFlags
  <1>1. HInit => Inv
    BY DEF HInit, NoChain, ChainFits, ChainType, ChainedFlags
  <1>2. TypeOK /\ Inv /\ [HNext]_hvars => Inv'
    <2> SUFFICES ASSUME TypeOK, ChainFits, ChainedFlags, [HNext]_hvars
                 PROVE  ChainFits' /\ ChainedFlags'
      OBVIOUS
    <2>1. CASE HNext
      BY <2>1, FlagsTell DEF HNext, Next, Step
    <2>2. CASE UNCHANGED hvars
      BY <2>2 DEF hvars, vars, ChainFits, ChainedFlags, Compared, Added
    <2> QED
      BY <2>1, <2>2
  <1>3. Inv => ChainedFlags
    OBVIOUS
  <1> QED
    BY <1>1, <1>2, <1>3, TypeCorrect, PTL DEF HSpec

-----------------------------------------------------------------------------
(* Bits of a result                                                         *)

LEMMA SameFlag ==
  ASSUME NEW f, NEW c \in BOOLEAN, NEW e \in BOOLEAN, c <=> e
  PROVE  Flag(f, c) = Flag(f, e)
  BY Zenon DEF Flag

LEMMA BitIsBoolean ==
  ASSUME NEW x, NEW p
  PROVE  Bit(x, p) \in BOOLEAN
  BY DEF Bit

(* The low 9 bits of a number tell the bits of its low byte.                *)
LEMMA LowBits ==
  ASSUME NEW x \in Int
  PROVE  /\ (x % 512) % 256 = x % 256
         /\ Bit(x % 512, 128) <=> Bit(x % 256, 128)
         /\ Bit(x % 512, 8) <=> Bit(x % 256, 8)
         /\ (-256 <= x /\ x < 0) \/ (256 <= x /\ x < 512) => Bit(x % 512, 256)
         /\ 0 <= x /\ x < 256 => ~Bit(x % 512, 256)
PROOF
  <1> DEFINE y == x % 512
  <1>1. y \in 0 .. 511 /\ x % 256 = y % 256
    OBVIOUS
  <1>2. /\ (-256 <= x /\ x < 0) \/ (256 <= x /\ x < 512) => y >= 256
        /\ 0 <= x /\ x < 256 => y < 256
    OBVIOUS
  <1> HIDE DEF y
  <1>3. /\ Bit(y, 128) <=> Bit(y % 256, 128)
        /\ Bit(y, 8) <=> Bit(y % 256, 8)
        /\ Bit(y, 256) <=> y >= 256
    BY <1>1 DEF Bit
  <1> QED
    BY <1>1, <1>2, <1>3 DEF y

(* The index holds bits 3 and 7 of both operands.                           *)
LEMMA IndexBits ==
  ASSUME NEW v1 \in Byte, NEW v2 \in Byte, NEW res \in Int
  PROVE  LET i == FutAddSubIndex(v1, v2, res)
         IN  /\ i % 512 = res % 512
             /\ Bit(i, 1024) <=> Bit(v1, 128)
             /\ Bit(i, 512) <=> Bit(v2, 128)
             /\ Bit(i, 4096) <=> Bit(v1, 8)
             /\ Bit(i, 2048) <=> Bit(v2, 8)
PROOF
  <1> DEFINE a7 == (v1 \div 128) % 2
             a3 == (v1 \div 8) % 2
             b7 == (v2 \div 128) % 2
             b3 == (v2 \div 8) % 2
             n == res % 512
             h == 8 * a3 + 4 * b3 + 2 * a7 + b7
  <1>1. a7 \in {0, 1} /\ a3 \in {0, 1} /\ b7 \in {0, 1} /\ b3 \in {0, 1}
    BY DEF Byte
  <1>2. /\ Bit(v1, 128) <=> a7 = 1
        /\ Bit(v2, 128) <=> b7 = 1
        /\ Bit(v1, 8) <=> a3 = 1
        /\ Bit(v2, 8) <=> b3 = 1
    BY DEF Bit
  <1>3. n \in 0 .. 511
    OBVIOUS
  <1>4. Bits88(v1) = a7 * 128 + a3 * 8 /\ Bits88(v2) = b7 * 128 + b3 * 8
    BY DEF Bits88, BitValue
  <1> HIDE DEF a7, a3, b7, b3, n
  <1>5. FutAddSubIndex(v1, v2, res) = n + h * 512
    BY <1>1, <1>4, BitsMoved DEF FutAddSubIndex, n
  <1>6. /\ (n + h * 512) % 512 = n
        /\ Bit(n + h * 512, 1024) <=> a7 = 1
        /\ Bit(n + h * 512, 512) <=> b7 = 1
        /\ Bit(n + h * 512, 4096) <=> a3 = 1
        /\ Bit(n + h * 512, 2048) <=> b3 = 1
    BY <1>1, <1>3 DEF Bit
  <1> HIDE DEF h
  <1> QED
    BY <1>2, <1>5, <1>6 DEF n

-----------------------------------------------------------------------------
(* The tables                                                               *)

(* UpdateZns with the overflow flag v and more flags beside it.             *)
LEMMA ZnsAsSigns ==
  ASSUME NEW x \in Int, NEW v \in BOOLEAN, NEW f, "V" \in f <=> v,
         NEW z \in BOOLEAN, z <=> x % 256 = 0,
         NEW n \in BOOLEAN, n <=> Bit(x, 128)
  PROVE  UpdateZns(x, f) = f \cup Flag("Z", z) \cup Flag("N", n) \cup Flag("S", n <=> ~v)
PROOF
  <1>1. Flag("Z", z) = Flag("Z", x % 256 = 0) /\ Flag("N", n) = Flag("N", Bit(x, 128))
    BY Zenon, SameFlag, BitIsBoolean
  <1>2. Flag("S", n <=> ~v) = Flag("S", Bit(x, 128) <=> "V" \notin f)
    <2>1. (n <=> ~v) <=> (Bit(x, 128) <=> "V" \notin f)
      BY BitIsBoolean
    <2> QED
      BY <2>1, Zenon, SameFlag
  <1> QED
    BY <1>1, <1>2, Zenon DEF UpdateZns

(* Addition: the table is the one of tests/sreg.                            *)
LEMMA AddTable ==
  ASSUME NEW d \in Byte, NEW r \in Byte, NEW c \in {0, 1}
  PROVE  TableAdd8(FutAddSubIndex(d, r, d + r + c)) = flags_adc(d, r, c).flags
PROOF
  <1> DEFINE x == d + r + c
             i == FutAddSubIndex(d, r, x)
             y == i % 512
             e == x % 256
             d7 == Bit(d, 128)
             r7 == Bit(r, 128)
             e7 == Bit(e, 128)
             d3 == Bit(d, 8)
             r3 == Bit(r, 8)
             e3 == Bit(e, 8)
             v == (d7 /\ r7 /\ ~e7) \/ (~d7 /\ ~r7 /\ e7)
             k == (d7 /\ r7) \/ (r7 /\ ~e7) \/ (~e7 /\ d7)
             h == (d3 /\ r3) \/ (r3 /\ ~e3) \/ (~e3 /\ d3)
             f == Flag("V", v) \cup Flag("C", k) \cup Flag("H", h)
  <1>1. x \in 0 .. 511 /\ x \in Int
    BY DEF Byte
  <1>2. k <=> x >= 256
    BY DEF Bit, Byte
  <1> HIDE DEF x
  <1>3. /\ y = x % 512
        /\ Bit(i, 1024) <=> d7
        /\ Bit(i, 512) <=> r7
        /\ Bit(i, 4096) <=> d3
        /\ Bit(i, 2048) <=> r3
    BY <1>1, IndexBits
  <1>4. y % 256 = e /\ (Bit(y, 128) <=> e7) /\ (Bit(y, 8) <=> e3)
        /\ (Bit(y, 256) <=> k)
    <2> HIDE DEF i, k
    <2>1. /\ (x % 512) % 256 = e /\ (Bit(x % 512, 128) <=> e7) /\ (Bit(x % 512, 8) <=> e3)
          /\ 256 <= x /\ x < 512 => Bit(x % 512, 256)
          /\ 0 <= x /\ x < 256 => ~Bit(x % 512, 256)
      BY <1>1, LowBits
    <2>2. Bit(x % 512, 256) <=> k
      BY <1>1, <1>2, <2>1
    <2> HIDE DEF e7, e3, e, y
    <2> QED
      BY <1>3, <2>1, <2>2
  <1>5. y \in Int
    BY <1>1, <1>3
  <1>6. d7 \in BOOLEAN /\ r7 \in BOOLEAN /\ e7 \in BOOLEAN
        /\ d3 \in BOOLEAN /\ r3 \in BOOLEAN /\ e3 \in BOOLEAN
    BY BitIsBoolean
  <1> HIDE DEF d7, r7, e7, d3, r3, e3, y
  <1>7. TableAdd8(i) = UpdateZns(y, f)
    <2> DEFINE R7 == Bit(y, 128)
               R3 == Bit(y, 8)
               D7 == Bit(i, 1024)
               S7 == Bit(i, 512)
               D3 == Bit(i, 4096)
               S3 == Bit(i, 2048)
               V == (D7 /\ S7 /\ ~R7) \/ (~D7 /\ ~S7 /\ R7)
               C == Bit(y, 256)
               H == (D3 /\ S3) \/ (S3 /\ ~R3) \/ (~R3 /\ D3)
    <2>1. TableAdd8(i) = UpdateZns(y, Flag("V", V) \cup Flag("C", C) \cup Flag("H", H))
      BY DEF TableAdd8, y
    <2>2. C \in BOOLEAN
      BY BitIsBoolean
    <2> HIDE DEF R7, R3, D7, S7, D3, S3, C
    <2>3. (V <=> v) /\ (H <=> h) /\ (C <=> k)
      BY <1>3, <1>4 DEF R7, R3, D7, S7, D3, S3, C
    <2> HIDE DEF V, H, k, v, h
    <2>4. V \in BOOLEAN /\ H \in BOOLEAN /\ k \in BOOLEAN /\ v \in BOOLEAN /\ h \in BOOLEAN
      BY DEF V, H, k, v, h
    <2>5. Flag("V", V) = Flag("V", v) /\ Flag("C", C) = Flag("C", k)
          /\ Flag("H", H) = Flag("H", h)
      BY <2>2, <2>3, <2>4, SameFlag, Zenon
    <2> QED
      BY <2>1, <2>5
  <1>8. v \in BOOLEAN /\ k \in BOOLEAN /\ h \in BOOLEAN
    OBVIOUS
  <1> DEFINE S == Signs(e7, v) \cup Flag("Z", e = 0) \cup Flag("C", k) \cup Flag("H", h)
  <1>9. flags_adc(d, r, c).flags = S
    BY DEF flags_adc, x, e, d7, r7, e7, d3, r3, e3
  <1> HIDE DEF v, k, h
  <1>10. "V" \in f <=> v
    BY <1>8, Conditions
  <1> HIDE DEF f
  <1>11. UpdateZns(y, f) = f \cup Flag("Z", e = 0) \cup Flag("N", e7) \cup Flag("S", e7 <=> ~v)
    <2> DEFINE z == e = 0
    <2>1. z \in BOOLEAN /\ (z <=> y % 256 = 0)
      BY <1>4
    <2> HIDE DEF z
    <2>2. UpdateZns(y, f) = f \cup Flag("Z", z) \cup Flag("N", e7) \cup Flag("S", e7 <=> ~v)
      BY <1>4, <1>5, <1>6, <1>8, <1>10, <2>1, ZnsAsSigns
    <2> QED
      BY <2>2 DEF z
  <1>12. UpdateZns(y, f) = S
    BY <1>11, Zenon DEF Signs, f
  <1> QED
    BY <1>7, <1>9, <1>12 DEF x

(* Subtraction; with a carry Z is only kept.                                *)
LEMMA SubTableFlags ==
  ASSUME NEW d \in Byte, NEW r \in Byte, NEW c \in {0, 1}
  PROVE  LET t == SubTable(d, r, c)
         IN  /\ t = flags_sbc(d, r, c, TRUE).flags
             /\ t \ {"Z"} = flags_sbc(d, r, c, FALSE).flags
PROOF
  <1> DEFINE x == d - r - c
             i == FutAddSubIndex(d, r, x)
             y == i % 512
             e == x % 256
             d7 == Bit(d, 128)
             r7 == Bit(r, 128)
             e7 == Bit(e, 128)
             d3 == Bit(d, 8)
             r3 == Bit(r, 8)
             e3 == Bit(e, 8)
             v == (d7 /\ ~r7 /\ ~e7) \/ (~d7 /\ r7 /\ e7)
             k == (~d7 /\ r7) \/ (r7 /\ e7) \/ (e7 /\ ~d7)
             h == (~d3 /\ r3) \/ (r3 /\ e3) \/ (e3 /\ ~d3)
             f == Flag("V", v) \cup Flag("C", k) \cup Flag("H", h)
  <1>1. x \in -256 .. 255 /\ x \in Int
    BY DEF Byte
  <1>2. k <=> x < 0
    BY DEF Bit, Byte
  <1> HIDE DEF x
  <1>3. /\ y = x % 512
        /\ Bit(i, 1024) <=> d7
        /\ Bit(i, 512) <=> r7
        /\ Bit(i, 4096) <=> d3
        /\ Bit(i, 2048) <=> r3
    BY <1>1, IndexBits
  <1>4. y % 256 = e /\ (Bit(y, 128) <=> e7) /\ (Bit(y, 8) <=> e3)
        /\ (Bit(y, 256) <=> k)
    <2> HIDE DEF i, k
    <2>1. /\ (x % 512) % 256 = e /\ (Bit(x % 512, 128) <=> e7) /\ (Bit(x % 512, 8) <=> e3)
          /\ -256 <= x /\ x < 0 => Bit(x % 512, 256)
          /\ 0 <= x /\ x < 256 => ~Bit(x % 512, 256)
      BY <1>1, LowBits
    <2>2. Bit(x % 512, 256) <=> k
      BY <1>1, <1>2, <2>1
    <2> HIDE DEF e7, e3, e, y
    <2> QED
      BY <1>3, <2>1, <2>2
  <1>5. y \in Int
    BY <1>1, <1>3
  <1>6. d7 \in BOOLEAN /\ r7 \in BOOLEAN /\ e7 \in BOOLEAN
        /\ d3 \in BOOLEAN /\ r3 \in BOOLEAN /\ e3 \in BOOLEAN
    BY BitIsBoolean
  <1> HIDE DEF d7, r7, e7, d3, r3, e3, y
  <1>7. TableSub8(i) = UpdateZns(y, f)
    <2> DEFINE R7 == Bit(y, 128)
               R3 == Bit(y, 8)
               D7 == Bit(i, 1024)
               S7 == Bit(i, 512)
               D3 == Bit(i, 4096)
               S3 == Bit(i, 2048)
               V == (D7 /\ ~S7 /\ ~R7) \/ (~D7 /\ S7 /\ R7)
               C == Bit(y, 256)
               H == (~D3 /\ S3) \/ (S3 /\ R3) \/ (R3 /\ ~D3)
    <2>1. TableSub8(i) = UpdateZns(y, Flag("V", V) \cup Flag("C", C) \cup Flag("H", H))
      BY DEF TableSub8, y
    <2>2. C \in BOOLEAN
      BY BitIsBoolean
    <2> HIDE DEF R7, R3, D7, S7, D3, S3, C
    <2>3. (V <=> v) /\ (H <=> h) /\ (C <=> k)
      BY <1>3, <1>4 DEF R7, R3, D7, S7, D3, S3, C
    <2> HIDE DEF V, H, k, v, h
    <2>4. V \in BOOLEAN /\ H \in BOOLEAN /\ k \in BOOLEAN /\ v \in BOOLEAN /\ h \in BOOLEAN
      BY DEF V, H, k, v, h
    <2>5. Flag("V", V) = Flag("V", v) /\ Flag("C", C) = Flag("C", k)
          /\ Flag("H", H) = Flag("H", h)
      BY <2>2, <2>3, <2>4, SameFlag, Zenon
    <2> QED
      BY <2>1, <2>5
  <1>8. v \in BOOLEAN /\ k \in BOOLEAN /\ h \in BOOLEAN
    OBVIOUS
  <1> DEFINE S(z) == Signs(e7, v) \cup Flag("Z", z) \cup Flag("C", k) \cup Flag("H", h)
  <1>9. \A b \in BOOLEAN : flags_sbc(d, r, c, b).flags = S(e = 0 /\ b)
    BY DEF flags_sbc, x, e, d7, r7, e7, d3, r3, e3
  <1> HIDE DEF v, k, h
  <1>10. "V" \in f <=> v
    BY <1>8, Conditions
  <1> HIDE DEF f
  <1>11. UpdateZns(y, f) = f \cup Flag("Z", e = 0) \cup Flag("N", e7) \cup Flag("S", e7 <=> ~v)
    <2> DEFINE z == e = 0
    <2>1. z \in BOOLEAN /\ (z <=> y % 256 = 0)
      BY <1>4
    <2> HIDE DEF z
    <2>2. UpdateZns(y, f) = f \cup Flag("Z", z) \cup Flag("N", e7) \cup Flag("S", e7 <=> ~v)
      BY <1>4, <1>5, <1>6, <1>8, <1>10, <2>1, ZnsAsSigns
    <2> QED
      BY <2>2 DEF z
  <1>12. UpdateZns(y, f) = S(e = 0)
    BY <1>11, Zenon DEF Signs, f
  <1>13. S(e = 0) = S(e = 0 /\ TRUE) /\ S(e = 0) \ {"Z"} = S(e = 0 /\ FALSE)
    <2>1. S(e = 0) = S(e = 0 /\ TRUE)
      <3>1. Flag("Z", e = 0) = Flag("Z", e = 0 /\ TRUE)
        BY Zenon DEF Flag
      <3> QED
        BY <3>1
    <2>2. \A g : g \in S(e = 0) /\ g # "Z" => g \in S(e = 0 /\ FALSE)
      BY DEF Flag
    <2>3. \A g : g \in S(e = 0 /\ FALSE) => g \in S(e = 0) /\ g # "Z"
      BY DEF Flag, Signs
    <2> HIDE DEF S
    <2> QED
      BY <2>1, <2>2, <2>3
  <1> HIDE DEF S
  <1> QED
    BY <1>7, <1>9, <1>12, <1>13 DEF SubTable, x

(* The instructions of one operand and the logical ones.                    *)
LEMMA LogicTable ==
  ASSUME NEW res \in Byte, NEW v \in BOOLEAN, NEW more, more \subseteq {"C"}, NEW mask
  PROVE  UpdateZns(res, more \cup Flag("V", v)) = Logic(res, v, more, mask).flags
PROOF
  <1> DEFINE f == more \cup Flag("V", v)
             n == Bit(res, 128)
             z == res = 0
  <1>1. n \in BOOLEAN /\ z \in BOOLEAN
    BY BitIsBoolean
  <1>2. "V" \in f <=> v
    BY FlagCases
  <1>3. res \in Int /\ (z <=> res % 256 = 0)
    BY DEF Byte
  <1>4. Logic(res, v, more, mask).flags = more \cup Signs(n, v) \cup Flag("Z", z)
    BY DEF Logic
  <1> HIDE DEF f, z
  <1>5. UpdateZns(res, f) = f \cup Flag("Z", z) \cup Flag("N", n) \cup Flag("S", n <=> ~v)
    BY <1>1, <1>2, <1>3, ZnsAsSigns
  <1> HIDE DEF n
  <1> QED
    BY <1>4, <1>5, Zenon DEF Signs, f

LEMMA BitopTable ==
  ASSUME NEW res \in Byte
  PROVE  /\ TableLogical(res) = flags_bitop(res).flags
         /\ TableLogical(res) \cup {"C"} = Logic(res, FALSE, {"C"}, {"C"}).flags
PROOF
  <1>1. Flag("V", FALSE) = {}
    BY DEF Flag
  <1>2. TableLogical(res) = Logic(res, FALSE, {}, {}).flags
    <2>1. {} \cup Flag("V", FALSE) = {}
      BY <1>1
    <2>2. UpdateZns(res, {} \cup Flag("V", FALSE)) = Logic(res, FALSE, {}, {}).flags
      BY LogicTable
    <2> QED
      BY <2>1, <2>2 DEF TableLogical
  <1>3. Logic(res, FALSE, {"C"}, {"C"}).flags = Logic(res, FALSE, {}, {}).flags \cup {"C"}
    BY Zenon DEF Logic
  <1> QED
    BY <1>2, <1>3 DEF flags_bitop

LEMMA CountTables ==
  ASSUME NEW d \in Byte
  PROVE  /\ TableInc((d + 1) % 256) = flags_inc(d).flags
         /\ TableDec((d - 1) % 256) = flags_dec(d).flags
PROOF
  <1>1. \A e \in Byte, v \in BOOLEAN :
          UpdateZns(e, Flag("V", v)) = Logic(e, v, {}, {}).flags
    <2> SUFFICES ASSUME NEW e \in Byte, NEW v \in BOOLEAN
                 PROVE  UpdateZns(e, Flag("V", v)) = Logic(e, v, {}, {}).flags
      OBVIOUS
    <2>1. UpdateZns(e, {} \cup Flag("V", v)) = Logic(e, v, {}, {}).flags
      BY LogicTable
    <2>2. {} \cup Flag("V", v) = Flag("V", v)
      OBVIOUS
    <2> QED
      BY <2>1, <2>2
  <1>2. /\ (d + 1) % 256 \in Byte /\ ((d + 1) % 256 = 128 <=> d = 127)
        /\ (d - 1) % 256 \in Byte /\ ((d - 1) % 256 = 127 <=> d = 128)
    BY DEF Byte
  <1>3. /\ Flag("V", (d + 1) % 256 = 128) = Flag("V", d = 127)
        /\ Flag("V", (d - 1) % 256 = 127) = Flag("V", d = 128)
    BY <1>2, SameFlag
  <1> DEFINE e == (d + 1) % 256
             g == (d - 1) % 256
             a == d = 127
             b == d = 128
  <1>4. e \in Byte /\ g \in Byte /\ a \in BOOLEAN /\ b \in BOOLEAN
    BY <1>2
  <1>5. flags_inc(d) = Logic(e, a, {}, {}) /\ flags_dec(d) = Logic(g, b, {}, {})
    BY DEF flags_inc, flags_dec
  <1>6. TableInc(e) = UpdateZns(e, Flag("V", a)) /\ TableDec(g) = UpdateZns(g, Flag("V", b))
    BY <1>3 DEF TableInc, TableDec
  <1> HIDE DEF e, g, a, b
  <1>7. /\ UpdateZns(e, Flag("V", a)) = Logic(e, a, {}, {}).flags
        /\ UpdateZns(g, Flag("V", b)) = Logic(g, b, {}, {}).flags
    BY <1>1, <1>4
  <1> QED
    BY <1>5, <1>6, <1>7 DEF e, g

(* A rotated value of 9 bits whose lowest bit is that of d.                 *)
LEMMA RorTable ==
  ASSUME NEW d \in Byte, NEW i \in 0 .. 511, i % 2 = d % 2
  PROVE  /\ i \div 2 \in Byte
         /\ TableRor8(i) = Rotated(d, i \div 2).flags
PROOF
  <1> DEFINE res == i \div 2
             c == Bit(d, 1)
             n == Bit(res, 128)
             v == n # c
  <1>1. res \in Byte
    BY DEF Byte
  <1>2. Bit(i, 1) <=> c
    BY DEF Bit, Byte
  <1> HIDE DEF res
  <1>3. c \in BOOLEAN /\ n \in BOOLEAN /\ v \in BOOLEAN /\ Bit(i, 1) \in BOOLEAN
    BY BitIsBoolean
  <1> HIDE DEF c, n
  <1>4. Bit(i, 1) = c
    BY <1>2, <1>3
  <1>5. TableRor8(i) = UpdateZns(res, Flag("C", c) \cup Flag("V", v))
    BY <1>4, Zenon DEF TableRor8, res, n
  <1>6. Rotated(d, res) = Logic(res, v, Flag("C", c), {"C"})
    BY DEF Rotated, n, c
  <1>7. Flag("C", c) \subseteq {"C"}
    BY DEF Flag
  <1> HIDE DEF v
  <1>8. UpdateZns(res, Flag("C", c) \cup Flag("V", v)) = Logic(res, v, Flag("C", c), {"C"}).flags
    BY <1>1, <1>3, <1>7, LogicTable
  <1> QED
    BY <1>1, <1>5, <1>6, <1>8 DEF res

(* ADIW and SBIW look up the high byte of their result with the table for   *)
(* bytes; what they take away from it is Z, when the low byte is not 0.     *)
WordTable(t, x) == (t \ {"H"}) \ (IF x % 65536 # 0 THEN {"Z"} ELSE {})

LEMMA WordFlags ==
  ASSUME NEW y \in Int, NEW x \in Int, y % 256 = (x \div 256) % 256,
         NEW v \in BOOLEAN, NEW c \in BOOLEAN, NEW h \in BOOLEAN
  PROVE  WordTable(UpdateZns(y, Flag("V", v) \cup Flag("C", c) \cup Flag("H", h)), x)
           = Word16(x % 65536, v, c).flags
PROOF
  <1> DEFINE f == Flag("V", v) \cup Flag("C", c) \cup Flag("H", h)
             n == Bit(x % 65536, 32768)
             b == y % 256 = 0
             z == x % 65536 = 0
  <1>1. n \in BOOLEAN /\ b \in BOOLEAN /\ z \in BOOLEAN /\ (z => b)
    BY BitIsBoolean
  <1>2. "V" \in f <=> v
    BY Conditions
  <1>3. n <=> Bit(y, 128)
    <2> DEFINE w == x % 65536
               e == y % 256
    <2>1. w \in Nat /\ w < 65536 /\ e \in 0 .. 255 /\ e = w \div 256
      OBVIOUS
    <2> HIDE DEF w
    <2>2. (Bit(y, 128) <=> e >= 128) /\ (Bit(w, 32768) <=> w >= 32768)
      BY <2>1 DEF Bit
    <2>3. w >= 32768 <=> w \div 256 >= 128
      BY <2>1
    <2> QED
      BY <2>1, <2>2, <2>3 DEF w
  <1> DEFINE m == x % 65536
             cut == IF ~z THEN {"Z"} ELSE {}
             s == n <=> ~v
             U == f \cup Flag("Z", b) \cup Flag("N", n) \cup Flag("S", s)
             W == Signs(n, v) \cup Flag("Z", z) \cup Flag("C", c)
  <1>4. Word16(m, v, c).flags = W
    BY DEF Word16
  <1>5. WordTable(UpdateZns(y, f), x) = (UpdateZns(y, f) \ {"H"}) \ cut
    BY DEF WordTable
  <1>6. b <=> y % 256 = 0
    OBVIOUS
  <1> HIDE DEF f, n, z, b, m
  <1>7. UpdateZns(y, f) = U
    BY <1>1, <1>2, <1>3, <1>6, ZnsAsSigns
  <1> HIDE DEF s
  <1>8. \A g, q, k : g \in Flag(q, k) <=> g = q /\ k
    BY DEF Flag
  <1>9. \A g : g \in U <=> \/ g \in f \/ (g = "Z" /\ b)
                             \/ (g = "N" /\ n) \/ (g = "S" /\ s)
    <2> TAKE g
    <2>1. g \in U <=> \/ g \in f \/ g \in Flag("Z", b)
                     \/ g \in Flag("N", n) \/ g \in Flag("S", s)
      OBVIOUS
    <2> HIDE DEF U
    <2> QED
      BY <1>8, <2>1
  <1>10. \A g : g \in f <=> (g = "V" /\ v) \/ (g = "C" /\ c) \/ (g = "H" /\ h)
    BY <1>8, Zenon DEF f
  <1>11. \A g : g \in W <=> \/ (g = "N" /\ n) \/ (g = "V" /\ v)
                              \/ (g = "S" /\ s) \/ (g = "Z" /\ z)
                              \/ (g = "C" /\ c)
    <2>1. W = Flag("N", n) \cup Flag("V", v) \cup Flag("S", s)
              \cup Flag("Z", z) \cup Flag("C", c)
      BY Zenon DEF Signs, s
    <2> HIDE DEF W
    <2> TAKE g
    <2>2. g \in W <=> \/ g \in Flag("N", n) \/ g \in Flag("V", v)
                     \/ g \in Flag("S", s) \/ g \in Flag("Z", z)
                     \/ g \in Flag("C", c)
      BY <2>1, Zenon
    <2> QED
      BY <1>8, <2>2
  <1>12. \A g : g \in cut <=> g = "Z" /\ ~z
    OBVIOUS
  <1> HIDE DEF U, W, cut
  <1>13. (U \ {"H"}) \ cut = W
    BY <1>1, <1>9, <1>10, <1>11, <1>12
  <1>14. WordTable(UpdateZns(y, f), x) = Word16(m, v, c).flags
    BY <1>4, <1>5, <1>7, <1>13, Zenon
  <1> QED
    BY <1>14 DEF f, m

LEMMA WordIndex ==
  ASSUME NEW w \in Nat, w < 65536, NEW x \in Int
  PROVE  LET i == FutAddSub16Index(w, x)
         IN  /\ i % 512 = (x \div 256) % 512
             /\ Bit(i, 1024) <=> Bit(w, 32768)
             /\ ~Bit(i, 512)
PROOF
  <1> DEFINE a == ((w \div 256) \div 128) % 2
             y == (x \div 256) % 512
  <1>1. a \in {0, 1} /\ y \in 0 .. 511 /\ (Bit(w, 32768) <=> a = 1)
    BY DEF Bit
  <1>2. FutAddSub16Index(w, x) = a * 1024 + y
    BY DEF FutAddSub16Index, BitValue
  <1> HIDE DEF a, y
  <1>3. /\ (a * 1024 + y) % 512 = y
        /\ Bit(a * 1024 + y, 1024) <=> a = 1
        /\ ~Bit(a * 1024 + y, 512)
    BY <1>1 DEF Bit
  <1> QED
    BY <1>1, <1>2, <1>3 DEF y

LEMMA SameWord16 ==
  ASSUME NEW res, NEW v \in BOOLEAN, NEW c \in BOOLEAN,
         NEW v2 \in BOOLEAN, NEW c2 \in BOOLEAN, v <=> v2, c <=> c2
  PROVE  Word16(res, v, c) = Word16(res, v2, c2)
PROOF
  <1>1. v = v2 /\ c = c2
    OBVIOUS
  <1> QED
    BY <1>1, Zenon

WordsAgree(w, k) ==
  /\ WordTable(TableAdd8(FutAddSub16Index(w, w + k)), w + k) = flags_adiw(w, k).flags
  /\ WordTable(TableSub8(FutAddSub16Index(w, w - k)), w - k) = flags_sbiw(w, k).flags

LEMMA WordTables ==
  ASSUME NEW w \in Nat, w < 65536, NEW k \in 0 .. 63
  PROVE  WordsAgree(w, k)
PROOF
  <1>1. ASSUME NEW x \in {w + k, w - k}
        PROVE  LET i == FutAddSub16Index(w, x)
                   y == i % 512
               IN  /\ y \in Int /\ y % 256 = (x \div 256) % 256
                   /\ Bit(y, 128) <=> Bit(x % 65536, 32768)
                   /\ Bit(y, 256) <=> x < 0 \/ x > 65535
                   /\ Bit(i, 1024) <=> Bit(w, 32768)
                   /\ ~Bit(i, 512)
    <2> DEFINE i == FutAddSub16Index(w, x)
               y == i % 512
               u == x % 65536
    <2>1. x \in Int /\ x >= -63 /\ x <= 65598
      OBVIOUS
    <2>2. y = (x \div 256) % 512 /\ (Bit(i, 1024) <=> Bit(w, 32768)) /\ ~Bit(i, 512)
      BY <2>1, WordIndex
    <2> HIDE DEF i, y
    <2>3. y \in 0 .. 511 /\ y % 256 = (x \div 256) % 256
      BY <2>1, <2>2
    <2>4. (Bit(y, 128) <=> y % 256 >= 128) /\ (Bit(y, 256) <=> y >= 256)
      BY <2>3 DEF Bit
    <2>5. y >= 256 <=> x < 0 \/ x > 65535
      BY <2>1, <2>2
    <2>6. Bit(u, 32768) <=> u >= 32768
      <3>1. u \in Nat /\ u < 65536
        BY <2>1
      <3> HIDE DEF u
      <3> QED
        BY <3>1 DEF Bit
    <2>7. u >= 32768 <=> y % 256 >= 128
      <3>1. u \in Nat /\ u < 65536 /\ u \div 256 = (x \div 256) % 256
        BY <2>1
      <3> HIDE DEF u
      <3> QED
        BY <2>3, <3>1
    <2> HIDE DEF u
    <2> QED
      BY <2>2, <2>3, <2>4, <2>5, <2>6, <2>7 DEF i, y, u
  <1>2. WordTable(TableAdd8(FutAddSub16Index(w, w + k)), w + k) = flags_adiw(w, k).flags
    <2> DEFINE x == w + k
               i == FutAddSub16Index(w, x)
               y == i % 512
               a == Bit(i, 1024)
               b == Bit(i, 512)
               n == Bit(y, 128)
               v == (a /\ b /\ ~n) \/ (~a /\ ~b /\ n)
               c == Bit(y, 256)
               p == Bit(i, 4096)
               q == Bit(i, 2048)
               u == Bit(y, 8)
               h == (p /\ q) \/ (q /\ ~u) \/ (~u /\ p)
               r15 == Bit(x % 65536, 32768)
               d15 == Bit(w, 32768)
    <2>1. /\ y \in Int /\ y % 256 = (x \div 256) % 256
          /\ n <=> r15
          /\ c <=> x < 0 \/ x > 65535
          /\ a <=> d15
          /\ ~b
      BY <1>1
    <2>2. x \in Int /\ (x < 0 \/ x > 65535 <=> ~r15 /\ d15)
      <3>1. x \in Nat /\ x <= 65598 /\ (d15 <=> w >= 32768)
        BY DEF Bit
      <3>2. r15 <=> x % 65536 >= 32768
        BY <3>1 DEF Bit
      <3> HIDE DEF r15, d15
      <3> QED
        BY <3>1, <3>2
    <2>3. TableAdd8(i) = UpdateZns(y, Flag("V", v) \cup Flag("C", c) \cup Flag("H", h))
      BY DEF TableAdd8
    <2>4. /\ v \in BOOLEAN /\ c \in BOOLEAN /\ h \in BOOLEAN
          /\ r15 \in BOOLEAN /\ d15 \in BOOLEAN
      BY BitIsBoolean
    <2>5. flags_adiw(w, k).flags = Word16(x % 65536, ~d15 /\ r15, ~r15 /\ d15).flags
      BY DEF flags_adiw
    <2> HIDE DEF i, y, h, c, n, a, b, r15, d15
    <2>6. (v <=> ~d15 /\ r15) /\ (c <=> ~r15 /\ d15)
      BY <2>1, <2>2
    <2> HIDE DEF v, x
    <2>7. Word16(x % 65536, v, c) = Word16(x % 65536, ~d15 /\ r15, ~r15 /\ d15)
      BY <2>4, <2>6, SameWord16
    <2>8. WordTable(UpdateZns(y, Flag("V", v) \cup Flag("C", c) \cup Flag("H", h)), x)
            = Word16(x % 65536, v, c).flags
      BY <2>1, <2>2, <2>4, WordFlags
    <2> QED
      BY <2>3, <2>5, <2>7, <2>8 DEF i, x
  <1>3. WordTable(TableSub8(FutAddSub16Index(w, w - k)), w - k) = flags_sbiw(w, k).flags
    <2> DEFINE x == w - k
               i == FutAddSub16Index(w, x)
               y == i % 512
               a == Bit(i, 1024)
               b == Bit(i, 512)
               n == Bit(y, 128)
               v == (a /\ ~b /\ ~n) \/ (~a /\ b /\ n)
               c == Bit(y, 256)
               p == Bit(i, 4096)
               q == Bit(i, 2048)
               u == Bit(y, 8)
               h == (~p /\ q) \/ (q /\ u) \/ (u /\ ~p)
               r15 == Bit(x % 65536, 32768)
               d15 == Bit(w, 32768)
    <2>1. /\ y \in Int /\ y % 256 = (x \div 256) % 256
          /\ n <=> r15
          /\ c <=> x < 0 \/ x > 65535
          /\ a <=> d15
          /\ ~b
      BY <1>1
    <2>2. x \in Int /\ (x < 0 \/ x > 65535 <=> r15 /\ ~d15)
      <3>1. x \in Int /\ x >= -63 /\ x <= 65535 /\ (d15 <=> w >= 32768)
        BY DEF Bit
      <3>2. r15 <=> x % 65536 >= 32768
        BY <3>1 DEF Bit
      <3> HIDE DEF r15, d15
      <3> QED
        BY <3>1, <3>2
    <2>3. TableSub8(i) = UpdateZns(y, Flag("V", v) \cup Flag("C", c) \cup Flag("H", h))
      BY DEF TableSub8
    <2>4. /\ v \in BOOLEAN /\ c \in BOOLEAN /\ h \in BOOLEAN
          /\ r15 \in BOOLEAN /\ d15 \in BOOLEAN
      BY BitIsBoolean
    <2>5. flags_sbiw(w, k).flags = Word16(x % 65536, ~r15 /\ d15, r15 /\ ~d15).flags
      BY DEF flags_sbiw
    <2> HIDE DEF i, y, h, c, n, a, b, r15, d15
    <2>6. (v <=> ~r15 /\ d15) /\ (c <=> r15 /\ ~d15)
      BY <2>1, <2>2
    <2> HIDE DEF v, x
    <2>7. Word16(x % 65536, v, c) = Word16(x % 65536, ~r15 /\ d15, r15 /\ ~d15)
      BY <2>4, <2>6, SameWord16
    <2>8. WordTable(UpdateZns(y, Flag("V", v) \cup Flag("C", c) \cup Flag("H", h)), x)
            = Word16(x % 65536, v, c).flags
      BY <2>1, <2>2, <2>4, WordFlags
    <2> QED
      BY <2>3, <2>5, <2>7, <2>8 DEF i, x
  <1> QED
    BY <1>2, <1>3 DEF WordsAgree

-----------------------------------------------------------------------------
(* The instructions                                                         *)

(* The result in one register or two, and the flags, are those of e.        *)
Result == reg'[Rd] + (IF insn.op \in RegPair THEN 256 * reg'[Rd + 1] ELSE 0)

AsTested(e) == /\ Result = e.res
               /\ sreg' = (sreg \ e.mask) \cup e.flags

LEMMA BitopIsByte ==
  ASSUME NEW x, NEW y
  PROVE  And(x, y) \in Byte /\ Or(x, y) \in Byte /\ Eor(x, y) \in Byte
PROOF
  <1>1. \A bs : Number(bs) \in Byte
    BY DEF Number, Byte
  <1> QED
    BY <1>1 DEF And, Or, Eor

LEMMA OneByteResult ==
  ASSUME TypeOK, insn.op \notin RegPair, NEW v \in Int, PutReg(Rd, v)
  PROVE  Result = v % 256
PROOF
  <1>1. v % 256 \in Int
    OBVIOUS
  <1>2. reg'[Rd] = v % 256
    BY Operand DEF TypeOK, PutReg
  <1> QED
    BY <1>1, <1>2 DEF Result

LEMMA TwoByteResult ==
  ASSUME TypeOK, insn.op \in RegPair, NEW v \in Int, PutWordReg(Rd, v)
  PROVE  Result = v % 65536
PROOF
  <1> DEFINE lo == v % 256
             hi == (v \div 256) % 256
  <1>1. Rd \in Regs /\ Rd + 1 \in Regs /\ Rd \in Int
    <2>1. Rd \in Regs /\ Rd + 1 \in Regs
      BY Operand
    <2>2. \A r \in Regs : r \in Int
      BY RegsAssumption
    <2> QED
      BY <2>1, <2>2
  <1>2. reg' = [reg EXCEPT ![Rd] = lo, ![Rd + 1] = hi]
    BY DEF PutWordReg
  <1> HIDE DEF lo, hi
  <1>3. reg'[Rd] = lo /\ reg'[Rd + 1] = hi
    BY <1>1, <1>2 DEF TypeOK
  <1>4. lo + 256 * hi = v % 65536
    BY DEF lo, hi
  <1> QED
    BY <1>3, <1>4 DEF Result

LEMMA AddTested ==
  ASSUME TypeOK, insn.op \notin RegPair, NEW c \in {0, 1}, DoAddition8(Rd, Rr, c)
  PROVE  AsTested(flags_adc(D, R, c))
PROOF
  <1>1. D \in Byte /\ R \in Byte
    BY Operand
  <1>2. PutReg(Rd, D + R + c) /\ D + R + c \in Int
    BY <1>1, ByteSum DEF DoAddition8, D, R
  <1>3. UpdateFlags(Arith, flags_adc(D, R, c).flags)
    BY <1>1, AddTable DEF DoAddition8, D, R
  <1>4. /\ flags_adc(D, R, c).res = (D + R + c) % 256
        /\ flags_adc(D, R, c).mask = Arith
    BY DEF flags_adc
  <1> QED
    BY <1>2, <1>3, <1>4, OneByteResult DEF AsTested, UpdateFlags

LEMMA SubTested ==
  ASSUME TypeOK, insn.op \notin RegPair, NEW v1 \in Byte, NEW v2 \in Byte,
         NEW c \in {0, 1}, NEW u \in BOOLEAN, DoSubtraction8(Rd, v1, v2, c, u, TRUE)
  PROVE  AsTested(flags_sbc(v1, v2, c, u => "Z" \in sreg))
PROOF
  <1> DEFINE z == u => "Z" \in sreg
             t == SubTable(v1, v2, c)
  <1>1. PutReg(Rd, v1 - v2 - c) /\ v1 - v2 - c \in Int
    BY DEF DoSubtraction8, Byte
  <1>2. UpdateFlags(Arith, IF z THEN t ELSE t \ {"Z"})
    BY DEF DoSubtraction8, SubTable
  <1>3. t = flags_sbc(v1, v2, c, TRUE).flags /\ t \ {"Z"} = flags_sbc(v1, v2, c, FALSE).flags
    BY SubTableFlags
  <1> HIDE DEF t
  <1>4. z \in BOOLEAN
    OBVIOUS
  <1> HIDE DEF z
  <1>5. UpdateFlags(Arith, flags_sbc(v1, v2, c, z).flags)
    <2>1. CASE z = TRUE
      BY <1>2, <1>3, <2>1
    <2>2. CASE z = FALSE
      BY <1>2, <1>3, <2>2
    <2> QED
      BY <1>4, <2>1, <2>2
  <1>6. /\ flags_sbc(v1, v2, c, z).res = (v1 - v2 - c) % 256
        /\ flags_sbc(v1, v2, c, z).mask = Arith
    BY DEF flags_sbc
  <1> QED
    BY <1>1, <1>5, <1>6, OneByteResult DEF AsTested, UpdateFlags, z

(* NEG is a subtraction from 0.                                             *)
LEMMA NegFlags ==
  ASSUME NEW d \in Byte
  PROVE  flags_neg(d) = flags_sbc(0, d, 0, TRUE)
PROOF
  <1> DEFINE e == (256 - d) % 256
             e7 == Bit(e, 128)
             e3 == Bit(e, 8)
             d7 == Bit(d, 128)
             d3 == Bit(d, 8)
             z7 == Bit(0, 128)
             z3 == Bit(0, 8)
             v == (z7 /\ ~d7 /\ ~e7) \/ (~z7 /\ d7 /\ e7)
             c == (~z7 /\ d7) \/ (d7 /\ e7) \/ (e7 /\ ~z7)
             h == (~z3 /\ d3) \/ (d3 /\ e3) \/ (e3 /\ ~z3)
  <1>1. (0 - d - 0) % 256 = e
    BY DEF Byte
  <1>2. ~z7 /\ ~z3
    BY DEF Bit
  <1>3. (v <=> e = 128) /\ (c <=> e # 0)
    <2>1. (e7 <=> e >= 128) /\ (d7 <=> d >= 128)
      BY DEF Bit, Byte
    <2>2. (d >= 128 /\ e >= 128 <=> e = 128) /\ (d >= 128 \/ e >= 128 <=> e # 0)
      BY DEF Byte
    <2> HIDE DEF e7, d7, z7, e
    <2> QED
      BY <1>2, <2>1, <2>2
  <1>4. h <=> e3 \/ d3
    BY <1>2
  <1>5. flags_sbc(0, d, 0, TRUE) =
          [res |-> e, mask |-> Arith,
           flags |-> Signs(e7, v) \cup Flag("Z", e = 0 /\ TRUE) \cup Flag("C", c)
                     \cup Flag("H", h)]
    <2> DEFINE w == (0 - d - 0) % 256
               F(x) == [res |-> x, mask |-> Arith,
                        flags |-> Signs(Bit(x, 128), (z7 /\ ~d7 /\ ~Bit(x, 128))
                                                     \/ (~z7 /\ d7 /\ Bit(x, 128)))
                                  \cup Flag("Z", x = 0 /\ TRUE)
                                  \cup Flag("C", (~z7 /\ d7) \/ (d7 /\ Bit(x, 128))
                                                 \/ (Bit(x, 128) /\ ~z7))
                                  \cup Flag("H", (~z3 /\ d3) \/ (d3 /\ Bit(x, 8))
                                                 \/ (Bit(x, 8) /\ ~z3))]
    <2>1. flags_sbc(0, d, 0, TRUE) = F(w)
      BY DEF flags_sbc
    <2>2. F(w) = F(e)
      <3> HIDE DEF F
      <3> QED
        BY <1>1
    <2> QED
      BY <2>1, <2>2, ZenonT(40)
  <1>6. flags_neg(d) =
          [res |-> e, mask |-> Arith,
           flags |-> Signs(e7, e = 128) \cup Flag("Z", e = 0) \cup Flag("C", e # 0)
                     \cup Flag("H", e3 \/ d3)]
    BY DEF flags_neg
  <1>7. e7 \in BOOLEAN /\ e3 \in BOOLEAN /\ d3 \in BOOLEAN
    BY BitIsBoolean
  <1>8. Signs(e7, v) = Signs(e7, e = 128)
    <2>1. v = (e = 128)
      BY <1>3
    <2> QED
      BY <2>1, Zenon
  <1>9. /\ Flag("C", c) = Flag("C", e # 0)
        /\ Flag("H", h) = Flag("H", e3 \/ d3)
        /\ Flag("Z", e = 0 /\ TRUE) = Flag("Z", e = 0)
    <2> HIDE DEF e3, d3, e, e7
    <2>1. c \in BOOLEAN /\ h \in BOOLEAN
      OBVIOUS
    <2> HIDE DEF c, h
    <2> QED
      BY <1>3, <1>4, <1>7, <2>1, SameFlag
  <1> HIDE DEF e, e7, e3, d3, v, c, h
  <1> QED
    BY <1>5, <1>6, <1>8, <1>9

LEMMA LogicTested ==
  ASSUME TypeOK, insn.op \notin RegPair, NEW v \in Int, PutReg(Rd, v),
         NEW res, res = v % 256, NEW o, NEW more, NEW mask,
         UpdateFlags(Logical \cup mask, Logic(res, o, more, mask).flags)
  PROVE  AsTested(Logic(res, o, more, mask))
PROOF
  <1>1. Logic(res, o, more, mask).res = res /\ Logic(res, o, more, mask).mask = Logical \cup mask
    BY DEF Logic
  <1>2. Result = res
    BY OneByteResult
  <1> QED
    BY <1>1, <1>2 DEF AsTested, UpdateFlags

(* Which part of Execute an instruction takes.                              *)
LEMMA ExecutedBytes ==
  ASSUME Execute
  PROVE  /\ Is("ADD") => DoAddition8(Rd, Rr, 0)
         /\ Is("ADC") => DoAddition8(Rd, Rr, GetCarry)
         /\ Is("SUB") => DoSubtraction8(Rd, D, R, 0, FALSE, TRUE)
         /\ Is("SBC") => DoSubtraction8(Rd, D, R, GetCarry, TRUE, TRUE)
         /\ Is("NEG") => DoSubtraction8(Rd, 0, D, 0, FALSE, TRUE)
         /\ Is("AND") => StoreLogicalResult(Rd, And(D, R))
         /\ Is("OR")  => StoreLogicalResult(Rd, Or(D, R))
         /\ Is("EOR") => StoreLogicalResult(Rd, Eor(D, R))
         /\ Is("COM") => /\ PutReg(Rd, 255 - D)
                         /\ UpdateFlags(Logical \cup {"C"}, TableLogical(255 - D) \cup {"C"})
         /\ Is("ROR") => RotateRight(Rd, D + 256 * GetCarry)
         /\ Is("ASR") => RotateRight(Rd, Int8(D) % 512)
         /\ Is("INC") => /\ PutReg(Rd, D + 1)
                         /\ UpdateFlags(Logical, TableInc((D + 1) % 256))
         /\ Is("DEC") => /\ PutReg(Rd, D - 1)
                         /\ UpdateFlags(Logical, TableDec((D - 1) % 256))
PROOF
  <1>1. ASSUME Is("ADD") \/ Is("ADC") PROVE Additions
    BY <1>1 DEF Execute, Additions, Compares, Subtractions, SubtractionsOfK, Neg,
           Logicals, Lsr, Ror, Asr, Counts, Multiplications,
           Words, Moves, FlagMoves, Is
  <1>2. ASSUME Is("SUB") \/ Is("SBC") \/ Is("NEG") PROVE Subtractions \/ Neg
    BY <1>2 DEF Execute, Additions, Compares, Subtractions, SubtractionsOfK, Neg,
           Logicals, Lsr, Ror, Asr, Counts, Multiplications,
           Words, Moves, FlagMoves, Is
  <1>3. ASSUME Is("AND") \/ Is("OR") \/ Is("EOR") \/ Is("COM") PROVE Logicals
    BY <1>3 DEF Execute, Additions, Compares, Subtractions, SubtractionsOfK, Neg,
           Logicals, Lsr, Ror, Asr, Counts, Multiplications,
           Words, Moves, FlagMoves, Is
  <1>4. ASSUME Is("ROR") \/ Is("ASR") PROVE Ror \/ Asr
    BY <1>4 DEF Execute, Additions, Compares, Subtractions, SubtractionsOfK, Neg,
           Logicals, Lsr, Ror, Asr, Counts, Multiplications,
           Words, Moves, FlagMoves, Is
  <1>5. ASSUME Is("INC") \/ Is("DEC") PROVE Counts
    BY <1>5 DEF Execute, Additions, Compares, Subtractions, SubtractionsOfK, Neg,
           Logicals, Lsr, Ror, Asr, Counts, Multiplications,
           Words, Moves, FlagMoves, Is
  <1>6. /\ Is("ADD") => DoAddition8(Rd, Rr, 0)
        /\ Is("ADC") => DoAddition8(Rd, Rr, GetCarry)
    BY <1>1 DEF Additions, Is
  <1>7. /\ Is("SUB") => DoSubtraction8(Rd, D, R, 0, FALSE, TRUE)
        /\ Is("SBC") => DoSubtraction8(Rd, D, R, GetCarry, TRUE, TRUE)
        /\ Is("NEG") => DoSubtraction8(Rd, 0, D, 0, FALSE, TRUE)
    BY <1>2 DEF Subtractions, Neg, Is
  <1>8. /\ Is("AND") => StoreLogicalResult(Rd, And(D, R))
        /\ Is("OR")  => StoreLogicalResult(Rd, Or(D, R))
        /\ Is("EOR") => StoreLogicalResult(Rd, Eor(D, R))
        /\ Is("COM") => /\ PutReg(Rd, 255 - D)
                        /\ UpdateFlags(Logical \cup {"C"}, TableLogical(255 - D) \cup {"C"})
    BY <1>3 DEF Logicals, Is
  <1>9. /\ Is("ROR") => RotateRight(Rd, D + 256 * GetCarry)
        /\ Is("ASR") => RotateRight(Rd, Int8(D) % 512)
    BY <1>4 DEF Ror, Asr, Is
  <1>10. /\ Is("INC") => /\ PutReg(Rd, D + 1)
                         /\ UpdateFlags(Logical, TableInc((D + 1) % 256))
         /\ Is("DEC") => /\ PutReg(Rd, D - 1)
                         /\ UpdateFlags(Logical, TableDec((D - 1) % 256))
    BY <1>5 DEF Counts, Is
  <1> QED
    BY <1>6, <1>7, <1>8, <1>9, <1>10

LEMMA ExecutedWords ==
  ASSUME Execute
  PROVE  /\ Is("ADIW") => /\ PutWordReg(Rd, Word(Rd) + K)
                          /\ UpdateFlags(Logical \cup {"C"},
                               WordTable(TableAdd8(FutAddSub16Index(Word(Rd), Word(Rd) + K)),
                                         Word(Rd) + K))
         /\ Is("SBIW") => /\ PutWordReg(Rd, Word(Rd) - K)
                          /\ UpdateFlags(Logical \cup {"C"},
                               WordTable(TableSub8(FutAddSub16Index(Word(Rd), Word(Rd) - K)),
                                         Word(Rd) - K))
PROOF
  <1>1. /\ Is("ADIW") => DoAddSubWord(Rd, Word(Rd) + K,
                            TableAdd8(FutAddSub16Index(Word(Rd), Word(Rd) + K)))
        /\ Is("SBIW") => DoAddSubWord(Rd, Word(Rd) - K,
                            TableSub8(FutAddSub16Index(Word(Rd), Word(Rd) - K)))
    BY DEF Execute, Additions, Compares, Subtractions, SubtractionsOfK, Neg,
       Logicals, Lsr, Ror, Asr, Counts, Multiplications,
       Words, Moves, FlagMoves, Is
  <1>2. ASSUME NEW v, NEW t, DoAddSubWord(Rd, v, t)
        PROVE  PutWordReg(Rd, v) /\ UpdateFlags(Logical \cup {"C"}, WordTable(t, v))
    BY <1>2 DEF DoAddSubWord, WordTable
  <1> QED
    BY <1>1, <1>2

LEMMA BytesTested ==
  ASSUME TypeOK, Execute
  PROVE  /\ Is("ADD") => AsTested(flags_add(D, R))
         /\ Is("ADC") => AsTested(flags_adc(D, R, GetCarry))
         /\ Is("SUB") => AsTested(flags_sub(D, R))
         /\ Is("SBC") => AsTested(flags_sbc(D, R, GetCarry, "Z" \in sreg))
         /\ Is("NEG") => AsTested(flags_neg(D))
PROOF
  <1>1. D \in Byte /\ R \in Byte /\ 0 \in Byte /\ GetCarry \in {0, 1} /\ 0 \in {0, 1}
    BY Operand DEF Byte
  <1>2. \A o \in {"ADD", "ADC", "SUB", "SBC", "NEG"} : Is(o) => insn.op \notin RegPair
    BY DEF Is, RegPair
  <1>3. /\ (FALSE => "Z" \in sreg) = TRUE
        /\ (TRUE => "Z" \in sreg) = ("Z" \in sreg)
    OBVIOUS
  <1>4. /\ Is("ADD") => AsTested(flags_add(D, R))
        /\ Is("ADC") => AsTested(flags_adc(D, R, GetCarry))
    BY <1>1, <1>2, ExecutedBytes, AddTested DEF flags_add
  <1>5. Is("SUB") => AsTested(flags_sub(D, R))
    BY <1>1, <1>2, <1>3, ExecutedBytes, SubTested DEF flags_sub
  <1>6. Is("SBC") => AsTested(flags_sbc(D, R, GetCarry, "Z" \in sreg))
    BY <1>1, <1>2, <1>3, ExecutedBytes, SubTested
  <1>7. Is("NEG") => AsTested(flags_neg(D))
    BY <1>1, <1>2, <1>3, ExecutedBytes, SubTested, NegFlags
  <1> QED
    BY <1>4, <1>5, <1>6, <1>7

LEMMA BitopsTested ==
  ASSUME TypeOK, insn.op \notin RegPair, NEW v \in Byte, StoreLogicalResult(Rd, v)
  PROVE  AsTested(flags_bitop(v))
PROOF
  <1>1. v \in Int /\ v = v % 256
    BY DEF Byte
  <1>2. UpdateFlags(Logical \cup {}, Logic(v, FALSE, {}, {}).flags)
    BY BitopTable DEF StoreLogicalResult, flags_bitop, UpdateFlags
  <1> QED
    BY <1>1, <1>2, LogicTested DEF StoreLogicalResult, flags_bitop

LEMMA LogicalsTested ==
  ASSUME TypeOK, Execute
  PROVE  /\ Is("AND") => AsTested(flags_bitop(And(D, R)))
         /\ Is("EOR") => AsTested(flags_bitop(Eor(D, R)))
         /\ Is("OR")  => AsTested(flags_bitop(Or(D, R)))
         /\ Is("COM") => AsTested(flags_com(D))
         /\ Is("INC") => AsTested(flags_inc(D))
         /\ Is("DEC") => AsTested(flags_dec(D))
PROOF
  <1>1. D \in Byte /\ R \in Byte
    BY Operand
  <1>2. \A o \in {"AND", "EOR", "OR", "COM", "INC", "DEC"} : Is(o) => insn.op \notin RegPair
    BY DEF Is, RegPair
  <1>3. /\ Is("AND") => AsTested(flags_bitop(And(D, R)))
        /\ Is("EOR") => AsTested(flags_bitop(Eor(D, R)))
        /\ Is("OR")  => AsTested(flags_bitop(Or(D, R)))
    BY <1>2, BitopIsByte, BitopsTested, ExecutedBytes
  <1>4. ASSUME Is("COM") PROVE AsTested(flags_com(D))
    <2> DEFINE e == 255 - D
    <2>1. e \in Int /\ e \in Byte /\ e = e % 256
      BY <1>1 DEF Byte
    <2>2. PutReg(Rd, e) /\ UpdateFlags(Logical \cup {"C"}, TableLogical(e) \cup {"C"})
      BY <1>4, ExecutedBytes
    <2>3. flags_com(D) = Logic(e, FALSE, {"C"}, {"C"})
      BY DEF flags_com
    <2> HIDE DEF e
    <2>4. UpdateFlags(Logical \cup {"C"}, Logic(e, FALSE, {"C"}, {"C"}).flags)
      BY <2>1, <2>2, BitopTable
    <2> QED
      BY <1>2, <1>4, <2>1, <2>2, <2>3, <2>4, LogicTested, ZenonT(40)
  <1>5. Logical \cup {} = Logical
    OBVIOUS
  <1>6. ASSUME Is("INC") PROVE AsTested(flags_inc(D))
    <2> DEFINE x == D + 1
               o == D = 127
    <2>1. x \in Int
      BY <1>1 DEF Byte
    <2>2. PutReg(Rd, x) /\ UpdateFlags(Logical \cup {}, TableInc(x % 256))
      BY <1>5, <1>6, ExecutedBytes
    <2>3. TableInc(x % 256) = flags_inc(D).flags
      BY <1>1, CountTables
    <2>4. flags_inc(D) = Logic(x % 256, o, {}, {})
      BY DEF flags_inc
    <2> HIDE DEF x, o
    <2> QED
      BY <1>2, <1>6, <2>1, <2>2, <2>3, <2>4, LogicTested
  <1>7. ASSUME Is("DEC") PROVE AsTested(flags_dec(D))
    <2> DEFINE x == D - 1
               o == D = 128
    <2>1. x \in Int
      BY <1>1 DEF Byte
    <2>2. PutReg(Rd, x) /\ UpdateFlags(Logical \cup {}, TableDec(x % 256))
      BY <1>5, <1>7, ExecutedBytes
    <2>3. TableDec(x % 256) = flags_dec(D).flags
      BY <1>1, CountTables
    <2>4. flags_dec(D) = Logic(x % 256, o, {}, {})
      BY DEF flags_dec
    <2> HIDE DEF x, o
    <2> QED
      BY <1>2, <1>7, <2>1, <2>2, <2>3, <2>4, LogicTested
  <1> QED
    BY <1>3, <1>4, <1>6, <1>7

LEMMA RotateTested ==
  ASSUME TypeOK, insn.op \notin RegPair, NEW i \in 0 .. 511, i % 2 = D % 2,
         RotateRight(Rd, i)
  PROVE  AsTested(Rotated(D, i \div 2))
PROOF
  <1> DEFINE res == i \div 2
             o == Bit(res, 128) # Bit(D, 1)
             c == Flag("C", Bit(D, 1))
  <1>1. D \in Byte
    BY Operand
  <1>2. res \in Byte /\ TableRor8(i) = Rotated(D, res).flags
    BY <1>1, RorTable
  <1>3. PutReg(Rd, res) /\ UpdateFlags(Logical \cup {"C"}, TableRor8(i))
    BY DEF RotateRight
  <1>4. Rotated(D, res) = Logic(res, o, c, {"C"})
    BY DEF Rotated
  <1> HIDE DEF res, o, c
  <1>5. res \in Int /\ res = res % 256
    BY <1>2 DEF Byte
  <1>6. AsTested(Logic(res, o, c, {"C"}))
    BY <1>2, <1>3, <1>4, <1>5, LogicTested
  <1> QED
    BY <1>4, <1>6 DEF res

LEMMA ShiftsTested ==
  ASSUME TypeOK, Execute
  PROVE  /\ Is("ASR") => AsTested(flags_asr(D))
         /\ Is("ROR") => AsTested(flags_ror(D, GetCarry))
PROOF
  <1>1. D \in Byte /\ GetCarry \in {0, 1}
    BY Operand
  <1>2. \A o \in {"ASR", "ROR"} : Is(o) => insn.op \notin RegPair
    BY DEF Is, RegPair
  <1>3. ASSUME Is("ASR") PROVE AsTested(flags_asr(D))
    <2> DEFINE i == Int8(D) % 512
    <2>1. i \in 0 .. 511 /\ i % 2 = D % 2 /\ i \div 2 = D \div 2 + BitValue(D, 128)
      BY <1>1 DEF Int8, BitValue, Byte
    <2>2. RotateRight(Rd, i)
      BY <1>3, ExecutedBytes
    <2> HIDE DEF i
    <2> QED
      BY <1>2, <1>3, <2>1, <2>2, RotateTested DEF flags_asr
  <1>4. ASSUME Is("ROR") PROVE AsTested(flags_ror(D, GetCarry))
    <2> DEFINE i == D + 256 * GetCarry
    <2>1. i \in 0 .. 511 /\ i % 2 = D % 2
      BY <1>1 DEF Byte
    <2>2. RotateRight(Rd, i) /\ flags_ror(D, GetCarry) = Rotated(D, i \div 2)
      BY <1>4, ExecutedBytes DEF flags_ror
    <2> HIDE DEF i
    <2> QED
      BY <1>2, <1>4, <2>1, <2>2, RotateTested
  <1> QED
    BY <1>3, <1>4

LEMMA WordOperand ==
  ASSUME TypeOK, Is("ADIW") \/ Is("SBIW")
  PROVE  Word(Rd) \in Nat /\ Word(Rd) < 65536 /\ K \in 0 .. 63 /\ insn.op \in RegPair
PROOF
  <1>1. insn.op \in RegPair
    BY DEF Is, RegPair
  <1>2. Rd \in Regs /\ Rd + 1 \in Regs /\ K \in Byte
    BY <1>1, Operand
  <1>3. reg[Rd] \in Byte /\ reg[Rd + 1] \in Byte
    BY <1>2 DEF TypeOK
  <1>4. \A a, b \in Byte : a + 256 * b \in Nat /\ a + 256 * b < 65536
    BY DEF Byte
  <1>5. Word(Rd) \in Nat /\ Word(Rd) < 65536
    BY <1>3, <1>4 DEF Word
  <1>6. K <= 63
    BY InsnsAssumption DEF TypeOK, Is, K
  <1>7. K \in 0 .. 63
    BY <1>2, <1>6 DEF Byte
  <1> QED
    BY <1>1, <1>5, <1>7

LEMMA WordsTested ==
  ASSUME TypeOK, Execute
  PROVE  /\ Is("ADIW") => AsTested(flags_adiw(Word(Rd), K))
         /\ Is("SBIW") => AsTested(flags_sbiw(Word(Rd), K))
PROOF
  <1>1. ASSUME NEW x \in Int, NEW v, NEW c, insn.op \in RegPair, PutWordReg(Rd, x),
               UpdateFlags(Logical \cup {"C"}, Word16(x % 65536, v, c).flags)
        PROVE  AsTested(Word16(x % 65536, v, c))
    <2> DEFINE e == x % 65536
    <2>1. Word16(e, v, c).res = e /\ Word16(e, v, c).mask = Logical \cup {"C"}
      BY DEF Word16
    <2>2. Result = e
      BY <1>1, TwoByteResult
    <2> HIDE DEF e
    <2> QED
      BY <1>1, <2>1, <2>2 DEF AsTested, UpdateFlags, e
  <1>2. ASSUME Is("ADIW") PROVE AsTested(flags_adiw(Word(Rd), K))
    <2> DEFINE w == Word(Rd)
               x == w + K
               v == ~Bit(w, 32768) /\ Bit(x % 65536, 32768)
               c == ~Bit(x % 65536, 32768) /\ Bit(w, 32768)
    <2>1. x \in Int /\ insn.op \in RegPair
      BY <1>2, WordOperand
    <2>2. UpdateFlags(Logical \cup {"C"}, flags_adiw(w, K).flags) /\ PutWordReg(Rd, x)
      <3>1. WordTable(TableAdd8(FutAddSub16Index(w, x)), x) = flags_adiw(w, K).flags
        <4>1. w \in Nat /\ w < 65536 /\ K \in 0 .. 63
          BY <1>2, WordOperand
        <4>2. WordsAgree(w, K)
          <5> HIDE DEF w
          <5> QED
            BY <4>1, WordTables
        <4> QED
          BY <4>2 DEF WordsAgree
      <3>2. /\ PutWordReg(Rd, x)
            /\ UpdateFlags(Logical \cup {"C"}, WordTable(TableAdd8(FutAddSub16Index(w, x)), x))
        BY <1>2, ExecutedWords
      <3> HIDE DEF w, x
      <3> QED
        BY <3>1, <3>2
    <2>3. flags_adiw(w, K) = Word16(x % 65536, v, c)
      BY DEF flags_adiw
    <2> HIDE DEF x, v, c
    <2> QED
      BY <1>1, <2>1, <2>2, <2>3
  <1>3. ASSUME Is("SBIW") PROVE AsTested(flags_sbiw(Word(Rd), K))
    <2> DEFINE w == Word(Rd)
               x == w - K
               v == ~Bit(x % 65536, 32768) /\ Bit(w, 32768)
               c == Bit(x % 65536, 32768) /\ ~Bit(w, 32768)
    <2>1. x \in Int /\ insn.op \in RegPair
      BY <1>3, WordOperand
    <2>2. UpdateFlags(Logical \cup {"C"}, flags_sbiw(w, K).flags) /\ PutWordReg(Rd, x)
      <3>1. WordTable(TableSub8(FutAddSub16Index(w, x)), x) = flags_sbiw(w, K).flags
        <4>1. w \in Nat /\ w < 65536 /\ K \in 0 .. 63
          BY <1>3, WordOperand
        <4>2. WordsAgree(w, K)
          <5> HIDE DEF w
          <5> QED
            BY <4>1, WordTables
        <4> QED
          BY <4>2 DEF WordsAgree
      <3>2. /\ PutWordReg(Rd, x)
            /\ UpdateFlags(Logical \cup {"C"}, WordTable(TableSub8(FutAddSub16Index(w, x)), x))
        BY <1>3, ExecutedWords
      <3> HIDE DEF w, x
      <3> QED
        BY <3>1, <3>2
    <2>3. flags_sbiw(w, K) = Word16(x % 65536, v, c)
      BY DEF flags_sbiw
    <2> HIDE DEF x, v, c
    <2> QED
      BY <1>1, <2>1, <2>2, <2>3
  <1> QED
    BY <1>2, <1>3

LEMMA AllTested ==
  ASSUME TypeOK, Execute, insn.op \in Tested
  PROVE  AsTested(Expected)
PROOF
  <1>1. CASE insn.op \in {"ADD", "ADC", "SUB", "SBC", "NEG"}
    BY <1>1, BytesTested DEF Expected, Is
  <1>2. CASE insn.op \in {"AND", "EOR", "OR", "COM", "INC", "DEC"}
    BY <1>2, LogicalsTested DEF Expected, Is
  <1>3. CASE insn.op \in {"ASR", "ROR"}
    BY <1>3, ShiftsTested DEF Expected, Is
  <1>4. CASE insn.op \in {"ADIW", "SBIW"}
    BY <1>4, WordsTested DEF Expected, Is
  <1> QED
    BY <1>1, <1>2, <1>3, <1>4 DEF Tested

(* The tables give the result and the flags of tests/sreg for each of the   *)
(* fifteen instructions, all operands and every SREG.                       *)
THEOREM TablesAreRight == HSpec => FlagsAsTested
PROOF
  <1>1. TypeOK /\ [HNext]_hvars =>
          [insn.op \in Tested =>
             /\ reg'[Rd] + (IF insn.op \in RegPair THEN 256 * reg'[Rd + 1] ELSE 0)
                  = Expected.res
             /\ sreg' = (sreg \ Expected.mask) \cup Expected.flags]_hvars
    <2> SUFFICES ASSUME TypeOK, HNext, insn.op \in Tested
                 PROVE  /\ Result = Expected.res
                        /\ sreg' = (sreg \ Expected.mask) \cup Expected.flags
      BY DEF Result
    <2>1. Execute
      BY DEF HNext, Next, Step
    <2> QED
      BY <2>1, AllTested DEF AsTested
  <1> QED
    BY <1>1, TypeCorrect, PTL DEF HSpec, FlagsAsTested

-----------------------------------------------------------------------------
(* Multiplications                                                          *)

(* No two factors have the one product, 0x8000, of which a fractional       *)
(* multiplication would leave 0 in R1:R0 without Z.                         *)
Factors(a, b) ==
  \/ a \in Byte /\ b \in Byte
  \/ a \in -128 .. 127 /\ b \in -128 .. 127
  \/ a \in -128 .. 127 /\ b \in Byte

LEMMA ProductOfFactors ==
  ASSUME NEW a, NEW b, Factors(a, b)
  PROVE  /\ a * b \in Int
         /\ (a * b) % 65536 \in Nat /\ (a * b) % 65536 < 65536
         /\ (a * b) % 65536 # 32768
PROOF
  <1>1. a * b \in Int /\ a * b > -32768 /\ a * b < 65536 /\ a * b # 32768
    <2>1. CASE a \in Byte /\ b \in Byte
      BY <2>1, SMTT(60) DEF Byte
    <2>2. CASE a \in -128 .. 127 /\ b \in -128 .. 127
      BY <2>2, SMTT(60)
    <2>3. CASE a \in -128 .. 127 /\ b \in Byte
      BY <2>3, SMTT(60) DEF Byte
    <2> QED
      BY <2>1, <2>2, <2>3 DEF Factors
  <1> DEFINE p == a * b
  <1> HIDE DEF p
  <1>2. p \in Int /\ p > -32768 /\ p < 65536 /\ p # 32768
    BY <1>1 DEF p
  <1>3. p % 65536 \in Nat /\ p % 65536 < 65536 /\ p % 65536 # 32768
    BY <1>2
  <1> QED
    BY <1>2, <1>3 DEF p

LEMMA FactorsOfProducts ==
  ASSUME TypeOK, Execute, insn.op \in Products
  PROVE  /\ Factors(LeftFactor, RightFactor)
         /\ DoMultiply(LeftFactor, RightFactor,
                       IF insn.op \in {"FMUL", "FMULS", "FMULSU"} THEN 2 ELSE 1)
PROOF
  <1>1. D \in Byte /\ R \in Byte
    BY Operand
  <1>2. Int8(D) \in -128 .. 127 /\ Int8(R) \in -128 .. 127
    BY <1>1 DEF Int8, Byte
  <1>3. Multiplications
    BY DEF Execute, Products, Additions, Compares, Subtractions, SubtractionsOfK, Neg,
           Logicals, Lsr, Ror, Asr, Counts, Words,
           Moves, FlagMoves, Is
  <1> DEFINE s == IF insn.op \in {"FMUL", "FMULS", "FMULSU"} THEN 2 ELSE 1
  <1>4. CASE Is("MUL") \/ Is("FMUL")
    <2>1. LeftFactor = D /\ RightFactor = R
      BY <1>4 DEF LeftFactor, RightFactor, Is
    <2>2. DoMultiply(D, R, s)
      BY <1>3, <1>4 DEF Multiplications, Is
    <2> QED
      BY <1>1, <2>1, <2>2 DEF Factors
  <1>5. CASE Is("MULS") \/ Is("FMULS")
    <2>1. LeftFactor = Int8(D) /\ RightFactor = Int8(R)
      BY <1>5 DEF LeftFactor, RightFactor, Is
    <2>2. DoMultiply(Int8(D), Int8(R), s)
      BY <1>3, <1>5 DEF Multiplications, Is
    <2> QED
      BY <1>2, <2>1, <2>2 DEF Factors
  <1>6. CASE Is("MULSU") \/ Is("FMULSU")
    <2>1. LeftFactor = Int8(D) /\ RightFactor = R
      BY <1>6 DEF LeftFactor, RightFactor, Is
    <2>2. DoMultiply(Int8(D), R, s)
      BY <1>3, <1>6 DEF Multiplications, Is
    <2> QED
      BY <1>1, <1>2, <2>1, <2>2 DEF Factors
  <1> QED
    BY <1>4, <1>5, <1>6 DEF Products, Is

LEMMA ProductWord ==
  ASSUME TypeOK, NEW v \in Int, PutWordReg(0, v)
  PROVE  reg'[0] + 256 * reg'[1] = v % 65536
PROOF
  <1> DEFINE lo == v % 256
             hi == (v \div 256) % 256
  <1>1. 0 \in Regs /\ 1 \in Regs
    BY RegsAssumption
  <1>2. reg' = [reg EXCEPT ![0] = lo, ![1] = hi]
    BY DEF PutWordReg
  <1> HIDE DEF lo, hi
  <1>3. reg'[0] = lo /\ reg'[1] = hi
    BY <1>1, <1>2 DEF TypeOK
  <1>4. lo + 256 * hi = v % 65536
    BY DEF lo, hi
  <1> QED
    BY <1>3, <1>4

(* Z tells whether R1:R0 is 0, and C is bit 15 of the product.              *)
LEMMA ProductTold ==
  ASSUME NEW p \in Nat, p < 65536, p # 32768, NEW shift \in {1, 2},
         UpdateFlags({"Z", "C"}, Flag("C", Bit(p, 32768)) \cup Flag("Z", p * shift = 0))
  PROVE  /\ "Z" \in sreg' <=> (p * shift) % 65536 = 0
         /\ shift = 2 => ((p * shift) % 65536) + (IF "C" \in sreg' THEN 65536 ELSE 0) = 2 * p
         /\ shift = 1 => (p * shift) % 65536 = p /\ ("C" \in sreg' <=> p >= 32768)
PROOF
  <1> DEFINE c == Bit(p, 32768)
             z == p * shift = 0
             f == Flag("C", c) \cup Flag("Z", z)
  <1>1. (c <=> p >= 32768) /\ (z <=> p = 0)
    BY DEF Bit
  <1>2. p = 0 <=> (p * shift) % 65536 = 0
    BY SMTT(30)
  <1> HIDE DEF c, z
  <1>3. UpdateFlags({"Z", "C"}, f)
    BY DEF c, z
  <1>4. ("C" \in f <=> c) /\ ("Z" \in f <=> z)
    BY DEF Flag
  <1> HIDE DEF f
  <1>5. ("C" \in sreg' <=> c) /\ ("Z" \in sreg' <=> z)
    BY <1>3, <1>4, FlagsAfter
  <1>6. "Z" \in sreg' <=> (p * shift) % 65536 = 0
    BY <1>1, <1>2, <1>5
  <1>7. shift = 2 => ((p * shift) % 65536) + (IF p >= 32768 THEN 65536 ELSE 0) = 2 * p
    OBVIOUS
  <1>8. shift = 1 => (p * shift) % 65536 = p
    OBVIOUS
  <1> QED
    BY <1>1, <1>5, <1>6, <1>7, <1>8

(* The flags after a multiplication tell about the number in R1:R0, for     *)
(* all factors: the 17 bits of a fractional product lose nothing by it.     *)
THEOREM ProductsAreTold == HSpec => ProductFlags
PROOF
  <1> DEFINE fractional == insn.op \in {"FMUL", "FMULS", "FMULSU"}
             product == (LeftFactor * RightFactor) % 65536
             word    == reg'[0] + 256 * reg'[1]
             shift   == IF fractional THEN 2 ELSE 1
  <1>1. ASSUME TypeOK, HNext, insn.op \in Products
        PROVE  /\ "Z" \in sreg' <=> word = 0
               /\ IF fractional
                  THEN word + (IF "C" \in sreg' THEN 65536 ELSE 0) = 2 * product
                  ELSE word = product /\ ("C" \in sreg' <=> word >= 32768)
    <2>1. Factors(LeftFactor, RightFactor) /\ DoMultiply(LeftFactor, RightFactor, shift)
      BY <1>1, FactorsOfProducts DEF HNext, Next, Step
    <2>2. /\ PutWordReg(0, product * shift)
          /\ UpdateFlags({"Z", "C"}, Flag("C", Bit(product, 32768))
                                    \cup Flag("Z", product * shift = 0))
      BY <2>1 DEF DoMultiply
    <2>3. product \in Nat /\ product < 65536 /\ product # 32768
      BY <2>1, ProductOfFactors
    <2>4. shift \in {1, 2} /\ (fractional => shift = 2) /\ (~fractional => shift = 1)
      OBVIOUS
    <2> HIDE DEF product, shift
    <2>5. word = (product * shift) % 65536
      <3>1. product * shift \in Int
        BY <2>3, <2>4
      <3> QED
        BY <1>1, <2>2, <3>1, ProductWord
    <2> HIDE DEF word, fractional
    <2>6. /\ "Z" \in sreg' <=> (product * shift) % 65536 = 0
          /\ shift = 2 => ((product * shift) % 65536)
                          + (IF "C" \in sreg' THEN 65536 ELSE 0) = 2 * product
          /\ shift = 1 => (product * shift) % 65536 = product
                          /\ ("C" \in sreg' <=> product >= 32768)
      BY <2>2, <2>3, <2>4, ProductTold
    <2> QED
      BY <2>4, <2>5, <2>6
  <1>2. TypeOK /\ [HNext]_hvars =>
          [insn.op \in Products =>
             LET p == (LeftFactor * RightFactor) % 65536
                 w == reg'[0] + 256 * reg'[1]
             IN  /\ "Z" \in sreg' <=> w = 0
                 /\ IF insn.op \in {"FMUL", "FMULS", "FMULSU"}
                    THEN w + (IF "C" \in sreg' THEN 65536 ELSE 0) = 2 * p
                    ELSE w = p /\ ("C" \in sreg' <=> w >= 32768)]_hvars
    BY <1>1
  <1> QED
    BY <1>2, TypeCorrect, PTL DEF HSpec, ProductFlags

=============================================================================
