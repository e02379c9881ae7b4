---------------------------- MODULE SessionProofs ----------------------------
(***************************************************************************)
(* A run of AVRtest for command lines of any length, any words and any      *)
(* program files: options and streams are as asked, code is decoded where   *)
(* it is, only fitting files run, and the exit code tells how it ended; logs *)
(* show what was passed, the arithmetic for the target fits together, and   *)
(* main finds in the memories what was linked and passed to it.             *)
(***************************************************************************)
EXTENDS SessionProperties, ByteArithmetic, SequenceTheorems, NaturalsInduction, WellFoundedInduction, TLAPS

-----------------------------------------------------------------------------
(* The invariant: types                                                     *)

Texts == {Words[w].text : w \in DOMAIN Words} \cup {None}
Names == DOMAIN Words \cup {None}
ProgramType ==
  [name : Names,
   short_name : Names \cup {FromLastSlash[n] : n \in DOMAIN FromLastSlash},
   entry_point : Int,
   max_insns : {0} \cup {get_valid_numberKME(Words[w]) : w \in DOMAIN Words}]

DescType ==
  [isa : {"classic", "xmega", "tiny"}, pc_3bytes : BOOLEAN, has_eind : BOOLEAN, has_rampd : BOOLEAN,
   flash_addr_mask : {K64, K128, K256}, flash_pm_offset : Int]

ImageType ==
  [size : Nat, n_bytes : Nat, code_start : Nat, code_end : Int, pc_mask : Int, max_pc : Int]

OptionNames == TakesWord \cup WithText \cup Flags

OptionType ==
  /\ isa \in {"classic", "xmega", "tiny"} /\ is_log \in BOOLEAN
  /\ argv \in Seq(DOMAIN Words) /\ i \in 1 .. Len(argv) + 1
  /\ do \in [OptionNames -> Int] /\ s \in [WithText -> Texts]
  /\ program \in ProgramType
  /\ flash_pm_offset \in Int

ArchType ==
  /\ arch \in [name : DOMAIN arch_desc, desc : DescType]
  /\ device \in DeviceType /\ device.flash_end % 2 = 0
  /\ seg \in Nat \ {0} /\ image \in ImageType

-----------------------------------------------------------------------------
(* The invariant: the words that have been read                             *)

(* The word at k is read as an option.                                      *)
Live(k) == k <= Len(argv) =>
  /\ ~Consumed[k]
  /\ \A j \in 1 .. k - 1 : Reads(j).opt = "args" => Consumed[j]

(* The last of the words o that have been read, and whether it turns o on.  *)
At(o) == Latest(Given(o))
IsOn(o)  == At(o) # 0 /\ Reads(At(o)).on
OnOff(o) == IF IsOn(o) THEN 1 ELSE 0

LatestOff(f)  == Latest(GivenOff(f) \cup GivenOff(FileOpt(f)))
LatestName(f) == Latest(GivenOn(FileOpt(f)))
LatestOn(f)   == Latest(GivenOn(f))

FlagsRead == /\ do.q = OnOff("q") /\ do.e = OnOff("e") /\ do["log="] = OnOff("log=")
             /\ IsOn("log=") => s["log="] = Reads(At("log=")).text

SizeRead == /\ do.s = IF IsOn("s") THEN get_valid_kilo(Reads(At("s") + 1)) ELSE 0
            /\ IsOn("s") => do.s # 0 /\ At("s") < Len(argv)

StreamRead(f) ==
  /\ do[FileOpt(f)] = IF LatestName(f) > LatestOff(f) THEN 1 ELSE 0
  /\ LatestName(f) > LatestOff(f) => s[FileOpt(f)] = Reads(LatestName(f)).text
  /\ do[f] = IF LatestOff(f) = 0 \/ LatestOn(f) > LatestOff(f) THEN 1 ELSE 0

OptionInv == /\ FlagsRead /\ SizeRead /\ ALimitIsALimit
             /\ \A f \in Streams : StreamRead(f)

ValidEntry(n) == n \in 0 .. MAX_FLASH_SIZE - 2 /\ n % 2 = 0

EntryRead ==
  /\ program.entry_point = IF IsOn("e") THEN Reads(At("e") + 1).num ELSE 0
  /\ ValidEntry(program.entry_point)

-----------------------------------------------------------------------------
(* The invariant: from phase to phase                                       *)

Reading   == phase \in {"help", "options"}
InFile    == phase \in {"header", "sections", "segments"}
Afterwards == phase \in {"mask", "decode", "run"}

(* The segment lies between code_start and code_end, and in program.size.    *)
Covered(im, p) ==
  p.x /\ p.paddr < DATA_VADDR =>
    /\ im.code_start <= p.paddr /\ p.paddr + p.memsz - 1 <= im.code_end
    /\ p.paddr + p.memsz <= im.size

StreamsAsked ==
  (\A f \in Streams : streams[f] = AskedStream(f)) /\ streams["log"] = AskedLog

PhaseInv ==
  /\ phase \in {"help", "options", "open", "left"} \/ InFile \/ Afterwards
  /\ Reading => Live(i) /\ io = << >>
  /\ Reading \/ phase \in {"open", "header"} => EntryRead
  /\ phase \in {"sections", "segments"} \/ Afterwards => EntryAsAsked
  /\ phase = "open" \/ InFile \/ Afterwards => StreamsAsked
  /\ InFile \/ Afterwards => program.name \in DOMAIN ProgramFiles
  /\ InFile => file.elf
  /\ Reading \/ phase \in {"open", "header", "sections"} => seg = 1

(* What has gone over a stream went where it was asked to.                  *)
IoInv ==
  \A n \in DOMAIN io :
    /\ io[n].stream \in Streams => io[n].dest = AskedStream(io[n].stream) /\ io[n].dest # NULL
    /\ io[n].stream = "log" => io[n].dest = AskedLog

FileInv ==
  /\ phase = "segments" =>
       \A k \in 1 .. Len(file.phdrs) : k < seg /\ IsLoaded(file.phdrs[k]) => Covered(image, file.phdrs[k])
  /\ Afterwards /\ file.elf => /\ \A p \in Segments : Covered(image, p)
                              /\ ArchFits(file.arch)
  /\ phase \in {"decode", "run"} =>
       FlashSizeAsAsked /\ image.size <= 2 * (image.pc_mask + 1)
  /\ phase = "run" => image.max_pc = 1 + image.code_end \div 2

SessionInv ==
  OptionType /\ ArchType /\ OptionInv /\ PhaseInv /\ IoInv /\ FileInv /\ ExitCodeAsDocumented

Sequence(q) == \E S : q \in Seq(S)

Inv == SessionInv /\ Sequence(io) /\ Sequence(calls)

-----------------------------------------------------------------------------
(* Sets of positions                                                        *)

LEMMA Least ==
  ASSUME NEW T, T \subseteq Nat, T # {}
  PROVE  \E x \in T : \A y \in T : x <= y
<1> DEFINE R == {ss \in Nat \X Nat : ss[1] < ss[2]}
<1>1. IsWellFoundedOn(R, Nat)
  BY NatLessThanWellFounded, Zenon DEF OpToRel
<1> HIDE DEF R
<1>2. PICK x \in T : \A y \in T : ~ (<< y, x >> \in R)
  BY <1>1, WFMin
<1>3. SUFFICES ASSUME NEW y \in T PROVE x <= y
  OBVIOUS
<1>4. x \in Nat /\ y \in Nat
  OBVIOUS
<1>5. y < x => << y, x >> \in R
  BY <1>4 DEF R
<1> QED BY <1>2, <1>4, <1>5

LEMMA LatestOf ==
  ASSUME NEW n \in Nat, NEW ks \in SUBSET (1 .. n)
  PROVE  /\ ks = {} => Latest(ks) = 0
         /\ ks # {} => /\ Latest(ks) \in ks
                       /\ \A k \in ks : k <= Latest(ks)
<1>1. ASSUME ks # {} PROVE \E x \in ks : \A y \in ks : x >= y
  <2> DEFINE T == {n - k : k \in ks}
  <2>1. \A k \in ks : k \in Nat /\ k <= n /\ n - k \in Nat
    OBVIOUS
  <2> T \subseteq Nat /\ T # {}
    BY <1>1, <2>1
  <2> HIDE DEF T
  <2>2. PICK t \in T : \A u \in T : t <= u
    BY Least
  <2> USE DEF T
  <2>3. PICK x \in ks : t = n - x
    OBVIOUS
  <2>4. \A y \in ks : n - x <= n - y
    BY <2>2, <2>3
  <2>5. \A y \in ks : x >= y
    BY <2>1, <2>4
  <2> QED BY <2>5
<1>2. ks # {} => /\ Max(ks) \in ks
                 /\ \A k \in ks : Max(ks) >= k
  BY <1>1 DEF Max
<1> QED BY <1>2 DEF Latest

LEMMA LatestIs ==
  ASSUME NEW n \in Nat, NEW ks \in SUBSET (1 .. n), NEW k \in ks,
         \A j \in ks : j <= k
  PROVE  Latest(ks) = k
<1>1. Latest(ks) \in ks /\ k <= Latest(ks) /\ Latest(ks) <= k
  BY LatestOf
<1>2. Latest(ks) \in 1 .. n /\ k \in 1 .. n
  BY <1>1
<1> QED BY <1>1, <1>2

LEMMA LatestRange ==
  ASSUME NEW n \in Nat, NEW ks \in SUBSET (1 .. n)
  PROVE  Latest(ks) \in 0 .. n /\ (Latest(ks) = 0 <=> ks = {})
<1>1. CASE ks = {}
  BY <1>1, LatestOf
<1>2. CASE ks # {}
  <2>1. Latest(ks) \in 1 .. n
    BY <1>2, LatestOf
  <2>2. Latest(ks) \in 0 .. n /\ Latest(ks) # 0
    BY <2>1
  <2> QED BY <1>2, <2>2
<1> QED BY <1>1, <1>2

(* One more position behind all others is the latest.                       *)
LEMMA LatestAdded ==
  ASSUME NEW n \in Nat, NEW m \in 1 .. n, NEW ks \in SUBSET (1 .. m - 1)
  PROVE  Latest(ks \cup {m}) = m /\ Latest(ks) < m
<1>1. ks \cup {m} \in SUBSET (1 .. n) /\ \A j \in ks \cup {m} : j <= m
  OBVIOUS
<1>2. Latest(ks \cup {m}) = m
  BY <1>1, LatestIs
<1>3. Latest(ks) \in 0 .. m - 1
  BY LatestRange
<1> QED BY <1>2, <1>3

-----------------------------------------------------------------------------
(* Words that are taken by the word before                                  *)

(* Of words that take words, every second one is taken: k is if the words    *)
(* before it that take one, without a gap, are odd in number.               *)
Takes(k) == Reads(k).opt \in TakesWord
RunFrom(j, k) == /\ \A l \in j .. k - 1 : Takes(l)
                 /\ j = 1 \/ ~Takes(j - 1)
OddRun(k) == \E j \in 1 .. k - 1 : RunFrom(j, k) /\ (k - j) % 2 = 1

LEMMA RunExists ==
  ASSUME NEW k \in Nat, k > 1, Takes(k - 1)
  PROVE  \E j \in 1 .. k - 1 : RunFrom(j, k)
<1> DEFINE T == {j \in 1 .. k - 1 : \A l \in j .. k - 1 : Takes(l)}
<1>1. k - 1 \in T
  OBVIOUS
<1>2. \A j \in T : j \in Nat
  OBVIOUS
<1> HIDE DEF T
<1>3. PICK j \in T : \A y \in T : j <= y
  BY <1>1, <1>2, Least
<1> USE DEF T
<1>4. j = 1 \/ ~Takes(j - 1)
  <2> SUFFICES ASSUME j # 1, Takes(j - 1) PROVE FALSE
    OBVIOUS
  <2>1. j - 1 \in 1 .. k - 1 /\ \A l \in j - 1 .. k - 1 : l = j - 1 \/ l \in j .. k - 1
    OBVIOUS
  <2>2. j - 1 \in T
    BY <2>1
  <2> HIDE DEF T
  <2> QED BY <1>2, <1>3, <2>2
<1> QED BY <1>4 DEF RunFrom

LEMMA RunUnique ==
  ASSUME NEW k \in Nat, NEW j \in 1 .. k - 1, NEW h \in 1 .. k - 1,
         RunFrom(j, k), RunFrom(h, k)
  PROVE  j = h
<1>1. ASSUME j < h PROVE FALSE
  <2>1. h - 1 \in j .. k - 1 /\ h # 1
    BY <1>1
  <2> QED BY <2>1 DEF RunFrom
<1>2. ASSUME h < j PROVE FALSE
  <2>1. j - 1 \in h .. k - 1 /\ j # 1
    BY <1>2
  <2> QED BY <2>1 DEF RunFrom
<1> QED BY <1>1, <1>2

LEMMA OddRunStep ==
  ASSUME NEW k \in Nat \ {0}
  PROVE  OddRun(k) <=> k > 1 /\ ~OddRun(k - 1) /\ Takes(k - 1)
<1>1. CASE k = 1
  BY <1>1 DEF OddRun
<1>2. CASE k > 1 /\ ~Takes(k - 1)
  <2>1. ASSUME NEW j \in 1 .. k - 1, RunFrom(j, k) PROVE FALSE
    <3>1. k - 1 \in j .. k - 1
      OBVIOUS
    <3> QED BY <1>2, <2>1, <3>1 DEF RunFrom
  <2> QED BY <1>2, <2>1 DEF OddRun
<1>3. CASE k > 1 /\ Takes(k - 1)
  <2>1. PICK j \in 1 .. k - 1 : RunFrom(j, k)
    BY <1>3, RunExists
  <2>2. OddRun(k) <=> (k - j) % 2 = 1
    BY <2>1, RunUnique DEF OddRun
  <2>3. CASE j = k - 1
    <3>1. ASSUME NEW h \in 1 .. k - 2, RunFrom(h, k - 1) PROVE FALSE
      <4>1. k - 2 \in h .. (k - 1) - 1 /\ j # 1 /\ j - 1 = k - 2
        BY <2>3
      <4> QED BY <2>1, <3>1, <4>1 DEF RunFrom
    <3>2. ~OddRun(k - 1)
      BY <3>1 DEF OddRun
    <3> QED BY <1>3, <2>2, <2>3, <3>2
  <2>4. CASE j < k - 1
    <3>1. j \in 1 .. k - 2 /\ RunFrom(j, k - 1)
      BY <2>1, <2>4 DEF RunFrom
    <3>2. OddRun(k - 1) <=> ((k - 1) - j) % 2 = 1
      BY <1>3, <3>1, RunUnique DEF OddRun
    <3>3. (k - j) % 2 = 1 <=> ~(((k - 1) - j) % 2 = 1)
      OBVIOUS
    <3> QED BY <1>3, <2>2, <3>2, <3>3
  <2> QED BY <2>3, <2>4
<1> QED BY <1>1, <1>2, <1>3

(* What Consumed is defined by: a function with this property exists.        *)
LEMMA ConsumedBy ==
  ASSUME argv \in Seq(DOMAIN Words), NEW k \in 1 .. Len(argv)
  PROVE  Consumed[k] <=> k > 1 /\ ~Consumed[k - 1] /\ Takes(k - 1)
<1> DEFINE Eq(f) == f = [n \in 1 .. Len(argv) |->
                           n > 1 /\ ~f[n - 1] /\ Reads(n - 1).opt \in TakesWord]
           odd == [n \in 1 .. Len(argv) |-> OddRun(n)]
<1>1. Consumed = CHOOSE f : Eq(f)
  BY DEF Consumed
<1>2. Len(argv) \in Nat
  OBVIOUS
<1>3. Eq(odd)
  <2>1. ASSUME NEW n \in 1 .. Len(argv)
        PROVE  OddRun(n) = (n > 1 /\ ~odd[n - 1] /\ Takes(n - 1))
    <3>1. n > 1 => odd[n - 1] = OddRun(n - 1)
      BY <1>2
    <3>2. OddRun(n) <=> n > 1 /\ ~OddRun(n - 1) /\ Takes(n - 1)
      BY <1>2, OddRunStep
    <3> HIDE DEF odd
    <3> QED BY <3>1, <3>2 DEF OddRun
  <2> QED BY <2>1 DEF Takes
<1> HIDE DEF odd
<1>4. \E f : Eq(f)
  BY <1>3
<1>5. Eq(Consumed)
  BY <1>1, <1>4, Zenon
<1> QED BY <1>5 DEF Takes

(* The words o that are read before position n.                             *)
GivenTo(o, n) == {k \in 1 .. Len(argv) :
  /\ Reads(k).opt = o /\ k < n /\ ~Consumed[k]
  /\ \A j \in 1 .. k - 1 : Reads(j).opt = "args" => Consumed[j]}

LEMMA GivenIs == \A o : Given(o) = GivenTo(o, i)
BY DEF Given, GivenTo

LEMMA SameWords ==
  ASSUME argv' = argv
  PROVE  /\ Consumed' = Consumed /\ \A k : Reads(k)' = Reads(k)
         /\ \A k : Live(k)' = Live(k)
         /\ \A o : Given(o)' = GivenTo(o, i')
<1>1. \A k : Reads(k)' = Reads(k)
  BY DEF Reads
<1>2. Consumed' = Consumed
  BY DEF Consumed, Reads
<1>3. \A k : Live(k)' = Live(k)
  BY <1>1, <1>2 DEF Live
<1>4. \A o : Given(o)' = GivenTo(o, i')
  BY <1>1, <1>2 DEF Given, GivenTo
<1> QED BY <1>1, <1>2, <1>3, <1>4

(* Where the word behind the one at n is: behind what that one takes, or     *)
(* behind all words.                                                        *)
Behind(n) == IF Takes(n) THEN n + 2
             ELSE IF Reads(n).opt = "args" THEN Len(argv) + 1 ELSE n + 1

(* A word that is read is a word given, and the words it takes are not.      *)
LEMMA WordRead ==
  ASSUME argv \in Seq(DOMAIN Words), NEW n \in 1 .. Len(argv), Live(n),
         Takes(n) => n < Len(argv)
  PROVE  /\ Behind(n) \in 1 .. Len(argv) + 1 /\ Live(Behind(n))
         /\ \A o : GivenTo(o, Behind(n)) =
              IF o = Reads(n).opt THEN GivenTo(o, n) \cup {n} ELSE GivenTo(o, n)
<1> DEFINE N == Len(argv)  m == Behind(n)
<1>1. N \in Nat /\ n \in Nat /\ n > 0 /\ n <= N
  OBVIOUS
<1>2. ~Consumed[n] /\ \A j \in 1 .. n - 1 : Reads(j).opt = "args" => Consumed[j]
  BY <1>1 DEF Live
<1>3. "args" \notin TakesWord
  BY DEF TakesWord
<1>4. \A o, l : GivenTo(o, l) \subseteq 1 .. N
  BY DEF GivenTo
<1>5. ASSUME \A o : \A k \in 1 .. N :
               k \in GivenTo(o, m) <=> k \in GivenTo(o, n) \/ (k = n /\ o = Reads(n).opt)
      PROVE  \A o : GivenTo(o, m) =
               IF o = Reads(n).opt THEN GivenTo(o, n) \cup {n} ELSE GivenTo(o, n)
  <2> SUFFICES ASSUME NEW o
               PROVE  GivenTo(o, m) =
                 IF o = Reads(n).opt THEN GivenTo(o, n) \cup {n} ELSE GivenTo(o, n)
    OBVIOUS
  <2>1. GivenTo(o, m) \subseteq 1 .. N /\ GivenTo(o, n) \subseteq 1 .. N /\ n \in 1 .. N
    BY <1>4
  <2>2. \A k \in 1 .. N :
          k \in GivenTo(o, m) <=> k \in GivenTo(o, n) \/ (k = n /\ o = Reads(n).opt)
    BY <1>5
  <2> HIDE DEF m, N
  <2> QED BY <2>1, <2>2
<1>6. CASE Takes(n)
  <2>1. m = n + 2 /\ n < N
    BY <1>6 DEF Behind
  <2>2. Consumed[n + 1]
    BY <1>1, <1>2, <1>6, <2>1, ConsumedBy
  <2>3. n + 2 <= N => ~Consumed[n + 2]
    BY <1>1, <2>2, ConsumedBy
  <2>4. \A j \in 1 .. n + 1 : Reads(j).opt = "args" => Consumed[j]
    <3>1. \A j \in 1 .. n + 1 : j \in 1 .. n - 1 \/ j = n \/ j = n + 1
      BY <1>1
    <3>2. Reads(n).opt # "args"
      BY <1>3, <1>6 DEF Takes
    <3> QED BY <1>2, <2>2, <3>1, <3>2
  <2>5. Live(m)
    BY <1>1, <2>1, <2>3, <2>4 DEF Live
  <2>6. ASSUME NEW o, NEW k \in 1 .. N
        PROVE  k \in GivenTo(o, m) <=> k \in GivenTo(o, n) \/ (k = n /\ o = Reads(n).opt)
    <3>1. k < m <=> k < n \/ k = n \/ k = n + 1
      BY <1>1, <2>1
    <3> QED BY <1>1, <1>2, <2>1, <2>2, <3>1 DEF GivenTo
  <2>7. m \in 1 .. N + 1
    BY <1>1, <2>1
  <2>8. \A o : GivenTo(o, m) =
          IF o = Reads(n).opt THEN GivenTo(o, n) \cup {n} ELSE GivenTo(o, n)
    BY <1>5, <2>6
  <2> QED BY <2>7, <2>8, <2>5
<1>7. CASE ~Takes(n) /\ Reads(n).opt = "args"
  <2>1. m = N + 1
    BY <1>7 DEF Behind
  <2>2. Live(m)
    BY <1>1, <2>1 DEF Live
  <2>3. ASSUME NEW o, NEW k \in 1 .. N
        PROVE  k \in GivenTo(o, m) <=> k \in GivenTo(o, n) \/ (k = n /\ o = Reads(n).opt)
    <3>1. k < n \/ k = n \/ n \in 1 .. k - 1
      BY <1>1
    <3> QED BY <1>1, <1>2, <1>7, <2>1, <3>1 DEF GivenTo
  <2>4. m \in 1 .. N + 1
    BY <1>1, <2>1
  <2>5. \A o : GivenTo(o, m) =
          IF o = Reads(n).opt THEN GivenTo(o, n) \cup {n} ELSE GivenTo(o, n)
    BY <1>5, <2>3
  <2> QED BY <2>4, <2>5, <2>2
<1>8. CASE ~Takes(n) /\ Reads(n).opt # "args"
  <2>1. m = n + 1
    BY <1>8 DEF Behind
  <2>2. n + 1 <= N => ~Consumed[n + 1]
    BY <1>1, <1>8, ConsumedBy
  <2>3. \A j \in 1 .. n : Reads(j).opt = "args" => Consumed[j]
    <3>1. \A j \in 1 .. n : j \in 1 .. n - 1 \/ j = n
      BY <1>1
    <3> QED BY <1>2, <1>8, <3>1
  <2>4. Live(m)
    BY <1>1, <2>1, <2>2, <2>3 DEF Live
  <2>5. ASSUME NEW o, NEW k \in 1 .. N
        PROVE  k \in GivenTo(o, m) <=> k \in GivenTo(o, n) \/ (k = n /\ o = Reads(n).opt)
    <3>1. k < m <=> k < n \/ k = n
      BY <1>1, <2>1
    <3> QED BY <1>1, <1>2, <2>1, <3>1 DEF GivenTo
  <2>6. m \in 1 .. N + 1
    BY <1>1, <2>1
  <2>7. \A o : GivenTo(o, m) =
          IF o = Reads(n).opt THEN GivenTo(o, n) \cup {n} ELSE GivenTo(o, n)
    BY <1>5, <2>5
  <2> QED BY <2>6, <2>7, <2>4
<1> QED BY <1>6, <1>7, <1>8

-----------------------------------------------------------------------------
(* One word of the command line                                             *)

ReadsWord ==
  NoStream \/ Flag \/ ProgramName \/ Mmcu \/ EntryPoint \/ FlashPmOffset
    \/ Sandbox \/ Args \/ MaxInstrCount \/ Size \/ Graph

Bit(b) == IF b THEN 1 ELSE 0

(* What a word does to what the invariant is about.                         *)
FlagEffect ==
  /\ \A o \in {"q", "e", "log="} :
       do'[o] = IF o = Word.opt THEN Bit(Word.on) ELSE do[o]
  /\ do'["s"] = IF Word.opt # "s" THEN do["s"]
                ELSE IF Word.on THEN get_valid_kilo(Next1) ELSE 0
  /\ s'["log="] = IF Word.opt # "log=" THEN s["log="]
                  ELSE IF Word.on THEN Word.text ELSE None
  /\ Word.opt = "s" /\ Word.on => get_valid_kilo(Next1) # 0

StreamEffect(f) ==
  /\ do'[f] = IF Off(f) THEN 0 ELSE IF Word.opt = f THEN 1 ELSE do[f]
  /\ do'[FileOpt(f)] = IF Off(f) THEN 0 ELSE IF Word.opt = FileOpt(f) THEN 1 ELSE do[FileOpt(f)]
  /\ s'[FileOpt(f)] = IF Word.opt = FileOpt(f) /\ Word.on THEN Word.text ELSE s[FileOpt(f)]

ProgramEffect ==
  /\ program'.entry_point = IF Word.opt # "e" THEN program.entry_point
                            ELSE IF Word.on THEN Next1.num ELSE 0
  /\ program'.max_insns = IF Word.opt = "m" /\ Word.on THEN get_valid_numberKME(Next1)
                          ELSE program.max_insns
  /\ Word.opt = "e" /\ Word.on => ValidEntry(Next1.num)
  /\ Word.opt = "m" /\ Word.on => get_valid_numberKME(Next1) # Invalid

WordEffect ==
  /\ phase = "options" /\ phase' = "options"
  /\ i \in 1 .. Len(argv) /\ i' = Behind(i) /\ (Takes(i) => i < Len(argv))
  /\ UNCHANGED << streams, left >>
  /\ FlagEffect /\ ProgramEffect /\ \A f \in Streams : StreamEffect(f)

TypesKept ==
  /\ do' \in [OptionNames -> Int] /\ s' \in [WithText -> Texts]
  /\ program' \in ProgramType /\ flash_pm_offset' \in Int
  /\ arch' \in [name : DOMAIN arch_desc, desc : DescType]

LEMMA WordType ==
  ASSUME OptionType, NEW k \in 1 .. Len(argv)
  PROVE  /\ argv[k] \in DOMAIN Words
         /\ Reads(k) \in [opt : STRING, on : BOOLEAN, text : STRING, num : Int,
                          unit : STRING, frac : Nat, expo : Int, chars : Seq(Nat)]
BY WordsAssumption DEF OptionType, Reads

LEMMA DescIs == \A a : ArchDesc(a) \in DescType
<1> SUFFICES ASSUME NEW a PROVE ArchDesc(a) \in DescType
  OBVIOUS
<1> DEFINE v == IF a = "avrtiny" THEN "tiny" ELSE IF a \in XmegaArchs THEN "xmega" ELSE "classic"
           p == a \in ArchsWith3BytePc
           r == a \in {"avrxmega5", "avrxmega7"}
           m == IF a \in ArchsWith3BytePc THEN K256 ELSE IF a \in ArchsWith128K THEN K128 ELSE K64
           o == IF a = "avrtiny" THEN \h4000 ELSE IF a = "avrxmega3" THEN \h8000 ELSE 0
<1>1. ArchDesc(a) = [isa |-> v, pc_3bytes |-> p, has_eind |-> p, has_rampd |-> r,
                     flash_addr_mask |-> m, flash_pm_offset |-> o]
  BY DEF ArchDesc
<1>2. v \in {"classic", "xmega", "tiny"}
  OBVIOUS
<1>3. m \in {K64, K128, K256}
  OBVIOUS
<1>4. o \in Int
  OBVIOUS
<1>5. p \in BOOLEAN /\ r \in BOOLEAN
  OBVIOUS
<1> HIDE DEF v, p, r, m, o
<1> QED BY <1>1, <1>2, <1>3, <1>4, <1>5 DEF DescType

LEMMA ArchNames ==
  /\ \A a \in DOMAIN arch_desc : arch_desc[a] \in DescType
  /\ \A v \in {"classic", "xmega", "tiny"} :
       Archs(v) \subseteq DOMAIN arch_desc
       /\ DefaultArch(v) \in [name : DOMAIN arch_desc, desc : DescType]
<1> DEFINE All == ClassicArchs \cup XmegaArchs \cup {"avrtiny"}
<1>1. DOMAIN arch_desc = All /\ \A a \in All : arch_desc[a] = ArchDesc(a)
  BY DEF arch_desc
<1>3. {"avr51", "avrxmega6", "avrtiny"} \subseteq All
  BY DEF ClassicArchs, XmegaArchs
<1> HIDE DEF All
<1>4. \A a \in DOMAIN arch_desc : arch_desc[a] \in DescType
  BY <1>1, DescIs
<1>5. \A v \in {"classic", "xmega", "tiny"} : Archs(v) \subseteq DOMAIN arch_desc
  BY DEF Archs
<1>6. \A v \in {"classic", "xmega", "tiny"} :
        DefaultArch(v) \in [name : DOMAIN arch_desc, desc : DescType]
  BY <1>1, <1>3, <1>4 DEF DefaultArch, Named
<1> QED BY <1>4, <1>5, <1>6

LEMMA OptionNamesAre ==
  /\ TakesWord \subseteq OptionNames /\ WithText \subseteq OptionNames
  /\ Flags \subseteq OptionNames /\ "args" \notin TakesWord
  /\ {"q", "e", "log=", "s", "graph", "graph=", "mmcu=", "args", "m", "pm", "sbox"}
       \subseteq OptionNames
  /\ \A f \in Streams : /\ f \in OptionNames /\ FileOpt(f) \in WithText
                        /\ f \notin WithText /\ f \notin TakesWord
                        /\ FileOpt(f) \notin TakesWord
                        /\ f \notin {"q", "e", "log=", "s", "args", "m", "pm", "sbox", "graph", "graph=", "mmcu="}
                        /\ FileOpt(f) \notin {"q", "e", "log=", "s", "args", "m", "pm", "sbox", "graph", "graph=", "mmcu="}
                        /\ \A g \in Streams : /\ FileOpt(f) # g
                                              /\ f # g => FileOpt(f) # FileOpt(g)
BY ZenonT(40) DEF OptionNames, TakesWord, WithText, Flags, Streams, FileOpt

LEMMA NoneIsNoOption ==
  /\ None \notin TakesWord /\ None \notin {"e", "k", "M"}
  /\ None \notin {"q", "e", "log=", "s", "m", "args"}
  /\ \A f \in Streams : None \notin {f, FileOpt(f)}
BY Zenon DEF None, TakesWord, Streams, FileOpt

LEMMA NoStreamEffect ==
  ASSUME OptionType, ArchType, NoStream
  PROVE  WordEffect /\ TypesKept
<1>1. PICK f \in Streams : Off(f) /\ do' = [do EXCEPT ![f] = 0, ![FileOpt(f)] = 0]
  BY DEF NoStream
<1>2. /\ Parsing /\ i' = i + 1
      /\ UNCHANGED << phase, s, program, arch, flash_pm_offset, streams, left >>
  BY DEF NoStream
<1>3. Word.opt \in {f, FileOpt(f)} /\ ~Word.on
  BY <1>1 DEF Off
<1>4. i \in 1 .. Len(argv) /\ phase = "options" /\ Word = Reads(i)
  BY <1>2 DEF OptionType, Parsing, Word, Reads
<1>5. i' = Behind(i) /\ ~Takes(i)
  BY <1>2, <1>3, <1>4, OptionNamesAre DEF Behind, Takes
<1>9. Word.opt \notin {"q", "e", "log=", "s", "m"}
  BY <1>3, OptionNamesAre
<1>6. FlagEffect /\ ProgramEffect
  <2>1. \A o \in {"q", "e", "log=", "s"} : do'[o] = do[o]
    BY <1>1, OptionNamesAre DEF OptionType
  <2> QED BY <1>2, <1>9, <2>1 DEF FlagEffect, ProgramEffect
<1>7. ASSUME NEW g \in Streams PROVE StreamEffect(g)
  BY <1>1, <1>2, <1>3, OptionNamesAre DEF StreamEffect, OptionType, Off
<1>8. TypesKept
  <2>1. f \in OptionNames /\ FileOpt(f) \in OptionNames
    BY OptionNamesAre
  <2>2. do' \in [OptionNames -> Int]
    BY <1>1, <2>1 DEF OptionType
  <2> QED BY <1>2, <2>2 DEF TypesKept, OptionType, ArchType
<1> QED BY <1>2, <1>4, <1>5, <1>6, <1>7, <1>8 DEF WordEffect

(* Words that are set as flags, whatever else they do.                       *)
LEMMA FlaggedIs ==
  ASSUME OptionType, i \in 1 .. Len(argv), Word.opt \in OptionNames, do' = flagged
  PROVE  /\ do' \in [OptionNames -> Int]
         /\ \A o \in OptionNames : do'[o] = IF o = Word.opt THEN Bit(Word.on) ELSE do[o]
<1>1. do' = [do EXCEPT ![Word.opt] = Bit(Word.on)]
  BY DEF flagged, Bit
<1>2. Bit(Word.on) \in Int
  BY DEF Bit
<1> QED BY <1>1, <1>2 DEF OptionType

LEMMA FlagsSet ==
  ASSUME OptionType, i \in 1 .. Len(argv), SetFlag, \A f \in Streams : ~Off(f),
         \A o \in OptionNames \ {"s", "graph", "graph="} :
           do'[o] = IF o = Word.opt THEN Bit(Word.on) ELSE do[o]
  PROVE  /\ s' \in [WithText -> Texts]
         /\ \A o \in {"q", "e", "log="} : do'[o] = IF o = Word.opt THEN Bit(Word.on) ELSE do[o]
         /\ s'["log="] = IF Word.opt # "log=" THEN s["log="]
                         ELSE IF Word.on THEN Word.text ELSE None
         /\ \A f \in Streams : StreamEffect(f)
<1> DEFINE text == IF Word.on THEN Word.text ELSE None
<1>1. text \in Texts
  BY WordType DEF Word, Texts
<1>2. s' = IF Word.opt \in WithText THEN [s EXCEPT ![Word.opt] = text] ELSE s
  BY DEF SetFlag
<1> HIDE DEF text
<1>3. /\ s' \in [WithText -> Texts]
      /\ \A o \in WithText : s'[o] = IF o = Word.opt THEN text ELSE s[o]
  BY <1>1, <1>2 DEF OptionType
<1>4. "log=" \in WithText
  BY DEF WithText
<1> USE DEF text
<1>5. ASSUME NEW f \in Streams PROVE StreamEffect(f)
  <2>1. /\ f \in OptionNames \ {"s", "graph", "graph="}
        /\ FileOpt(f) \in OptionNames \ {"s", "graph", "graph="} /\ FileOpt(f) \in WithText
    BY OptionNamesAre
  <2>2. ~Off(f) /\ Word.opt \in {f, FileOpt(f)} => Word.on
    BY DEF Off
  <2>3. do'[f] = IF Off(f) THEN 0 ELSE IF Word.opt = f THEN 1 ELSE do[f]
    BY <2>1, <2>2 DEF Bit
  <2>4. do'[FileOpt(f)] = IF Off(f) THEN 0
                          ELSE IF Word.opt = FileOpt(f) THEN 1 ELSE do[FileOpt(f)]
    BY <2>1, <2>2 DEF Bit
  <2>5. s'[FileOpt(f)] = IF Word.opt = FileOpt(f) /\ Word.on THEN Word.text ELSE s[FileOpt(f)]
    BY <1>3, <2>1, <2>2
  <2> QED BY <2>3, <2>4, <2>5 DEF StreamEffect
<1>6. \A o \in {"q", "e", "log="} : o \in OptionNames \ {"s", "graph", "graph="}
  BY OptionNamesAre
<1> QED BY <1>3, <1>4, <1>5, <1>6

LEMMA NoOff ==
  ASSUME Word.opt \in {"mmcu=", "args", "graph", "graph="} \cup TakesWord
  PROVE  \A f \in Streams : ~Off(f)
<1> SUFFICES ASSUME NEW f \in Streams PROVE Word.opt \notin {f, FileOpt(f)}
  BY DEF Off
<1> QED BY OptionNamesAre

LEMMA Argument ==
  ASSUME OptionType, NEW o, IsOption(o), o \in TakesWord
  PROVE  /\ i \in 1 .. Len(argv) /\ i < Len(argv) /\ phase = "options"
         /\ Word = Reads(i) /\ Next1 = Reads(i + 1) /\ i + 1 \in 1 .. Len(argv)
         /\ Word.opt = o /\ Behind(i) = i + 2
         /\ Word.on => ~BadArgument(o, Next1)
<1>1. i \in 1 .. Len(argv)
  BY DEF OptionType, IsOption, Parsing
<1>2. i < Len(argv)
  BY <1>1 DEF IsOption, BadWord
<1>3. Word = Reads(i) /\ Next1 = Reads(i + 1)
  BY DEF Word, Next1, Reads
<1>4. Word.opt = o /\ Behind(i) = i + 2
  BY <1>3 DEF IsOption, Behind, Takes
<1>5. Word.on => ~BadArgument(o, Next1)
  BY <1>2, <1>4 DEF IsOption, BadWord
<1> QED BY <1>1, <1>2, <1>3, <1>4, <1>5 DEF IsOption, Parsing

LEMMA FlagEffects ==
  ASSUME OptionType, ArchType, Flag
  PROVE  WordEffect /\ TypesKept
<1>1. /\ Parsing /\ Word.opt \in OptionNames /\ \A f \in Streams : ~Off(f)
      /\ Word.opt \notin TakesWord /\ Word.opt # "args"
      /\ do' = flagged /\ SetFlag /\ i' = i + 1
      /\ UNCHANGED << program, arch, flash_pm_offset >>
  BY DEF Flag, OptionType
<1>2. i \in 1 .. Len(argv) /\ phase = "options" /\ Word = Reads(i)
  BY <1>1 DEF OptionType, Parsing, Word, Reads
<1>3. UNCHANGED << phase, streams, left >>
  BY <1>1 DEF SetFlag
<1>4. i' = Behind(i) /\ ~Takes(i)
  BY <1>1, <1>2 DEF Behind, Takes
<1>5. Word.opt \notin {"s", "e", "m"}
  BY <1>1 DEF TakesWord
<1>6. /\ do' \in [OptionNames -> Int]
      /\ \A o \in OptionNames : do'[o] = IF o = Word.opt THEN Bit(Word.on) ELSE do[o]
  BY <1>1, <1>2, FlaggedIs
<1>7. FlagEffect /\ s' \in [WithText -> Texts] /\ \A f \in Streams : StreamEffect(f)
  BY <1>1, <1>2, <1>5, <1>6, FlagsSet, OptionNamesAre DEF FlagEffect
<1>8. ProgramEffect
  BY <1>1, <1>5 DEF ProgramEffect
<1>9. TypesKept
  BY <1>1, <1>6, <1>7 DEF TypesKept, OptionType, ArchType
<1> QED BY <1>2, <1>3, <1>4, <1>7, <1>8, <1>9 DEF WordEffect

LEMMA ProgramNameEffect ==
  ASSUME OptionType, ArchType, ProgramName
  PROVE  WordEffect /\ TypesKept
<1> DEFINE short == ShortName(argv[i])
<1>1. /\ Parsing /\ Word.opt = None
      /\ program' = [program EXCEPT !.name = argv[i], !.short_name = short]
      /\ i' = i + 1
      /\ UNCHANGED << phase, do, s, arch, flash_pm_offset, streams, left >>
  BY DEF ProgramName, IsOption
<1>2. i \in 1 .. Len(argv) /\ phase = "options" /\ Word = Reads(i)
  BY <1>1 DEF OptionType, Parsing, Word, Reads
<1>3. i' = Behind(i) /\ ~Takes(i)
  BY <1>1, <1>2, NoneIsNoOption DEF Behind, Takes
<1>4. argv[i] \in Names /\ short \in Names \cup {FromLastSlash[n] : n \in DOMAIN FromLastSlash}
  BY <1>2, WordType DEF Names, ShortName
<1> HIDE DEF short
<1>5. /\ program' \in ProgramType
      /\ program'.entry_point = program.entry_point /\ program'.max_insns = program.max_insns
  BY <1>1, <1>4 DEF ProgramType, OptionType
<1>6. FlagEffect /\ ProgramEffect
  BY <1>1, <1>5, NoneIsNoOption DEF FlagEffect, ProgramEffect
<1>7. ASSUME NEW f \in Streams PROVE StreamEffect(f)
  <2>1. Word.opt \notin {f, FileOpt(f)}
    BY <1>1, NoneIsNoOption
  <2> QED BY <1>1, <2>1 DEF StreamEffect, Off
<1>8. TypesKept
  BY <1>1, <1>5 DEF TypesKept, OptionType, ArchType
<1> QED BY <1>1, <1>2, <1>3, <1>6, <1>7, <1>8 DEF WordEffect

(* An option that is set as a flag and has no other name.                    *)
LEMMA OptionSet ==
  ASSUME OptionType, NEW o \in {"mmcu=", "args"} \cup TakesWord, o # "s",
         IsOption(o), do' = flagged, SetFlag
  PROVE  /\ i \in 1 .. Len(argv) /\ phase = "options" /\ phase' = "options"
         /\ UNCHANGED << streams, left >>
         /\ do' \in [OptionNames -> Int] /\ s' \in [WithText -> Texts]
         /\ FlagEffect /\ \A f \in Streams : StreamEffect(f)
<1>1. Parsing /\ Word.opt = o /\ o \in OptionNames /\ \A f \in Streams : ~Off(f)
  BY OptionNamesAre, NoOff DEF IsOption
<1>2. i \in 1 .. Len(argv) /\ phase = "options"
  BY <1>1 DEF OptionType, Parsing
<1>3. phase' = "options" /\ UNCHANGED << streams, left >>
  BY <1>2 DEF SetFlag
<1>4. /\ do' \in [OptionNames -> Int]
      /\ \A p \in OptionNames : do'[p] = IF p = Word.opt THEN Bit(Word.on) ELSE do[p]
  BY <1>1, <1>2, FlaggedIs
<1>5. /\ s' \in [WithText -> Texts] /\ \A f \in Streams : StreamEffect(f)
      /\ \A p \in {"q", "e", "log="} : do'[p] = IF p = Word.opt THEN Bit(Word.on) ELSE do[p]
      /\ s'["log="] = IF Word.opt # "log=" THEN s["log="]
                      ELSE IF Word.on THEN Word.text ELSE None
  BY <1>1, <1>2, <1>4, FlagsSet
<1>6. do'["s"] = do["s"]
  BY <1>1, <1>4, OptionNamesAre
<1> QED BY <1>1, <1>2, <1>3, <1>4, <1>5, <1>6 DEF FlagEffect

LEMMA MmcuEffect ==
  ASSUME OptionType, ArchType, Mmcu
  PROVE  WordEffect /\ TypesKept
<1>1. /\ IsOption("mmcu=") /\ do' = flagged /\ SetFlag /\ i' = i + 1
      /\ arch' = IF Word.on THEN Named(Word.text) ELSE DefaultArch(isa)
      /\ UNCHANGED << program, flash_pm_offset >>
  BY DEF Mmcu
<1>2. /\ i \in 1 .. Len(argv) /\ phase = "options" /\ phase' = "options"
      /\ UNCHANGED << streams, left >>
      /\ do' \in [OptionNames -> Int] /\ s' \in [WithText -> Texts]
      /\ FlagEffect /\ \A f \in Streams : StreamEffect(f)
  BY <1>1, OptionSet, OptionNamesAre DEF TakesWord
<1>3. Word.opt = "mmcu=" /\ Word = Reads(i)
  BY <1>1 DEF IsOption, Word, Reads
<1>4. i' = Behind(i) /\ ~Takes(i)
  BY <1>1, <1>3 DEF Behind, Takes, TakesWord
<1>5. ProgramEffect
  BY <1>1, <1>3 DEF ProgramEffect
<1>6. Word.on => Word.text \in DOMAIN arch_desc
  BY <1>1, ArchNames DEF IsOption, BadWord, OptionType
<1>7. arch' \in [name : DOMAIN arch_desc, desc : DescType]
  BY <1>1, <1>6, ArchNames DEF Named, OptionType
<1> QED BY <1>1, <1>2, <1>4, <1>5, <1>7 DEF WordEffect, TypesKept, OptionType

LEMMA FlashIsEven == MAX_FLASH_SIZE \in Nat /\ MAX_FLASH_SIZE % 2 = 0 /\ MAX_FLASH_SIZE > 2
BY DEF MAX_FLASH_SIZE

LEMMA EntryPointEffect ==
  ASSUME OptionType, ArchType, EntryPoint
  PROVE  WordEffect /\ TypesKept
<1> DEFINE num == IF Word.on THEN get_valid_number(Next1) ELSE 0
<1>1. /\ IsOption("e") /\ do' = flagged /\ SetFlag /\ i' = i + 2
      /\ program' = [program EXCEPT !.entry_point = num]
      /\ UNCHANGED << arch, flash_pm_offset >>
  BY DEF EntryPoint
<1>2. /\ i \in 1 .. Len(argv) /\ phase = "options" /\ phase' = "options"
      /\ UNCHANGED << streams, left >>
      /\ do' \in [OptionNames -> Int] /\ s' \in [WithText -> Texts]
      /\ FlagEffect /\ \A f \in Streams : StreamEffect(f)
  BY <1>1, OptionSet DEF TakesWord
<1>3. /\ i < Len(argv) /\ Next1 = Reads(i + 1) /\ i + 1 \in 1 .. Len(argv)
      /\ Word.opt = "e" /\ Behind(i) = i + 2 /\ (Word.on => ~BadArgument("e", Next1))
  BY <1>1, Argument DEF TakesWord
<1>4. Next1.num \in Int
  BY <1>3, WordType
<1>5. Word.on => get_valid_number(Next1) = Next1.num /\ ValidEntry(Next1.num)
  <2>1. SUFFICES ASSUME Word.on
                 PROVE  get_valid_number(Next1) = Next1.num /\ ValidEntry(Next1.num)
    OBVIOUS
  <2>2. /\ get_valid_number(Next1) >= 0 /\ get_valid_number(Next1) % 2 = 0
        /\ get_valid_number(Next1) < MAX_FLASH_SIZE
    BY <1>3, <1>4, <2>1, FlashIsEven DEF BadArgument, get_valid_number, Invalid
  <2>3. get_valid_number(Next1) = Next1.num
    BY <2>2 DEF get_valid_number, Invalid
  <2>4. Next1.num >= 0 /\ Next1.num <= MAX_FLASH_SIZE - 2
    BY <1>4, <2>2, <2>3, FlashIsEven
  <2> QED BY <1>4, <2>2, <2>3, <2>4, FlashIsEven DEF ValidEntry
<1>6. num = (IF Word.on THEN Next1.num ELSE 0) /\ num \in Int
  BY <1>4, <1>5
<1> HIDE DEF num
<1>7. /\ program' \in ProgramType
      /\ program'.entry_point = num /\ program'.max_insns = program.max_insns
  BY <1>1, <1>6 DEF ProgramType, OptionType
<1>8. ProgramEffect
  BY <1>3, <1>5, <1>6, <1>7 DEF ProgramEffect
<1> QED BY <1>1, <1>2, <1>3, <1>7, <1>8 DEF WordEffect, TypesKept, OptionType, ArchType

LEMMA FlashPmOffsetEffect ==
  ASSUME OptionType, ArchType, FlashPmOffset
  PROVE  WordEffect /\ TypesKept
<1>1. /\ IsOption("pm") /\ do' = flagged /\ SetFlag /\ i' = i + 2
      /\ flash_pm_offset' = IF Word.on THEN get_valid_number(Next1) ELSE 0
      /\ UNCHANGED << program, arch >>
  BY DEF FlashPmOffset
<1>2. /\ i \in 1 .. Len(argv) /\ phase = "options" /\ phase' = "options"
      /\ UNCHANGED << streams, left >>
      /\ do' \in [OptionNames -> Int] /\ s' \in [WithText -> Texts]
      /\ FlagEffect /\ \A f \in Streams : StreamEffect(f)
  BY <1>1, OptionSet DEF TakesWord
<1>3. /\ i < Len(argv) /\ Next1 = Reads(i + 1) /\ i + 1 \in 1 .. Len(argv)
      /\ Word.opt = "pm" /\ Behind(i) = i + 2
  BY <1>1, Argument DEF TakesWord
<1>4. flash_pm_offset' \in Int
  BY <1>1, <1>3, WordType DEF get_valid_number, Invalid
<1>5. ProgramEffect
  BY <1>1, <1>3 DEF ProgramEffect
<1> QED BY <1>1, <1>2, <1>3, <1>4, <1>5 DEF WordEffect, TypesKept, OptionType, ArchType

LEMMA SandboxEffect ==
  ASSUME OptionType, ArchType, Sandbox
  PROVE  WordEffect /\ TypesKept
<1>1. /\ IsOption("sbox") /\ do' = flagged /\ SetFlag /\ i' = i + 2
      /\ UNCHANGED << program, arch, flash_pm_offset >>
  BY DEF Sandbox
<1>2. /\ i \in 1 .. Len(argv) /\ phase = "options" /\ phase' = "options"
      /\ UNCHANGED << streams, left >>
      /\ do' \in [OptionNames -> Int] /\ s' \in [WithText -> Texts]
      /\ FlagEffect /\ \A f \in Streams : StreamEffect(f)
  BY <1>1, OptionSet DEF TakesWord
<1>3. i < Len(argv) /\ Word.opt = "sbox" /\ Behind(i) = i + 2
  BY <1>1, Argument DEF TakesWord
<1>4. ProgramEffect
  BY <1>1, <1>3 DEF ProgramEffect
<1> QED BY <1>1, <1>2, <1>3, <1>4 DEF WordEffect, TypesKept, OptionType, ArchType

LEMMA ArgsEffect ==
  ASSUME OptionType, ArchType, Args
  PROVE  WordEffect /\ TypesKept
<1>1. /\ IsOption("args") /\ do' = flagged /\ SetFlag /\ i' = Len(argv) + 1
      /\ UNCHANGED << program, arch, flash_pm_offset >>
  BY DEF Args
<1>2. /\ i \in 1 .. Len(argv) /\ phase = "options" /\ phase' = "options"
      /\ UNCHANGED << streams, left >>
      /\ do' \in [OptionNames -> Int] /\ s' \in [WithText -> Texts]
      /\ FlagEffect /\ \A f \in Streams : StreamEffect(f)
  BY <1>1, OptionSet DEF TakesWord
<1>3. Word.opt = "args" /\ Word = Reads(i)
  BY <1>1 DEF IsOption, Word, Reads
<1>4. i' = Behind(i) /\ ~Takes(i)
  BY <1>1, <1>3 DEF Behind, Takes, TakesWord
<1>5. ProgramEffect
  BY <1>1, <1>3 DEF ProgramEffect
<1> QED BY <1>1, <1>2, <1>4, <1>5 DEF WordEffect, TypesKept, OptionType, ArchType

LEMMA MaxInstrCountEffect ==
  ASSUME OptionType, ArchType, MaxInstrCount
  PROVE  WordEffect /\ TypesKept
<1> DEFINE num == get_valid_numberKME(Next1)
<1>1. /\ IsOption("m") /\ do' = flagged /\ SetFlag /\ i' = i + 2
      /\ program' = IF Word.on THEN [program EXCEPT !.max_insns = num] ELSE program
      /\ UNCHANGED << arch, flash_pm_offset >>
  BY DEF MaxInstrCount
<1>2. /\ i \in 1 .. Len(argv) /\ phase = "options" /\ phase' = "options"
      /\ UNCHANGED << streams, left >>
      /\ do' \in [OptionNames -> Int] /\ s' \in [WithText -> Texts]
      /\ FlagEffect /\ \A f \in Streams : StreamEffect(f)
  BY <1>1, OptionSet DEF TakesWord
<1>3. /\ i < Len(argv) /\ i + 1 \in 1 .. Len(argv)
      /\ Word.opt = "m" /\ Behind(i) = i + 2 /\ (Word.on => ~BadArgument("m", Next1))
  BY <1>1, Argument DEF TakesWord
<1>4. num \in {get_valid_numberKME(Words[w]) : w \in DOMAIN Words}
  BY <1>3, WordType DEF Next1
<1>5. Word.on => num # Invalid
  BY <1>3 DEF BadArgument
<1> HIDE DEF num
<1>6. /\ program' \in ProgramType /\ program'.entry_point = program.entry_point
      /\ program'.max_insns = IF Word.on THEN num ELSE program.max_insns
  BY <1>1, <1>4 DEF ProgramType, OptionType
<1> USE DEF num
<1>7. ProgramEffect
  BY <1>3, <1>5, <1>6 DEF ProgramEffect
<1> QED BY <1>1, <1>2, <1>3, <1>6, <1>7 DEF WordEffect, TypesKept, OptionType, ArchType

LEMMA KiloIs ==
  ASSUME OptionType, NEW k \in 1 .. Len(argv)
  PROVE  get_valid_kilo(Reads(k)) \in Int
<1>1. Reads(k).num \in Int
  BY WordType
<1> DEFINE val == CASE Reads(k).unit = None -> Reads(k).num
                    [] Reads(k).unit = "k" -> 1024 * Reads(k).num [] OTHER -> 0
<1>2. val \in Int
  BY <1>1
<1>3. get_valid_kilo(Reads(k)) =
        IF val = -1 \/ (val \in PowersOf2 /\ val >= 512) THEN val ELSE 0
  BY DEF get_valid_kilo
<1> HIDE DEF val
<1> QED BY <1>2, <1>3

LEMMA SizeEffect ==
  ASSUME OptionType, ArchType, Size
  PROVE  WordEffect /\ TypesKept
<1> DEFINE num == get_valid_kilo(Next1)
<1>1. /\ IsOption("s") /\ SetFlag /\ i' = i + 2
      /\ do' = IF Word.on THEN [do EXCEPT !.s = num] ELSE flagged
      /\ UNCHANGED << program, arch, flash_pm_offset >>
  BY DEF Size
<1>2. /\ i \in 1 .. Len(argv) /\ phase = "options" /\ Next1 = Reads(i + 1)
      /\ i < Len(argv) /\ i + 1 \in 1 .. Len(argv)
      /\ Word.opt = "s" /\ Behind(i) = i + 2 /\ (Word.on => ~BadArgument("s", Next1))
  BY <1>1, Argument DEF TakesWord
<1>3. phase' = "options" /\ UNCHANGED << streams, left >>
  BY <1>1, <1>2 DEF SetFlag
<1>4. num \in Int /\ (Word.on => num # 0)
  BY <1>2, KiloIs DEF BadArgument
<1> HIDE DEF num
<1>5. /\ do' \in [OptionNames -> Int]
      /\ \A o \in OptionNames \ {"s"} : do'[o] = do[o]
      /\ do'["s"] = IF Word.on THEN num ELSE 0
  <2>1. "s" \in OptionNames
    BY OptionNamesAre
  <2>2. CASE Word.on
    BY <1>1, <1>4, <2>1, <2>2 DEF OptionType
  <2>3. CASE ~Word.on
    BY <1>1, <1>2, <2>1, <2>3, FlaggedIs DEF Bit
  <2> QED BY <2>2, <2>3
<1>6. \A f \in Streams : ~Off(f)
  BY <1>2, NoOff DEF TakesWord
<1>7. /\ s' \in [WithText -> Texts]
      /\ \A o \in {"q", "e", "log="} : do'[o] = IF o = Word.opt THEN Bit(Word.on) ELSE do[o]
      /\ s'["log="] = IF Word.opt # "log=" THEN s["log="]
                      ELSE IF Word.on THEN Word.text ELSE None
      /\ \A f \in Streams : StreamEffect(f)
  BY <1>1, <1>2, <1>5, <1>6, FlagsSet
<1>8. FlagEffect
  BY <1>2, <1>4, <1>5, <1>7 DEF FlagEffect, num
<1>9. ProgramEffect
  BY <1>1, <1>2 DEF ProgramEffect
<1> QED BY <1>1, <1>2, <1>3, <1>5, <1>7, <1>8, <1>9
        DEF WordEffect, TypesKept, OptionType, ArchType

LEMMA GraphEffect ==
  ASSUME OptionType, ArchType, Graph
  PROVE  WordEffect /\ TypesKept
<1> DEFINE file_ == IF Word.on THEN flagged["graph="] ELSE 0
           graph == IF Word.on THEN 1 ELSE 0
<1>1. /\ IsOption("graph") \/ IsOption("graph=")
      /\ do' = CASE Word.opt = "graph"  -> [flagged EXCEPT !["graph="] = file_]
                 [] Word.opt = "graph=" -> [flagged EXCEPT !.graph = graph]
      /\ SetFlag /\ i' = i + 1
      /\ UNCHANGED << program, arch, flash_pm_offset >>
  BY DEF Graph
<1>2. /\ Parsing /\ Word.opt \in {"graph", "graph="} /\ Word = Reads(i)
  BY <1>1 DEF IsOption, Word, Reads
<1>3. i \in 1 .. Len(argv) /\ phase = "options"
  BY <1>2 DEF OptionType, Parsing
<1>4. phase' = "options" /\ UNCHANGED << streams, left >>
  BY <1>1, <1>3 DEF SetFlag
<1>5. i' = Behind(i) /\ ~Takes(i)
  BY <1>1, <1>2 DEF Behind, Takes, TakesWord
<1>6. /\ flagged \in [OptionNames -> Int]
      /\ \A o \in OptionNames : flagged[o] = IF o = Word.opt THEN Bit(Word.on) ELSE do[o]
  <2>1. Word.opt \in OptionNames /\ Bit(Word.on) \in Int
    BY <1>2, OptionNamesAre DEF Bit
  <2> QED BY <2>1 DEF OptionType, flagged, Bit
<1>7. file_ \in Int /\ graph \in Int /\ {"graph", "graph="} \subseteq OptionNames
  BY <1>6, OptionNamesAre
<1> HIDE DEF file_, graph
<1>8. /\ do' \in [OptionNames -> Int]
      /\ \A o \in OptionNames \ {"s", "graph", "graph="} :
           do'[o] = IF o = Word.opt THEN Bit(Word.on) ELSE do[o]
      /\ do'["s"] = do["s"]
  <2>1. CASE Word.opt = "graph"
    <3>1. do' = [flagged EXCEPT !["graph="] = file_]
      BY <1>1, <2>1
    <3> QED BY <1>6, <1>7, <2>1, <3>1, OptionNamesAre
  <2>2. CASE Word.opt = "graph="
    <3>1. do' = [flagged EXCEPT !.graph = graph]
      BY <1>1, <2>2
    <3> QED BY <1>6, <1>7, <2>2, <3>1, OptionNamesAre
  <2> QED BY <1>2, <2>1, <2>2
<1>9. \A f \in Streams : ~Off(f)
  BY <1>2, NoOff
<1>10. /\ s' \in [WithText -> Texts]
       /\ \A o \in {"q", "e", "log="} : do'[o] = IF o = Word.opt THEN Bit(Word.on) ELSE do[o]
       /\ s'["log="] = IF Word.opt # "log=" THEN s["log="]
                       ELSE IF Word.on THEN Word.text ELSE None
       /\ \A f \in Streams : StreamEffect(f)
  BY <1>1, <1>3, <1>8, <1>9, FlagsSet
<1>11. FlagEffect /\ ProgramEffect
  BY <1>1, <1>2, <1>8, <1>10 DEF FlagEffect, ProgramEffect
<1> QED BY <1>1, <1>3, <1>4, <1>5, <1>8, <1>10, <1>11
        DEF WordEffect, TypesKept, OptionType, ArchType

LEMMA ReadsWordEffect ==
  ASSUME OptionType, ArchType, ReadsWord
  PROVE  WordEffect /\ TypesKept
BY NoStreamEffect, FlagEffects, ProgramNameEffect, MmcuEffect, EntryPointEffect,
   FlashPmOffsetEffect, SandboxEffect, ArgsEffect, MaxInstrCountEffect, SizeEffect,
   GraphEffect DEF ReadsWord

-----------------------------------------------------------------------------
(* After one word                                                           *)

LEMMA GivenRange ==
  ASSUME OptionType, NEW o
  PROVE  /\ Given(o) \in SUBSET (1 .. i - 1) /\ i - 1 \in Nat
         /\ GivenOn(o) \subseteq Given(o) /\ GivenOff(o) \subseteq Given(o)
         /\ At(o) \in 0 .. i - 1 /\ (At(o) # 0 => At(o) \in Given(o))
         /\ Given(o) \subseteq 1 .. Len(argv) /\ \A k \in Given(o) : Reads(k).opt = o
<1>1. i \in 1 .. Len(argv) + 1 /\ Len(argv) \in Nat
  BY DEF OptionType
<1>2. /\ Given(o) \subseteq 1 .. i - 1 /\ Given(o) \subseteq 1 .. Len(argv)
      /\ \A k \in Given(o) : Reads(k).opt = o
  BY <1>1 DEF Given
<1>3. GivenOn(o) \subseteq Given(o) /\ GivenOff(o) \subseteq Given(o)
  BY DEF GivenOn, GivenOff
<1>4. At(o) \in 0 .. i - 1 /\ (At(o) # 0 => At(o) \in Given(o))
  <2>1. i - 1 \in Nat /\ Given(o) \in SUBSET (1 .. i - 1)
    BY <1>1, <1>2
  <2>2. Latest(Given(o)) \in 0 .. i - 1 /\ (Latest(Given(o)) = 0 <=> Given(o) = {})
    BY <2>1, LatestRange
  <2>3. Given(o) # {} => Latest(Given(o)) \in Given(o)
    BY <2>1, LatestOf
  <2> QED BY <2>2, <2>3 DEF At
<1> QED BY <1>1, <1>2, <1>3, <1>4

LEMMA GivenAfter ==
  ASSUME OptionType, Live(i), WordEffect, argv' = argv
  PROVE  /\ i' \in 1 .. Len(argv) + 1 /\ Live(i)' /\ Word = Reads(i)
         /\ \A k : Reads(k)' = Reads(k)
         /\ \A o : Given(o)' = IF o = Word.opt THEN Given(o) \cup {i} ELSE Given(o)
<1>1. i \in 1 .. Len(argv) /\ i' = Behind(i) /\ (Takes(i) => i < Len(argv))
  BY DEF WordEffect
<1>2. Word = Reads(i)
  BY DEF Word, Reads
<1>3. /\ Behind(i) \in 1 .. Len(argv) + 1 /\ Live(Behind(i))
      /\ \A o : GivenTo(o, Behind(i)) =
           IF o = Reads(i).opt THEN GivenTo(o, i) \cup {i} ELSE GivenTo(o, i)
  BY <1>1, WordRead DEF OptionType
<1>4. /\ Consumed' = Consumed /\ \A k : Reads(k)' = Reads(k)
      /\ \A o : Given(o)' = GivenTo(o, i')
  BY SameWords
<1>5. Live(i)'
  BY <1>1, <1>3, <1>4 DEF Live
<1> QED BY <1>1, <1>2, <1>3, <1>4, <1>5, GivenIs

LEMMA OneAfter ==
  ASSUME OptionType, Live(i), WordEffect, argv' = argv, NEW o
  PROVE  /\ At(o)' = IF o = Word.opt THEN i ELSE At(o)
         /\ IsOn(o)' <=> IF o = Word.opt THEN Word.on ELSE IsOn(o)
         /\ OnOff(o)' = IF o = Word.opt THEN Bit(Word.on) ELSE OnOff(o)
<1>1. /\ Word = Reads(i) /\ \A k : Reads(k)' = Reads(k)
      /\ Given(o)' = IF o = Word.opt THEN Given(o) \cup {i} ELSE Given(o)
  BY GivenAfter
<1>2. Given(o) \in SUBSET (1 .. i - 1) /\ i \in 1 .. Len(argv) /\ Len(argv) \in Nat /\ i # 0
  BY GivenRange DEF WordEffect, OptionType
<1>3. Latest(Given(o) \cup {i}) = i
  BY <1>2, LatestAdded
<1>4. At(o)' = IF o = Word.opt THEN i ELSE At(o)
  BY <1>1, <1>3 DEF At
<1>5. IsOn(o)' <=> IF o = Word.opt THEN Word.on ELSE IsOn(o)
  BY <1>1, <1>2, <1>4 DEF IsOn
<1> QED BY <1>4, <1>5 DEF OnOff, Bit

LEMMA StreamAfter ==
  ASSUME OptionType, Live(i), WordEffect, argv' = argv, NEW f \in Streams
  PROVE  /\ LatestOff(f)' = IF Off(f) THEN i ELSE LatestOff(f)
         /\ LatestName(f)' = IF Word.opt = FileOpt(f) /\ Word.on THEN i ELSE LatestName(f)
         /\ LatestOn(f)' = IF Word.opt = f /\ Word.on THEN i ELSE LatestOn(f)
         /\ LatestOff(f) \in 0 .. i - 1 /\ LatestName(f) \in 0 .. i - 1
         /\ LatestOn(f) \in 0 .. i - 1
<1>1. /\ Word = Reads(i) /\ \A k : Reads(k)' = Reads(k)
      /\ \A o : Given(o)' = IF o = Word.opt THEN Given(o) \cup {i} ELSE Given(o)
  BY GivenAfter
<1>2. /\ \A o : Given(o) \in SUBSET (1 .. i - 1)
      /\ \A o : GivenOn(o) \in SUBSET (1 .. i - 1)
      /\ \A o : GivenOff(o) \in SUBSET (1 .. i - 1)
  BY GivenRange
<1>3. i \in 1 .. Len(argv) /\ Len(argv) \in Nat /\ i - 1 \in Nat
  BY DEF WordEffect, OptionType
<1>4. ASSUME NEW o
      PROVE  /\ GivenOn(o)' = IF o = Word.opt /\ Word.on THEN GivenOn(o) \cup {i} ELSE GivenOn(o)
             /\ GivenOff(o)' = IF o = Word.opt /\ ~Word.on THEN GivenOff(o) \cup {i} ELSE GivenOff(o)
  <2>1. i \notin Given(o)
    BY <1>2, <1>3
  <2>2. GivenOn(o)' = IF o = Word.opt /\ Word.on THEN GivenOn(o) \cup {i} ELSE GivenOn(o)
    BY <1>1, <2>1 DEF GivenOn
  <2>3. GivenOff(o)' = Given(o)' \ GivenOn(o)' /\ GivenOff(o) = Given(o) \ GivenOn(o)
    BY DEF GivenOff
  <2>4. i \notin GivenOn(o)
    BY <2>1 DEF GivenOn
  <2> QED BY <1>1, <2>1, <2>2, <2>3, <2>4
<1>5. \A G \in SUBSET (1 .. i - 1) : Latest(G \cup {i}) = i
  BY <1>3, LatestAdded
<1>6. \A o : Latest(GivenOn(o))' = IF o = Word.opt /\ Word.on THEN i ELSE Latest(GivenOn(o))
  <2> TAKE o
  <2>1. Latest(GivenOn(o))' = Latest(GivenOn(o)')
    OBVIOUS
  <2>2. GivenOn(o)' = IF o = Word.opt /\ Word.on THEN GivenOn(o) \cup {i} ELSE GivenOn(o)
    BY <1>4
  <2> QED BY <1>2, <1>5, <2>1, <2>2
<1>7. LatestName(f)' = IF Word.opt = FileOpt(f) /\ Word.on THEN i ELSE LatestName(f)
  BY <1>6 DEF LatestName
<1>8. LatestOn(f)' = IF Word.opt = f /\ Word.on THEN i ELSE LatestOn(f)
  BY <1>6 DEF LatestOn
<1>9. LatestOff(f)' = IF Off(f) THEN i ELSE LatestOff(f)
  <2> DEFINE G == GivenOff(f) \cup GivenOff(FileOpt(f))
  <2>1. G' = IF Off(f) THEN G \cup {i} ELSE G
    BY <1>4, OptionNamesAre DEF Off
  <2>2. G \in SUBSET (1 .. i - 1)
    BY <1>2
  <2>3. LatestOff(f) = Latest(G) /\ LatestOff(f)' = Latest(G')
    BY DEF LatestOff
  <2> HIDE DEF G
  <2> QED BY <1>3, <2>1, <2>2, <2>3, LatestAdded
<1>10. /\ LatestOff(f) \in 0 .. i - 1 /\ LatestName(f) \in 0 .. i - 1
      /\ LatestOn(f) \in 0 .. i - 1
  <2>1. GivenOff(f) \cup GivenOff(FileOpt(f)) \in SUBSET (1 .. i - 1)
    BY <1>2
  <2> QED BY <1>2, <1>3, <2>1, LatestRange DEF LatestOff, LatestName, LatestOn
<1> QED BY <1>7, <1>8, <1>9, <1>10

LEMMA StreamReadAfter ==
  ASSUME OptionType, Live(i), WordEffect, argv' = argv, NEW f \in Streams, StreamRead(f)
  PROVE  StreamRead(f)'
<1> DEFINE off == LatestOff(f)  name == LatestName(f)  on == LatestOn(f)
<1>1. /\ off' = IF Off(f) THEN i ELSE off
      /\ name' = IF Word.opt = FileOpt(f) /\ Word.on THEN i ELSE name
      /\ on' = IF Word.opt = f /\ Word.on THEN i ELSE on
      /\ off \in 0 .. i - 1 /\ name \in 0 .. i - 1 /\ on \in 0 .. i - 1
  BY StreamAfter
<1>2. /\ do'[f] = IF Off(f) THEN 0 ELSE IF Word.opt = f THEN 1 ELSE do[f]
      /\ do'[FileOpt(f)] = IF Off(f) THEN 0 ELSE IF Word.opt = FileOpt(f) THEN 1 ELSE do[FileOpt(f)]
      /\ s'[FileOpt(f)] = IF Word.opt = FileOpt(f) /\ Word.on THEN Word.text ELSE s[FileOpt(f)]
  BY DEF WordEffect, StreamEffect
<1>3. i \in Nat /\ i > 0 /\ Word = Reads(i) /\ \A k : Reads(k)' = Reads(k)
  BY GivenAfter DEF WordEffect, OptionType
<1>4. f # FileOpt(f) /\ (Off(f) <=> ~Word.on /\ Word.opt \in {f, FileOpt(f)})
  BY OptionNamesAre DEF Off
<1>5. /\ do[FileOpt(f)] = IF name > off THEN 1 ELSE 0
      /\ name > off => s[FileOpt(f)] = Reads(name).text
      /\ do[f] = IF off = 0 \/ on > off THEN 1 ELSE 0
  BY DEF StreamRead
<1> HIDE DEF off, name, on
<1>6. CASE Off(f)
  <2>1. ~(name' > off') /\ off' # 0 /\ ~(on' > off')
    BY <1>1, <1>3, <1>4, <1>6
  <2> QED BY <1>2, <1>6, <2>1 DEF StreamRead, off, name, on
<1>7. CASE ~Off(f) /\ Word.opt = FileOpt(f)
  <2>1. name' = i /\ off' = off /\ on' = on /\ name' > off'
    BY <1>1, <1>3, <1>4, <1>7
  <2> QED BY <1>2, <1>3, <1>4, <1>5, <1>7, <2>1 DEF StreamRead, off, name, on
<1>8. CASE ~Off(f) /\ Word.opt = f
  <2>1. name' = name /\ off' = off /\ on' = i /\ on' > off'
    BY <1>1, <1>3, <1>4, <1>8
  <2> QED BY <1>2, <1>3, <1>4, <1>5, <1>8, <2>1 DEF StreamRead, off, name, on
<1>9. CASE Word.opt \notin {f, FileOpt(f)}
  <2>1. name' = name /\ off' = off /\ on' = on
    BY <1>1, <1>4, <1>9
  <2> QED BY <1>2, <1>3, <1>4, <1>5, <1>9, <2>1 DEF StreamRead, off, name, on
<1> QED BY <1>6, <1>7, <1>8, <1>9

(* The number behind -m is 0 only if it reads as 0.                          *)
LEMMA LimitIs ==
  ASSUME OptionType, NEW k \in 1 .. Len(argv), get_valid_numberKME(Reads(k)) # Invalid
  PROVE  get_valid_numberKME(Reads(k)) = 0 <=> Reads(k).num = 0
<1> DEFINE w == Reads(k)
<1>1. w.num \in Int
  BY WordType
<1> HIDE DEF w
<1>2. CASE w.unit = "e"
  <2>1. get_valid_numberKME(w) = get_valid_numberE(w)
    BY <1>2, NoneIsNoOption DEF get_valid_numberKME
  <2>2. ~(w.expo < 0)
    BY <2>1 DEF get_valid_numberE, w
  <2> DEFINE mant == TimesTen(w.num, w.expo - w.frac)
  <2>3. get_valid_numberE(w) = IF w.num = 0 THEN 0 ELSE IF mant < 1 THEN 1 ELSE mant
    BY <2>2 DEF get_valid_numberE
  <2>4. mant = 0 => mant < 1
    OBVIOUS
  <2> HIDE DEF mant
  <2> QED BY <2>1, <2>3, <2>4 DEF w
<1>3. CASE w.unit # "e"
  <2>1. \/ get_valid_numberKME(w) = 1000 * w.num
        \/ get_valid_numberKME(w) = 1000000 * w.num
        \/ get_valid_numberKME(w) = w.num
    BY <1>3, NoneIsNoOption, SMT DEF get_valid_numberKME, w
  <2> QED BY <1>1, <2>1 DEF w
<1> QED BY <1>2, <1>3

LEMMA LimitAfter ==
  ASSUME OptionType, Live(i), WordEffect, argv' = argv, ALimitIsALimit
  PROVE  ALimitIsALimit'
<1>1. /\ Word = Reads(i) /\ \A k : Reads(k)' = Reads(k)
      /\ Given("m")' = IF "m" = Word.opt THEN Given("m") \cup {i} ELSE Given("m")
  BY GivenAfter
<1>2. Given("m") \in SUBSET (1 .. i - 1) /\ GivenOn("m") \in SUBSET (1 .. i - 1)
  BY GivenRange
<1>3. i \in 1 .. Len(argv) /\ Len(argv) \in Nat
  BY DEF WordEffect, OptionType
<1>4. CASE Word.opt = "m" /\ Word.on
  <2>1. GivenOn("m")' = GivenOn("m") \cup {i}
    BY <1>1, <1>4 DEF GivenOn
  <2>2. Latest(GivenOn("m") \cup {i}) = i
    BY <1>2, <1>3, LatestAdded
  <2>3. Next1 = Reads(i + 1) /\ i + 1 \in 1 .. Len(argv)
    <3>1. Takes(i)
      BY <1>1, <1>4 DEF Takes, TakesWord
    <3> QED BY <1>3, <3>1 DEF Next1, Reads, WordEffect
  <2>4. /\ program'.max_insns = get_valid_numberKME(Next1)
        /\ get_valid_numberKME(Next1) # Invalid
    BY <1>4 DEF WordEffect, ProgramEffect
  <2>5. program'.max_insns = 0 <=> Reads(i + 1).num = 0
    BY <2>3, <2>4, LimitIs
  <2> QED BY <1>1, <2>1, <2>2, <2>5 DEF ALimitIsALimit
<1>5. CASE ~(Word.opt = "m" /\ Word.on)
  <2>1. GivenOn("m")' = GivenOn("m")
    BY <1>1, <1>5 DEF GivenOn
  <2>2. program'.max_insns = program.max_insns
    BY <1>5 DEF WordEffect, ProgramEffect
  <2> QED BY <1>1, <2>1, <2>2 DEF ALimitIsALimit
<1> QED BY <1>4, <1>5

LEMMA SizeAfter ==
  ASSUME OptionType, Live(i), WordEffect, argv' = argv, SizeRead
  PROVE  SizeRead'
<1>1. /\ At("s")' = IF "s" = Word.opt THEN i ELSE At("s")
      /\ IsOn("s")' <=> IF "s" = Word.opt THEN Word.on ELSE IsOn("s")
  BY OneAfter
<1>2. \A k : Reads(k)' = Reads(k)
  BY GivenAfter
<1>3. /\ do'["s"] = IF Word.opt # "s" THEN do["s"]
                    ELSE IF Word.on THEN get_valid_kilo(Next1) ELSE 0
      /\ Word.opt = "s" /\ Word.on => get_valid_kilo(Next1) # 0
      /\ Word.opt = "s" => i < Len(argv)
  BY GivenAfter DEF WordEffect, FlagEffect, Takes, TakesWord
<1>4. Next1 = Reads(i + 1)
  BY DEF Next1, Reads
<1>5. get_valid_kilo(Reads(At("s") + 1))' = get_valid_kilo(Reads(At("s")' + 1))
  <2>1. Reads(At("s") + 1)' = Reads(At("s")' + 1)
    BY <1>2
  <2> QED BY <2>1
<1> HIDE DEF Next1
<1>6. CASE Word.opt = "s"
  BY <1>1, <1>3, <1>4, <1>5, <1>6 DEF SizeRead
<1>7. CASE Word.opt # "s"
  <2>1. At("s")' = At("s") /\ (IsOn("s")' <=> IsOn("s")) /\ do'["s"] = do["s"]
    BY <1>1, <1>3, <1>7
  <2> QED BY <1>5, <2>1 DEF SizeRead
<1> QED BY <1>6, <1>7

LEMMA FlagsAfter ==
  ASSUME OptionType, Live(i), WordEffect, argv' = argv, FlagsRead
  PROVE  FlagsRead'
<1>1. \A o \in {"q", "e", "log="} :
        /\ OnOff(o)' = IF o = Word.opt THEN Bit(Word.on) ELSE OnOff(o)
        /\ At(o)' = IF o = Word.opt THEN i ELSE At(o)
        /\ IsOn(o)' <=> IF o = Word.opt THEN Word.on ELSE IsOn(o)
  BY OneAfter
<1>2. Word = Reads(i) /\ \A k : Reads(k)' = Reads(k)
  BY GivenAfter
<1>3. /\ \A o \in {"q", "e", "log="} : do'[o] = IF o = Word.opt THEN Bit(Word.on) ELSE do[o]
      /\ s'["log="] = IF Word.opt # "log=" THEN s["log="]
                      ELSE IF Word.on THEN Word.text ELSE None
  BY DEF WordEffect, FlagEffect
<1>4. \A o \in {"q", "e", "log="} : do'[o] = OnOff(o)'
  BY <1>1, <1>3 DEF FlagsRead
<1>5. IsOn("log=")' => s'["log="] = (Reads(At("log=")).text)'
  <2>1. Reads(At("log="))' = Reads(At("log=")')
    BY <1>2
  <2> QED BY <1>1, <1>2, <1>3, <2>1 DEF FlagsRead
<1> QED BY <1>4, <1>5 DEF FlagsRead

LEMMA EntryAfter ==
  ASSUME OptionType, Live(i), WordEffect, argv' = argv, EntryRead
  PROVE  EntryRead'
<1>1. /\ At("e")' = IF "e" = Word.opt THEN i ELSE At("e")
      /\ IsOn("e")' <=> IF "e" = Word.opt THEN Word.on ELSE IsOn("e")
  BY OneAfter
<1>2. \A k : Reads(k)' = Reads(k)
  BY GivenAfter
<1>3. /\ program'.entry_point = IF Word.opt # "e" THEN program.entry_point
                                ELSE IF Word.on THEN Next1.num ELSE 0
      /\ Word.opt = "e" /\ Word.on => ValidEntry(Next1.num)
  BY DEF WordEffect, ProgramEffect
<1>4. Next1 = Reads(i + 1) /\ ValidEntry(0)
  BY FlashIsEven DEF Next1, Reads, ValidEntry
<1>5. Reads(At("e") + 1)' = Reads(At("e")' + 1)
  BY <1>2
<1>6. program'.entry_point = (IF IsOn("e") THEN Reads(At("e") + 1).num ELSE 0)'
  BY <1>1, <1>3, <1>4, <1>5 DEF EntryRead
<1>7. ValidEntry(program'.entry_point)
  BY <1>3, <1>4 DEF EntryRead
<1>8. ValidEntry(program.entry_point)'
  BY <1>7 DEF ValidEntry
<1> QED BY <1>6, <1>8 DEF EntryRead

LEMMA WordKeeps ==
  ASSUME SessionInv, ReadsWord, UNCHANGED << isa, is_log, argv, loadVars, hostVars, targetVars >>
  PROVE  SessionInv'
<1>1. OptionType /\ ArchType /\ OptionInv /\ PhaseInv
  BY DEF SessionInv
<1>2. WordEffect /\ TypesKept
  BY <1>1, ReadsWordEffect
<1>3. phase = "options" /\ phase' = "options" /\ argv' = argv
  BY <1>2 DEF WordEffect
<1>4. Live(i) /\ io = << >> /\ EntryRead /\ seg = 1
  BY <1>1, <1>3 DEF PhaseInv, Reading
<1>5. i' \in 1 .. Len(argv) + 1 /\ Live(i)'
  BY <1>1, <1>2, <1>3, <1>4, GivenAfter
<1>6. OptionType'
  BY <1>1, <1>2, <1>5 DEF OptionType, TypesKept
<1>7. ArchType'
  BY <1>1, <1>2 DEF ArchType, TypesKept, loadVars
<1>8. OptionInv'
  <2>1. FlagsRead' /\ SizeRead' /\ ALimitIsALimit'
    BY <1>1, <1>2, <1>3, <1>4, FlagsAfter, SizeAfter, LimitAfter DEF OptionInv
  <2>2. ASSUME NEW f \in Streams PROVE StreamRead(f)'
    BY <1>1, <1>2, <1>3, <1>4, StreamReadAfter DEF OptionInv
  <2> QED BY <2>1, <2>2 DEF OptionInv
<1>9. PhaseInv'
  <2>1. EntryRead' /\ io' = << >> /\ seg' = 1
    BY <1>1, <1>2, <1>3, <1>4, EntryAfter DEF hostVars, loadVars
  <2> QED BY <1>3, <1>5, <2>1 DEF PhaseInv, Reading, InFile, Afterwards
<1>10. IoInv'
  BY <1>4 DEF IoInv, hostVars
<1>11. FileInv' /\ ExitCodeAsDocumented'
  BY <1>3 DEF FileInv, Afterwards, ExitCodeAsDocumented
<1> QED BY <1>6, <1>7, <1>8, <1>9, <1>10, <1>11 DEF SessionInv

-----------------------------------------------------------------------------
(* Steps that leave the command line and what it asks for as they are        *)

LEMMA SameLine ==
  ASSUME UNCHANGED << argv, i >>
  PROVE  /\ Live(i)' = Live(i) /\ \A k : Reads(k)' = Reads(k)
         /\ \A o : /\ Given(o)' = Given(o) /\ GivenOn(o)' = GivenOn(o)
                   /\ At(o)' = At(o) /\ (IsOn(o)' <=> IsOn(o)) /\ OnOff(o)' = OnOff(o)
         /\ \A f : /\ LatestOff(f)' = LatestOff(f) /\ LatestName(f)' = LatestName(f)
                   /\ LatestOn(f)' = LatestOn(f)
                   /\ AskedStream(f)' = AskedStream(f)
         /\ AskedLog' = AskedLog /\ (Quiet' <=> Quiet)
<1>1. \A k : Reads(k)' = Reads(k)
  BY DEF Reads
<1>2. \A o : Given(o)' = Given(o)
  BY SameWords, GivenIs
<1>3. \A o : GivenOn(o)' = GivenOn(o) /\ GivenOff(o)' = GivenOff(o)
  BY <1>1, <1>2 DEF GivenOn, GivenOff
<1>4. \A o : At(o)' = At(o)
  BY <1>2 DEF At
<1>5. \A o : IsOn(o)' <=> IsOn(o)
  BY <1>1, <1>4 DEF IsOn
<1>6. \A o : OnOff(o)' = OnOff(o)
  BY <1>5 DEF OnOff
<1>7. \A f : /\ LatestOff(f)' = LatestOff(f) /\ LatestName(f)' = LatestName(f)
             /\ LatestOn(f)' = LatestOn(f)
  BY <1>3 DEF LatestOff, LatestName, LatestOn
<1>8. \A f : AskedStream(f)' = AskedStream(f)
  BY <1>1, <1>7 DEF AskedStream, LatestOff, LatestName, LatestOn
<1>9. AskedLog' = AskedLog
  BY <1>1, <1>4 DEF AskedLog, At
<1>10. Quiet' <=> Quiet
  BY <1>1, <1>4 DEF Quiet, At
<1>11. Live(i)' = Live(i)
  BY SameWords
<1> QED BY <1>1, <1>2, <1>3, <1>4, <1>5, <1>6, <1>7, <1>8, <1>9, <1>10, <1>11

(* What is asked for, by the names that the invariant has for it.            *)
LEMMA AskedIs ==
  /\ \A f : AskedStream(f) =
       IF LatestName(f) > LatestOff(f) THEN Opened(Reads(LatestName(f)).text, f)
       ELSE IF LatestOff(f) = 0 \/ LatestOn(f) > LatestOff(f) THEN Std(f) ELSE NULL
  /\ AskedLog =
       IF At("log=") = 0 THEN Std("stdout")
       ELSE IF IsOn("log=") /\ Reads(At("log=")).text = "stderr" THEN Std("stderr")
       ELSE IF IsOn("log=") /\ Reads(At("log=")).text \in TxtNames \ Unwritable
       THEN File(Reads(At("log=")).text) ELSE Std("stdout")
  /\ Quiet <=> IsOn("q")
<1>1. \A f : AskedStream(f) =
       IF LatestName(f) > LatestOff(f) THEN Opened(Reads(LatestName(f)).text, f)
       ELSE IF LatestOff(f) = 0 \/ LatestOn(f) > LatestOff(f) THEN Std(f) ELSE NULL
  BY DEF AskedStream, LatestOff, LatestName, LatestOn
<1>2. Quiet <=> IsOn("q")
  BY DEF Quiet, IsOn, At
<1>3. AskedLog =
       IF At("log=") = 0 THEN Std("stdout")
       ELSE IF IsOn("log=") /\ Reads(At("log=")).text = "stderr" THEN Std("stderr")
       ELSE IF IsOn("log=") /\ Reads(At("log=")).text \in TxtNames \ Unwritable
       THEN File(Reads(At("log=")).text) ELSE Std("stdout")
  BY DEF AskedLog, IsOn, At
<1> QED BY <1>1, <1>2, <1>3

(* What the program name and the entry point are does not matter here.       *)
LEMMA OptionsKept ==
  ASSUME OptionType, OptionInv, UNCHANGED << isa, is_log, argv, i, do, s, flash_pm_offset >>,
         program' \in ProgramType, program'.max_insns = program.max_insns
  PROVE  OptionType' /\ OptionInv'
<1>1. OptionType'
  BY DEF OptionType
<1>2. /\ \A k : Reads(k)' = Reads(k)
      /\ \A o : /\ Given(o)' = Given(o) /\ GivenOn(o)' = GivenOn(o)
                /\ At(o)' = At(o) /\ (IsOn(o)' <=> IsOn(o)) /\ OnOff(o)' = OnOff(o)
      /\ \A f : /\ LatestOff(f)' = LatestOff(f) /\ LatestName(f)' = LatestName(f)
                /\ LatestOn(f)' = LatestOn(f)
  BY SameLine
<1>3. FlagsRead'
  BY <1>2 DEF FlagsRead, OptionInv
<1>4. SizeRead'
  BY <1>2 DEF SizeRead, OptionInv
<1>5. ALimitIsALimit'
  BY <1>2 DEF ALimitIsALimit, OptionInv
<1>6. ASSUME NEW f \in Streams PROVE StreamRead(f)'
  <2>1. StreamRead(f)
    BY DEF OptionInv
  <2> QED BY <1>2, <2>1 DEF StreamRead
<1> QED BY <1>1, <1>3, <1>4, <1>5, <1>6 DEF OptionInv

LEMMA IoKept ==
  ASSUME IoInv, UNCHANGED << argv, i, io >>
  PROVE  IoInv'
<1>1. AskedLog' = AskedLog /\ \A f : AskedStream(f)' = AskedStream(f)
  BY SameLine
<1> QED BY <1>1 DEF IoInv

LEMMA EntryKept ==
  ASSUME UNCHANGED << argv, i, program >>
  PROVE  EntryRead' <=> EntryRead
<1>1. /\ \A k : Reads(k)' = Reads(k)
      /\ At("e")' = At("e") /\ (IsOn("e")' <=> IsOn("e"))
  BY SameLine
<1> QED BY <1>1 DEF EntryRead, ValidEntry

LEMMA EntryAskedKept ==
  ASSUME UNCHANGED << argv, i, program >>
  PROVE  EntryAsAsked' <=> EntryAsAsked
<1>1. /\ \A k : Reads(k)' = Reads(k)
      /\ At("e")' = At("e") /\ (IsOn("e")' <=> IsOn("e"))
  BY SameLine
<1> QED BY <1>1 DEF EntryAsAsked, file, At

(* EntryAsAsked and FlashSizeAsAsked by the names of the invariant.          *)
LEMMA EntryIs ==
  EntryAsAsked <=>
    /\ program.entry_point =
         IF IsOn("e") THEN Reads(At("e") + 1).num
         ELSE IF file.elf /\ file.entry < DATA_VADDR THEN file.entry ELSE 0
    /\ ValidEntry(program.entry_point)
BY DEF EntryAsAsked, IsOn, At, ValidEntry

LEMMA StreamsKept ==
  ASSUME StreamsAsked, UNCHANGED << argv, i, streams >>
  PROVE  StreamsAsked'
BY SameLine DEF StreamsAsked

Failed == {"USAGE", "FOPEN", "ELF", "SYMBOL", "CODE", "ABORTED", "TIMEOUT"}

LEMMA ExitCodes ==
  /\ \A n \in Failed : exit_status[n] # 0 /\ n \notin {"EXIT", "HELP", "CRASH"}
  /\ \A n \in Failed : n \in Failure <=> n \in {"FOPEN", "USAGE"}
  /\ "EXIT" \notin Failure /\ "EXIT" \notin {"HELP", "CRASH", "FOPEN", "USAGE"}
BY DEF Failed, exit_status, Failure

LEMMA CodeOfFailure ==
  ASSUME FlagsRead, NEW n \in Failed, leave(n, 0), UNCHANGED << argv, i >>
  PROVE  phase' = "left" /\ ExitCodeAsDocumented'
<1>1. /\ phase' = "left" /\ left'.status = n
      /\ left'.code = IF do.q = 0 THEN IF n \in Failure THEN 1 ELSE 0 ELSE exit_status[n]
  BY ExitCodes DEF leave, exit_code
<1>2. (Quiet' <=> IsOn("q")) /\ do.q = OnOff("q")
  BY SameLine, AskedIs DEF FlagsRead
<1>3. do.q = 0 <=> ~Quiet'
  BY <1>2 DEF OnOff
<1>4. CASE Quiet'
  BY <1>1, <1>3, <1>4, ExitCodes DEF ExitCodeAsDocumented
<1>5. CASE ~Quiet'
  BY <1>1, <1>3, <1>5, ExitCodes DEF ExitCodeAsDocumented
<1> QED BY <1>1, <1>4, <1>5

(* All that is left to say of a process that is gone.                        *)
LEMMA Gone ==
  ASSUME SessionInv, phase' = "left", ExitCodeAsDocumented',
         UNCHANGED << isa, is_log, argv, i, do, s, flash_pm_offset, io >>,
         program' \in ProgramType, program'.max_insns = program.max_insns, ArchType'
  PROVE  SessionInv'
<1>1. OptionType' /\ OptionInv' /\ IoInv'
  BY OptionsKept, IoKept DEF SessionInv
<1>2. PhaseInv' /\ FileInv'
  BY DEF PhaseInv, FileInv, Reading, InFile, Afterwards
<1> QED BY <1>1, <1>2 DEF SessionInv

LEMMA Fails ==
  ASSUME SessionInv, NEW n \in Failed, leave(n, 0),
         UNCHANGED << isa, is_log, argv, i, do, s, flash_pm_offset, io >>,
         program' \in ProgramType, program'.max_insns = program.max_insns, ArchType'
  PROVE  SessionInv'
BY Gone, CodeOfFailure DEF SessionInv, OptionInv

-----------------------------------------------------------------------------
(* The other steps of parse_args                                            *)

LEMMA StreamsOpened ==
  ASSUME OptionInv
  PROVE  /\ \A f \in Streams : maybe_open_file(f) = AskedStream(f)
         /\ log_stream = AskedLog
<1>1. ASSUME NEW f \in Streams PROVE maybe_open_file(f) = AskedStream(f)
  <2>1. StreamRead(f)
    BY DEF OptionInv
  <2> QED BY <2>1, AskedIs DEF StreamRead, maybe_open_file, Opened
<1>2. log_stream = AskedLog
  <2>1. /\ do["log="] = OnOff("log=") /\ (IsOn("log=") => s["log="] = Reads(At("log=")).text)
        /\ (IsOn("log=") => At("log=") # 0)
    BY DEF OptionInv, FlagsRead, IsOn
  <2>2. \A name : Std(name) # NULL /\ File(name) # NULL
    BY DEF Std, File, NULL
  <2>3. \A name : fopen(name, "log") = IF name \notin Unwritable THEN File(name) ELSE NULL
    BY DEF fopen
  <2>4. CASE IsOn("log=")
    <3>1. do["log="] = 1
      BY <2>1, <2>4 DEF OnOff
    <3> QED BY <2>1, <2>2, <2>3, <2>4, <3>1, AskedIs DEF log_stream
  <2>5. CASE ~IsOn("log=")
    <3>1. do["log="] = 0
      BY <2>1, <2>5 DEF OnOff
    <3> QED BY <2>5, <3>1, AskedIs DEF log_stream
  <2> QED BY <2>4, <2>5
<1> QED BY <1>1, <1>2

LEMMA HelpKeeps ==
  ASSUME SessionInv, Help, UNCHANGED << isa, is_log, argv, loadVars, hostVars, targetVars >>
  PROVE  SessionInv'
<1>1. /\ phase = "help" /\ UNCHANGED << i, do, s, program, arch, flash_pm_offset, io, seg, device, image >>
      /\ argv' = argv
  BY DEF Help, optionVars, loadVars, hostVars
<1>2. ArchType' /\ program' \in ProgramType /\ program'.max_insns = program.max_insns
  BY <1>1 DEF SessionInv, ArchType, OptionType
<1>3. CASE phase' = "left" /\ left' = [status |-> "HELP", code |-> 0]
  <2>1. ExitCodeAsDocumented'
    BY <1>3 DEF ExitCodeAsDocumented
  <2> QED BY <1>1, <1>2, <1>3, <2>1, Gone
<1>4. CASE phase' = "options"
  <2>1. OptionType' /\ OptionInv' /\ IoInv'
    BY <1>1, <1>2, OptionsKept, IoKept DEF SessionInv
  <2>2. Live(i) /\ io = << >> /\ EntryRead /\ seg = 1
    BY <1>1 DEF PhaseInv, Reading, SessionInv
  <2>3. Live(i)' /\ io' = << >> /\ seg' = 1
    BY <1>1, <2>2, SameLine
  <2>4. EntryRead'
    BY <1>1, <2>2, EntryKept
  <2>5. PhaseInv'
    BY <1>4, <2>3, <2>4 DEF PhaseInv, Reading, InFile, Afterwards
  <2>6. FileInv' /\ ExitCodeAsDocumented'
    BY <1>4 DEF FileInv, Afterwards, ExitCodeAsDocumented
  <2> QED BY <1>2, <2>1, <2>5, <2>6 DEF SessionInv
<1> QED BY <1>3, <1>4 DEF Help

LEMMA UsageKeeps ==
  ASSUME SessionInv, Usage, UNCHANGED << isa, is_log, argv, loadVars, hostVars, targetVars >>
  PROVE  SessionInv'
<1>1. /\ leave("USAGE", 0) /\ argv' = argv
      /\ UNCHANGED << i, do, s, program, arch, flash_pm_offset, io, seg, device, image >>
  BY DEF Usage, optionVars, loadVars, hostVars
<1>2. ArchType' /\ program' \in ProgramType /\ program'.max_insns = program.max_insns
  BY <1>1 DEF SessionInv, ArchType, OptionType
<1>3. "USAGE" \in Failed
  BY DEF Failed
<1> QED BY <1>1, <1>2, <1>3, Fails

LEMMA EndOfWordsKeeps ==
  ASSUME SessionInv, EndOfWords, UNCHANGED << isa, is_log, argv, loadVars, hostVars, targetVars >>
  PROVE  SessionInv'
<1>1. /\ phase = "options" /\ argv' = argv
      /\ UNCHANGED << i, do, s, program, flash_pm_offset, io, seg, device, image >>
  BY DEF EndOfWords, loadVars, hostVars
<1>2. program' \in ProgramType /\ program'.max_insns = program.max_insns
  BY <1>1 DEF SessionInv, OptionType
<1>3. CASE leave("USAGE", 0) /\ UNCHANGED << arch, streams >>
  <2>1. ArchType'
    BY <1>1, <1>3 DEF SessionInv, ArchType
  <2>2. "USAGE" \in Failed
    BY DEF Failed
  <2> QED BY <1>1, <1>2, <1>3, <2>1, <2>2, Fails
<1>4. CASE /\ arch' = IF flash_pm_offset = 0 THEN arch
                      ELSE [arch EXCEPT !.desc.flash_pm_offset = flash_pm_offset]
           /\ streams' = [f \in Streams \cup {"log"} |->
                            IF f = "log" THEN log_stream ELSE maybe_open_file(f)]
           /\ phase' = "open"
  <2>1. ArchType'
    <3>1. arch \in [name : DOMAIN arch_desc, desc : DescType] /\ flash_pm_offset \in Int
      BY DEF SessionInv, ArchType, OptionType
    <3>2. arch' \in [name : DOMAIN arch_desc, desc : DescType]
      BY <1>4, <3>1 DEF DescType
    <3> QED BY <1>1, <3>2 DEF SessionInv, ArchType
  <2>2. OptionType' /\ OptionInv' /\ IoInv'
    BY <1>1, <1>2, OptionsKept, IoKept DEF SessionInv
  <2>3. EntryRead' /\ seg' = 1
    BY <1>1, EntryKept DEF PhaseInv, Reading, SessionInv
  <2>4. StreamsAsked'
    <3>1. streams'["log"] = AskedLog /\ \A f \in Streams : streams'[f] = AskedStream(f)
      <4>1. "log" \notin Streams
        BY DEF Streams
      <4> QED BY <1>4, <4>1, StreamsOpened DEF SessionInv
    <3> QED BY <1>1, <3>1, SameLine DEF StreamsAsked
  <2>5. PhaseInv'
    BY <1>4, <2>3, <2>4 DEF PhaseInv, Reading, InFile, Afterwards
  <2>6. FileInv' /\ ExitCodeAsDocumented'
    BY <1>4 DEF FileInv, Afterwards, ExitCodeAsDocumented
  <2> QED BY <2>1, <2>2, <2>5, <2>6 DEF SessionInv
<1> QED BY <1>3, <1>4 DEF EndOfWords

-----------------------------------------------------------------------------
(* The steps of the loader                                                  *)

(* What file stands for.                                                    *)
LEMMA FileIs ==
  ASSUME program.name \in DOMAIN ProgramFiles
  PROVE  /\ file.elf \in BOOLEAN
         /\ ~file.elf => file.bytes \in Seq(Nat)
         /\ file.elf => /\ file.arch \in ElfArchs /\ file.entry \in Nat
                        /\ file.device \in DeviceType /\ file.device.flash_end % 2 = 0
                        /\ file.phdrs \in Seq(PhdrType)
                        /\ \A k \in DOMAIN file.phdrs :
                             Len(file.phdrs[k].bytes) <= file.phdrs[k].memsz
BY FilesAssumption DEF file

LEMMA OpenProgramKeeps ==
  ASSUME SessionInv, OpenProgram, UNCHANGED << isa, is_log, argv, hostVars, targetVars >>
  PROVE  SessionInv'
<1>1. /\ phase = "open" /\ argv' = argv
      /\ UNCHANGED << i, do, s, program, flash_pm_offset, streams, arch, io, seg, device >>
  BY DEF OpenProgram, Stay, hostVars
<1>2. /\ program' \in ProgramType /\ program'.max_insns = program.max_insns
      /\ EntryRead /\ StreamsAsked /\ seg = 1 /\ file' = file
  BY <1>1 DEF SessionInv, OptionType, PhaseInv, file
<1>3. EntryRead' /\ StreamsAsked' /\ seg' = 1
  BY <1>1, <1>2, EntryKept, StreamsKept
<1>4. OptionType' /\ OptionInv' /\ IoInv'
  BY <1>1, <1>2, OptionsKept, IoKept DEF SessionInv
<1>5. CASE leave("FOPEN", 0) /\ UNCHANGED << flash, image >>
  <2>1. ArchType'
    BY <1>1, <1>5 DEF SessionInv, ArchType
  <2>2. "FOPEN" \in Failed
    BY DEF Failed
  <2> QED BY <1>1, <1>2, <1>5, <2>1, <2>2, Fails
<1>6. CASE program.name \in DOMAIN ProgramFiles /\ file.elf /\ phase' = "header" /\ UNCHANGED image
  <2>1. ArchType'
    BY <1>1, <1>6 DEF SessionInv, ArchType
  <2>2. PhaseInv'
    BY <1>1, <1>2, <1>3, <1>6 DEF PhaseInv, Reading, InFile, Afterwards
  <2>3. FileInv' /\ ExitCodeAsDocumented'
    BY <1>6 DEF FileInv, Afterwards, ExitCodeAsDocumented
  <2> QED BY <1>4, <2>1, <2>2, <2>3 DEF SessionInv
<1>7. CASE /\ program.name \in DOMAIN ProgramFiles /\ ~file.elf /\ phase' = "mask"
           /\ image' = [image EXCEPT !.size = Len(file.bytes), !.n_bytes = Len(file.bytes),
                !.code_start = 0,
                !.code_end = IF file.bytes = << >> THEN MinusOneU ELSE Len(file.bytes) - 1]
  <2>1. ArchType'
    <3> DEFINE n == Len(file.bytes)
               e == IF file.bytes = << >> THEN MinusOneU ELSE n - 1
    <3>1. n \in Nat /\ e \in Int
      BY <1>7, FileIs DEF MinusOneU
    <3>2. image' = [image EXCEPT !.size = n, !.n_bytes = n, !.code_start = 0, !.code_end = e]
      BY <1>7
    <3> HIDE DEF n, e
    <3>3. image \in ImageType
      BY DEF SessionInv, ArchType
    <3>4. image' \in ImageType
      BY <3>1, <3>2, <3>3 DEF ImageType
    <3> QED BY <1>1, <3>4 DEF SessionInv, ArchType
  <2>2. EntryAsAsked'
    <3>1. EntryAsAsked
      BY <1>2, <1>7, EntryIs DEF EntryRead
    <3> QED BY <1>1, <3>1, EntryAskedKept
  <2>3. PhaseInv'
    BY <1>1, <1>3, <1>7, <2>2 DEF PhaseInv, Reading, InFile, Afterwards
  <2>4. FileInv' /\ ExitCodeAsDocumented'
    BY <1>2, <1>7 DEF FileInv, Afterwards, ExitCodeAsDocumented
  <2> QED BY <1>4, <2>1, <2>3, <2>4 DEF SessionInv
<1> QED BY <1>5, <1>6, <1>7 DEF OpenProgram

LEMMA LoadHeaderKeeps ==
  ASSUME SessionInv, LoadHeader, UNCHANGED << isa, is_log, argv, hostVars, targetVars >>
  PROVE  SessionInv'
<1>1. /\ phase = "header" /\ argv' = argv
      /\ UNCHANGED << i, do, s, flash_pm_offset, streams, arch, io, seg, device, image >>
      /\ program' = IF file.header /\ TakesEntry
                    THEN [program EXCEPT !.entry_point = file.entry] ELSE program
  BY DEF LoadHeader, Stay, hostVars, loadVars
<1>2. /\ program \in ProgramType /\ EntryRead /\ StreamsAsked /\ seg = 1
      /\ program.name \in DOMAIN ProgramFiles /\ file.elf /\ do.e = OnOff("e")
  BY <1>1 DEF SessionInv, OptionType, OptionInv, FlagsRead, PhaseInv, InFile
<1>3. file.entry \in Nat
  BY <1>2, FileIs
<1>4. /\ program' \in ProgramType /\ program'.max_insns = program.max_insns
      /\ program'.name = program.name
      /\ program'.entry_point = IF file.header /\ TakesEntry THEN file.entry
                                ELSE program.entry_point
  BY <1>1, <1>2, <1>3 DEF ProgramType
<1>5. ArchType'
  BY <1>1 DEF SessionInv, ArchType
<1>6. CASE leave("ELF", 0)
  <2>1. "ELF" \in Failed
    BY DEF Failed
  <2> QED BY <1>1, <1>4, <1>5, <1>6, <2>1, Fails
<1>7. CASE file.header /\ ~BadEntry /\ phase' = "sections"
  <2>1. OptionType' /\ OptionInv' /\ IoInv'
    BY <1>1, <1>4, OptionsKept, IoKept DEF SessionInv
  <2>2. file' = file
    BY <1>4 DEF file
  <2>3. EntryAsAsked'
    <3>1. TakesEntry <=> ~IsOn("e") /\ file.entry < DATA_VADDR
      BY <1>2 DEF TakesEntry, OnOff
    <3>2. program'.entry_point =
            IF IsOn("e") THEN Reads(At("e") + 1).num
            ELSE IF file.entry < DATA_VADDR THEN file.entry ELSE 0
      BY <1>2, <1>4, <1>7, <3>1 DEF EntryRead
    <3>3. ValidEntry(program'.entry_point)
      <4>1. CASE TakesEntry
        <5>1. file.entry < MAX_FLASH_SIZE /\ file.entry % 2 = 0
          BY <1>3, <1>7, <4>1, FlashIsEven DEF BadEntry
        <5>2. file.entry <= MAX_FLASH_SIZE - 2
          BY <1>3, <5>1, FlashIsEven
        <5> QED BY <1>3, <1>4, <1>7, <4>1, <5>1, <5>2, FlashIsEven DEF ValidEntry
      <4>2. CASE ~TakesEntry
        BY <1>2, <1>4, <4>2 DEF EntryRead
      <4> QED BY <4>1, <4>2
    <3>4. /\ \A k : Reads(k)' = Reads(k)
          /\ At("e")' = At("e") /\ (IsOn("e")' <=> IsOn("e"))
      BY <1>1, SameLine
    <3>5. EntryAsAsked' <=>
            (/\ program.entry_point =
                  IF IsOn("e") THEN Reads(At("e") + 1).num
                  ELSE IF file.elf /\ file.entry < DATA_VADDR THEN file.entry ELSE 0
             /\ ValidEntry(program.entry_point))'
      BY EntryIs, PTL
    <3>6. ValidEntry(program.entry_point)' <=> ValidEntry(program'.entry_point)
      BY DEF ValidEntry
    <3> QED BY <1>2, <2>2, <3>2, <3>3, <3>4, <3>5, <3>6
  <2>4. StreamsAsked'
    BY <1>1, <1>2, StreamsKept
  <2>5. PhaseInv'
    BY <1>1, <1>2, <1>4, <1>7, <2>2, <2>3, <2>4 DEF PhaseInv, Reading, InFile, Afterwards
  <2>6. FileInv' /\ ExitCodeAsDocumented'
    BY <1>7 DEF FileInv, Afterwards, ExitCodeAsDocumented
  <2> QED BY <1>5, <2>1, <2>5, <2>6 DEF SessionInv
<1> QED BY <1>6, <1>7 DEF LoadHeader

LEMMA LoadSectionsKeeps ==
  ASSUME SessionInv, LoadSections, UNCHANGED << isa, is_log, argv, hostVars, targetVars >>
  PROVE  SessionInv'
<1>1. /\ phase = "sections" /\ argv' = argv
      /\ UNCHANGED << i, do, s, flash_pm_offset, streams, program, io, seg, image >>
  BY DEF LoadSections, Stay, hostVars
<1>2. /\ program' \in ProgramType /\ program'.max_insns = program.max_insns
      /\ EntryAsAsked /\ StreamsAsked /\ seg = 1 /\ file' = file
      /\ program.name \in DOMAIN ProgramFiles /\ file.elf
  BY <1>1 DEF SessionInv, OptionType, PhaseInv, InFile, file
<1>3. CASE UNCHANGED << arch, device >> /\ (leave("ELF", 0) \/ leave("SYMBOL", 0))
  <2>1. ArchType'
    BY <1>1, <1>3 DEF SessionInv, ArchType
  <2>2. {"ELF", "SYMBOL"} \subseteq Failed
    BY DEF Failed
  <2> QED BY <1>1, <1>2, <1>3, <2>1, <2>2, Fails
<1>4. CASE /\ device' = file.device
           /\ arch' = [arch EXCEPT !.desc.flash_pm_offset = OffsetOfDevice(file.arch)]
           /\ IF Len(file.phdrs) > MaxPhdr THEN leave("ELF", 0) ELSE phase' = "segments"
  <2> DEFINE offset == OffsetOfDevice(file.arch)
  <2>1. ArchType'
    <3>1. arch \in [name : DOMAIN arch_desc, desc : DescType]
      BY DEF SessionInv, ArchType
    <3>2. arch.desc.flash_pm_offset \in Int
      BY <3>1 DEF DescType
    <3>3. offset \in Int
      BY <3>2 DEF OffsetOfDevice
    <3>4. arch' = [arch EXCEPT !.desc.flash_pm_offset = offset]
      BY <1>4
    <3> HIDE DEF offset
    <3>5. arch' \in [name : DOMAIN arch_desc, desc : DescType]
      BY <3>1, <3>3, <3>4 DEF DescType
    <3> QED BY <1>1, <1>2, <1>4, <3>5, FileIs DEF SessionInv, ArchType
  <2>2. CASE leave("ELF", 0)
    <3>1. "ELF" \in Failed
      BY DEF Failed
    <3> QED BY <1>1, <1>2, <2>1, <2>2, <3>1, Fails
  <2>3. CASE phase' = "segments"
    <3>1. OptionType' /\ OptionInv' /\ IoInv'
      BY <1>1, <1>2, OptionsKept, IoKept DEF SessionInv
    <3>2. EntryAsAsked' /\ StreamsAsked'
      BY <1>1, <1>2, EntryAskedKept, StreamsKept
    <3>3. PhaseInv'
      BY <1>1, <1>2, <2>3, <3>2 DEF PhaseInv, Reading, InFile, Afterwards
    <3>4. FileInv' /\ ExitCodeAsDocumented'
      BY <1>1, <1>2, <2>3 DEF FileInv, Afterwards, ExitCodeAsDocumented
    <3> QED BY <2>1, <3>1, <3>3, <3>4 DEF SessionInv
  <2> QED BY <1>4, <2>2, <2>3
<1> QED BY <1>3, <1>4 DEF LoadSections

LEMMA Addresses ==
  /\ MAX_FLASH_SIZE \in Nat /\ DATA_VADDR \in Nat /\ EEPROM_VADDR \in Nat
  /\ MAX_FLASH_SIZE < EEPROM_VADDR
BY DEF MAX_FLASH_SIZE, DATA_VADDR, EEPROM_VADDR

(* A segment that is loaded into flash is covered from now on.               *)
LEMMA SegmentCovered ==
  ASSUME NEW p \in PhdrType, image \in ImageType, InFlash(p), ~TooBig(p),
         image' = ImageAfter(p)
  PROVE  Covered(image', p)
<1>1. /\ image'.size = MaxOf(image.size, p.paddr + p.memsz)
      /\ image'.code_start = IF p.x /\ p.paddr < image.code_start THEN p.paddr ELSE image.code_start
      /\ image'.code_end = IF p.x THEN MaxOf(image.code_end, p.paddr + p.memsz - 1)
                           ELSE image.code_end
  BY DEF ImageAfter, ImageType
<1>2. /\ p.paddr \in Nat /\ p.memsz \in Nat /\ p.x \in BOOLEAN
      /\ image.size \in Nat /\ image.code_start \in Nat /\ image.code_end \in Int
  BY DEF PhdrType, ImageType
<1>3. ASSUME p.x
      PROVE  /\ image'.code_start <= p.paddr /\ p.paddr + p.memsz - 1 <= image'.code_end
             /\ p.paddr + p.memsz <= image'.size
  BY <1>1, <1>2, <1>3 DEF MaxOf
<1> QED BY <1>3 DEF Covered

(* One that is not has no code.                                             *)
LEMMA SegmentElsewhere ==
  ASSUME NEW p \in PhdrType, ~InFlash(p), ~TooBig(p), Len(p.bytes) <= p.memsz
  PROVE  ~(p.paddr < DATA_VADDR)
<1>1. /\ p.paddr \in Nat /\ p.memsz \in Nat /\ p.vaddr \in Nat /\ Len(p.bytes) \in Nat
  BY DEF PhdrType
<1>2. SUFFICES ASSUME p.paddr < DATA_VADDR PROVE FALSE
  OBVIOUS
<1>3. InEeprom(p)
  BY <1>2 DEF InFlash
<1>4. p.paddr + p.memsz <= MAX_FLASH_SIZE
  BY <1>1, <1>2, Addresses DEF TooBig
<1>5. p.paddr - EEPROM_VADDR + Len(p.bytes) \in 0 .. MAX_EEPROM_SIZE
  BY <1>3 DEF TooBig, filesz
<1> HIDE DEF MAX_EEPROM_SIZE
<1>6. p.paddr - EEPROM_VADDR + Len(p.bytes) >= 0
  BY <1>5
<1> QED BY <1>1, <1>4, <1>6, Addresses

LEMMA CoveredKept ==
  ASSUME NEW p \in PhdrType, Covered(image, p), image \in ImageType, image' \in ImageType,
         image'.code_start <= image.code_start, image.code_end <= image'.code_end,
         image.size <= image'.size
  PROVE  Covered(image', p)
<1>1. /\ p.paddr \in Nat /\ p.memsz \in Nat
      /\ image.size \in Nat /\ image.code_start \in Nat /\ image.code_end \in Int
      /\ image'.size \in Nat /\ image'.code_start \in Nat /\ image'.code_end \in Int
  BY DEF PhdrType, ImageType
<1> QED BY <1>1 DEF Covered

LEMMA ImageGrows ==
  ASSUME NEW p \in PhdrType, image \in ImageType, image' = ImageAfter(p)
  PROVE  /\ image' \in ImageType /\ image'.code_start <= image.code_start
         /\ image.code_end <= image'.code_end /\ image.size <= image'.size
<1>1. /\ p.paddr \in Nat /\ p.memsz \in Nat /\ Len(p.bytes) \in Nat
      /\ image.size \in Nat /\ image.code_start \in Nat /\ image.code_end \in Int
      /\ image.n_bytes \in Nat
  BY DEF PhdrType, ImageType
<1> DEFINE n == image.n_bytes + filesz(p)
           size == MaxOf(image.size, p.paddr + p.memsz)
           start == IF p.x /\ p.paddr < image.code_start THEN p.paddr ELSE image.code_start
           end == IF p.x THEN MaxOf(image.code_end, p.paddr + p.memsz - 1) ELSE image.code_end
<1>2. image' = [image EXCEPT !.n_bytes = n, !.size = size, !.code_start = start, !.code_end = end]
  BY DEF ImageAfter, ImageType
<1>3. n \in Nat /\ size \in Nat /\ start \in Nat /\ end \in Int
  BY <1>1, SMTT(30) DEF MaxOf, filesz
<1>4. start <= image.code_start /\ image.code_end <= end /\ image.size <= size
  BY <1>1, SMTT(30) DEF MaxOf
<1> HIDE DEF n, size, start, end
<1>5. image' \in ImageType
  BY <1>2, <1>3 DEF ImageType
<1>6. image'.code_start = start /\ image'.code_end = end /\ image'.size = size
  BY <1>2 DEF ImageType
<1> QED BY <1>4, <1>5, <1>6

LEMMA LoadSegmentKeeps ==
  ASSUME SessionInv, LoadSegment, UNCHANGED << isa, is_log, argv, hostVars, targetVars >>
  PROVE  SessionInv'
<1>1. /\ phase = "segments" /\ argv' = argv /\ seg <= Len(file.phdrs) /\ seg' = seg + 1
      /\ UNCHANGED << i, do, s, flash_pm_offset, streams, program, io, arch, device >>
  BY DEF LoadSegment, Stay, hostVars
<1>2. /\ program' \in ProgramType /\ program'.max_insns = program.max_insns
      /\ EntryAsAsked /\ StreamsAsked /\ file' = file
      /\ program.name \in DOMAIN ProgramFiles /\ file.elf
      /\ seg \in Nat \ {0} /\ image \in ImageType
  BY <1>1 DEF SessionInv, OptionType, ArchType, PhaseInv, InFile, file
<1>3. /\ file.phdrs \in Seq(PhdrType) /\ seg \in 1 .. Len(file.phdrs)
      /\ Phdr \in PhdrType /\ Len(Phdr.bytes) <= Phdr.memsz
  <2>1. file.phdrs \in Seq(PhdrType) /\ seg \in DOMAIN file.phdrs
    BY <1>1, <1>2, FileIs
  <2> QED BY <1>2, <2>1, FileIs DEF Phdr
<1>4. \A k \in 1 .. Len(file.phdrs) : k < seg /\ IsLoaded(file.phdrs[k]) => Covered(image, file.phdrs[k])
  BY <1>1 DEF SessionInv, FileInv
<1>5. ASSUME image' \in ImageType, image'.code_start <= image.code_start,
             image.code_end <= image'.code_end, image.size <= image'.size,
             IsLoaded(Phdr) => Covered(image', Phdr), phase' = "segments"
      PROVE  SessionInv'
  <2>1. OptionType' /\ OptionInv' /\ IoInv'
    BY <1>1, <1>2, OptionsKept, IoKept DEF SessionInv
  <2>2. ArchType'
    BY <1>1, <1>2, <1>5 DEF SessionInv, ArchType
  <2>3. EntryAsAsked' /\ StreamsAsked'
    BY <1>1, <1>2, EntryAskedKept, StreamsKept
  <2>4. PhaseInv'
    BY <1>1, <1>2, <1>5, <2>3 DEF PhaseInv, Reading, InFile, Afterwards
  <2>5. ASSUME NEW k \in 1 .. Len(file.phdrs), k < seg', IsLoaded(file.phdrs[k])
        PROVE  Covered(image', file.phdrs[k])
    <3>1. CASE k < seg
      <4>1. Covered(image, file.phdrs[k]) /\ file.phdrs[k] \in PhdrType
        BY <1>3, <1>4, <2>5, <3>1
      <4> QED BY <1>2, <1>5, <4>1, CoveredKept
    <3>2. CASE k = seg
      BY <1>5, <2>5, <3>2 DEF Phdr
    <3> QED BY <1>1, <1>2, <2>5, <3>1, <3>2
  <2>6. FileInv'
    <3>1. \A k \in 1 .. Len(file.phdrs) :
            k < seg' /\ IsLoaded(file.phdrs[k]) => Covered(image', file.phdrs[k])
      BY <2>5
    <3> QED BY <1>2, <1>5, <3>1 DEF FileInv, Afterwards
  <2>7. ExitCodeAsDocumented'
    BY <1>5 DEF ExitCodeAsDocumented
  <2> QED BY <2>1, <2>2, <2>4, <2>6, <2>7 DEF SessionInv
<1>6. CASE ~IsLoaded(Phdr) /\ UNCHANGED << phase, image >>
  <2>1. image.code_start \in Int /\ image.code_end \in Int /\ image.size \in Int
    BY <1>2 DEF ImageType
  <2> QED BY <1>1, <1>2, <1>5, <1>6, <2>1
<1>7. CASE leave("ELF", 0) /\ UNCHANGED image
  <2>1. "ELF" \in Failed
    BY DEF Failed
  <2>2. ArchType'
    BY <1>1, <1>2, <1>7 DEF SessionInv, ArchType
  <2> QED BY <1>1, <1>2, <1>7, <2>1, <2>2, Fails
<1>8. CASE /\ ~TooBig(Phdr) /\ phase' = phase
           /\ InFlash(Phdr) /\ image' = ImageAfter(Phdr)
  <2>1. /\ image' \in ImageType /\ image'.code_start <= image.code_start
        /\ image.code_end <= image'.code_end /\ image.size <= image'.size
    BY <1>2, <1>3, <1>8, ImageGrows
  <2>2. Covered(image', Phdr)
    BY <1>2, <1>3, <1>8, SegmentCovered
  <2> QED BY <1>1, <1>5, <1>8, <2>1, <2>2
<1>9. CASE /\ ~TooBig(Phdr) /\ phase' = phase /\ ~InFlash(Phdr)
           /\ image' = [image EXCEPT !.n_bytes = @ + filesz(Phdr)]
  <2>1. image.n_bytes \in Nat /\ filesz(Phdr) \in Nat
    BY <1>2, <1>3 DEF ImageType, filesz, PhdrType
  <2>2. /\ image' \in ImageType /\ image'.code_start = image.code_start
        /\ image'.code_end = image.code_end /\ image'.size = image.size
    BY <1>2, <1>9, <2>1 DEF ImageType
  <2>3. Covered(image', Phdr)
    BY <1>3, <1>9, SegmentElsewhere DEF Covered
  <2>4. image.code_start \in Int /\ image.code_end \in Int /\ image.size \in Int
    BY <1>2 DEF ImageType
  <2> QED BY <1>1, <1>5, <1>9, <2>2, <2>3, <2>4
<1> QED BY <1>1, <1>6, <1>7, <1>8, <1>9 DEF LoadSegment

LEMMA CheckArchKeeps ==
  ASSUME SessionInv, CheckArch, UNCHANGED << isa, is_log, argv, hostVars, targetVars >>
  PROVE  SessionInv'
<1>1. /\ phase = "segments" /\ argv' = argv /\ seg > Len(file.phdrs)
      /\ UNCHANGED << i, do, s, flash_pm_offset, streams, program, io, arch, device, seg, image >>
  BY DEF CheckArch, optionVars, loadVars, hostVars
<1>2. /\ program' \in ProgramType /\ program'.max_insns = program.max_insns
      /\ EntryAsAsked /\ StreamsAsked /\ file' = file
      /\ program.name \in DOMAIN ProgramFiles /\ file.elf
  BY <1>1 DEF SessionInv, OptionType, PhaseInv, InFile, file
<1>3. ArchType'
  BY <1>1 DEF SessionInv, ArchType
<1>4. CASE leave("USAGE", 0)
  <2>1. "USAGE" \in Failed
    BY DEF Failed
  <2> QED BY <1>1, <1>2, <1>3, <1>4, <2>1, Fails
<1>5. CASE ArchFits(file.arch) /\ phase' = "mask"
  <2>1. OptionType' /\ OptionInv' /\ IoInv'
    BY <1>1, <1>2, OptionsKept, IoKept DEF SessionInv
  <2>2. EntryAsAsked' /\ StreamsAsked'
    BY <1>1, <1>2, EntryAskedKept, StreamsKept
  <2>3. PhaseInv'
    BY <1>1, <1>2, <1>5, <2>2 DEF PhaseInv, Reading, InFile, Afterwards
  <2>4. \A p \in Segments : Covered(image, p)
    <3>1. file.phdrs \in Seq(PhdrType) /\ seg \in Nat
      BY <1>2, FileIs DEF SessionInv, ArchType
    <3>2. ASSUME NEW k \in DOMAIN file.phdrs, IsLoaded(file.phdrs[k])
          PROVE  Covered(image, file.phdrs[k])
      <4>1. k \in 1 .. Len(file.phdrs) /\ k < seg
        BY <1>1, <3>1
      <4> QED BY <1>1, <3>2, <4>1 DEF SessionInv, FileInv
    <3> QED BY <3>2 DEF Segments, Range
  <2>5. Segments' = Segments /\ ArchFits(file.arch)'
    BY <1>1, <1>2, <1>5 DEF Segments, ArchFits, pm
  <2>6. FileInv'
    BY <1>1, <1>2, <1>5, <2>4, <2>5 DEF FileInv, Afterwards
  <2>7. ExitCodeAsDocumented'
    BY <1>5 DEF ExitCodeAsDocumented
  <2> QED BY <1>3, <2>1, <2>3, <2>6, <2>7 DEF SessionInv
<1> QED BY <1>4, <1>5 DEF CheckArch

LEMMA PowersAreEven ==
  \A p \in PowersOf2 : p \in Nat /\ p > 0 /\ (p = 1 \/ p % 2 = 0)
<1> DEFINE TwoTo(k) == 2^k
           Even(p) == p \in Nat /\ p > 0 /\ (p = 1 \/ p % 2 = 0)
<1>1. PowersOf2 = {TwoTo(k) : k \in 0 .. 30}
  BY DEF PowersOf2
<1>2. /\ Even(TwoTo(0)) /\ Even(TwoTo(1)) /\ Even(TwoTo(2)) /\ Even(TwoTo(3))
      /\ Even(TwoTo(4)) /\ Even(TwoTo(5)) /\ Even(TwoTo(6)) /\ Even(TwoTo(7))
  BY SMT
<1>3. /\ Even(TwoTo(8)) /\ Even(TwoTo(9)) /\ Even(TwoTo(10)) /\ Even(TwoTo(11))
      /\ Even(TwoTo(12)) /\ Even(TwoTo(13)) /\ Even(TwoTo(14)) /\ Even(TwoTo(15))
  BY SMT
<1>4. /\ Even(TwoTo(16)) /\ Even(TwoTo(17)) /\ Even(TwoTo(18)) /\ Even(TwoTo(19))
      /\ Even(TwoTo(20)) /\ Even(TwoTo(21)) /\ Even(TwoTo(22)) /\ Even(TwoTo(23))
  BY SMT
<1>5. /\ Even(TwoTo(24)) /\ Even(TwoTo(25)) /\ Even(TwoTo(26)) /\ Even(TwoTo(27))
      /\ Even(TwoTo(28)) /\ Even(TwoTo(29)) /\ Even(TwoTo(30))
  BY SMT
<1> HIDE DEF TwoTo, Even
<1>6. \A k \in 0 .. 30 : Even(TwoTo(k))
  <2>1. \A k \in 0 .. 7 : Even(TwoTo(k))
    BY <1>2
  <2>2. \A k \in 8 .. 15 : Even(TwoTo(k))
    BY <1>3
  <2>3. \A k \in 16 .. 23 : Even(TwoTo(k))
    BY <1>4
  <2>4. \A k \in 24 .. 30 : Even(TwoTo(k))
    BY <1>5
  <2>5. \A k \in 0 .. 30 : k \in 0 .. 7 \/ k \in 8 .. 15 \/ k \in 16 .. 23 \/ k \in 24 .. 30
    OBVIOUS
  <2> QED BY <2>1, <2>2, <2>3, <2>4, <2>5
<1> QED BY <1>1, <1>6 DEF Even

(* What -s asks for, in bytes; without it, what the device or the             *)
(* architecture has.                                                        *)
SizeAsked ==
  IF IsOn("s") /\ Reads(At("s") + 1).num # -1
  THEN IF Reads(At("s") + 1).unit = "k" THEN 1024 * Reads(At("s") + 1).num
       ELSE Reads(At("s") + 1).num
  ELSE IF ~IsOn("s") /\ device.flash_start = 0 /\ device.flash_end \in PowersOf2
  THEN device.flash_end ELSE arch.desc.flash_addr_mask + 1

LEMMA FlashSizeIs == FlashSizeAsAsked <=> 2 * (image.pc_mask + 1) = SizeAsked
BY DEF FlashSizeAsAsked, SizeAsked, IsOn, At

LEMMA MaskIs ==
  ASSUME OptionType, ArchType, SizeRead
  PROVE  pc_mask(device) \in Int /\ 2 * (pc_mask(device) + 1) = SizeAsked
<1> DEFINE all == arch.desc.flash_addr_mask
           dev == device.flash_end
<1>1. all \in Nat /\ 2 * (all \div 2 + 1) = all + 1 /\ all \div 2 \in Int
  <2>1. all \in {K64, K128, K256}
    BY DEF ArchType, DescType
  <2> HIDE DEF all
  <2> QED BY <2>1 DEF K64, K128, K256
<1>2. dev \in Nat /\ dev % 2 = 0
  BY DEF ArchType, DeviceType
<1>3. do.s \in Int
  BY OptionNamesAre DEF OptionType
<1>4. CASE ~IsOn("s")
  <2>1. do.s = 0
    BY <1>4 DEF SizeRead
  <2>2. pc_mask(device) = IF device.flash_start = 0 /\ device.flash_end \in PowersOf2
                          THEN dev \div 2 - 1 ELSE all \div 2
    BY <2>1 DEF pc_mask
  <2>3. SizeAsked = IF device.flash_start = 0 /\ device.flash_end \in PowersOf2
                    THEN dev ELSE all + 1
    BY <1>4 DEF SizeAsked
  <2>4. dev \div 2 \in Int /\ 2 * (dev \div 2) = dev
    BY <1>2
  <2> HIDE DEF dev, all
  <2> QED BY <1>1, <1>2, <2>2, <2>3, <2>4
<1>5. CASE IsOn("s")
  <2> DEFINE w == Reads(At("s") + 1)
  <2>1. do.s = get_valid_kilo(w) /\ do.s # 0
    BY <1>5 DEF SizeRead
  <2>2. w.num \in Int
    <3>1. At("s") \in 0 .. i - 1 /\ At("s") < Len(argv) /\ Len(argv) \in Nat
      BY <1>5, GivenRange DEF SizeRead, OptionType
    <3>2. At("s") + 1 \in 1 .. Len(argv)
      BY <3>1 DEF OptionType
    <3> QED BY <3>2, WordType
  <2>3. SizeAsked = IF w.num # -1 THEN IF w.unit = "k" THEN 1024 * w.num ELSE w.num
                    ELSE all + 1
    BY <1>5 DEF SizeAsked
  <2> DEFINE val == CASE w.unit = None -> w.num [] w.unit = "k" -> 1024 * w.num [] OTHER -> 0
  <2>4. get_valid_kilo(w) = IF val = -1 \/ (val \in PowersOf2 /\ val >= 512) THEN val ELSE 0
    BY DEF get_valid_kilo
  <2>5. \/ w.unit = None /\ w.unit # "k" /\ val = w.num
        \/ w.unit = "k" /\ val = 1024 * w.num
        \/ val = 0
    BY NoneIsNoOption
  <2> HIDE DEF val, w
  <2>6. val = do.s /\ (val = -1 \/ (val \in PowersOf2 /\ val >= 512))
    BY <2>1, <2>4
  <2>7. CASE val = -1
    <3>1. w.num = -1
      BY <2>2, <2>5, <2>7
    <3>2. pc_mask(device) = all \div 2
      BY <2>6, <2>7 DEF pc_mask
    <3> HIDE DEF all
    <3> QED BY <1>1, <2>3, <3>1, <3>2
  <2>8. CASE val \in PowersOf2 /\ val >= 512
    <3>1. val \in Nat /\ val > 0 /\ val % 2 = 0
      BY <2>8, PowersAreEven
    <3>2. pc_mask(device) = val \div 2 - 1
      BY <2>6, <3>1 DEF pc_mask
    <3>3. SizeAsked = val
      BY <2>2, <2>3, <2>5, <3>1
    <3>4. val \div 2 \in Int /\ 2 * (val \div 2) = val
      BY <3>1
    <3> QED BY <3>1, <3>2, <3>3, <3>4
  <2> QED BY <2>6, <2>7, <2>8
<1> QED BY <1>4, <1>5

LEMMA SizeKept ==
  ASSUME UNCHANGED << argv, i, device, arch >>
  PROVE  SizeAsked' = SizeAsked
<1>1. /\ \A k : Reads(k)' = Reads(k)
      /\ At("s")' = At("s") /\ (IsOn("s")' <=> IsOn("s"))
  BY SameLine
<1> QED BY <1>1 DEF SizeAsked

(* The steps behind check_arch, with what they leave as it is.               *)
LoaderRests ==
  UNCHANGED << isa, is_log, argv, i, do, s, flash_pm_offset, program, streams, arch, device, seg >>

LEMMA FileKept ==
  ASSUME LoaderRests
  PROVE  /\ file' = file /\ Segments' = Segments
         /\ (ArchFits(file.arch)' <=> ArchFits(file.arch))
         /\ (EntryAsAsked' <=> EntryAsAsked)
<1>1. file' = file
  BY DEF LoaderRests, file
<1>2. Segments' = Segments
  BY <1>1 DEF Segments
<1>3. ArchFits(file.arch)' <=> ArchFits(file.arch)
  BY <1>1 DEF ArchFits, pm, LoaderRests
<1>4. EntryAsAsked' <=> EntryAsAsked
  BY EntryAskedKept DEF LoaderRests
<1> QED BY <1>1, <1>2, <1>3, <1>4

LEMMA SetMaskKeeps ==
  ASSUME SessionInv, SetMask, UNCHANGED << isa, is_log, argv, hostVars, targetVars >>
  PROVE  SessionInv'
<1>1. /\ phase = "mask" /\ LoaderRests /\ io' = io
      /\ image' = [image EXCEPT !.pc_mask = pc_mask(device)]
  BY DEF SetMask, LoaderRests, optionVars, hostVars
<1>2. /\ program' \in ProgramType /\ program'.max_insns = program.max_insns
      /\ EntryAsAsked /\ StreamsAsked /\ image \in ImageType
      /\ program.name \in DOMAIN ProgramFiles
  BY <1>1 DEF SessionInv, OptionType, ArchType, PhaseInv, Afterwards, LoaderRests
<1>3. pc_mask(device) \in Int /\ 2 * (pc_mask(device) + 1) = SizeAsked
  BY MaskIs DEF SessionInv, OptionInv
<1>4. /\ image' \in ImageType /\ image'.pc_mask = pc_mask(device)
      /\ image'.code_start = image.code_start /\ image'.code_end = image.code_end
      /\ image'.size = image.size
  BY <1>1, <1>2, <1>3 DEF ImageType
<1>5. ArchType'
  BY <1>1, <1>4 DEF SessionInv, ArchType, LoaderRests
<1>6. CASE leave("ELF", 0)
  <2>1. "ELF" \in Failed
    BY DEF Failed
  <2> QED BY <1>1, <1>2, <1>5, <1>6, <2>1, Fails DEF LoaderRests
<1>7. CASE ~(image.size > 2 * (pc_mask(device) + 1)) /\ phase' = "decode"
  <2>1. OptionType' /\ OptionInv' /\ IoInv'
    BY <1>1, <1>2, OptionsKept, IoKept DEF SessionInv, LoaderRests
  <2>2. EntryAsAsked' /\ StreamsAsked'
    BY <1>1, <1>2, FileKept, StreamsKept DEF LoaderRests
  <2>3. PhaseInv'
    BY <1>1, <1>2, <1>7, <2>2 DEF PhaseInv, Reading, InFile, Afterwards, LoaderRests
  <2>4. FlashSizeAsAsked'
    <3>1. 2 * (image'.pc_mask + 1) = SizeAsked'
      BY <1>1, <1>3, <1>4, SizeKept DEF LoaderRests
    <3>2. FlashSizeAsAsked' <=> (2 * (image.pc_mask + 1) = SizeAsked)'
      BY FlashSizeIs, PTL
    <3> QED BY <3>1, <3>2
  <2>5. (image.size <= 2 * (image.pc_mask + 1))'
    BY <1>2, <1>3, <1>4, <1>7 DEF ImageType
  <2>6. \A p : Covered(image, p) => Covered(image', p)
    BY <1>4 DEF Covered
  <2>7. FileInv'
    BY <1>1, <1>7, <2>4, <2>5, <2>6, FileKept DEF FileInv, Afterwards, SessionInv
  <2>8. ExitCodeAsDocumented'
    BY <1>7 DEF ExitCodeAsDocumented
  <2> QED BY <1>5, <2>1, <2>3, <2>7, <2>8 DEF SessionInv
<1> QED BY <1>6, <1>7 DEF SetMask

LEMMA DecodeKeeps ==
  ASSUME SessionInv, Decode, UNCHANGED << isa, is_log, argv, hostVars, targetVars >>
  PROVE  SessionInv'
<1>1. phase = "decode" /\ LoaderRests /\ io' = io
  BY DEF Decode, LoaderRests, optionVars, hostVars
<1>2. /\ program' \in ProgramType /\ program'.max_insns = program.max_insns
      /\ EntryAsAsked /\ StreamsAsked /\ image \in ImageType
      /\ program.name \in DOMAIN ProgramFiles
      /\ FlashSizeAsAsked /\ image.size <= 2 * (image.pc_mask + 1)
  BY <1>1 DEF SessionInv, OptionType, ArchType, PhaseInv, FileInv, Afterwards, LoaderRests
<1>3. CASE Crash /\ UNCHANGED image
  <2>1. phase' = "left" /\ ExitCodeAsDocumented'
    BY <1>3 DEF Crash, ExitCodeAsDocumented
  <2>2. ArchType'
    BY <1>1, <1>3 DEF SessionInv, ArchType, LoaderRests
  <2> QED BY <1>1, <1>2, <2>1, <2>2, Gone DEF LoaderRests
<1>4. CASE image' = [image EXCEPT !.max_pc = 1 + image.code_end \div 2] /\ phase' = "run"
  <2> DEFINE m == 1 + image.code_end \div 2
  <2>1. m \in Int /\ image' = [image EXCEPT !.max_pc = m]
    <3>1. image.code_end \in Int
      BY <1>2 DEF ImageType
    <3> QED BY <1>4, <3>1
  <2> HIDE DEF m
  <2>2. /\ image' \in ImageType /\ image'.pc_mask = image.pc_mask
        /\ image'.code_start = image.code_start /\ image'.code_end = image.code_end
        /\ image'.size = image.size /\ image'.max_pc = m
    BY <1>2, <2>1 DEF ImageType
  <2>3. ArchType'
    BY <1>1, <2>2 DEF SessionInv, ArchType, LoaderRests
  <2>4. OptionType' /\ OptionInv' /\ IoInv'
    BY <1>1, <1>2, OptionsKept, IoKept DEF SessionInv, LoaderRests
  <2>5. EntryAsAsked' /\ StreamsAsked'
    BY <1>1, <1>2, FileKept, StreamsKept DEF LoaderRests
  <2>6. PhaseInv'
    BY <1>1, <1>2, <1>4, <2>5 DEF PhaseInv, Reading, InFile, Afterwards, LoaderRests
  <2>7. FlashSizeAsAsked'
    <3>1. 2 * (image'.pc_mask + 1) = SizeAsked'
      BY <1>1, <1>2, <2>2, SizeKept, FlashSizeIs DEF LoaderRests
    <3>2. FlashSizeAsAsked' <=> (2 * (image.pc_mask + 1) = SizeAsked)'
      BY FlashSizeIs, PTL
    <3> QED BY <3>1, <3>2
  <2>8. \A p : Covered(image, p) => Covered(image', p)
    BY <2>2 DEF Covered
  <2>9. image'.max_pc = 1 + image'.code_end \div 2
    BY <2>2 DEF m
  <2>10. FileInv'
    BY <1>1, <1>2, <1>4, <2>2, <2>7, <2>8, <2>9, FileKept DEF FileInv, Afterwards, SessionInv
  <2>11. ExitCodeAsDocumented'
    BY <1>4 DEF ExitCodeAsDocumented
  <2> QED BY <2>3, <2>4, <2>6, <2>10, <2>11 DEF SessionInv
<1> QED BY <1>3, <1>4 DEF Decode

-----------------------------------------------------------------------------
(* The steps of the target                                                  *)

LEMMA Appended ==
  ASSUME NEW q, Sequence(q), NEW e
  PROVE  /\ Sequence(Append(q, e)) /\ Len(Append(q, e)) \in Nat \ {0}
         /\ Len(Append(q, e)) = Len(q) + 1 /\ Append(q, e)[Len(q) + 1] = e
         /\ \A n \in DOMAIN Append(q, e) : \/ Append(q, e)[n] = e
                                           \/ n \in DOMAIN q /\ Append(q, e)[n] = q[n]
<1>1. PICK S : q \in Seq(S)
  BY DEF Sequence
<1>2. q \in Seq(S \cup {e}) /\ e \in S \cup {e}
  BY <1>1
<1>3. /\ Append(q, e) \in Seq(S \cup {e}) /\ Len(Append(q, e)) = Len(q) + 1
      /\ \A n \in 1 .. Len(q) : Append(q, e)[n] = q[n]
      /\ Append(q, e)[Len(q) + 1] = e /\ Len(q) \in Nat /\ DOMAIN q = 1 .. Len(q)
  BY <1>2, AppendProperties
<1>4. DOMAIN Append(q, e) = 1 .. Len(q) + 1
  BY <1>3
<1>5. ASSUME NEW n \in 1 .. Len(q) + 1
      PROVE  Append(q, e)[n] = e \/ (n \in DOMAIN q /\ Append(q, e)[n] = q[n])
  <2>1. CASE n \in DOMAIN q
    BY <1>3, <2>1
  <2>2. CASE n \notin DOMAIN q
    BY <1>3, <2>2
  <2> QED BY <2>1, <2>2
<1>6. Sequence(Append(q, e)) /\ Len(Append(q, e)) \in Nat \ {0}
  BY <1>3 DEF Sequence
<1> QED BY <1>3, <1>4, <1>5, <1>6

LEMMA Concatenated ==
  ASSUME NEW q, NEW r, Sequence(q), Sequence(r)
  PROVE  /\ Sequence(q \o r)
         /\ \A n \in DOMAIN (q \o r) : \/ n \in DOMAIN q /\ (q \o r)[n] = q[n]
                                       \/ \E m \in DOMAIN r : (q \o r)[n] = r[m]
<1>1. PICK S, T : q \in Seq(S) /\ r \in Seq(T)
  BY DEF Sequence
<1>2. q \in Seq(S \cup T) /\ r \in Seq(S \cup T)
  BY <1>1
<1>3. /\ q \o r \in Seq(S \cup T) /\ Len(q \o r) = Len(q) + Len(r)
      /\ \A n \in 1 .. Len(q) + Len(r) :
           (q \o r)[n] = IF n <= Len(q) THEN q[n] ELSE r[n - Len(q)]
      /\ Len(q) \in Nat /\ DOMAIN q = 1 .. Len(q) /\ Len(r) \in Nat /\ DOMAIN r = 1 .. Len(r)
  BY <1>2, ConcatProperties
<1>4. DOMAIN (q \o r) = 1 .. Len(q) + Len(r)
  BY <1>3
<1>5. ASSUME NEW n \in 1 .. Len(q) + Len(r)
      PROVE  \/ n \in DOMAIN q /\ (q \o r)[n] = q[n]
             \/ \E m \in DOMAIN r : (q \o r)[n] = r[m]
  <2>1. CASE n <= Len(q)
    <3>1. n \in DOMAIN q
      BY <1>3, <2>1
    <3> QED BY <1>3, <2>1, <3>1
  <2>2. CASE ~(n <= Len(q))
    <3>1. n - Len(q) \in DOMAIN r /\ (q \o r)[n] = r[n - Len(q)]
      BY <1>3, <2>2
    <3> QED BY <3>1
  <2> QED BY <2>1, <2>2
<1> QED BY <1>3, <1>4, <1>5 DEF Sequence

(* An entry of io that went where it was asked to.                           *)
Fine(e) ==
  /\ e.stream \in Streams => e.dest = AskedStream(e.stream) /\ e.dest # NULL
  /\ e.stream = "log" => e.dest = AskedLog

LEMMA IoIs == IoInv <=> \A n \in DOMAIN io : Fine(io[n])
BY DEF IoInv, Fine

TargetRests ==
  /\ phase = "run" /\ UNCHANGED << isa, is_log, argv >>
  /\ UNCHANGED << optionVars, i, seg, flash, eeprom, device, symbols, image >>

LEMMA TargetKeeps ==
  ASSUME SessionInv, TargetRests, phase' = "run", IoInv'
  PROVE  SessionInv'
<1>1. LoaderRests /\ phase = "run" /\ image' = image
  BY DEF TargetRests, LoaderRests, optionVars
<1>2. /\ program' \in ProgramType /\ program'.max_insns = program.max_insns
      /\ EntryAsAsked /\ StreamsAsked
  BY <1>1 DEF SessionInv, OptionType, PhaseInv, Afterwards, LoaderRests
<1>3. OptionType' /\ OptionInv'
  BY <1>1, <1>2, OptionsKept DEF SessionInv, LoaderRests
<1>4. ArchType'
  BY <1>1 DEF SessionInv, ArchType, LoaderRests
<1>5. EntryAsAsked' /\ StreamsAsked'
  BY <1>1, <1>2, FileKept, StreamsKept DEF LoaderRests
<1>6. PhaseInv'
  BY <1>1, <1>5 DEF PhaseInv, Reading, InFile, Afterwards, LoaderRests, SessionInv
<1>7. FlashSizeAsAsked' <=> FlashSizeAsAsked
  <2>1. FlashSizeAsAsked' <=> (2 * (image.pc_mask + 1) = SizeAsked)'
    BY FlashSizeIs, PTL
  <2>2. SizeAsked' = SizeAsked
    BY <1>1, SizeKept DEF LoaderRests
  <2> QED BY <1>1, <2>1, <2>2, FlashSizeIs
<1>8. FileInv'
  BY <1>1, <1>7, FileKept DEF FileInv, Afterwards, SessionInv
<1>9. ExitCodeAsDocumented'
  BY DEF ExitCodeAsDocumented
<1> QED BY <1>3, <1>4, <1>6, <1>8, <1>9 DEF SessionInv

LEMMA TargetSilent ==
  ASSUME SessionInv, TargetRests, phase' = "run", io' = io
  PROVE  SessionInv'
<1>1. IoInv'
  BY IoKept DEF SessionInv, TargetRests
<1> QED BY <1>1, TargetKeeps

LEMMA TargetGone ==
  ASSUME SessionInv, TargetRests, phase' = "left", io' = io, ExitCodeAsDocumented'
  PROVE  SessionInv'
<1>1. LoaderRests /\ image' = image
  BY DEF TargetRests, LoaderRests, optionVars
<1>2. ArchType' /\ program' \in ProgramType /\ program'.max_insns = program.max_insns
  BY <1>1 DEF SessionInv, ArchType, OptionType, LoaderRests
<1> QED BY <1>1, <1>2, Gone DEF LoaderRests

LEMMA TargetFails ==
  ASSUME SessionInv, TargetRests, io' = io, NEW n \in Failed, leave(n, 0)
  PROVE  SessionInv'
<1>1. phase' = "left" /\ ExitCodeAsDocumented'
  BY CodeOfFailure DEF SessionInv, OptionInv, TargetRests
<1> QED BY <1>1, TargetGone

Start == Reset \/ avrtest_init_rodata \/ avrtest_init_argc_argv \/ sys_abort_2nd_hit

LEMMA StartKeeps ==
  ASSUME SessionInv, Start, UNCHANGED << isa, is_log, argv >>
  PROVE  SessionInv' /\ UNCHANGED << io, calls >>
<1>1. TargetRests /\ UNCHANGED << io, calls >>
  <2>1. CASE Reset
    BY <2>1 DEF Reset, Target, Unchanged, TargetRests, hostVars
  <2>2. CASE avrtest_init_rodata
    BY <2>2 DEF avrtest_init_rodata, sys_misc_flmap, Target, Unchanged, TargetRests
  <2>3. CASE avrtest_init_argc_argv
    BY <2>3 DEF avrtest_init_argc_argv, sys_argc_argv, Target, Unchanged, TargetRests
  <2>4. CASE sys_abort_2nd_hit
    BY <2>4 DEF sys_abort_2nd_hit, Target, Unchanged, TargetRests, hostVars
  <2> QED BY <2>1, <2>2, <2>3, <2>4 DEF Start
<1>2. phase' = "run" \/ leave("CODE", 0)
  <2>1. phase = "run"
    BY <1>1 DEF TargetRests
  <2> QED BY <2>1 DEF Start, Reset, avrtest_init_rodata, sys_misc_flmap, avrtest_init_argc_argv,
                      sys_argc_argv, sys_abort_2nd_hit
<1>3. "CODE" \in Failed
  BY DEF Failed
<1> QED BY <1>1, <1>2, <1>3, TargetSilent, TargetFails

LEMMA EndKeeps ==
  ASSUME SessionInv, Sequence(calls), End, UNCHANGED << isa, is_log, argv >>
  PROVE  SessionInv' /\ io' = io /\ Sequence(calls)'
<1>1. TargetRests /\ io' = io
  BY DEF End, sys_exit, sys_abort, Timeout, Haywire, Target, Unchanged, TargetRests, hostVars
<1>2. ASSUME NEW v, leave("EXIT", v), Made([call |-> "exit", val |-> v])
      PROVE  SessionInv' /\ Sequence(calls)'
  <2> DEFINE c == [call |-> "exit", val |-> v]
  <2>1. calls' = Append(calls, c)
    BY <1>2 DEF Made
  <2> HIDE DEF c
  <2>2. /\ Sequence(calls') /\ Len(calls') \in Nat \ {0} /\ calls'[Len(calls')] = c
    BY <2>1, Appended
  <2>3. Exited(v)'
    BY <2>2 DEF Exited, Last, c
  <2>4. /\ phase' = "left" /\ left'.status = "EXIT"
        /\ left'.code = IF do.q = 0 THEN 0 ELSE v
    BY <1>2, ExitCodes DEF leave, exit_code
  <2>5. do.q = 0 <=> ~Quiet'
    <3>1. (Quiet' <=> IsOn("q")) /\ do.q = OnOff("q")
      BY <1>1, SameLine, AskedIs DEF SessionInv, OptionInv, FlagsRead, TargetRests
    <3> QED BY <3>1 DEF OnOff
  <2>6. ExitCodeAsDocumented'
    BY <2>3, <2>4, <2>5, ExitCodes DEF ExitCodeAsDocumented, Exited
  <2> QED BY <1>1, <2>2, <2>4, <2>6, TargetGone DEF Sequence
<1>3. ASSUME NEW n \in Failed, leave(n, 0), UNCHANGED targetVars
      PROVE  SessionInv' /\ Sequence(calls)'
  BY <1>1, <1>3, TargetFails DEF targetVars, Sequence
<1>4. {"ABORTED", "TIMEOUT", "CODE"} \subseteq Failed
  BY DEF Failed
<1> QED BY <1>1, <1>2, <1>3, <1>4 DEF End, sys_exit, sys_abort, Timeout, Haywire

LEMMA MadeIs ==
  ASSUME Sequence(calls), NEW c, Made(c)
  PROVE  Sequence(calls)'
<1>1. calls' = Append(calls, c) /\ Sequence(Append(calls, c))
  BY Appended DEF Made
<1> QED BY <1>1 DEF Sequence

(* What only touches registers, the format of logs, or the stage.            *)
Quietly == SetsFormat \/ Computes \/ ToFloat \/ FromFloat \/ JumpsToZero

LEMMA QuietlyKeeps ==
  ASSUME SessionInv, Sequence(calls), Quietly, UNCHANGED << isa, is_log, argv >>
  PROVE  SessionInv' /\ io' = io /\ Sequence(calls)'
<1>1. ASSUME Target, Unchanged, phase' = phase, io' = io
      PROVE  SessionInv'
  BY <1>1, TargetSilent DEF TargetRests, Unchanged, Target
<1>2. CASE SetsFormat
  <2>1. ASSUME NEW cmd, NEW fmt, log_set_format(cmd, fmt)
        PROVE  Target /\ Unchanged /\ phase' = phase /\ io' = io
    BY <2>1 DEF log_set_format
  <2>2. ASSUME log_unset_format
        PROVE  Target /\ Unchanged /\ phase' = phase /\ io' = io
    BY <2>2 DEF log_unset_format
  <2> QED BY <1>1, <1>2, <2>1, <2>2, MadeIs DEF SetsFormat
<1>3. CASE Computes
  <2>1. ASSUME NEW op, NEW signed_p, NEW size, NEW a, NEW b, sys_misc_arith(op, signed_p, size, a, b)
        PROVE  Target /\ Unchanged /\ phase' = phase /\ io' = io
    BY <2>1 DEF sys_misc_arith
  <2> QED BY <1>1, <1>3, <2>1, MadeIs DEF Computes
<1>4. CASE ToFloat
  <2>1. ASSUME NEW t, NEW val, sys_misc_fxtof(t, val)
        PROVE  Target /\ Unchanged /\ phase' = phase /\ io' = io
    BY <2>1 DEF sys_misc_fxtof
  <2> QED BY <1>1, <1>4, <2>1, MadeIs DEF ToFloat
<1>5. CASE FromFloat
  <2>1. ASSUME NEW t, sys_misc_ftofx(t)
        PROVE  Target /\ Unchanged /\ phase' = phase /\ io' = io
    BY <2>1 DEF sys_misc_ftofx
  <2> QED BY <1>1, <1>5, <2>1, MadeIs DEF FromFloat
<1>6. CASE JumpsToZero
  <2>1. Target /\ Unchanged /\ phase' = phase /\ io' = io /\ calls' = calls
    BY <1>6 DEF JumpsToZero, hostVars
  <2> QED BY <1>1, <2>1 DEF Sequence
<1> QED BY <1>2, <1>3, <1>4, <1>5, <1>6 DEF Quietly

LEMMA UsesStreamKeeps ==
  ASSUME SessionInv, Sequence(io), Sequence(calls), UsesStream, UNCHANGED << isa, is_log, argv >>
  PROVE  SessionInv' /\ Sequence(io)' /\ Sequence(calls)'
<1>1. PICK f \in Streams : UseStream(f) /\ Made([call |-> "stream", of |-> f])
  BY DEF UsesStream
<1> DEFINE e == Entry(f, streams[f], None, 0)
<1>2. /\ TargetRests /\ phase' = "run"
      /\ io' = IF streams[f] = NULL THEN io ELSE Append(io, e)
  BY <1>1 DEF UseStream, Target, Unchanged, TargetRests
<1>3. Sequence(calls)'
  BY <1>1, MadeIs
<1>4. CASE streams[f] = NULL
  BY <1>2, <1>3, <1>4, TargetSilent DEF Sequence
<1>5. CASE streams[f] # NULL
  <2>1. streams[f] = AskedStream(f)
    BY <1>2 DEF SessionInv, PhaseInv, Afterwards, StreamsAsked, TargetRests
  <2>2. Fine(e)
    BY <1>5, <2>1 DEF Fine, Entry, Streams
  <2> HIDE DEF e
  <2>3. \A n \in DOMAIN Append(io, e) : Fine(Append(io, e)[n])
    BY <2>2, Appended, IoIs DEF SessionInv
  <2>4. Sequence(io') /\ \A n \in DOMAIN io' : Fine(io'[n])
    BY <1>2, <1>5, <2>3, Appended
  <2>5. IoInv'
    <3>1. AskedLog' = AskedLog /\ \A g : AskedStream(g)' = AskedStream(g)
      BY <1>2, SameLine DEF TargetRests
    <3> QED BY <2>4, <3>1 DEF IoInv, Fine
  <2> QED BY <1>2, <1>3, <2>4, <2>5, TargetKeeps DEF Sequence
<1> QED BY <1>4, <1>5

LEMMA LogsValueKeeps ==
  ASSUME SessionInv, Sequence(io), Sequence(calls), LogsValue, UNCHANGED << isa, is_log, argv >>
  PROVE  SessionInv' /\ Sequence(io)' /\ Sequence(calls)'
<1>1. PICK cmd, val : log_value(cmd, val) /\ Made([call |-> "value", cmd |-> cmd, val |-> val])
  BY DEF LogsValue
<1>2. PICK fmt, v : io' = io \o LOGPRINT(fmt, v)
  BY <1>1 DEF log_value
<1> DEFINE log == Entry("log", streams["log"], fmt, v)
           copy == Entry("log_copy", Std("stdout"), fmt, v)
           r == LOGPRINT(fmt, v)
<1>3. TargetRests /\ phase' = "run"
  BY <1>1 DEF log_value, Target, Unchanged, TargetRests
<1>4. Sequence(calls)'
  BY <1>1, MadeIs
<1>5. Fine(log) /\ Fine(copy)
  <2>1. streams["log"] = AskedLog
    BY <1>3 DEF SessionInv, PhaseInv, Afterwards, StreamsAsked, TargetRests
  <2> QED BY <2>1 DEF Fine, Entry, Streams
<1>6. r = << log, copy >> \/ r = << log >>
  BY DEF LOGPRINT
<1> HIDE DEF log, copy, r
<1>7. Sequence(r) /\ \A n \in DOMAIN r : Fine(r[n])
  <2>1. << log, copy >> \in Seq({log, copy}) /\ << log >> \in Seq({log, copy})
    OBVIOUS
  <2>2. \A n \in DOMAIN r : r[n] \in {log, copy}
    BY <1>6
  <2> QED BY <1>5, <1>6, <2>1, <2>2 DEF Sequence
<1>8. Sequence(io \o r) /\ \A n \in DOMAIN (io \o r) : Fine((io \o r)[n])
  <2>1. \A n \in DOMAIN io : Fine(io[n])
    BY IoIs DEF SessionInv
  <2>2. /\ Sequence(io \o r)
        /\ \A n \in DOMAIN (io \o r) : \/ n \in DOMAIN io /\ (io \o r)[n] = io[n]
                                      \/ \E m \in DOMAIN r : (io \o r)[n] = r[m]
    BY <1>7, Concatenated, SMTT(30)
  <2> QED BY <1>7, <2>1, <2>2
<1>9. Sequence(io') /\ \A n \in DOMAIN io' : Fine(io'[n])
  BY <1>2, <1>8 DEF r
<1>10. IoInv'
  <2>1. AskedLog' = AskedLog /\ \A g : AskedStream(g)' = AskedStream(g)
    BY <1>3, SameLine DEF TargetRests
  <2> QED BY <1>9, <2>1 DEF IoInv, Fine
<1> QED BY <1>3, <1>4, <1>9, <1>10, TargetKeeps DEF Sequence

-----------------------------------------------------------------------------
(* The invariant holds                                                      *)

LEMMA InitialLine ==
  ASSUME Init
  PROVE  /\ isa \in {"classic", "xmega", "tiny"} /\ is_log \in BOOLEAN
         /\ argv \in Seq(DOMAIN Words)
<1>1. PICK f \in Families, v \in {"classic", "xmega", "tiny"}, l \in BOOLEAN :
        \E n \in 0 .. f.n : \E w \in [1 .. n -> f.words], before \in f.before :
          isa = v /\ is_log = l /\ argv = before \o w
  BY ZenonT(40) DEF Init
<1>2. PICK n \in 0 .. f.n : \E w \in [1 .. n -> f.words], before \in f.before :
        isa = v /\ is_log = l /\ argv = before \o w
  BY <1>1
<1>3. PICK w \in [1 .. n -> f.words], before \in f.before :
        isa = v /\ is_log = l /\ argv = before \o w
  BY <1>2
<1>4. f.n \in Nat /\ f.words \subseteq DOMAIN Words /\ before \in Seq(DOMAIN Words)
  BY FamiliesAssumption
<1>5. n \in Nat /\ w \in [1 .. n -> DOMAIN Words]
  BY <1>4
<1>6. w \in Seq(DOMAIN Words)
  BY <1>5
<1>7. before \o w \in Seq(DOMAIN Words)
  BY <1>4, <1>6
<1> QED BY <1>3, <1>7

LEMMA NothingRead ==
  ASSUME OptionType, i = 1
  PROVE  /\ \A o : Given(o) = {} /\ GivenOn(o) = {} /\ At(o) = 0 /\ ~IsOn(o) /\ OnOff(o) = 0
         /\ \A f : LatestOff(f) = 0 /\ LatestName(f) = 0 /\ LatestOn(f) = 0
         /\ Live(i)
<1>1. \A o : Given(o) = {}
  BY DEF Given
<1>2. \A o : GivenOn(o) = {} /\ GivenOff(o) = {}
  BY <1>1 DEF GivenOn, GivenOff
<1>3. \A o : At(o) = 0
  BY <1>1 DEF At, Latest
<1>4. \A o : ~IsOn(o) /\ OnOff(o) = 0
  BY <1>3 DEF IsOn, OnOff
<1>5. \A f : LatestOff(f) = 0 /\ LatestName(f) = 0 /\ LatestOn(f) = 0
  BY <1>2 DEF LatestOff, LatestName, LatestOn, Latest
<1>6. Live(i)
  <2>1. 1 <= Len(argv) => ~Consumed[1]
    BY ConsumedBy DEF OptionType
  <2> QED BY <2>1 DEF Live
<1> QED BY <1>1, <1>2, <1>3, <1>4, <1>5, <1>6

LEMMA DefaultsAre ==
  /\ Defaults \in [OptionNames -> Int]
  /\ Defaults["q"] = 0 /\ Defaults["e"] = 0 /\ Defaults["log="] = 0 /\ Defaults["s"] = 0
  /\ \A f \in Streams : Defaults[f] = 1 /\ Defaults[FileOpt(f)] = 0
<1>1. Defaults \in [OptionNames -> Int]
  BY DEF Defaults, OptionNames
<1>2. \A o \in OptionNames :
        Defaults[o] = IF o \in {"stdin", "stdout", "stderr", "log"} THEN 1 ELSE 0
  BY DEF Defaults, OptionNames
<1>3. \A f \in Streams : f \in {"stdin", "stdout", "stderr", "log"}
                         /\ FileOpt(f) \notin {"stdin", "stdout", "stderr", "log"}
  BY DEF Streams, FileOpt
<1> QED BY <1>1, <1>2, <1>3, OptionNamesAre

LEMMA InvInit == Init => Inv
<1> SUFFICES ASSUME Init PROVE Inv
  OBVIOUS
<1>1. /\ i = 1 /\ phase = "help" /\ do = Defaults /\ s = [o \in WithText |-> None]
      /\ program = [name |-> None, short_name |-> None, entry_point |-> 0, max_insns |-> 0]
      /\ arch = DefaultArch(isa) /\ flash_pm_offset = 0
  BY DEF Init, InitOptions
<1>2. /\ seg = 1 /\ device = NoDevice
      /\ image = [size |-> 0, n_bytes |-> 0, code_start |-> MinusOneU, code_end |-> 0,
                  pc_mask |-> 0, max_pc |-> 0]
  BY DEF Init, InitLoader
<1>3. io = << >> /\ calls = << >>
  BY DEF Init, InitHostCalls
<1>4. /\ isa \in {"classic", "xmega", "tiny"} /\ is_log \in BOOLEAN
      /\ argv \in Seq(DOMAIN Words)
  BY InitialLine
<1>5. OptionType
  <2>1. i \in 1 .. Len(argv) + 1
    BY <1>1, <1>4
  <2>2. do \in [OptionNames -> Int] /\ s \in [WithText -> Texts]
    BY <1>1, DefaultsAre DEF Texts
  <2>3. program \in ProgramType
    BY <1>1 DEF ProgramType, Names
  <2> QED BY <1>1, <1>4, <2>1, <2>2, <2>3 DEF OptionType
<1>6. ArchType
  <2>1. arch \in [name : DOMAIN arch_desc, desc : DescType]
    BY <1>1, <1>4, ArchNames
  <2>2. device \in DeviceType /\ device.flash_end % 2 = 0
    BY <1>2 DEF NoDevice, DeviceType
  <2>3. image \in ImageType
    BY <1>2 DEF ImageType, MinusOneU
  <2> QED BY <1>2, <2>1, <2>2, <2>3 DEF ArchType
<1>7. OptionInv
  <2>1. FlagsRead /\ SizeRead
    BY <1>1, <1>5, NothingRead, DefaultsAre DEF FlagsRead, SizeRead
  <2>2. ALimitIsALimit
    BY <1>1, <1>5, NothingRead DEF ALimitIsALimit
  <2>3. \A f \in Streams : StreamRead(f)
    BY <1>1, <1>5, NothingRead, DefaultsAre DEF StreamRead
  <2> QED BY <2>1, <2>2, <2>3 DEF OptionInv
<1>8. PhaseInv
  <2>1. EntryRead
    BY <1>1, <1>5, NothingRead, FlashIsEven DEF EntryRead, ValidEntry
  <2> QED BY <1>1, <1>2, <1>3, <1>5, <2>1, NothingRead DEF PhaseInv, Reading, InFile, Afterwards
<1>9. IoInv /\ FileInv /\ ExitCodeAsDocumented
  BY <1>1, <1>3 DEF IoInv, FileInv, Afterwards, ExitCodeAsDocumented
<1>10. Sequence(io) /\ Sequence(calls)
  BY <1>3 DEF Sequence
<1> QED BY <1>5, <1>6, <1>7, <1>8, <1>9, <1>10 DEF Inv, SessionInv

LEMMA InvStutter ==
  ASSUME SessionInv,
         UNCHANGED << isa, is_log, argv, i, do, s, flash_pm_offset, program >>,
         UNCHANGED << arch, device, seg, image, streams, io, phase, left, calls >>
  PROVE  SessionInv'
<1>1. LoaderRests /\ program' \in ProgramType /\ program'.max_insns = program.max_insns
  BY DEF LoaderRests, SessionInv, OptionType
<1>2. OptionType' /\ OptionInv' /\ IoInv'
  BY <1>1, OptionsKept, IoKept DEF SessionInv
<1>3. ArchType'
  BY DEF SessionInv, ArchType
<1>4. PhaseInv'
  <2>1. EntryRead' <=> EntryRead
    BY EntryKept
  <2>2. StreamsAsked => StreamsAsked'
    BY StreamsKept
  <2>3. Live(i)' <=> Live(i)
    BY SameLine
  <2>4. file' = file /\ (EntryAsAsked' <=> EntryAsAsked)
    BY <1>1, FileKept
  <2> HIDE DEF Live
  <2> QED BY <2>1, <2>2, <2>3, <2>4 DEF PhaseInv, Reading, InFile, Afterwards, SessionInv
<1>5. FileInv'
  <2>1. FlashSizeAsAsked' <=> (2 * (image.pc_mask + 1) = SizeAsked)'
    BY FlashSizeIs, PTL
  <2>2. FlashSizeAsAsked' <=> FlashSizeAsAsked
    BY <2>1, SizeKept, FlashSizeIs
  <2> QED BY <1>1, <2>2, FileKept DEF FileInv, Afterwards, SessionInv
<1>6. ExitCodeAsDocumented'
  BY SameLine DEF ExitCodeAsDocumented, Exited, SessionInv
<1> QED BY <1>2, <1>3, <1>4, <1>5, <1>6 DEF SessionInv

LEMMA InvNext == Inv /\ [Next]_vars => Inv'
<1> SUFFICES ASSUME Inv, [Next]_vars PROVE Inv'
  OBVIOUS
<1>1. SessionInv /\ Sequence(io) /\ Sequence(calls)
  BY DEF Inv
<1>2. CASE UNCHANGED vars
  <2>1. /\ UNCHANGED << isa, is_log, argv, i, do, s, flash_pm_offset, program >>
        /\ UNCHANGED << arch, device, seg, image, streams, io, phase, left, calls >>
    BY <1>2 DEF vars, optionVars, loadVars, hostVars, targetVars
  <2> QED BY <1>1, <2>1, InvStutter DEF Inv
<1>3. CASE /\ parse_args /\ UNCHANGED << isa, is_log, argv, plan >>
           /\ UNCHANGED << loadVars, hostVars, targetVars >>
  <2>1. SessionInv'
    BY <1>1, <1>3, WordKeeps, HelpKeeps, UsageKeeps, EndOfWordsKeeps DEF parse_args, ReadsWord
  <2> QED BY <1>1, <1>3, <2>1 DEF Inv, Sequence, hostVars, targetVars
<1>4. CASE /\ load_to_flash /\ UNCHANGED << isa, is_log, argv, plan >>
           /\ UNCHANGED << hostVars, targetVars >>
  <2>1. SessionInv'
    BY <1>1, <1>4, OpenProgramKeeps, LoadHeaderKeeps, LoadSectionsKeeps, LoadSegmentKeeps,
       CheckArchKeeps, SetMaskKeeps, DecodeKeeps DEF load_to_flash
  <2> QED BY <1>1, <1>4, <2>1 DEF Inv, Sequence, hostVars, targetVars
<1>5. CASE Start /\ UNCHANGED << isa, is_log, argv, plan >>
  BY <1>1, <1>5, StartKeeps DEF Inv, Sequence
<1>6. CASE main /\ UNCHANGED << isa, is_log, argv, plan >>
  <2>1. CASE UsesStream
    BY <1>1, <1>6, <2>1, UsesStreamKeeps DEF Inv
  <2>2. CASE LogsValue
    BY <1>1, <1>6, <2>2, LogsValueKeeps DEF Inv
  <2>3. CASE Quietly
    BY <1>1, <1>6, <2>3, QuietlyKeeps DEF Inv, Sequence
  <2>4. CASE End
    BY <1>1, <1>6, <2>4, EndKeeps DEF Inv, Sequence
  <2> QED BY <1>6, <2>1, <2>2, <2>3, <2>4 DEF main, Quietly
<1> QED BY <1>2, <1>3, <1>4, <1>5, <1>6 DEF Next, Left, Start

LEMMA InvAlways == Spec => []Inv
BY InvInit, InvNext, PTL DEF Spec

-----------------------------------------------------------------------------
(* What it is for                                                           *)

(* Of a name and a "no" for a stream the later one counts, and all that the   *)
(* target reads, writes and logs goes where the command line asked for.     *)
THEOREM StreamsGoWhereAsked == Spec => []StreamsAsAsked
<1>1. Inv => StreamsAsAsked
  BY DEF Inv, SessionInv, PhaseInv, Afterwards, StreamsAsked, IoInv, StreamsAsAsked, Running_
<1> QED BY <1>1, InvAlways, PTL

(* The last word on the entry point, on the size of flash and on the limit of *)
(* instructions counts, and the file only where the command line is silent; a *)
(* limit other than 0 stays one.                                            *)
THEOREM LastWordCounts == Spec => []ArgumentsAsAsked
<1>1. Inv => ArgumentsAsAsked
  BY DEF Inv, SessionInv, PhaseInv, Afterwards, FileInv, OptionInv, ArgumentsAsAsked, Running_
<1> QED BY <1>1, InvAlways, PTL

LEMMA DecodedCode == Inv => CodeIsDecoded
<1> SUFFICES ASSUME Inv, Running_, file.elf,
                    NEW p \in Segments, p.x, p.paddr < DATA_VADDR
             PROVE  /\ image.code_start <= p.paddr /\ p.paddr + p.memsz - 1 <= image.code_end
                    /\ p.paddr + p.memsz <= 2 * (image.pc_mask + 1)
                    /\ image.code_end \div 2 < image.max_pc
  BY DEF CodeIsDecoded
<1>1. /\ image.code_start <= p.paddr /\ p.paddr + p.memsz - 1 <= image.code_end
      /\ p.paddr + p.memsz <= image.size
  BY DEF Inv, SessionInv, FileInv, Afterwards, Covered, Running_
<1>2. image.size <= 2 * (image.pc_mask + 1) /\ image.max_pc = 1 + image.code_end \div 2
  BY DEF Inv, SessionInv, FileInv, Running_
<1>3. image \in ImageType /\ program.name \in DOMAIN ProgramFiles
  BY DEF Inv, SessionInv, ArchType, PhaseInv, Afterwards, Running_
<1>4. p.paddr \in Nat /\ p.memsz \in Nat
  <2>1. file.phdrs \in Seq(PhdrType)
    BY <1>3, FileIs
  <2>2. p \in PhdrType
    BY <2>1 DEF Segments, Range
  <2> QED BY <2>2 DEF PhdrType
<1>5. /\ image.size \in Int /\ image.pc_mask \in Int
      /\ image.max_pc \in Int /\ image.code_end \in Int
  BY <1>3 DEF ImageType
<1> QED BY <1>1, <1>2, <1>4, <1>5

(* No byte of an executable segment lies outside of what decode_flash decodes, *)
(* or where the program counter would have wrapped around before it.        *)
THEOREM AllCodeIsDecoded == Spec => []CodeIsDecoded
BY DecodedCode, InvAlways, PTL

LEMMA FittingFile == Inv => OnlyFittingFilesRun
<1> SUFFICES ASSUME Inv, Running_, file.elf PROVE OnlyFittingFilesRun
  BY DEF OnlyFittingFilesRun
<1>1. ArchFits(file.arch) /\ program.name \in DOMAIN ProgramFiles
  BY DEF Inv, SessionInv, PhaseInv, FileInv, Afterwards, Running_
<1>2. file.arch \in ElfArchs
  BY <1>1, FileIs
<1>3. isa \in {"classic", "xmega", "tiny"} /\ arch.desc.pc_3bytes \in BOOLEAN
  BY DEF Inv, SessionInv, OptionType, ArchType, DescType
<1> DEFINE a == file.arch
<1>4. /\ (isa = "tiny") <=> a = 100
      /\ (isa = "xmega") <=> a >= 102
      /\ arch.desc.pc_3bytes <=> (a = 6 \/ a >= 106)
      /\ (pm # 0) <=> (a = 100 \/ a = 103)
  <2>1. /\ (isa = "tiny") <=> elf_tiny(a)
        /\ (isa = "xmega") <=> elf_xmega(a)
        /\ arch.desc.pc_3bytes <=> elf_pc_3bytes(a)
        /\ (pm # 0) <=> elf_pm_off(a)
    BY <1>1, <1>3, Zenon DEF ArchFits
  <2> QED BY <2>1 DEF elf_tiny, elf_xmega, elf_pc_3bytes, elf_pm_off
<1> HIDE DEF a
<1>5. a \in ElfArchs
  BY <1>2 DEF a
<1>6. CASE isa = "tiny"
  BY <1>4, <1>6 DEF OnlyFittingFilesRun, a
<1>7. CASE isa = "classic"
  <2>1. a \in 0 .. 99 /\ (arch.desc.pc_3bytes <=> a = 6)
    BY <1>4, <1>5, <1>7 DEF ElfArchs
  <2> QED BY <1>7, <2>1 DEF OnlyFittingFilesRun, a
<1>8. CASE isa = "xmega"
  <2>1. /\ arch.desc.pc_3bytes => a \in {106, 107}
        /\ ~arch.desc.pc_3bytes => IF pm # 0 THEN a = 103 ELSE a \in {102, 104, 105}
    BY <1>4, <1>5, <1>8 DEF ElfArchs
  <2> QED BY <1>8, <2>1 DEF OnlyFittingFilesRun, a
<1> QED BY <1>3, <1>6, <1>7, <1>8

(* A file that was built for another variant, another size of the program     *)
(* counter or another view of flash never runs, whatever -mmcu, -pm and the   *)
(* device note have made of the architecture.                               *)
THEOREM NoOtherFileRuns == Spec => []OnlyFittingFilesRun
BY FittingFile, InvAlways, PTL

(* With -q, 0 is left for a program that called exit(0) and every failure has *)
(* its number; without it, 1 is a failure of AVRtest or of how it was called. *)
THEOREM ExitCodeTellsTheEnd == Spec => []ExitCodeAsDocumented
<1>1. Inv => ExitCodeAsDocumented
  BY DEF Inv, SessionInv
<1> QED BY <1>1, InvAlways, PTL

-----------------------------------------------------------------------------
(* Powers, and numbers in registers                                         *)

IsPower(p, b) == p = [k \in Nat |-> IF k = 0 THEN 1 ELSE b * p[k - 1]]

PowersTo(p, b, n) == p = [k \in 0 .. n |-> IF k = 0 THEN 1 ELSE b * p[k - 1]]

LEMMA PowersToExist ==
  ASSUME NEW b, NEW n \in Nat
  PROVE  \E p : PowersTo(p, b, n)
<1> DEFINE Bad == {m \in Nat : ~ \E p : PowersTo(p, b, m)}
<1> SUFFICES ASSUME Bad # {} PROVE FALSE
  OBVIOUS
<1>1. PICK m \in Bad : \A k \in Bad : m <= k
  <2>1. Bad \subseteq Nat
    OBVIOUS
  <2> HIDE DEF Bad
  <2> QED BY <2>1, Least
<1>2. m \in Nat /\ ~ \E p : PowersTo(p, b, m)
  OBVIOUS
<1>3. CASE m = 0
  <2> DEFINE p == [k \in 0 .. 0 |-> 1]
  <2>1. p = [k \in 0 .. 0 |-> IF k = 0 THEN 1 ELSE b * p[k - 1]]
    OBVIOUS
  <2> QED BY <1>2, <1>3, <2>1 DEF PowersTo
<1>4. CASE m # 0
  <2>1. m - 1 \in Nat /\ m - 1 \notin Bad
    BY <1>1, <1>2, <1>4
  <2>2. PICK q : PowersTo(q, b, m - 1)
    BY <2>1
  <2> DEFINE p == [k \in 0 .. m |-> IF k = m THEN b * q[m - 1] ELSE q[k]]
  <2>3. \A k \in 0 .. m - 1 : p[k] = q[k]
    BY <1>2
  <2>4. \A k \in 0 .. m - 1 : q[k] = IF k = 0 THEN 1 ELSE b * q[k - 1]
    BY <2>2 DEF PowersTo
  <2>5. \A k \in 0 .. m : p[k] = IF k = 0 THEN 1 ELSE b * p[k - 1]
    <3> SUFFICES ASSUME NEW k \in 0 .. m
                 PROVE  p[k] = IF k = 0 THEN 1 ELSE b * p[k - 1]
      OBVIOUS
    <3>1. CASE k = m
      <4>1. p[k] = b * q[m - 1] /\ m - 1 \in 0 .. m - 1
        BY <1>2, <1>4, <3>1
      <4> QED BY <1>4, <2>3, <3>1, <4>1
    <3>2. CASE k # m
      <4>1. k \in 0 .. m - 1 /\ (k # 0 => k - 1 \in 0 .. m - 1)
        BY <1>2, <3>2
      <4> QED BY <2>3, <2>4, <4>1
    <3> QED BY <3>1, <3>2
  <2>6. p = [k \in 0 .. m |-> p[k]]
    OBVIOUS
  <2>7. PowersTo(p, b, m)
    <3> HIDE DEF p
    <3> QED BY <2>5, <2>6 DEF PowersTo
  <2> QED BY <1>2, <2>7
<1> QED BY <1>3, <1>4

LEMMA PowersAgree ==
  ASSUME NEW b, NEW n \in Nat, NEW m \in Nat, n <= m,
         NEW p, PowersTo(p, b, n), NEW q, PowersTo(q, b, m)
  PROVE  \A k \in 0 .. n : p[k] = q[k]
<1> DEFINE Bad == {k \in 0 .. n : p[k] # q[k]}
<1> SUFFICES ASSUME Bad # {} PROVE FALSE
  OBVIOUS
<1>1. PICK k \in Bad : \A j \in Bad : k <= j
  <2>1. Bad \subseteq Nat
    OBVIOUS
  <2> HIDE DEF Bad
  <2> QED BY <2>1, Least
<1>2. k \in 0 .. n /\ k \in 0 .. m /\ p[k] # q[k]
  OBVIOUS
<1>3. p[k] = IF k = 0 THEN 1 ELSE b * p[k - 1]
  BY <1>2 DEF PowersTo
<1>4. q[k] = IF k = 0 THEN 1 ELSE b * q[k - 1]
  BY <1>2 DEF PowersTo
<1>5. k # 0 => k - 1 \in 0 .. n /\ k - 1 \notin Bad
  BY <1>1, <1>2
<1> QED BY <1>2, <1>3, <1>4, <1>5

LEMMA PowerExists == ASSUME NEW b PROVE \E p : IsPower(p, b)
<1> DEFINE t(n) == CHOOSE q : PowersTo(q, b, n)
           p == [n \in Nat |-> t(n)[n]]
<1>1. \A n \in Nat : PowersTo(t(n), b, n)
  BY PowersToExist
<1> HIDE DEF t
<1>2. \A n \in Nat : p[n] = IF n = 0 THEN 1 ELSE b * p[n - 1]
  <2> SUFFICES ASSUME NEW n \in Nat PROVE p[n] = IF n = 0 THEN 1 ELSE b * p[n - 1]
    OBVIOUS
  <2>1. n \in 0 .. n
    OBVIOUS
  <2>2. t(n)[n] = IF n = 0 THEN 1 ELSE b * t(n)[n - 1]
    BY <1>1, <2>1 DEF PowersTo
  <2>3. n # 0 => t(n - 1)[n - 1] = t(n)[n - 1]
    <3> SUFFICES ASSUME n # 0 PROVE t(n - 1)[n - 1] = t(n)[n - 1]
      OBVIOUS
    <3>1. n - 1 \in Nat /\ n - 1 <= n /\ n - 1 \in 0 .. n - 1
      OBVIOUS
    <3>2. PowersTo(t(n - 1), b, n - 1) /\ PowersTo(t(n), b, n)
      BY <1>1, <3>1
    <3> QED BY <3>1, <3>2, PowersAgree
  <2>4. p[n] = t(n)[n] /\ (n # 0 => p[n - 1] = t(n - 1)[n - 1])
    OBVIOUS
  <2> QED BY <2>2, <2>3, <2>4
<1>3. p = [n \in Nat |-> p[n]]
  OBVIOUS
<1> HIDE DEF p
<1>4. IsPower(p, b)
  BY <1>2, <1>3 DEF IsPower
<1> QED BY <1>4

LEMMA PowerIs ==
  ASSUME NEW b
  PROVE  /\ Power(b, 0) = 1
         /\ \A n \in Nat : Power(b, n + 1) = b * Power(b, n)
<1> DEFINE q == CHOOSE p : IsPower(p, b)
<1>1. IsPower(q, b)
  BY PowerExists
<1>2. \A n \in Nat : Power(b, n) = q[n]
  BY DEF Power, IsPower
<1> HIDE DEF q
<1>3. q[0] = 1
  BY <1>1 DEF IsPower
<1>4. \A n \in Nat : q[n + 1] = b * q[n]
  <2> SUFFICES ASSUME NEW n \in Nat PROVE q[n + 1] = b * q[n]
    OBVIOUS
  <2>1. n + 1 \in Nat /\ n + 1 # 0 /\ (n + 1) - 1 = n
    OBVIOUS
  <2>2. q[n + 1] = IF n + 1 = 0 THEN 1 ELSE b * q[(n + 1) - 1]
    BY <1>1, <2>1 DEF IsPower
  <2> QED BY <2>1, <2>2
<1> QED BY <1>2, <1>3, <1>4

LEMMA PowerPositive ==
  ASSUME NEW b \in Nat \ {0}
  PROVE  \A n \in Nat : Power(b, n) \in Nat \ {0}
<1> DEFINE Bad == {m \in Nat : Power(b, m) \notin Nat \ {0}}
<1> SUFFICES ASSUME Bad # {} PROVE FALSE
  OBVIOUS
<1>1. PICK m \in Bad : \A k \in Bad : m <= k
  <2>1. Bad \subseteq Nat
    OBVIOUS
  <2> HIDE DEF Bad
  <2> QED BY <2>1, Least
<1>2. m \in Nat /\ Power(b, m) \notin Nat \ {0}
  OBVIOUS
<1>3. m # 0
  BY <1>2, PowerIs
<1>4. m - 1 \in Nat /\ m - 1 \notin Bad /\ (m - 1) + 1 = m
  BY <1>1, <1>2, <1>3
<1>5. Power(b, m) = b * Power(b, m - 1)
  BY <1>4, PowerIs
<1>6. Power(b, m - 1) \in Nat \ {0}
  BY <1>4
<1> QED BY <1>2, <1>5, <1>6

(* A byte has at least 1 bit, so that half of it is a number.               *)
LEMMA ByteIs == Byte \in Nat /\ Byte >= 2 /\ Byte % 2 = 0
<1>1. Bits - 1 \in Nat /\ (Bits - 1) + 1 = Bits
  BY BitsAssumption
<1>2. Power(2, Bits) = 2 * Power(2, Bits - 1)
  BY <1>1, PowerIs
<1> DEFINE h == Power(2, Bits - 1)
<1>3. h \in Nat \ {0} /\ Byte = 2 * h
  BY <1>1, <1>2, PowerPositive DEF Byte
<1> HIDE DEF h
<1> QED BY <1>3

LEMMA WideIs ==
  /\ Wide(0) = 1
  /\ \A n \in Nat : Wide(n) \in Nat \ {0} /\ Wide(n + 1) = Byte * Wide(n)
<1>1. Byte \in Nat \ {0}
  BY ByteIs
<1> QED BY <1>1, PowerIs, PowerPositive DEF Wide

(* Dividing by b and then by c is dividing by their product, also below zero. *)
LEMMA DivDivInt ==
  ASSUME NEW n \in Int, NEW b \in Nat \ {0}, NEW c \in Nat \ {0}
  PROVE  /\ n \div (b * c) = (n \div b) \div c
         /\ n % (b * c) = b * ((n \div b) % c) + (n % b)
<1> DEFINE q == n \div b
           r == n % b
           t == q \div c
           u == q % c
           s_ == b * u + r
<1>1. q \in Int /\ r \in 0 .. b - 1 /\ n = b * q + r
  BY DivModInt
<1> HIDE DEF q, r
<1>2. t \in Int /\ u \in 0 .. c - 1 /\ q = c * t + u
  BY <1>1, DivModInt
<1> HIDE DEF t, u
<1>3. b * c \in Nat \ {0} /\ b * u \in Nat
  BY <1>2, ProductNat
<1>4. s_ \in 0 .. b * c - 1
  <2>1. b * u <= b * (c - 1)
    BY <1>2, ProductMonotone
  <2>2. b * (c - 1) = b * c - b
    OBVIOUS
  <2> QED BY <1>1, <1>3, <2>1, <2>2
<1>5. n = (b * c) * t + s_
  <2>1. b * (c * t + u) = (b * c) * t + b * u
    BY <1>2
  <2> QED BY <1>1, <1>2, <1>3, <2>1
<1> HIDE DEF s_
<1>6. n % (b * c) = s_
  BY <1>2, <1>3, <1>4, <1>5, RemainderUnique
<1>7. n \div (b * c) = t
  <2> DEFINE m == b * c
             v == n \div m
             w == n % m
  <2>1. m \in Nat \ {0}
    BY <1>3
  <2>2. n = m * v + w /\ v \in Int /\ w = s_
    BY <1>6, <2>1, DivModInt
  <2>3. n = m * t + s_
    BY <1>5
  <2> HIDE DEF m, v, w
  <2>4. m * v = m * t
    BY <1>2, <1>4, <2>1, <2>2, <2>3
  <2>5. v = t
    BY <1>2, <2>1, <2>2, <2>4
  <2> QED BY <2>5 DEF v, m
<1> QED BY <1>6, <1>7 DEF s_, t, u, r, q

-----------------------------------------------------------------------------
Iterates(F, r, q, b, n) ==
  F = [S \in SUBSET (1 .. n) |-> IF S = {} THEN 0
                                 ELSE LET x == Max(S) IN b * F[S \ {x}] + r[q[x]]]

LEMMA MaxIs ==
  ASSUME NEW n \in Nat, NEW S \in SUBSET (1 .. n), n \in S
  PROVE  Max(S) = n
<1>1. \A x \in S : n >= x
  OBVIOUS
<1>2. Max(S) \in S /\ \A x \in S : Max(S) >= x
  BY <1>1 DEF Max
<1>3. Max(S) \in 1 .. n /\ Max(S) >= n
  BY <1>2
<1> QED BY <1>3

LEMMA MaxIn ==
  ASSUME NEW n \in Nat, NEW S \in SUBSET (1 .. n), S # {}
  PROVE  Max(S) \in S
BY LatestOf DEF Latest

LEMMA IteratesExist ==
  ASSUME NEW r, NEW q, NEW b, NEW n \in Nat
  PROVE  \E F : Iterates(F, r, q, b, n)
<1> DEFINE Bad == {m \in Nat : ~ \E F : Iterates(F, r, q, b, m)}
<1> SUFFICES ASSUME Bad # {} PROVE FALSE
  OBVIOUS
<1>1. PICK m \in Bad : \A k \in Bad : m <= k
  <2>1. Bad \subseteq Nat
    OBVIOUS
  <2> HIDE DEF Bad
  <2> QED BY <2>1, Least
<1>2. m \in Nat /\ ~ \E F : Iterates(F, r, q, b, m)
  OBVIOUS
<1>3. CASE m = 0
  <2> DEFINE F == [S \in SUBSET (1 .. 0) |-> 0]
  <2>1. \A S \in SUBSET (1 .. 0) : S = {}
    OBVIOUS
  <2>2. F = [S \in SUBSET (1 .. 0) |-> IF S = {} THEN 0
                                       ELSE LET x == Max(S) IN b * F[S \ {x}] + r[q[x]]]
    BY <2>1
  <2> QED BY <1>2, <1>3, <2>2 DEF Iterates
<1>4. CASE m # 0
  <2>1. m - 1 \in Nat /\ m - 1 \notin Bad
    BY <1>1, <1>2, <1>4
  <2>2. PICK G : Iterates(G, r, q, b, m - 1)
    BY <2>1
  <2> DEFINE F == [S \in SUBSET (1 .. m) |->
                     IF m \in S THEN b * G[S \ {m}] + r[q[m]] ELSE G[S]]
  <2>3. \A S \in SUBSET (1 .. m) : m \notin S => S \in SUBSET (1 .. m - 1)
    BY <1>2
  <2>4. \A S \in SUBSET (1 .. m) : S \ {m} \in SUBSET (1 .. m) /\ S \ {m} \in SUBSET (1 .. m - 1)
    BY <1>2
  <2>5. \A S \in SUBSET (1 .. m - 1) :
          G[S] = IF S = {} THEN 0 ELSE LET x == Max(S) IN b * G[S \ {x}] + r[q[x]]
    BY <2>2 DEF Iterates
  <2>6. \A S \in SUBSET (1 .. m) :
          F[S] = IF S = {} THEN 0 ELSE LET x == Max(S) IN b * F[S \ {x}] + r[q[x]]
    <3> SUFFICES ASSUME NEW S \in SUBSET (1 .. m)
                 PROVE  F[S] = IF S = {} THEN 0 ELSE b * F[S \ {Max(S)}] + r[q[Max(S)]]
      OBVIOUS
    <3>1. CASE m \in S
      <4>1. Max(S) = m
        BY <1>2, <3>1, MaxIs
      <4>2. F[S \ {m}] = G[S \ {m}]
        BY <2>4
      <4>3. F[S] = b * G[S \ {m}] + r[q[m]]
        BY <3>1
      <4> QED BY <3>1, <4>1, <4>2, <4>3
    <3>2. CASE m \notin S
      <4>1. S \in SUBSET (1 .. m - 1) /\ F[S] = G[S]
        BY <2>3, <3>2
      <4>2. CASE S = {}
        BY <2>5, <4>1, <4>2
      <4>3. CASE S # {}
        <5>1. S \ {Max(S)} \in SUBSET (1 .. m) /\ m \notin S \ {Max(S)}
          BY <3>2
        <5>2. F[S \ {Max(S)}] = G[S \ {Max(S)}]
          BY <5>1
        <5>3. G[S] = b * G[S \ {Max(S)}] + r[q[Max(S)]]
          BY <2>5, <4>1, <4>3
        <5> QED BY <4>1, <4>3, <5>2, <5>3
      <4> QED BY <4>2, <4>3
    <3> QED BY <3>1, <3>2
  <2>7. F = [S \in SUBSET (1 .. m) |-> F[S]]
    OBVIOUS
  <2>8. Iterates(F, r, q, b, m)
    <3> HIDE DEF F
    <3> QED BY <2>6, <2>7 DEF Iterates
  <2> QED BY <1>2, <2>8
<1> QED BY <1>3, <1>4

(* The number in size registers, from the most significant byte on.         *)
LEMMA UnsignedIs ==
  ASSUME NEW r, NEW regno \in Nat, NEW size \in Nat
  PROVE  \E F : /\ Iterates(F, r, [k \in 1 .. size |-> regno + size - k], Byte, size)
                /\ Unsigned(r, regno, size) = F[1 .. size]
<1> DEFINE q == [k \in 1 .. size |-> regno + size - k]
           G == CHOOSE F : Iterates(F, r, q, Byte, size)
<1>1. Iterates(G, r, q, Byte, size)
  <2> HIDE DEF q
  <2> QED BY IteratesExist
<1>2. DOMAIN q = 1 .. size
  OBVIOUS
<1>3. Unsigned(r, regno, size) = FoldLeft(LAMBDA val, n : Byte * val + r[n], 0, q)
  BY DEF Unsigned
<1> HIDE DEF q
<1>4. Unsigned(r, regno, size) = G[1 .. size]
  BY <1>2, <1>3 DEF FoldLeft, MapThenFoldSet, Iterates
<1> QED BY <1>1, <1>4 DEF q

-----------------------------------------------------------------------------
(* Values in registers                                                      *)

(* The registers hold the size least significant bytes of v.                 *)
Holds(r, regno, size, v) ==
  \A k \in 0 .. size - 1 : r[regno + k] = (v \div Wide(k)) % Byte

LEMMA UnsignedOf ==
  ASSUME NEW r, NEW regno \in Nat, NEW size \in Nat, NEW v \in Int, Holds(r, regno, size, v)
  PROVE  Unsigned(r, regno, size) = v % Wide(size)
<1> DEFINE q == [k \in 1 .. size |-> regno + size - k]
           Part(m) == (v \div Wide(size - m)) % Wide(m)
<1>1. PICK F : Iterates(F, r, q, Byte, size) /\ Unsigned(r, regno, size) = F[1 .. size]
  BY UnsignedIs
<1>2. F[{}] = 0
  BY <1>1 DEF Iterates
<1>3. \A m \in 1 .. size : F[1 .. m] = Byte * F[1 .. m - 1] + r[regno + (size - m)]
  <2> SUFFICES ASSUME NEW m \in 1 .. size
               PROVE  F[1 .. m] = Byte * F[1 .. m - 1] + r[regno + (size - m)]
    OBVIOUS
  <2>1. m \in Nat /\ 1 .. m \in SUBSET (1 .. m) /\ m \in 1 .. m
    OBVIOUS
  <2>2. Max(1 .. m) = m
    BY <2>1, MaxIs
  <2>3. 1 .. m \in SUBSET (1 .. size) /\ 1 .. m # {} /\ (1 .. m) \ {m} = 1 .. m - 1
    OBVIOUS
  <2>4. q[m] = regno + (size - m)
    OBVIOUS
  <2> HIDE DEF q
  <2>5. F[1 .. m] = Byte * F[(1 .. m) \ {Max(1 .. m)}] + r[q[Max(1 .. m)]]
    BY <1>1, <2>3 DEF Iterates
  <2> QED BY <2>2, <2>3, <2>4, <2>5
<1> HIDE DEF q
<1> DEFINE Bad == {m \in 0 .. size : F[1 .. m] # Part(m)}
<1>4. Bad = {}
  <2> SUFFICES ASSUME Bad # {} PROVE FALSE
    OBVIOUS
  <2>1. PICK m \in Bad : \A k \in Bad : m <= k
    <3>1. Bad \subseteq Nat
      OBVIOUS
    <3> HIDE DEF Bad
    <3> QED BY <3>1, Least
  <2>2. m \in 0 .. size /\ F[1 .. m] # Part(m)
    OBVIOUS
  <2>3. CASE m = 0
    <3>1. 1 .. 0 = {} /\ Wide(0) = 1
      BY WideIs
    <3>2. v \div Wide(size) \in Int
      <4>1. Wide(size) \in Nat \ {0}
        BY WideIs
      <4> QED BY <4>1, DivModInt
    <3>3. \A x \in Int : x % 1 = 0
      OBVIOUS
    <3>4. Part(0) = 0
      BY <3>1, <3>2, <3>3
    <3> QED BY <1>2, <2>2, <2>3, <3>1, <3>4
  <2>4. CASE m # 0
    <3>1. m \in 1 .. size /\ m - 1 \in 0 .. size /\ m - 1 \notin Bad
      BY <2>1, <2>2, <2>4
    <3>2. F[1 .. m - 1] = Part(m - 1)
      BY <3>1
    <3> HIDE DEF Bad
    <3> DEFINE n == size - m
               x == v \div Wide(n)
               w == Wide(m - 1)
    <3>3. n \in Nat /\ n \in 0 .. size - 1 /\ size - (m - 1) = n + 1 /\ m - 1 \in Nat /\ (m - 1) + 1 = m
      BY <3>1
    <3>4. /\ Wide(n) \in Nat \ {0} /\ w \in Nat \ {0} /\ Byte \in Nat \ {0}
          /\ Wide(n + 1) = Wide(n) * Byte /\ Wide(m) = Byte * w
      <4>1. Wide(n + 1) = Byte * Wide(n) /\ Wide((m - 1) + 1) = Byte * w
        BY <3>3, WideIs
      <4>2. Wide(n) \in Nat \ {0} /\ w \in Nat \ {0} /\ Byte \in Nat \ {0}
        BY <3>3, WideIs, ByteIs
      <4>3. Byte * Wide(n) = Wide(n) * Byte
        BY <4>2
      <4> QED BY <3>3, <4>1, <4>2, <4>3
    <3>5. v \div Wide(n + 1) = x \div Byte
      <4>1. v \div (Wide(n) * Byte) = (v \div Wide(n)) \div Byte
        BY <3>4, DivDivInt
      <4> QED BY <3>4, <4>1
    <3>6. x \in Int
      BY <3>4
    <3>7. x % Wide(m) = Byte * ((x \div Byte) % w) + (x % Byte)
      BY <3>4, <3>6, DivDivInt
    <3>8. r[regno + n] = x % Byte
      BY <3>3 DEF Holds
    <3>9. F[1 .. m] = Byte * F[1 .. m - 1] + r[regno + n]
      BY <1>3, <3>1
    <3>10. Part(m - 1) = (x \div Byte) % w
      BY <3>3, <3>5
    <3> HIDE DEF x, w, n
    <3>11. F[1 .. m] = x % Wide(m)
      BY <3>2, <3>7, <3>8, <3>9, <3>10
    <3> QED BY <2>2, <3>11 DEF x, n
  <2> QED BY <2>3, <2>4
<1>5. F[1 .. size] = Part(size)
  BY <1>4
<1>6. size - size = 0 /\ v \div 1 = v
  OBVIOUS
<1> QED BY <1>1, <1>5, <1>6, WideIs

Fits(regno, size) == regno \in Nat /\ size \in Nat /\ regno .. regno + size - 1 \subseteq Regs

LEMMA SetHolds ==
  ASSUME NEW r, NEW regno, NEW size, Fits(regno, size), NEW v
  PROVE  Holds(set_reg_value(r, regno, size, v), regno, size, v)
<1> SUFFICES ASSUME NEW k \in 0 .. size - 1
             PROVE  set_reg_value(r, regno, size, v)[regno + k] = (v \div Wide(k)) % Byte
  BY DEF Holds
<1>1. regno + k \in Regs /\ regno + k \in regno .. regno + size - 1 /\ (regno + k) - regno = k
  BY DEF Fits
<1> QED BY <1>1 DEF set_reg_value

(* A register that is not written keeps its value.                          *)
LEMMA SetKeeps ==
  ASSUME NEW r, NEW regno, NEW size, Fits(regno, size), NEW v, NEW no, NEW n, NEW w,
         Fits(no, n), Holds(r, no, n, w), regno + size <= no \/ no + n <= regno
  PROVE  Holds(set_reg_value(r, regno, size, v), no, n, w)
<1> SUFFICES ASSUME NEW k \in 0 .. n - 1
             PROVE  set_reg_value(r, regno, size, v)[no + k] = (w \div Wide(k)) % Byte
  BY DEF Holds
<1>1. no + k \in Regs /\ no + k \notin regno .. regno + size - 1
  BY DEF Fits
<1>2. r[no + k] = (w \div Wide(k)) % Byte
  BY DEF Holds
<1> QED BY <1>1, <1>2 DEF set_reg_value

(* 4 and 8 bytes: an even number of values, more than 2 of them.             *)
LEMMA WideEven ==
  \A n \in Nat \ {0} : \E h \in Nat \ {0} : Wide(n) = 2 * h
<1> SUFFICES ASSUME NEW n \in Nat \ {0} PROVE \E h \in Nat \ {0} : Wide(n) = 2 * h
  OBVIOUS
<1>1. n - 1 \in Nat /\ (n - 1) + 1 = n
  OBVIOUS
<1>2. Wide(n) = Byte * Wide(n - 1) /\ Wide(n - 1) \in Nat \ {0}
  BY <1>1, WideIs
<1> DEFINE w == Wide(n - 1)
           g == Byte \div 2
<1>3. g \in Nat \ {0} /\ Byte = 2 * g
  BY ByteIs
<1> HIDE DEF w, g
<1>4. w \in Nat \ {0} /\ Wide(n) = Byte * w
  BY <1>2 DEF w
<1>5. g * w \in Nat \ {0} /\ Wide(n) = 2 * (g * w)
  BY <1>3, <1>4
<1> QED BY <1>5

LEMMA WideGrows == \A n \in Nat : Wide(n) >= 2 => Wide(n + 1) >= 4
<1> SUFFICES ASSUME NEW n \in Nat, Wide(n) >= 2 PROVE Wide(n + 1) >= 4
  OBVIOUS
<1> DEFINE w == Wide(n)
<1>1. w \in Nat /\ w >= 2 /\ Wide(n + 1) = Byte * w
  BY WideIs
<1>2. Byte \in Nat /\ Byte >= 2
  BY ByteIs
<1> HIDE DEF w
<1>3. Byte * 2 <= Byte * w
  BY <1>1, <1>2, ProductMonotone
<1> QED BY <1>1, <1>2, <1>3

LEMMA WideIsWide ==
  \A n \in Nat \ {0, 1} : \E h \in Nat : h >= 2 /\ Wide(n) = 2 * h
<1> SUFFICES ASSUME NEW n \in Nat \ {0, 1} PROVE \E h \in Nat : h >= 2 /\ Wide(n) = 2 * h
  OBVIOUS
<1>1. n - 1 \in Nat \ {0} /\ (n - 1) + 1 = n /\ n \in Nat \ {0}
  OBVIOUS
<1>2. PICK g \in Nat \ {0} : Wide(n - 1) = 2 * g
  BY <1>1, WideEven
<1>3. Wide(n - 1) >= 2
  BY <1>2
<1>4. Wide(n) >= 4
  BY <1>1, <1>3, WideGrows
<1>5. PICK h \in Nat \ {0} : Wide(n) = 2 * h
  BY <1>1, WideEven
<1> QED BY <1>4, <1>5

(* A number of w = 2h values, cut to w and read as a signed one.             *)
SignedTo(w, u) == IF u >= w \div 2 THEN u - w ELSE u

LEMMA SignedIs ==
  ASSUME NEW h \in Nat \ {0}, NEW c \in Int, NEW w, w = 2 * h
  PROVE  /\ SignedTo(w, c % w) \in -h .. h - 1
         /\ (SignedTo(w, c % w) - c) % w = 0
         /\ c \in -h .. h - 1 => SignedTo(w, c % w) = c
<1> DEFINE q == c \div w
           u == c % w
<1>1. w \in Nat \ {0} /\ w \div 2 = h
  OBVIOUS
<1>2. q \in Int /\ u \in 0 .. w - 1 /\ c = w * q + u
  BY <1>1, DivModInt
<1> HIDE DEF q, u
<1>3. SignedTo(w, u) = IF u >= h THEN u - w ELSE u
  BY <1>1 DEF SignedTo
<1>4. SignedTo(w, u) \in -h .. h - 1
  BY <1>1, <1>2, <1>3
<1>5. \E j \in Int : SignedTo(w, u) - c = w * j + 0
  <2>1. CASE u >= h
    <3> DEFINE j == -1 - q
    <3>1. j \in Int /\ SignedTo(w, u) - c = w * j + 0
      BY <1>1, <1>2, <1>3, <2>1
    <3> HIDE DEF j
    <3> QED BY <3>1
  <2>2. CASE ~(u >= h)
    <3> DEFINE j == -q
    <3>1. j \in Int /\ SignedTo(w, u) - c = w * j + 0
      BY <1>1, <1>2, <1>3, <2>2
    <3> HIDE DEF j
    <3> QED BY <3>1
  <2> QED BY <2>1, <2>2
<1>6. (SignedTo(w, u) - c) % w = 0
  <2>1. 0 \in 0 .. w - 1
    BY <1>1
  <2> QED BY <1>1, <1>5, <2>1, RemainderUnique
<1>7. ASSUME c \in -h .. h - 1 PROVE SignedTo(w, u) = c
  <2>1. PICK j \in Int : SignedTo(w, u) - c = w * j + 0
    BY <1>5
  <2>2. j = 0
    <3>1. CASE j >= 1
      <4>1. w * 1 <= w * j
        BY <1>1, <3>1, ProductMonotone
      <4> QED BY <1>1, <1>4, <1>7, <2>1, <4>1
    <3>2. CASE j <= -1
      <4>1. w * j <= w * (-1)
        BY <1>1, <3>2, ProductMonotone
      <4> QED BY <1>1, <1>4, <1>7, <2>1, <4>1
    <3> QED BY <3>1, <3>2
  <2> QED BY <1>1, <1>4, <1>7, <2>1, <2>2
<1> QED BY <1>4, <1>6, <1>7 DEF u

(* Division of C.                                                           *)
LEMMA CDivIs ==
  ASSUME NEW a \in Int, NEW b \in Int, b # 0
  PROVE  /\ CDiv(a, b) \in Int /\ Abs(CDiv(a, b)) <= Abs(a)
         /\ Abs(a - b * CDiv(a, b)) < Abs(b)
         /\ SameSign(a - b * CDiv(a, b), a)
         /\ Abs(b) >= 2 => 2 * Abs(CDiv(a, b)) <= Abs(a)
<1> DEFINE m == Abs(a)
           n == Abs(b)
           q == m \div n
           r == m % n
<1>1. m \in Nat /\ n \in Nat \ {0} /\ (a = m \/ a = -m) /\ (b = n \/ b = -n) /\ (a < 0 => a = -m) /\ (a >= 0 => a = m)
      /\ (b < 0 => b = -n) /\ (b >= 0 => b = n)
  BY DEF Abs
<1>2. q \in Nat /\ r \in 0 .. n - 1 /\ m = n * q + r
  BY <1>1, DivMod
<1>3. CDiv(a, b) = IF (a < 0) = (b < 0) THEN q ELSE -q
  BY DEF CDiv
<1>4. /\ (a < 0 <=> b < 0) => CDiv(a, b) = q
      /\ ~(a < 0 <=> b < 0) => CDiv(a, b) = -q
  BY <1>3
<1> HIDE DEF q, r, m, n
<1>5. n * q \in Nat /\ q <= n * q
  BY <1>1, <1>2
<1>6. n >= 2 => 2 * q <= n * q
  BY <1>1, <1>2
<1>7. q <= m /\ (n >= 2 => 2 * q <= m)
  BY <1>1, <1>2, <1>5, <1>6
<1>8. CDiv(a, b) \in {q, -q}
  BY <1>4
<1>9. Abs(CDiv(a, b)) = q
  BY <1>2, <1>8 DEF Abs
<1>10. b * CDiv(a, b) = IF a < 0 THEN -(n * q) ELSE n * q
  <2>1. CASE a < 0 /\ b < 0
    BY <1>1, <1>2, <1>4, <2>1
  <2>2. CASE a < 0 /\ ~(b < 0)
    BY <1>1, <1>2, <1>4, <2>2
  <2>3. CASE ~(a < 0) /\ b < 0
    BY <1>1, <1>2, <1>4, <2>3
  <2>4. CASE ~(a < 0) /\ ~(b < 0)
    BY <1>1, <1>2, <1>4, <2>4
  <2> QED BY <2>1, <2>2, <2>3, <2>4
<1>11. a - b * CDiv(a, b) = IF a < 0 THEN -r ELSE r
  BY <1>1, <1>2, <1>5, <1>10
<1>12. Abs(a - b * CDiv(a, b)) = r
  BY <1>2, <1>11 DEF Abs
<1>13. SameSign(a - b * CDiv(a, b), a)
  <2> DEFINE d == a - b * CDiv(a, b)
  <2>1. d = IF a < 0 THEN -r ELSE r
    BY <1>11
  <2> HIDE DEF d
  <2>2. SameSign(d, a)
    BY <1>2, <2>1 DEF SameSign
  <2> QED BY <2>2 DEF d
<1>14. Abs(b) = n /\ Abs(a) = m
  BY DEF m, n
<1>15. CDiv(a, b) \in Int
  BY <1>2, <1>8
<1>16. r < n
  BY <1>1, <1>2
<1> QED BY <1>7, <1>9, <1>12, <1>13, <1>14, <1>15, <1>16

-----------------------------------------------------------------------------
(* The arithmetic of syscall 21                                             *)

(* Operands and result of an operation, as numbers.                         *)
ArithFits(op, size, a, b, c) ==
  /\ op = "mul" => (c - a * b) % Wide(size) = 0
  /\ op = "mod" => IF b = 0 THEN c = a
                   ELSE (a - c) % Abs(b) = 0 /\ Abs(c) < Abs(b) /\ SameSign(c, a)
  /\ op = "div" /\ b # 0 =>
       \/ Abs(a - b * c) < Abs(b) /\ SameSign(a - b * c, a)
       \/ a = IntMin(size) /\ b = -1 /\ c = IntMin(size)

LEMMA MiscU ==
  ASSUME NEW op \in {"mul", "div", "mod"}, NEW size \in Nat, NEW w, w = Wide(size),
         NEW a \in 0 .. w - 1, NEW b \in 0 .. w - 1
  PROVE  /\ misc_u(op, a, b, size) \in Int
         /\ ArithFits(op, size, a, b, misc_u(op, a, b, size) % w)
         /\ op = "div" /\ b = 0 => misc_u(op, a, b, size) % w = w - 1
<1>1. w \in Nat \ {0}
  BY WideIs
<1>2. \A x \in 0 .. w - 1 : x % w = x
  BY <1>1
<1>3. Abs(b) = b /\ a \in Nat /\ b \in Nat
  BY DEF Abs
<1>4. CASE op = "mul"
  <2> DEFINE p == a * b
             q == p \div w
             c == p % w
  <2>1. p \in Int
    BY <1>3
  <2>2. misc_u(op, a, b, size) = c
    BY <1>4 DEF misc_u
  <2>3. q \in Int /\ c \in 0 .. w - 1 /\ p = w * q + c
    BY <1>1, <2>1, DivModInt
  <2>4. c % w = c
    BY <1>2, <2>3
  <2>5. (c - p) % w = 0
    <3> HIDE DEF p, q, c
    <3> DEFINE j == -q
    <3>1. j \in Int /\ c - p = w * j + 0 /\ 0 \in 0 .. w - 1
      BY <1>1, <2>1, <2>3
    <3> HIDE DEF j
    <3> QED BY <1>1, <3>1, RemainderUnique
  <2>6. c \in Int
    BY <2>3
  <2> HIDE DEF c, q
  <2> QED BY <1>4, <2>2, <2>4, <2>5, <2>6 DEF ArithFits
<1>5. CASE op # "mul" /\ b = 0
  <2>1. misc_u(op, a, b, size) = IF op = "div" THEN w - 1 ELSE a
    BY <1>5 DEF misc_u
  <2>2. misc_u(op, a, b, size) \in 0 .. w - 1
    BY <1>1, <2>1
  <2>3. misc_u(op, a, b, size) % w = misc_u(op, a, b, size)
    BY <1>2, <2>2
  <2> QED BY <1>5, <2>1, <2>2, <2>3 DEF ArithFits
<1>6. CASE op # "mul" /\ b # 0
  <2> DEFINE q == a \div b
             r == a % b
  <2>1. q \in Nat /\ r \in 0 .. b - 1 /\ a = b * q + r
    BY <1>3, <1>6, DivMod
  <2>2. misc_u(op, a, b, size) = IF op = "div" THEN q ELSE r
    BY <1>6 DEF misc_u
  <2> HIDE DEF q, r
  <2>3. q <= b * q /\ b * q \in Nat
    BY <1>3, <1>6, <2>1
  <2>4. q \in 0 .. w - 1 /\ r \in 0 .. w - 1
    BY <1>1, <1>3, <2>1, <2>3
  <2>5. CASE op = "div"
    <3>1. misc_u(op, a, b, size) = q /\ q % w = q
      BY <1>2, <2>2, <2>4, <2>5
    <3>2. a - b * q = r
      BY <2>1, <2>3
    <3>3. Abs(r) < Abs(b) /\ SameSign(r, a)
      BY <1>3, <2>1 DEF Abs, SameSign
    <3>4. Abs(a - b * q) < Abs(b) /\ SameSign(a - b * q, a)
      BY <3>2, <3>3
    <3> QED BY <1>6, <2>1, <2>5, <3>1, <3>4 DEF ArithFits
  <2>6. CASE op = "mod"
    <3>1. misc_u(op, a, b, size) = r /\ r % w = r
      BY <1>2, <2>2, <2>4, <2>6
    <3>2. a - r = b * q + 0 /\ 0 \in 0 .. b - 1
      BY <1>3, <1>6, <2>1, <2>3
    <3>3. (b * q + 0) % b = 0
      BY <1>3, <1>6, <2>1, <3>2, RemainderUnique
    <3>4. (a - r) % Abs(b) = 0
      BY <1>3, <3>2, <3>3
    <3>5. Abs(r) < Abs(b) /\ SameSign(r, a) /\ r \in Int
      BY <1>3, <2>1 DEF Abs, SameSign
    <3> QED BY <1>6, <2>6, <3>1, <3>4, <3>5 DEF ArithFits
  <2> QED BY <1>6, <2>5, <2>6
<1> QED BY <1>4, <1>5, <1>6

LEMMA MiscS ==
  ASSUME NEW op \in {"mul", "div", "mod"}, NEW size \in Nat, NEW w, w = Wide(size),
         NEW h \in Nat, h >= 2, w = 2 * h, NEW a \in -h .. h - 1, NEW b \in -h .. h - 1
  PROVE  /\ misc_s(op, a, b, size) \in Int
         /\ ArithFits(op, size, a, b, SignedTo(w, misc_s(op, a, b, size) % w))
         /\ op = "div" /\ b = 0 => Abs(SignedTo(w, misc_s(op, a, b, size) % w)) = 1
<1>1. IntMin(size) = -h
  BY DEF IntMin
<1>2. \A x \in -h .. h - 1 : SignedTo(w, x % w) = x
  <2>1. \A x \in -h .. h - 1 : x \in Int
    OBVIOUS
  <2>2. h \in Nat \ {0}
    OBVIOUS
  <2> QED BY <2>1, <2>2, SignedIs
<1> DEFINE c == misc_s(op, a, b, size)
<1>3. CASE op = "mul"
  <2> DEFINE p == a * b
  <2>1. p \in Int /\ c = p
    BY <1>3 DEF misc_s
  <2> HIDE DEF c
  <2>2. (SignedTo(w, p % w) - p) % w = 0
    <3> HIDE DEF p
    <3> QED BY <2>1, SignedIs
  <2> QED BY <1>3, <2>1, <2>2 DEF ArithFits, c
<1>4. CASE op # "mul" /\ b = 0
  <2>1. c \in {1, -1, a} /\ (op = "mod" => c = a) /\ (op = "div" => c \in {1, -1})
    BY <1>4 DEF misc_s
  <2> HIDE DEF c
  <2>2. c \in -h .. h - 1
    BY <2>1
  <2>3. SignedTo(w, c % w) = c
    BY <1>2, <2>2
  <2>4. op = "div" => Abs(c) = 1
    BY <2>1 DEF Abs
  <2> QED BY <1>4, <2>1, <2>2, <2>3, <2>4 DEF ArithFits, c
<1>5. CASE op # "mul" /\ b # 0 /\ a = -h /\ b = -1
  <2>1. c = IF op = "div" THEN -h ELSE 0
    BY <1>1, <1>5 DEF misc_s
  <2> HIDE DEF c
  <2>2. c \in -h .. h - 1
    BY <2>1
  <2>3. SignedTo(w, c % w) = c
    BY <1>2, <2>2
  <2>4. op = "mod" => Abs(c) < Abs(b) /\ SameSign(c, a) /\ (a - c) % Abs(b) = 0
    <3>1. op = "mod" => c = 0
      BY <2>1
    <3>2. Abs(b) = 1 /\ a - 0 \in Int
      <4>0. b + 1 = 0 /\ b \in Int
        BY <1>5
      <4>1. b < 0 /\ -b = 1
        BY <4>0
      <4>2. a \in Int
        OBVIOUS
      <4>3. a - 0 \in Int
        BY <4>2
      <4> QED BY <4>1, <4>3 DEF Abs
    <3>3. \A x \in Int : x % 1 = 0
      OBVIOUS
    <3>4. (a - 0) % Abs(b) = 0
      BY <3>2, <3>3
    <3> QED BY <1>5, <3>1, <3>2, <3>4 DEF Abs, SameSign
  <2> QED BY <1>1, <1>5, <2>1, <2>2, <2>3, <2>4 DEF ArithFits, c
<1>6. CASE op # "mul" /\ b # 0 /\ ~(a = -h /\ b = -1)
  <2> DEFINE q == CDiv(a, b)
             r == a - b * q
  <2>0. a \in Int /\ b \in Int
    OBVIOUS
  <2>1. /\ q \in Int /\ Abs(q) <= Abs(a)
        /\ Abs(r) < Abs(b) /\ SameSign(r, a)
        /\ Abs(b) >= 2 => 2 * Abs(q) <= Abs(a)
    BY <1>6, <2>0, CDivIs
  <2>2. c = IF op = "div" THEN q ELSE r
    BY <1>1, <1>6 DEF misc_s, CMod
  <2>3. q # h
    <3> SUFFICES ASSUME q = h PROVE FALSE
      OBVIOUS
    <3>1. Abs(a) = h /\ Abs(b) < 2 /\ a = -h
      BY <2>1 DEF Abs
    <3>2. b = 1
      BY <1>6, <3>1 DEF Abs
    <3>3. q = -(Abs(a) \div Abs(b))
      BY <3>1, <3>2 DEF CDiv
    <3> QED BY <3>1, <3>2, <3>3 DEF Abs
  <2>4. r \in Int
    BY <2>0, <2>1
  <2> HIDE DEF c
  <2>5. q \in -h .. h - 1
    <3> HIDE DEF q, r
    <3> QED BY <2>1, <2>3 DEF Abs
  <2>6. r \in -h .. h - 1
    <3> HIDE DEF q, r
    <3> QED BY <2>1, <2>4 DEF Abs
  <2>7. CASE op = "div"
    <3>1. c = q /\ SignedTo(w, c % w) = q
      BY <1>2, <2>2, <2>5, <2>7
    <3>2. Abs(a - b * q) < Abs(b) /\ SameSign(a - b * q, a)
      BY <2>1
    <3> HIDE DEF q, r
    <3> QED BY <1>6, <2>1, <2>7, <3>1, <3>2 DEF ArithFits, c
  <2>8. CASE op = "mod"
    <3>1. c = r /\ SignedTo(w, c % w) = r
      BY <1>2, <2>2, <2>6, <2>8
    <3>2. (a - r) % Abs(b) = 0
      <4>1. a - r = b * q
        BY <2>0, <2>1
      <4> HIDE DEF q, r
      <4>2. CASE b > 0
        <5>1. Abs(b) = b /\ b \in Nat \ {0} /\ 0 \in 0 .. b - 1
          BY <4>2 DEF Abs
        <5>2. (b * q + 0) % b = 0
          BY <2>1, <5>1, RemainderUnique
        <5>3. b * q + 0 = b * q
          BY <2>1
        <5> QED BY <4>1, <5>1, <5>2, <5>3
      <4>3. CASE b < 0
        <5> DEFINE n == -b  j == -q
        <5>1. Abs(b) = n /\ n \in Nat \ {0} /\ 0 \in 0 .. n - 1 /\ j \in Int
          BY <2>1, <4>3 DEF Abs
        <5>2. b * q = n * j + 0
          BY <2>1
        <5> HIDE DEF n, j
        <5>3. (n * j + 0) % n = 0
          BY <5>1, RemainderUnique
        <5> QED BY <4>1, <5>1, <5>2, <5>3
      <4> QED BY <1>6, <4>2, <4>3
    <3> HIDE DEF q, r
    <3> QED BY <1>6, <2>1, <2>4, <2>8, <3>1, <3>2 DEF ArithFits, c
  <2> QED BY <1>6, <2>7, <2>8
<1> QED BY <1>3, <1>4, <1>5, <1>6

LEMMA Fitting ==
  /\ \A cmd \in DOMAIN layout :
       /\ layout[cmd][1] \in {1, 2, 3, 4, 8}
       /\ Fits(LogRegno(cmd), layout[cmd][1])
       /\ layout[cmd][1] = 8 => LogRegno(cmd) = 18
       /\ layout[cmd][1] # 8 => LogRegno(cmd) = 20
  /\ \A size \in {4, 8} :
       /\ Fits(FirstReg(size), size) /\ Fits(SecondReg(size), size)
       /\ SecondReg(size) + size <= FirstReg(size)
<1>1. ASSUME NEW cmd \in DOMAIN layout
      PROVE  layout[cmd][1] \in {1, 2, 3, 4, 8}
  BY <1>1 DEF layout
<1>2. ASSUME NEW cmd \in DOMAIN layout
      PROVE  /\ Fits(LogRegno(cmd), layout[cmd][1])
             /\ layout[cmd][1] = 8 => LogRegno(cmd) = 18
             /\ layout[cmd][1] # 8 => LogRegno(cmd) = 20
  <2> DEFINE n == layout[cmd][1]
  <2>1. n \in {1, 2, 3, 4, 8}
    BY <1>1
  <2>2. LogRegno(cmd) = IF n = 8 THEN 18 ELSE 20
    BY DEF LogRegno
  <2> HIDE DEF n
  <2>3. Fits(LogRegno(cmd), n) /\ (n = 8 => LogRegno(cmd) = 18) /\ (n # 8 => LogRegno(cmd) = 20)
    BY <2>1, <2>2 DEF Fits, Regs
  <2> QED BY <2>3 DEF n
<1>3. \A size \in {4, 8} :
        /\ Fits(FirstReg(size), size) /\ Fits(SecondReg(size), size)
        /\ SecondReg(size) + size <= FirstReg(size)
  BY DEF Fits, Regs, FirstReg, SecondReg
<1> QED BY <1>1, <1>2, <1>3

(* What syscall 21 leaves in the registers is the result of the numbers that  *)
(* were passed.                                                             *)
LEMMA OperandsAre ==
  ASSUME NEW r, NEW size \in {4, 8}, NEW a \in 0 .. Wide(size) - 1, NEW b \in 0 .. Wide(size) - 1
  PROVE  Operands(set_reg_value(set_reg_value(r, SecondReg(size), size, b),
                                FirstReg(size), size, a), size) = << a, b >>
<1> DEFINE m == FirstReg(size)  n == SecondReg(size)
           q == set_reg_value(r, n, size, b)
           x == set_reg_value(q, m, size, a)
<1>1. Fits(m, size) /\ Fits(n, size) /\ n + size <= m
  BY Fitting
<1>2. Wide(size) \in Nat \ {0} /\ a \in Int /\ b \in Int
  BY WideIs
<1>3. Holds(q, n, size, b)
  BY <1>1, SetHolds
<1>4. Holds(x, m, size, a)
  BY <1>1, SetHolds
<1>5. Holds(x, n, size, b)
  <2> HIDE DEF q, m, n
  <2> QED BY <1>1, <1>3, SetKeeps
<1> HIDE DEF x, m, n
<1>6. Unsigned(x, m, size) = a % Wide(size) /\ Unsigned(x, n, size) = b % Wide(size)
  BY <1>1, <1>2, <1>4, <1>5, UnsignedOf DEF Fits
<1>7. a % Wide(size) = a /\ b % Wide(size) = b
  BY <1>2
<1> QED BY <1>6, <1>7 DEF Operands, x, m, n

(* A call of syscall 21, and what is in the registers of its result.         *)
CallFits(call, u) ==
  LET size == call.size
      a == IF call.signed THEN Signed(call.a, size) ELSE call.a
      b == IF call.signed THEN Signed(call.b, size) ELSE call.b
      c == IF call.signed THEN Signed(u, size) ELSE u
  IN  /\ ArithFits(call.call, size, a, b, c)
      /\ call.call = "div" /\ b = 0 => IF call.signed THEN Abs(c) = 1 ELSE c = Wide(size) - 1

LEMMA ArithIs == QuotientAndRemainder <=> (Arith => CallFits(LastCall, Result(LastCall.size)))
BY Zenon DEF QuotientAndRemainder, CallFits, ArithFits, Number

LEMMA UnsignedCall ==
  ASSUME NEW call, NEW u, ~call.signed, ArithFits(call.call, call.size, call.a, call.b, u),
         call.call = "div" /\ call.b = 0 => u = Wide(call.size) - 1
  PROVE  CallFits(call, u)
BY DEF CallFits

LEMMA SignedCall ==
  ASSUME NEW call, NEW u, call.signed,
         ArithFits(call.call, call.size, Signed(call.a, call.size), Signed(call.b, call.size),
                   Signed(u, call.size)),
         call.call = "div" /\ Signed(call.b, call.size) = 0 => Abs(Signed(u, call.size)) = 1
  PROVE  CallFits(call, u)
BY DEF CallFits

LEMMA Computed ==
  ASSUME NEW r, NEW op \in {"mul", "div", "mod"}, NEW size \in {4, 8}, NEW signed_p \in BOOLEAN,
         NEW a \in 0 .. Wide(size) - 1, NEW b \in 0 .. Wide(size) - 1, NEW c,
         c = IF signed_p THEN misc_s(op, Signed(a, size), Signed(b, size), size)
                         ELSE misc_u(op, a, b, size)
  PROVE  CallFits([call |-> op, signed |-> signed_p, size |-> size, a |-> a, b |-> b],
                  Unsigned(set_reg_value(r, FirstReg(size), size, c), FirstReg(size), size))
<1> DEFINE w == Wide(size)
           call == [call |-> op, signed |-> signed_p, size |-> size, a |-> a, b |-> b]
           u == Unsigned(set_reg_value(r, FirstReg(size), size, c), FirstReg(size), size)
<1>1. PICK h \in Nat : h >= 2 /\ w = 2 * h
  BY WideIsWide
<1>2. \A x : Signed(x, size) = SignedTo(w, x)
  BY DEF Signed, SignedTo
<1>3. /\ call.call = op /\ call.size = size /\ call.a = a /\ call.b = b
      /\ call.signed = signed_p
  OBVIOUS
<1>4. \A x : c = x /\ x \in Int => u = x % w
  <2>1. Fits(FirstReg(size), size)
    BY Fitting
  <2>2. Holds(set_reg_value(r, FirstReg(size), size, c), FirstReg(size), size, c)
    BY <2>1, SetHolds
  <2> HIDE DEF u
  <2>3. c \in Int => u = c % w
    BY <2>1, <2>2, UnsignedOf DEF Fits, u
  <2> QED BY <2>3
<1> SUFFICES CallFits(call, u)
  OBVIOUS
<1> HIDE DEF call, u
<1>5. CASE ~signed_p
  <2>1. c = misc_u(op, a, b, size)
    BY <1>5
  <2>2. /\ c \in Int
        /\ ArithFits(op, size, a, b, c % w)
        /\ op = "div" /\ b = 0 => c % w = w - 1
    BY <2>1, MiscU
  <2>3. u = c % w
    BY <1>4, <2>2
  <2>4. ArithFits(op, size, a, b, u) /\ (op = "div" /\ b = 0 => u = Wide(size) - 1)
    BY <2>2, <2>3
  <2> QED BY <1>3, <1>5, <2>4, UnsignedCall
<1>6. CASE signed_p
  <2> DEFINE x == SignedTo(w, a)  y == SignedTo(w, b)
  <2>1. x \in -h .. h - 1 /\ y \in -h .. h - 1
    BY <1>1 DEF SignedTo
  <2>2. c = misc_s(op, x, y, size)
    BY <1>2, <1>6
  <2> HIDE DEF x, y
  <2>3. /\ c \in Int
        /\ ArithFits(op, size, x, y, SignedTo(w, c % w))
        /\ op = "div" /\ y = 0 => Abs(SignedTo(w, c % w)) = 1
    BY <1>1, <2>1, <2>2, MiscS
  <2>4. u = c % w
    BY <1>4, <2>3
  <2>5. /\ ArithFits(op, size, Signed(a, size), Signed(b, size), Signed(u, size))
        /\ op = "div" /\ Signed(b, size) = 0 => Abs(Signed(u, size)) = 1
    BY <1>2, <2>3, <2>4 DEF x, y
  <2> QED BY <1>3, <1>6, <2>5, SignedCall
<1> QED BY <1>5, <1>6

-----------------------------------------------------------------------------
(* What is logged                                                           *)

(* What is logged, given what is in the registers.                          *)
ValueFits(cmd, passed, val) ==
  LET size == layout[cmd][1]
      wide == IF size = 8 THEN Wide(8) ELSE Full
  IN
  /\ (val - passed) % Wide(size) = 0
  /\ IF layout[cmd][2]
     THEN val - (IF val >= wide \div 2 THEN wide ELSE 0) = Signed(passed, size)
     ELSE val < Wide(size)

LEMMA WideSteps == Wide(4) = Byte * Wide(3) /\ Wide(3) = Byte * Wide(2) /\ Wide(2) = Byte * Wide(1)
<1>1. 3 + 1 = 4 /\ 2 + 1 = 3 /\ 1 + 1 = 2
  OBVIOUS
<1> QED BY <1>1, WideIs

(* Full is a multiple of the numbers of 1 to 4 bytes.                        *)
LEMMA FullIs ==
  \A size \in {1, 2, 3, 4} : \E j \in Nat : Full = Wide(size) * (j + 1)
<1> DEFINE b == Byte
           w(n) == Wide(n)
<1>1. b \in Nat \ {0} /\ \A n \in Nat : w(n) \in Nat \ {0}
  BY ByteIs, WideIs
<1>2. w(4) = b * w(3) /\ w(3) = b * w(2) /\ w(2) = b * w(1)
  BY WideSteps
<1> HIDE DEF b, w
<1>3. \A x \in Nat : b * x = x * b
  BY <1>1
<1>4. w(4) = w(3) * b
  BY <1>1, <1>2, <1>3
<1>5. w(4) = w(2) * (b * b)
  BY <1>1, <1>2
<1>6. w(4) = w(1) * (b * (b * b))
  BY <1>1, <1>2
<1>7. w(4) = w(4) * 1
  BY <1>1
<1>8. 1 \in Nat \ {0} /\ b * b \in Nat \ {0} /\ b * (b * b) \in Nat \ {0}
  BY <1>1
<1>9. \A size \in {1, 2, 3, 4} : \E k \in Nat \ {0} : w(4) = w(size) * k
  BY <1>1, <1>4, <1>5, <1>6, <1>7, <1>8
<1>10. \A k \in Nat \ {0} : k - 1 \in Nat /\ (k - 1) + 1 = k
  OBVIOUS
<1>11. \A size \in {1, 2, 3, 4} : \E j \in Nat : w(4) = w(size) * (j + 1)
  <2> SUFFICES ASSUME NEW size \in {1, 2, 3, 4} PROVE \E j \in Nat : w(4) = w(size) * (j + 1)
    OBVIOUS
  <2>1. PICK k \in Nat \ {0} : w(4) = w(size) * k
    BY <1>9
  <2>2. k - 1 \in Nat /\ w(4) = w(size) * ((k - 1) + 1)
    BY <1>10, <2>1
  <2> QED BY <2>2
<1> QED BY <1>11 DEF w, Full

(* The most significant byte tells whether a number is in the upper half.    *)
LEMMA TopByte ==
  ASSUME NEW size \in Nat \ {0}, NEW v \in 0 .. Wide(size) - 1
  PROVE  (v \div Wide(size - 1)) % Byte >= Byte \div 2 <=> v >= Wide(size) \div 2
<1> DEFINE w == Wide(size - 1)
           b == Byte
           g == b \div 2
           q == v \div w
           r == v % w
<1>1. w \in Nat \ {0} /\ Wide(size) = b * w
  <2>1. size - 1 \in Nat /\ (size - 1) + 1 = size
    OBVIOUS
  <2> QED BY <2>1, WideIs
<1>2. b \in Nat \ {0} /\ b = 2 * g /\ g \in Nat \ {0}
  BY ByteIs
<1>0. v \in Nat /\ v < Wide(size)
  <2>1. Wide(size) \in Nat
    BY WideIs
  <2> QED BY <2>1
<1>3. q \in Nat /\ r \in 0 .. w - 1 /\ v = w * q + r
  BY <1>0, <1>1, DivMod
<1>4. (v \div w) % b >= b \div 2 <=> q % b >= g
  OBVIOUS
<1>5. v < b * w
  BY <1>0, <1>1
<1> HIDE DEF w, b, g, q, r
<1>6. q < b
  <2>1. ASSUME q >= b PROVE FALSE
    <3>1. w * b <= w * q
      BY <1>1, <1>2, <1>3, <2>1, ProductMonotone
    <3>2. w * b = b * w
      BY <1>1, <1>2
    <3> QED BY <1>1, <1>2, <1>3, <1>5, <3>1, <3>2
  <2> QED BY <1>2, <1>3, <2>1
<1>7. q % b = q
  BY <1>2, <1>3, <1>6
<1>8. Wide(size) \div 2 = w * g
  <2>1. b * w = 2 * (w * g)
    BY <1>1, <1>2
  <2>2. w * g \in Nat
    BY <1>1, <1>2
  <2> DEFINE x == w * g
  <2> HIDE DEF x
  <2>3. Wide(size) = 2 * x /\ x \in Nat
    BY <1>1, <2>1, <2>2 DEF x
  <2>4. Wide(size) \div 2 = x
    BY <2>3
  <2> QED BY <2>4 DEF x
<1>9. q >= g <=> v >= w * g
  <2>1. ASSUME q >= g PROVE v >= w * g
    <3>1. w * g <= w * q
      BY <1>1, <1>2, <1>3, <2>1, ProductMonotone
    <3> QED BY <1>1, <1>2, <1>3, <3>1
  <2>2. ASSUME q < g PROVE v < w * g
    <3>1. w * (q + 1) <= w * g
      BY <1>1, <1>2, <1>3, <2>2, ProductMonotone
    <3>2. w * (q + 1) = w * q + w
      BY <1>1, <1>3
    <3> QED BY <1>1, <1>2, <1>3, <3>1, <3>2
  <2>3. v \in Int /\ w * g \in Int
    BY <1>1, <1>2
  <2> QED BY <1>2, <1>3, <2>1, <2>2, <2>3
<1> QED BY <1>4, <1>7, <1>8, <1>9 DEF w, b

LEMMA LoggedFits ==
  ASSUME NEW r, NEW cmd \in DOMAIN layout, NEW v \in 0 .. Wide(layout[cmd][1]) - 1
  PROVE  ValueFits(cmd, v, LoggedValue(set_reg_value(r, LogRegno(cmd), layout[cmd][1], v), cmd))
<1> DEFINE size == layout[cmd][1]
           signed_p == layout[cmd][2]
           w == Wide(size)
           no == LogRegno(cmd)
           x == set_reg_value(r, no, size, v)
           val == LoggedValue(x, cmd)
<1>1. /\ size \in {1, 2, 3, 4, 8} /\ Fits(no, size)
      /\ size = 8 => no = 18
      /\ size # 8 => no = 20
  BY Fitting
<1>2. Holds(x, no, size, v)
  BY <1>1, SetHolds
<1>3. val = IF size = 8 THEN Unsigned(x, 18, 8) ELSE get_reg_value(x, 20, size, signed_p)
  BY DEF LoggedValue
<1>4. v \in 0 .. w - 1
  OBVIOUS
<1>5. ValueFits(cmd, v, val) <=>
        /\ (val - v) % w = 0
        /\ IF signed_p
           THEN val - (IF val >= (IF size = 8 THEN Wide(8) ELSE Full) \div 2
                       THEN (IF size = 8 THEN Wide(8) ELSE Full) ELSE 0) = Signed(v, size)
           ELSE val < w
  BY Zenon DEF ValueFits
<1> SUFFICES ValueFits(cmd, v, val)
  OBVIOUS
<1> HIDE DEF size, signed_p, no, x, val
<1>6. w \in Nat \ {0} /\ v \in Nat /\ v < w
  <2>1. w \in Nat \ {0}
    BY <1>1, WideIs
  <2> QED BY <1>4, <2>1
<1>7. Unsigned(x, no, size) = v
  <2>1. Unsigned(x, no, size) = v % w
    BY <1>1, <1>2, <1>6, UnsignedOf DEF Fits
  <2>2. v % w = v
    BY <1>6
  <2> QED BY <2>1, <2>2
<1>8. Signed(v, size) = IF v >= w \div 2 THEN v - w ELSE v
  BY DEF Signed
<1>9. (v - v) % w = 0
  BY <1>6
<1>10. CASE size = 8
  <2>1. val = v
    BY <1>1, <1>3, <1>7, <1>10
  <2>2. v - (IF v >= w \div 2 THEN w ELSE 0) = Signed(v, size)
    BY <1>6, <1>8
  <2> QED BY <1>5, <1>6, <1>9, <1>10, <2>1, <2>2
<1>11. CASE size # 8
  <2>1. no = 20 /\ size \in {1, 2, 3, 4}
    BY <1>1, <1>11
  <2>2. x[20 + size - 1] >= Byte \div 2 <=> v >= w \div 2
    <3>1. size \in Nat \ {0} /\ size - 1 \in 0 .. size - 1 /\ 20 + size - 1 = no + (size - 1)
      BY <2>1
    <3>2. x[no + (size - 1)] = (v \div Wide(size - 1)) % Byte
      BY <1>2, <3>1 DEF Holds
    <3>3. (v \div Wide(size - 1)) % Byte >= Byte \div 2 <=> v >= w \div 2
      BY <1>4, <3>1, TopByte
    <3> QED BY <3>1, <3>2, <3>3
  <2>3. val = IF signed_p /\ v >= w \div 2 THEN (Full - w) + v ELSE v
    BY <1>3, <1>7, <1>11, <2>1, <2>2 DEF get_reg_value
  <2>4. PICK j \in Nat : Full = w * (j + 1)
    BY <2>1, FullIs
  <2> DEFINE k == w * j
  <2>5. k \in Nat /\ Full = w + k
    BY <1>6, <2>4
  <2>6. PICK h \in Nat \ {0} : w = 2 * h
    BY <2>1, WideEven
  <2>7. PICK f \in Nat \ {0} : Full = 2 * f
    BY WideEven DEF Full
  <2>8. w \div 2 = h /\ Full \div 2 = f
    BY <2>6, <2>7
  <2>9. CASE signed_p /\ v >= w \div 2
    <3>1. val = k + v
      BY <1>6, <2>3, <2>5, <2>9
    <3>2. (val - v) % w = 0
      <4>1. val - v = w * j + 0 /\ 0 \in 0 .. w - 1
        BY <1>6, <2>5, <3>1
      <4>2. (w * j + 0) % w = 0
        BY <1>6, <4>1, RemainderUnique
      <4> QED BY <4>1, <4>2
    <3> HIDE DEF k
    <3>3. val >= Full \div 2
      BY <1>6, <2>5, <2>6, <2>7, <2>8, <2>9, <3>1
    <3>4. val - Full = Signed(v, size)
      BY <1>6, <1>8, <2>5, <2>9, <3>1
    <3> QED BY <1>5, <1>11, <2>9, <3>2, <3>3, <3>4
  <2>10. CASE ~(signed_p /\ v >= w \div 2)
    <3>1. val = v
      BY <2>3, <2>10
    <3> HIDE DEF k
    <3>2. signed_p => ~(v >= Full \div 2) /\ Signed(v, size) = v - 0
      BY <1>6, <1>8, <2>5, <2>6, <2>7, <2>8, <2>10
    <3> QED BY <1>5, <1>6, <1>9, <1>11, <3>1, <3>2
  <2> QED BY <2>9, <2>10
<1> QED BY <1>10, <1>11

(* The last of what is logged at once is the value, too.                     *)
LEMMA LastLogged ==
  ASSUME NEW q, Sequence(q), NEW fmt, NEW val
  PROVE  /\ Len(q \o LOGPRINT(fmt, val)) > 0
         /\ Last(q \o LOGPRINT(fmt, val)).val = val
         /\ Last(q \o LOGPRINT(fmt, val)).fmt = fmt
<1> DEFINE e == Entry("log", streams["log"], fmt, val)
           g == Entry("log_copy", Std("stdout"), fmt, val)
<1>1. e.val = val /\ e.fmt = fmt /\ g.val = val /\ g.fmt = fmt
  BY DEF Entry
<1>2. LOGPRINT(fmt, val) = << e, g >> \/ LOGPRINT(fmt, val) = << e >>
  BY DEF LOGPRINT
<1> HIDE DEF e, g
<1>3. PICK S : q \in Seq(S)
  BY DEF Sequence
<1>4. CASE LOGPRINT(fmt, val) = << e, g >>
  <2> DEFINE l == q \o << e, g >>
  <2>1. Len(l) = Len(q) + 2 /\ l[Len(q) + 2] = g /\ Len(q) \in Nat
    BY <1>3
  <2> QED BY <1>1, <1>4, <2>1 DEF Last
<1>5. CASE LOGPRINT(fmt, val) = << e >>
  <2> DEFINE l == q \o << e >>
  <2>1. Len(l) = Len(q) + 1 /\ l[Len(q) + 1] = e /\ Len(q) \in Nat
    BY <1>3
  <2> QED BY <1>1, <1>5, <2>1 DEF Last
<1> QED BY <1>2, <1>4, <1>5

-----------------------------------------------------------------------------
(* Which format is in force                                                 *)

(* Formats: what the history q of the calls says, and what is in fmt_once and *)
(* xfmt.                                                                    *)
LogNames  == FormatCmds \cup {"UNSET_FMT", "value"}
LastNames == {"SET_FMT", "SET_PFMT", "UNSET_FMT"}
OnceNames == {"SET_FMT_ONCE", "SET_PFMT_ONCE"}

CallsOf(q, names, n) == {k \in DOMAIN q : q[k].call \in names /\ k < n}
LastOf(q, names, n) == Latest(CallsOf(q, names, n))
OnceIn(q, n) == n \in DOMAIN q /\ q[n].call \in OnceNames
ForceIn(q, n) == LastOf(q, LastNames, n) # 0 /\ q[LastOf(q, LastNames, n)].call # "UNSET_FMT"
PlainFormats(q) == \A n \in DOMAIN q : OnceIn(q, n) => ~ForceIn(q, n)

FormatState(q, once, x) ==
  LET n == Len(q) + 1  k == LastOf(q, LogNames, n) IN
  IF OnceIn(q, k) THEN once = 1 /\ x = q[k].fmt
  ELSE IF ForceIn(q, n) THEN once = -1 /\ x = q[LastOf(q, LastNames, n)].fmt
  ELSE once = 0

LEMMA HistoryIs ==
  /\ \A n : LogBefore(n) = LastOf(calls, LogNames, n)
  /\ \A n : LastingBefore(n) = LastOf(calls, LastNames, n)
  /\ \A n : OnceAt(n) <=> OnceIn(calls, n)
  /\ \A n : InForce(n) <=> ForceIn(calls, n)
<1>1. \A n : {k \in LogCalls : k < n} = CallsOf(calls, LogNames, n)
  BY DEF LogCalls, CallsOf, LogNames
<1>2. \A n : {k \in LogCalls : k < n /\ calls[k].call \in {"SET_FMT", "SET_PFMT", "UNSET_FMT"}}
               = CallsOf(calls, LastNames, n)
  BY DEF LogCalls, CallsOf, LastNames, FormatCmds
<1>3. \A n : LogBefore(n) = LastOf(calls, LogNames, n)
  BY <1>1 DEF LogBefore, LastOf
<1>4. \A n : LastingBefore(n) = LastOf(calls, LastNames, n)
  BY <1>2 DEF LastingBefore, LastOf
<1>5. \A n : OnceAt(n) <=> OnceIn(calls, n)
  BY DEF OnceAt, OnceIn, OnceNames
<1>6. \A n : InForce(n) <=> ForceIn(calls, n)
  BY <1>4 DEF InForce, ForceIn
<1> QED BY <1>3, <1>4, <1>5, <1>6

LEMMA NamesDiffer ==
  /\ LastNames \subseteq LogNames /\ OnceNames \subseteq LogNames
  /\ LastNames \cap OnceNames = {} /\ "value" \in LogNames \ (LastNames \cup OnceNames)
  /\ "UNSET_FMT" \in LastNames
BY DEF LastNames, LogNames, OnceNames, FormatCmds

LEMMA LastOfRange ==
  ASSUME NEW q, NEW S, q \in Seq(S), NEW names, NEW n
  PROVE  /\ CallsOf(q, names, n) \in SUBSET (1 .. Len(q))
         /\ LastOf(q, names, n) \in 0 .. Len(q)
         /\ LastOf(q, names, n) # 0 => LastOf(q, names, n) \in CallsOf(q, names, n)
         /\ \A j \in CallsOf(q, names, n) : j <= LastOf(q, names, n)
<1>1. DOMAIN q = 1 .. Len(q) /\ Len(q) \in Nat
  OBVIOUS
<1>2. CallsOf(q, names, n) \in SUBSET (1 .. Len(q))
  BY <1>1 DEF CallsOf
<1>3. LastOf(q, names, n) \in 0 .. Len(q) /\ (LastOf(q, names, n) = 0 <=> CallsOf(q, names, n) = {})
  BY <1>1, <1>2, LatestRange DEF LastOf
<1>4. CallsOf(q, names, n) # {} => /\ LastOf(q, names, n) \in CallsOf(q, names, n)
                                   /\ \A j \in CallsOf(q, names, n) : j <= LastOf(q, names, n)
  BY <1>1, <1>2, LatestOf DEF LastOf
<1> QED BY <1>2, <1>3, <1>4

(* One call more.                                                           *)
LEMMA LastOfSame ==
  ASSUME NEW q, NEW S, q \in Seq(S), NEW c, NEW names, NEW n \in 1 .. Len(q) + 1
  PROVE  LastOf(Append(q, c), names, n) = LastOf(q, names, n)
<1> DEFINE p == Append(q, c)
<1>1. /\ DOMAIN q = 1 .. Len(q) /\ Len(q) \in Nat /\ DOMAIN p = 1 .. Len(q) + 1
      /\ \A k \in 1 .. Len(q) : p[k] = q[k]
  OBVIOUS
<1> HIDE DEF p
<1>2. CallsOf(p, names, n) = CallsOf(q, names, n)
  BY <1>1 DEF CallsOf
<1> QED BY <1>2 DEF LastOf, p

LEMMA LastOfMore ==
  ASSUME NEW q, NEW S, q \in Seq(S), NEW c, NEW names
  PROVE  LastOf(Append(q, c), names, Len(q) + 2) =
           IF c.call \in names THEN Len(q) + 1 ELSE LastOf(q, names, Len(q) + 1)
<1> DEFINE p == Append(q, c)
           N == Len(q)
<1>1. /\ DOMAIN q = 1 .. N /\ N \in Nat /\ DOMAIN p = 1 .. N + 1 /\ p[N + 1] = c
      /\ \A k \in 1 .. N : p[k] = q[k]
  OBVIOUS
<1> HIDE DEF p, N
<1>3. CallsOf(p, names, N + 2) = CallsOf(q, names, N + 1) \cup
                                 (IF c.call \in names THEN {N + 1} ELSE {})
  <2>1. \A k \in 1 .. N + 1 : k \in 1 .. N \/ k = N + 1
    BY <1>1
  <2>2. \A k \in 1 .. N : k < N + 1 /\ k < N + 2 /\ k \in 1 .. N + 1
    BY <1>1
  <2>3. N + 1 \in 1 .. N + 1 /\ N + 1 < N + 2 /\ N + 1 \notin 1 .. N
    BY <1>1
  <2> QED BY <1>1, <2>1, <2>2, <2>3 DEF CallsOf
<1>4. CallsOf(q, names, N + 1) \in SUBSET (1 .. (N + 1) - 1) /\ N + 1 \in 1 .. N + 1
  BY <1>1 DEF CallsOf
<1>5. c.call \in names => LastOf(p, names, N + 2) = N + 1
  <2>1. N + 1 \in Nat /\ N + 1 \in 1 .. N + 1
    BY <1>1
  <2>2. Latest(CallsOf(q, names, N + 1) \cup {N + 1}) = N + 1
    BY <1>4, <2>1, LatestAdded, Zenon
  <2> QED BY <1>3, <2>2 DEF LastOf
<1>6. c.call \notin names => LastOf(p, names, N + 2) = LastOf(q, names, N + 1)
  BY <1>3 DEF LastOf
<1> QED BY <1>5, <1>6 DEF p, N

LEMMA ForceMore ==
  ASSUME NEW q, NEW S, q \in Seq(S), NEW c
  PROVE  /\ \A n \in 1 .. Len(q) + 1 : ForceIn(Append(q, c), n) <=> ForceIn(q, n)
         /\ \A n \in 0 .. Len(q) : OnceIn(Append(q, c), n) <=> OnceIn(q, n)
         /\ \A n \in 1 .. Len(q) : Append(q, c)[n] = q[n]
         /\ PlainFormats(Append(q, c)) => PlainFormats(q)
<1>0. \A n \in 1 .. Len(q) + 1 : LastOf(Append(q, c), LastNames, n) = LastOf(q, LastNames, n)
  BY LastOfSame
<1> DEFINE p == Append(q, c)
           N == Len(q)
<1>1. /\ DOMAIN q = 1 .. N /\ N \in Nat /\ DOMAIN p = 1 .. N + 1
      /\ \A k \in 1 .. N : p[k] = q[k]
  OBVIOUS
<1>2. \A n \in 1 .. N + 1 : LastOf(p, LastNames, n) = LastOf(q, LastNames, n)
  BY <1>0
<1>3. \A n : LastOf(q, LastNames, n) \in 0 .. N
  BY LastOfRange
<1> HIDE DEF p, N
<1>4. \A k \in 0 .. N : k # 0 => p[k] = q[k]
  BY <1>1
<1>5. \A n \in 1 .. N + 1 : ForceIn(p, n) <=> ForceIn(q, n)
  BY <1>2, <1>3, <1>4 DEF ForceIn
<1>6. \A n \in 0 .. N : OnceIn(p, n) <=> OnceIn(q, n)
  BY <1>1 DEF OnceIn
<1>7. PlainFormats(p) => PlainFormats(q)
  BY <1>1, <1>5, <1>6 DEF PlainFormats
<1> QED BY <1>1, <1>5, <1>6, <1>7 DEF p, N

(* Each kind of call: what the code sets is what the history says.           *)
LEMMA OtherCall ==
  ASSUME NEW q, NEW S, q \in Seq(S), NEW c, NEW once, NEW x, FormatState(q, once, x),
         c.call \notin LogNames
  PROVE  FormatState(Append(q, c), once, x)
<1> DEFINE p == Append(q, c)
           N == Len(q)
           k == LastOf(q, LogNames, N + 1)
           l == LastOf(q, LastNames, N + 1)
<1>1. Len(p) = N + 1 /\ N \in Nat /\ (N + 1) + 1 = N + 2
  OBVIOUS
<1>2. LastOf(p, LogNames, N + 2) = k /\ LastOf(p, LastNames, N + 2) = l
  BY LastOfMore, NamesDiffer
<1>3. k \in 0 .. N /\ l \in 0 .. N
  BY LastOfRange
<1>4. (OnceIn(p, k) <=> OnceIn(q, k)) /\ \A n \in 1 .. N : p[n] = q[n]
  BY <1>3, ForceMore
<1> HIDE DEF p, k, l, N
<1>5. (k # 0 => p[k] = q[k]) /\ (l # 0 => p[l] = q[l])
  BY <1>1, <1>3, <1>4
<1>6. ForceIn(p, N + 2) <=> ForceIn(q, N + 1)
  BY <1>2, <1>5 DEF ForceIn, l
<1>7. OnceIn(q, k) => k # 0
  <2>1. 0 \notin DOMAIN q
    OBVIOUS
  <2> QED BY <2>1 DEF OnceIn
<1>8. ForceIn(q, N + 1) => l # 0
  BY DEF ForceIn, l
<1>9. IF OnceIn(q, k) THEN once = 1 /\ x = q[k].fmt
      ELSE IF ForceIn(q, N + 1) THEN once = -1 /\ x = q[l].fmt ELSE once = 0
  BY DEF FormatState, k, l, N
<1>10. IF OnceIn(p, k) THEN once = 1 /\ x = p[k].fmt
       ELSE IF ForceIn(p, N + 2) THEN once = -1 /\ x = p[l].fmt ELSE once = 0
  BY <1>4, <1>5, <1>6, <1>7, <1>8, <1>9
<1> QED BY <1>1, <1>2, <1>10 DEF FormatState, p

LEMMA FormatCall ==
  ASSUME NEW q, NEW S, q \in Seq(S), NEW c, NEW once, NEW x,
         \/ c.call \in OnceNames /\ once = 1 /\ x = c.fmt
         \/ c.call \in LastNames \ {"UNSET_FMT"} /\ once = -1 /\ x = c.fmt
         \/ c.call = "UNSET_FMT" /\ once = 0
  PROVE  FormatState(Append(q, c), once, x)
<1> DEFINE p == Append(q, c)
           N == Len(q)
<1>1. Len(p) = N + 1 /\ N \in Nat /\ (N + 1) + 1 = N + 2 /\ p[N + 1] = c /\ N + 1 \in DOMAIN p
  OBVIOUS
<1>2. c.call \in LogNames
  BY NamesDiffer
<1>3. LastOf(p, LogNames, N + 2) = N + 1
  BY <1>2, LastOfMore
<1>4. c.call \in LastNames => LastOf(p, LastNames, N + 2) = N + 1
  BY LastOfMore
<1> HIDE DEF p, N
<1>5. OnceIn(p, N + 1) <=> c.call \in OnceNames
  BY <1>1 DEF OnceIn
<1>6. c.call \in LastNames => (ForceIn(p, N + 2) <=> c.call # "UNSET_FMT")
  BY <1>1, <1>4 DEF ForceIn
<1>7. CASE c.call \in OnceNames /\ once = 1 /\ x = c.fmt
  BY <1>1, <1>3, <1>5, <1>7 DEF FormatState, p
<1>8. CASE c.call \in LastNames \ {"UNSET_FMT"} /\ once = -1 /\ x = c.fmt
  BY <1>1, <1>3, <1>4, <1>5, <1>6, <1>8, NamesDiffer DEF FormatState, p
<1>9. CASE c.call = "UNSET_FMT" /\ once = 0
  BY <1>1, <1>3, <1>4, <1>5, <1>6, <1>9, NamesDiffer DEF FormatState, p
<1> QED BY <1>7, <1>8, <1>9

LEMMA ValueCall ==
  ASSUME NEW q, NEW S, q \in Seq(S), NEW c, NEW once, NEW x, FormatState(q, once, x),
         PlainFormats(q), c.call = "value"
  PROVE  FormatState(Append(q, c), IF once = 1 THEN 0 ELSE once, x)
<1> DEFINE p == Append(q, c)
           N == Len(q)
           k == LastOf(q, LogNames, N + 1)
           l == LastOf(q, LastNames, N + 1)
<1>1. Len(p) = N + 1 /\ N \in Nat /\ (N + 1) + 1 = N + 2 /\ p[N + 1] = c
  OBVIOUS
<1>2. LastOf(p, LogNames, N + 2) = N + 1 /\ LastOf(p, LastNames, N + 2) = l
  BY LastOfMore, NamesDiffer
<1>3. k \in 0 .. N /\ l \in 0 .. N
  BY LastOfRange
<1>4. \A n \in 1 .. N : p[n] = q[n]
  BY ForceMore
<1>5. /\ \A j \in CallsOf(q, LogNames, N + 1) : j <= k
      /\ k # 0 => k \in CallsOf(q, LogNames, N + 1)
      /\ l # 0 => l \in CallsOf(q, LastNames, N + 1)
  BY LastOfRange
<1>6. DOMAIN q = 1 .. N
  OBVIOUS
<1> HIDE DEF p, k, l, N
<1>7. ~OnceIn(p, N + 1)
  BY <1>1, NamesDiffer DEF OnceIn
<1>8. ForceIn(p, N + 2) <=> ForceIn(q, N + 1)
  BY <1>1, <1>2, <1>3, <1>4 DEF ForceIn, l
<1>9. ForceIn(q, N + 1) => l # 0
  BY DEF ForceIn, l
<1>10. IF OnceIn(q, k) THEN once = 1 /\ x = q[k].fmt
       ELSE IF ForceIn(q, N + 1) THEN once = -1 /\ x = q[l].fmt ELSE once = 0
  BY DEF FormatState, k, l, N
<1>11. OnceIn(q, k) => ~ForceIn(q, N + 1)
  <2> SUFFICES ASSUME OnceIn(q, k) PROVE ~ForceIn(q, N + 1)
    OBVIOUS
  <2>1. k \in 1 .. N /\ q[k].call \in OnceNames
    BY <1>6 DEF OnceIn
  <2>2. ~ForceIn(q, k)
    BY <1>6, <2>1 DEF PlainFormats
  <2>3. CallsOf(q, LastNames, N + 1) = CallsOf(q, LastNames, k)
    <3>1. ASSUME NEW j \in CallsOf(q, LastNames, N + 1) PROVE j \in CallsOf(q, LastNames, k)
      <4>1. j \in 1 .. N /\ q[j].call \in LastNames /\ j < N + 1
        BY <1>6 DEF CallsOf
      <4>2. j \in CallsOf(q, LogNames, N + 1)
        BY <1>6, <4>1, NamesDiffer DEF CallsOf
      <4>3. j <= k /\ j # k
        BY <1>5, <2>1, <4>1, <4>2, NamesDiffer
      <4>4. j < k
        BY <1>1, <2>1, <4>1, <4>3
      <4> QED BY <1>6, <4>1, <4>4 DEF CallsOf
    <3>2. ASSUME NEW j \in CallsOf(q, LastNames, k) PROVE j \in CallsOf(q, LastNames, N + 1)
      BY <1>1, <1>6, <2>1 DEF CallsOf
    <3> QED BY <3>1, <3>2
  <2>4. LastOf(q, LastNames, N + 1) = LastOf(q, LastNames, k)
    BY <2>3 DEF LastOf
  <2> QED BY <2>2, <2>4 DEF ForceIn
<1>12. l # 0 => p[l] = q[l]
  BY <1>1, <1>3, <1>4
<1> DEFINE o == IF once = 1 THEN 0 ELSE once
<1>13. IF ForceIn(p, N + 2) THEN o = -1 /\ x = p[l].fmt ELSE o = 0
  BY <1>8, <1>9, <1>10, <1>11, <1>12
<1> HIDE DEF o
<1>14. FormatState(p, o, x)
  BY <1>1, <1>2, <1>7, <1>13 DEF FormatState
<1> QED BY <1>14 DEF p, o

-----------------------------------------------------------------------------
(* The invariant: what the calls have left                                  *)

FormatShown(q, fmt) ==
  LET n == Len(q)  k == LastOf(q, LogNames, n) IN
  fmt = IF OnceIn(q, k) THEN q[k].fmt
        ELSE IF ForceIn(q, n) THEN q[LastOf(q, LastNames, n)].fmt ELSE q[n].cmd

LastIs(q, names) == Len(q) > 0 /\ q[Len(q)].call \in names

LogsFit(q, o) ==
  LastIs(q, {"value"}) => ValueFits(q[Len(q)].cmd, q[Len(q)].val, Last(o).val)
FormatsFit(q, o, once, x) ==
  PlainFormats(q) => /\ FormatState(q, once, x)
                     /\ LastIs(q, {"value"}) => FormatShown(q, Last(o).fmt)
ArithFit(q, r) ==
  LastIs(q, {"mul", "div", "mod"}) =>
    CallFits(q[Len(q)], Unsigned(r, FirstReg(q[Len(q)].size), q[Len(q)].size))

CallsFit(q, o, r, once, x) == LogsFit(q, o) /\ FormatsFit(q, o, once, x) /\ ArithFit(q, r)

CallsInv == CallsFit(calls, io, regs, fmt_once, xfmt)

LEMMA PropertiesAre ==
  /\ LogsFit(calls, io) => LoggedIsPassed
  /\ ArithFit(calls, regs) => QuotientAndRemainder
  /\ FormatsFit(calls, io, fmt_once, xfmt) => FormatAsSet
<1>1. LastCall = calls[Len(calls)]
  BY DEF LastCall, Last
<1>2. LogsFit(calls, io) => LoggedIsPassed
  <2>1. LoggedIsPassed <=> (Lately("value") => ValueFits(LastCall.cmd, LastCall.val, Last(io).val))
    BY Zenon DEF LoggedIsPassed, ValueFits
  <2>2. Lately("value") <=> LastIs(calls, {"value"})
    BY <1>1 DEF Lately, LastIs
  <2> QED BY <1>1, <2>1, <2>2, Zenon DEF LogsFit
<1>3. ArithFit(calls, regs) => QuotientAndRemainder
  <2>1. Arith <=> LastIs(calls, {"mul", "div", "mod"})
    BY <1>1 DEF Arith, LastIs
  <2> QED BY <1>1, <2>1, ArithIs, Zenon DEF ArithFit, Result
<1>4. FormatsFit(calls, io, fmt_once, xfmt) => FormatAsSet
  <2>1. PlainFormats(calls) <=> \A n \in DOMAIN calls : OnceAt(n) => ~InForce(n)
    BY HistoryIs DEF PlainFormats
  <2>2. Lately("value") <=> LastIs(calls, {"value"})
    BY <1>1 DEF Lately, LastIs
  <2>3. FormatShown(calls, Last(io).fmt) <=> FormatIsDocumented(Len(calls))
    BY HistoryIs DEF FormatShown, FormatIsDocumented
  <2> QED BY <2>1, <2>2, <2>3 DEF FormatsFit, FormatAsSet, FormatAsDocumented
<1> QED BY <1>2, <1>3, <1>4

LEMMA AppendIs ==
  ASSUME NEW q, Sequence(q), NEW c
  PROVE  /\ Len(Append(q, c)) = Len(q) + 1 /\ Len(q) \in Nat /\ Append(q, c)[Len(q) + 1] = c
         /\ \A names : LastIs(Append(q, c), names) <=> c.call \in names
         /\ \E S : q \in Seq(S)
<1>1. PICK S : q \in Seq(S)
  BY DEF Sequence
<1>2. Len(Append(q, c)) = Len(q) + 1 /\ Len(q) \in Nat /\ Append(q, c)[Len(q) + 1] = c
  BY <1>1
<1>3. \A names : LastIs(Append(q, c), names) <=> c.call \in names
  BY <1>2 DEF LastIs
<1> QED BY <1>1, <1>2, <1>3

(* What is shown is what the state says before the call.                     *)
LEMMA ShownIs ==
  ASSUME NEW q, NEW S, q \in Seq(S), NEW c, NEW once, NEW x, FormatState(q, once, x),
         NEW fmt, fmt = IF once # 0 THEN x ELSE c.cmd
  PROVE  FormatShown(Append(q, c), fmt)
<1> DEFINE p == Append(q, c)
           N == Len(q)
           k == LastOf(q, LogNames, N + 1)
           l == LastOf(q, LastNames, N + 1)
<1>1. /\ Len(p) = N + 1 /\ N \in Nat /\ p[N + 1] = c /\ N + 1 \in 1 .. N + 1
      /\ 0 \notin DOMAIN q
  OBVIOUS
<1>2. LastOf(p, LogNames, N + 1) = k /\ LastOf(p, LastNames, N + 1) = l
  BY <1>1, LastOfSame
<1>3. k \in 0 .. N /\ l \in 0 .. N
  BY LastOfRange
<1>4. /\ OnceIn(p, k) <=> OnceIn(q, k)
      /\ ForceIn(p, N + 1) <=> ForceIn(q, N + 1)
      /\ \A n \in 1 .. N : p[n] = q[n]
  BY <1>1, <1>3, ForceMore
<1>5. IF OnceIn(q, k) THEN once = 1 /\ x = q[k].fmt
      ELSE IF ForceIn(q, N + 1) THEN once = -1 /\ x = q[l].fmt ELSE once = 0
  BY DEF FormatState
<1>6. ForceIn(q, N + 1) => l # 0
  BY DEF ForceIn
<1> HIDE DEF p, k, l, N
<1>7. OnceIn(q, k) => k # 0
  BY <1>1 DEF OnceIn
<1>8. (k # 0 => p[k] = q[k]) /\ (l # 0 => p[l] = q[l])
  BY <1>1, <1>3, <1>4
<1>9. fmt = IF OnceIn(p, k) THEN p[k].fmt
            ELSE IF ForceIn(p, N + 1) THEN p[l].fmt ELSE p[N + 1].cmd
  BY <1>1, <1>4, <1>5, <1>6, <1>7, <1>8
<1> QED BY <1>1, <1>2, <1>9 DEF FormatShown, p

(* A call that is not a log of a value and no arithmetic.                    *)
LEMMA PlainCallFits ==
  ASSUME NEW q, Sequence(q), NEW c, NEW o, NEW r, NEW once, NEW x,
         c.call \notin {"value", "mul", "div", "mod"},
         PlainFormats(q) => FormatState(Append(q, c), once, x)
  PROVE  CallsFit(Append(q, c), o, r, once, x)
<1>1. ~LastIs(Append(q, c), {"value"}) /\ ~LastIs(Append(q, c), {"mul", "div", "mod"})
  BY AppendIs
<1>2. PlainFormats(Append(q, c)) => PlainFormats(q)
  BY AppendIs, ForceMore
<1> QED BY <1>1, <1>2 DEF CallsFit, LogsFit, FormatsFit, ArithFit

LEMMA OtherCallFits ==
  ASSUME NEW q, Sequence(q), NEW c, NEW o, NEW r, NEW p, NEW t, NEW once, NEW x,
         CallsFit(q, p, t, once, x), c.call \in {"stream", "fxtof", "ftofx", "exit"}
  PROVE  CallsFit(Append(q, c), o, r, once, x)
<1>1. c.call \notin {"value", "mul", "div", "mod"} /\ c.call \notin LogNames
  BY DEF LogNames, FormatCmds
<1>2. PlainFormats(q) => FormatState(q, once, x)
  BY DEF CallsFit, FormatsFit
<1>3. PlainFormats(q) => FormatState(Append(q, c), once, x)
  BY <1>1, <1>2, AppendIs, OtherCall
<1> QED BY <1>1, <1>3, PlainCallFits

LEMMA SameCalls ==
  ASSUME CallsInv, UNCHANGED << calls, io, regs, fmt_once, xfmt >>
  PROVE  CallsInv'
<1>1. CallsFit(calls', io', regs', fmt_once', xfmt')
  BY DEF CallsInv
<1> QED BY <1>1 DEF CallsInv

LEMMA CallMade ==
  ASSUME NEW c, Made(c), CallsFit(Append(calls, c), io', regs', fmt_once', xfmt')
  PROVE  CallsInv'
BY DEF Made, CallsInv

LEMMA OtherCallMade ==
  ASSUME CallsInv, Sequence(calls), NEW c, Made(c), UNCHANGED << fmt_once, xfmt >>,
         c.call \in {"stream", "fxtof", "ftofx", "exit"}
  PROVE  CallsInv'
<1>1. CallsFit(Append(calls, c), io', regs', fmt_once, xfmt)
  BY OtherCallFits DEF CallsInv
<1> QED BY <1>1, CallMade

LEMMA FormatMade ==
  ASSUME CallsInv, Sequence(calls), SetsFormat
  PROVE  CallsInv'
<1>1. ASSUME NEW cmd, NEW fmt, log_set_format(cmd, fmt), Made([call |-> cmd, fmt |-> fmt])
      PROVE  CallsInv'
  <2> DEFINE c == [call |-> cmd, fmt |-> fmt]
  <2>1. c.call = cmd /\ c.fmt = fmt
    OBVIOUS
  <2> HIDE DEF c
  <2>2. cmd \in FormatCmds /\ xfmt' = fmt /\ fmt_once' = fmt_once_after(cmd)
    BY <1>1 DEF log_set_format
  <2>3. \/ cmd \in OnceNames /\ fmt_once' = 1
        \/ cmd \in LastNames \ {"UNSET_FMT"} /\ fmt_once' = -1
    BY <2>2 DEF fmt_once_after, FormatCmds, OnceNames, LastNames
  <2>4. FormatState(Append(calls, c), fmt_once', xfmt')
    BY <2>1, <2>2, <2>3, AppendIs, FormatCall
  <2>5. c.call \notin {"value", "mul", "div", "mod"}
    BY <2>1, <2>2 DEF FormatCmds
  <2>6. CallsFit(Append(calls, c), io', regs', fmt_once', xfmt')
    BY <2>4, <2>5, PlainCallFits
  <2> QED BY <1>1, <2>6, CallMade DEF c
<1>2. ASSUME log_unset_format, Made([call |-> "UNSET_FMT", fmt |-> None])
      PROVE  CallsInv'
  <2> DEFINE c == [call |-> "UNSET_FMT", fmt |-> None]
  <2>1. c.call = "UNSET_FMT"
    OBVIOUS
  <2> HIDE DEF c
  <2>2. fmt_once' = 0
    BY <1>2 DEF log_unset_format, fmt_once_after
  <2>4. FormatState(Append(calls, c), fmt_once', xfmt')
    BY <2>1, <2>2, AppendIs, FormatCall
  <2>5. c.call \notin {"value", "mul", "div", "mod"}
    BY <2>1
  <2>6. CallsFit(Append(calls, c), io', regs', fmt_once', xfmt')
    BY <2>4, <2>5, PlainCallFits
  <2> QED BY <1>2, <2>6, CallMade DEF c
<1> QED BY <1>1, <1>2 DEF SetsFormat

LEMMA ValueMade ==
  ASSUME CallsInv, Sequence(calls), Sequence(io), LogsValue
  PROVE  CallsInv'
<1>1. PICK cmd \in DOMAIN layout : \E val \in 0 .. Wide(layout[cmd][1]) - 1 :
        log_value(cmd, val) /\ Made([call |-> "value", cmd |-> cmd, val |-> val])
  <2>1. "U8" \in DOMAIN layout /\ layout["U8"][1] = 1
    BY DEF layout
  <2>2. \A cmd \in DOMAIN layout : Values[layout[cmd][1]] \subseteq 0 .. Wide(layout[cmd][1]) - 1
    BY Fitting, ValuesAssumption
  <2>3. 0 \in 0 .. Wide(1) - 1
    BY WideIs
  <2>4. ASSUME NEW cmd \in DOMAIN layout, NEW val \in Values[layout[cmd][1]]
        PROVE  val \in 0 .. Wide(layout[cmd][1]) - 1
    BY <2>2
  <2>5. CASE "values" \in plan.does
    BY <2>4, <2>5 DEF LogsValue
  <2>6. CASE "values" \notin plan.does
    BY <2>1, <2>3, <2>6 DEF LogsValue
  <2> QED BY <2>5, <2>6
<1>2. PICK val \in 0 .. Wide(layout[cmd][1]) - 1 :
         log_value(cmd, val) /\ Made([call |-> "value", cmd |-> cmd, val |-> val])
  BY <1>1
<1> DEFINE c == [call |-> "value", cmd |-> cmd, val |-> val]
           fmt == IF fmt_once # 0 THEN xfmt ELSE cmd
           v == LoggedValue(set_reg_value(regs, LogRegno(cmd), layout[cmd][1], val), cmd)
           o == io \o LOGPRINT(fmt, v)
<1>3. c.call = "value" /\ c.cmd = cmd /\ c.val = val
  OBVIOUS
<1>4. io' = o /\ xfmt' = xfmt /\ fmt_once' = fmt_once_after(cmd)
  BY <1>2 DEF log_value
<1>5. ValueFits(cmd, val, v)
  BY LoggedFits
<1>6. Last(o).val = v /\ Last(o).fmt = fmt
  BY LastLogged
<1>7. fmt_once' = IF fmt_once = 1 THEN 0 ELSE fmt_once
  <2>1. cmd \notin FormatCmds /\ cmd # "UNSET_FMT"
    BY DEF layout, FormatCmds
  <2> QED BY <1>4, <2>1 DEF fmt_once_after, FormatCmds
<1>8. fmt = IF fmt_once # 0 THEN xfmt ELSE c.cmd
  BY <1>3
<1> HIDE DEF c, fmt, v, o
<1>9. /\ Append(calls, c)[Len(Append(calls, c))] = c
      /\ \A names : LastIs(Append(calls, c), names) <=> c.call \in names
  BY AppendIs
<1>10. LogsFit(Append(calls, c), o)
  BY <1>3, <1>5, <1>6, <1>9 DEF LogsFit
<1>11. FormatsFit(Append(calls, c), o, fmt_once', xfmt)
  <2>1. PlainFormats(Append(calls, c)) => PlainFormats(calls) /\ FormatState(calls, fmt_once, xfmt)
    BY AppendIs, ForceMore DEF CallsInv, CallsFit, FormatsFit
  <2>2. ASSUME PlainFormats(calls), FormatState(calls, fmt_once, xfmt)
        PROVE  FormatState(Append(calls, c), fmt_once', xfmt)
    BY <1>3, <1>7, <2>2, AppendIs, ValueCall
  <2>3. ASSUME FormatState(calls, fmt_once, xfmt)
        PROVE  FormatShown(Append(calls, c), fmt)
    BY <1>8, <2>3, AppendIs, ShownIs
  <2> QED BY <1>6, <2>1, <2>2, <2>3 DEF FormatsFit
<1>12. ArithFit(Append(calls, c), regs')
  BY <1>3, <1>9 DEF ArithFit
<1> QED BY <1>2, <1>4, <1>10, <1>11, <1>12, CallMade DEF CallsFit, c

LEMMA ArithMade ==
  ASSUME CallsInv, Sequence(calls), Computes
  PROVE  CallsInv'
<1>1. PICK op \in {"mul", "div", "mod"}, signed_p \in BOOLEAN, size \in {4, 8} :
        \E a \in Values[size], b \in Values[size] :
           /\ sys_misc_arith(op, signed_p, size, a, b)
           /\ Made([call |-> op, signed |-> signed_p, size |-> size, a |-> a, b |-> b])
  BY DEF Computes
<1>2. PICK a \in 0 .. Wide(size) - 1, b \in 0 .. Wide(size) - 1 :
        /\ sys_misc_arith(op, signed_p, size, a, b)
        /\ Made([call |-> op, signed |-> signed_p, size |-> size, a |-> a, b |-> b])
  <2>1. Values[size] \subseteq 0 .. Wide(size) - 1
    BY ValuesAssumption
  <2> QED BY <1>1, <2>1
<1> DEFINE call == [call |-> op, signed |-> signed_p, size |-> size, a |-> a, b |-> b]
           r == set_reg_value(set_reg_value(regs, SecondReg(size), size, b), FirstReg(size), size, a)
           c == IF signed_p THEN misc_s(op, Signed(a, size), Signed(b, size), size)
                            ELSE misc_u(op, a, b, size)
           t == set_reg_value(r, FirstReg(size), size, c)
<1>3. call.call = op /\ call.size = size
  OBVIOUS
<1>4. Operands(r, size) = << a, b >>
  BY OperandsAre
<1>5. << a, b >>[1] = a /\ << a, b >>[2] = b
  OBVIOUS
<1>6. regs' = t /\ fmt_once' = fmt_once /\ xfmt' = xfmt
  <2> HIDE DEF r
  <2> QED BY <1>2, <1>4, <1>5, Zenon DEF sys_misc_arith, r
<1>7. CallFits(call, Unsigned(t, FirstReg(size), size))
  <2> HIDE DEF r
  <2> QED BY Computed
<1> HIDE DEF call, t
<1>8. /\ Append(calls, call)[Len(Append(calls, call))] = call
      /\ \A names : LastIs(Append(calls, call), names) <=> call.call \in names
  BY AppendIs
<1>9. call.call # "value" /\ call.call \notin LogNames
  BY <1>3 DEF LogNames, FormatCmds
<1>10. LogsFit(Append(calls, call), io')
  BY <1>8, <1>9 DEF LogsFit
<1>11. FormatsFit(Append(calls, call), io', fmt_once, xfmt)
  <2>1. PlainFormats(Append(calls, call)) => FormatState(calls, fmt_once, xfmt)
    BY AppendIs, ForceMore DEF CallsInv, CallsFit, FormatsFit
  <2>2. FormatState(calls, fmt_once, xfmt) => FormatState(Append(calls, call), fmt_once, xfmt)
    BY <1>9, AppendIs, OtherCall
  <2> QED BY <1>8, <1>9, <2>1, <2>2 DEF FormatsFit
<1>12. ArithFit(Append(calls, call), t)
  BY <1>3, <1>7, <1>8 DEF ArithFit
<1> QED BY <1>2, <1>6, <1>10, <1>11, <1>12, CallMade DEF CallsFit, call

LEMMA CallsInit == Init => CallsInv
<1> SUFFICES ASSUME Init PROVE CallsInv
  OBVIOUS
<1>1. calls = << >> /\ fmt_once = 0
  BY DEF Init, InitHostCalls
<1>2. Len(calls) = 0 /\ DOMAIN calls = {}
  BY <1>1
<1>3. \A names : ~LastIs(calls, names)
  BY <1>2 DEF LastIs
<1>4. \A names : LastOf(calls, names, 1) = 0
  BY <1>2 DEF LastOf, CallsOf, Latest
<1>5. FormatState(calls, fmt_once, xfmt)
  BY <1>1, <1>2, <1>4 DEF FormatState, OnceIn, ForceIn
<1> QED BY <1>3, <1>5 DEF CallsInv, CallsFit, LogsFit, FormatsFit, ArithFit

LEMMA CallsNext == Inv /\ CallsInv /\ [Next]_vars => CallsInv'
<1> SUFFICES ASSUME Sequence(io), Sequence(calls), CallsInv, [Next]_vars PROVE CallsInv'
  BY DEF Inv
<1>1. CASE UNCHANGED << hostVars, calls >>
  BY <1>1, SameCalls DEF hostVars
<1>2. CASE Start
  <2>1. UNCHANGED << calls, io, regs, fmt_once, xfmt >>
    BY <1>2 DEF Start, Reset, avrtest_init_rodata, sys_misc_flmap, avrtest_init_argc_argv,
                sys_argc_argv, sys_abort_2nd_hit, hostVars
  <2> QED BY <2>1, SameCalls
<1>3. CASE UsesStream
  <2>1. PICK f \in Streams : UseStream(f) /\ Made([call |-> "stream", of |-> f])
    BY <1>3 DEF UsesStream
  <2> DEFINE c == [call |-> "stream", of |-> f]
  <2>2. c.call = "stream"
    OBVIOUS
  <2> HIDE DEF c
  <2>3. UNCHANGED << fmt_once, xfmt >>
    BY <2>1 DEF UseStream
  <2> QED BY <2>1, <2>2, <2>3, OtherCallMade DEF c
<1>4. CASE ToFloat
  <2>1. PICK t, val : sys_misc_fxtof(t, val) /\ Made([call |-> "fxtof", t |-> t, val |-> val])
    BY <1>4 DEF ToFloat
  <2> DEFINE c == [call |-> "fxtof", t |-> t, val |-> val]
  <2>2. c.call = "fxtof"
    OBVIOUS
  <2> HIDE DEF c
  <2>3. UNCHANGED << fmt_once, xfmt >>
    BY <2>1 DEF sys_misc_fxtof
  <2> QED BY <2>1, <2>2, <2>3, OtherCallMade DEF c
<1>5. CASE FromFloat
  <2>1. PICK t : sys_misc_ftofx(t) /\ Made([call |-> "ftofx", t |-> t, val |-> 0])
    BY <1>5 DEF FromFloat
  <2> DEFINE c == [call |-> "ftofx", t |-> t, val |-> 0]
  <2>2. c.call = "ftofx"
    OBVIOUS
  <2> HIDE DEF c
  <2>3. UNCHANGED << fmt_once, xfmt >>
    BY <2>1 DEF sys_misc_ftofx
  <2> QED BY <2>1, <2>2, <2>3, OtherCallMade DEF c
<1>6. CASE End
  <2>1. ASSUME NEW v, Made([call |-> "exit", val |-> v]), UNCHANGED hostVars PROVE CallsInv'
    <3> DEFINE c == [call |-> "exit", val |-> v]
    <3>2. c.call = "exit"
      OBVIOUS
    <3> HIDE DEF c
    <3>3. UNCHANGED << fmt_once, xfmt >>
      BY <2>1 DEF hostVars
    <3> QED BY <2>1, <3>2, <3>3, OtherCallMade DEF c
  <2>2. CASE UNCHANGED targetVars
    BY <1>1, <1>6, <2>2 DEF End, targetVars
  <2> QED BY <1>6, <2>1, <2>2 DEF End, sys_exit, sys_abort, Timeout, Haywire
<1>7. CASE JumpsToZero
  BY <1>1, <1>7 DEF JumpsToZero
<1>8. CASE SetsFormat \/ LogsValue \/ Computes
  BY <1>8, FormatMade, ValueMade, ArithMade
<1> QED BY <1>1, <1>2, <1>3, <1>4, <1>5, <1>6, <1>7, <1>8 DEF Next, Left, Start, main, vars, targetVars

LEMMA CallsAlways == Spec => []CallsInv
BY InvInit, InvNext, CallsInit, CallsNext, PTL DEF Spec

-----------------------------------------------------------------------------
(* What the calls leave is what was asked for                               *)

(* A log shows the value that the target passed, all of its bytes and the     *)
(* sign of a signed one, in the format that the calls before have asked for, *)
(* whatever values, formats and sequences of calls there are (sys_log_dump,   *)
(* syscalls 7 and 8).                                                       *)
THEOREM LogsShowWhatIsPassed == Spec => []LoggedAsPassed
<1>1. CallsInv => LoggedAsPassed
  BY PropertiesAre DEF CallsInv, CallsFit, LoggedAsPassed
<1> QED BY <1>1, CallsAlways, PTL

(* The arithmetic of syscall 21 fits together for numbers of any width: the   *)
(* product modulo the size, quotient and remainder of signed and unsigned     *)
(* numbers, by zero and of the most negative number by -1.                   *)
THEOREM DivisionFitsTogether == Spec => []QuotientAndRemainder
<1>1. CallsInv => QuotientAndRemainder
  BY PropertiesAre DEF CallsInv, CallsFit
<1> QED BY <1>1, CallsAlways, PTL

-----------------------------------------------------------------------------
(* What a linker and a fitting command line guarantee                       *)

SegmentAt(k) == file.phdrs[k]
LoadedAt == {k \in 1 .. Len(file.phdrs) : IsLoaded(SegmentAt(k))}

InitializesData(p) == do.d = 1 /\ is_data_for_sram_init(p)
ShownInRam(p) == InFlash(p) /\ pm # 0 /\ SeenInRam(p)
IsRodata(p) == p.vaddr # p.paddr /\ p.vaddr < 65536
WithFlmap == file.device.name \in HasFlmap

(* The bytes of a segment where it is stored and where it is used.           *)
InFlashAt(p)  == p.paddr .. p.paddr + filesz(p) - 1
InEepromAt(p) == p.vaddr - EEPROM_VADDR .. p.vaddr - EEPROM_VADDR + filesz(p) - 1
InDataAt(p)   == p.vaddr - DATA_VADDR .. p.vaddr - DATA_VADDR + filesz(p) - 1
ShownAt(p)    == p.paddr + pm .. p.paddr + pm + p.memsz - 1
InRodataAt(p) == p.vaddr .. p.vaddr + filesz(p) - 1
ArgsAt        == pargs .. pargs + Len(FlattenSeq(ArgStrings)) + 2 * Len(ArgStrings) + 1

Disjoint(A, B) == \A a \in A : a \notin B

(* Two segments do not share memory.                                        *)
SegmentsApart(p, q) ==
  /\ p.paddr < DATA_VADDR /\ q.paddr < DATA_VADDR => Disjoint(InFlashAt(p), InFlashAt(q))
  /\ InEeprom(p) /\ InEeprom(q) => Disjoint(InEepromAt(p), InEepromAt(q))
  /\ InitializesData(p) /\ InitializesData(q) => Disjoint(InDataAt(p), InDataAt(q))

(* The linker knows where RAM shows the flash: at an offset that depends on   *)
(* the device, or the last 32 KiB at RodataVma.                             *)
LinkedOffset ==
  IF file.arch = 103 /\ file.device.name \notin At0x4000 THEN \h8000 ELSE \h4000
LinkedWindow == IF file.arch = 104 THEN \h18000 ELSE \h8000

RodataLinked(p) ==
  /\ p.paddr < DATA_VADDR
  /\ \/ file.arch \in {100, 103} /\ p.vaddr = p.paddr + LinkedOffset
     \/ /\ file.arch \in {102, 104} /\ WithFlmap
        /\ p.vaddr - RodataVma = p.paddr - LinkedWindow
        /\ p.vaddr >= RodataVma /\ p.vaddr + filesz(p) <= RodataVma + RodataLen

SegmentLinked(p) ==
  /\ InEeprom(p) => p.vaddr = p.paddr
  /\ is_data_for_sram_init(p) => p.paddr < DATA_VADDR
  /\ IsRodata(p) => RodataLinked(p)
  /\ WithFlmap /\ InitializesData(p) => \A a \in InDataAt(p) : a < RodataVma

ArgsApart(p) ==
  /\ InitializesData(p) => Disjoint(ArgsAt, InDataAt(p))
  /\ IsRodata(p) => Disjoint(ArgsAt, InRodataAt(p))

LaidOut ==
  /\ file.elf =>
       /\ WithFlmap => file.arch \notin {100, 103}
       /\ \A j \in LoadedAt : SegmentLinked(SegmentAt(j))
       /\ \A j \in LoadedAt, k \in LoadedAt :
            /\ j # k => SegmentsApart(SegmentAt(j), SegmentAt(k))
            /\ InitializesData(SegmentAt(j)) /\ ShownInRam(SegmentAt(k))
                 => Disjoint(InDataAt(SegmentAt(j)), ShownAt(SegmentAt(k)))
       /\ do.args = 1 => \A j \in LoadedAt : ArgsApart(SegmentAt(j))
  /\ do.args = 1 => \A a \in ArgsAt : a < 65536

-----------------------------------------------------------------------------
(* The invariant: what is in the memories                                   *)

HeldAt(mem, at, bytes) == \A k \in 0 .. Len(bytes) - 1 : Read(mem, at + k) = bytes[k + 1]

Held(p) ==
  /\ p.paddr < DATA_VADDR => HeldAt(flash, p.paddr, p.bytes)
  /\ InEeprom(p) => HeldAt(eeprom, p.vaddr - EEPROM_VADDR, p.bytes)
  /\ InitializesData(p) => HeldAt(ram, p.vaddr - DATA_VADDR, p.bytes)

RodataHeld(p) == IsRodata(p) /\ do.pm = 0 /\ RightArch => HeldAt(ram, p.vaddr, p.bytes)

WordAt(mem, a) == Read(mem, a) + 256 * Read(mem, a + 1)

ArgsHeld(mem, pass, strs) ==
  /\ pass.argc = Len(strs)
  /\ \A n \in 1 .. Len(strs) :
       LET a == WordAt(mem, pass.argv + 2 * (n - 1)) IN a \in Nat /\ HeldAt(mem, a, strs[n])
  /\ WordAt(mem, pass.argv + 2 * pass.argc) = 0

ArgsPassed == IF do.args = 0 THEN argc_argv = [argc |-> 0, argv |-> 0]
                             ELSE ArgsHeld(ram, argc_argv, ArgStrings)

(* Segment by segment; what FLMAP shows from "init8" on; the arguments from    *)
(* "abort_2nd_hit" on.                                                      *)
SegmentsHeld ==
  phase = "segments" \/ (Afterwards /\ file.elf) =>
    \A j \in LoadedAt : j < seg =>
      /\ ~TooBig(SegmentAt(j)) /\ Held(SegmentAt(j))
      /\ file.arch \in {100, 103} => RodataHeld(SegmentAt(j))

FlmapHeld ==
  Running_ /\ file.elf /\ WithFlmap /\ stage \in {"init8", "abort_2nd_hit", "main"} =>
    \A j \in LoadedAt : RodataHeld(SegmentAt(j))

Filled == /\ SegmentsHeld /\ FlmapHeld
          /\ Running_ /\ stage \in {"abort_2nd_hit", "main"} => ArgsPassed

(* Words and numbers that the memories depend on.                            *)
ArgsRead == /\ do.args = OnOff("args")
            /\ IsOn("args") => args = SubSeq(argv, At("args") + 1, Len(argv))

NameGiven == /\ At(None) \in 1 .. Len(argv)
             /\ program.short_name = ShortName(argv[At(None)])
NameRead == /\ program.name = None \/ NameGiven
            /\ ~Reading /\ phase # "left" => program.name # None

DescOf == arch_desc[arch.name]
OffsetRead ==
  /\ do.pm = 0 => flash_pm_offset = 0
  /\ arch.desc.flash_addr_mask = DescOf.flash_addr_mask
  /\ Reading \/ (phase \in {"open", "header", "sections"} /\ do.pm = 0) =>
       pm = DescOf.flash_pm_offset
  /\ (phase = "segments" \/ (Afterwards /\ file.elf)) /\ do.pm = 0 =>
       pm = IF file.arch = 103 /\ file.device # NoDevice /\ file.device.name \in At0x4000
            THEN \h4000 ELSE DescOf.flash_pm_offset

Addressed(mem) == DOMAIN mem \subseteq Int

StageInv == /\ phase \notin {"run", "left"} => stage = "reset"
            /\ Afterwards /\ file.elf => seg > Len(file.phdrs)
            /\ Running_ /\ stage = "init4" => WithFlmap
            /\ Addressed(flash) /\ Addressed(ram) /\ Addressed(eeprom)

MemoryInv == ArgsRead /\ NameRead /\ OffsetRead /\ StageInv /\ (LaidOut => Filled)

-----------------------------------------------------------------------------
(* Memories                                                                 *)

LEMMA ReadWritten ==
  ASSUME NEW mem, Addressed(mem), NEW at \in Int, NEW b, Len(b) \in Nat
  PROVE  /\ Addressed(Write(mem, at, b))
         /\ \A a \in Int : Read(Write(mem, at, b), a) =
              IF a \in at .. at + Len(b) - 1 THEN b[a - at + 1] ELSE Read(mem, a)
BY DEF Write, Read, Addressed

LEMMA HeldWritten ==
  ASSUME NEW mem, Addressed(mem), NEW at \in Int, NEW b, Len(b) \in Nat
  PROVE  HeldAt(Write(mem, at, b), at, b)
<1> SUFFICES ASSUME NEW k \in 0 .. Len(b) - 1
             PROVE  Read(Write(mem, at, b), at + k) = b[k + 1]
  BY DEF HeldAt
<1>1. at + k \in at .. at + Len(b) - 1 /\ at + k \in Int /\ (at + k) - at + 1 = k + 1
  OBVIOUS
<1> QED BY <1>1, ReadWritten

(* What is written elsewhere does not matter.                               *)
LEMMA HeldKept ==
  ASSUME NEW mem, Addressed(mem), NEW at \in Int, NEW b, Len(b) \in Nat, HeldAt(mem, at, b),
         NEW to \in Int, NEW c, Len(c) \in Nat,
         \A k \in 0 .. Len(b) - 1 : at + k \notin to .. to + Len(c) - 1
  PROVE  HeldAt(Write(mem, to, c), at, b)
<1> SUFFICES ASSUME NEW k \in 0 .. Len(b) - 1
             PROVE  Read(Write(mem, to, c), at + k) = b[k + 1]
  BY DEF HeldAt
<1>1. at + k \in Int /\ at + k \notin to .. to + Len(c) - 1
  OBVIOUS
<1>2. Read(Write(mem, to, c), at + k) = Read(mem, at + k)
  BY <1>1, ReadWritten
<1> QED BY <1>2 DEF HeldAt

LEMMA BytesAre ==
  ASSUME NEW mem, NEW from \in Int, NEW n \in Nat
  PROVE  /\ Len(Bytes(mem, from, n)) = n
         /\ \A k \in 1 .. n : Bytes(mem, from, n)[k] = Read(mem, from + k - 1)
BY DEF Bytes

(* A part of flash that is shown in RAM is there, whether this write shows it *)
(* or an earlier one did.                                                   *)
LEMMA HeldShown ==
  ASSUME NEW fl, NEW ra, Addressed(ra), NEW at \in Int, NEW b, Len(b) \in Nat,
         NEW from \in Int, NEW n \in Nat, NEW offset \in Int, HeldAt(fl, at, b),
         \/ HeldAt(ra, at + offset, b)
         \/ \A k \in 0 .. Len(b) - 1 : at + k \in from .. from + n - 1
  PROVE  HeldAt(Write(ra, from + offset, Bytes(fl, from, n)), at + offset, b)
<1> DEFINE c == Bytes(fl, from, n)
<1> SUFFICES ASSUME NEW k \in 0 .. Len(b) - 1
             PROVE  Read(Write(ra, from + offset, c), at + offset + k) = b[k + 1]
  BY DEF HeldAt
<1> DEFINE a == at + offset + k
<1>1. Len(c) = n /\ \A m \in 1 .. n : c[m] = Read(fl, from + m - 1)
  BY BytesAre
<1> HIDE DEF c
<1>5. from + offset \in Int /\ a \in Int /\ Len(c) \in Nat
  BY <1>1
<1>6. Read(Write(ra, from + offset, c), a) =
        IF a \in from + offset .. from + offset + Len(c) - 1
        THEN c[a - (from + offset) + 1] ELSE Read(ra, a)
  <2> DEFINE to == from + offset
  <2>1. to \in Int
    BY <1>5
  <2> HIDE DEF to
  <2>2. \A x \in Int : Read(Write(ra, to, c), x) =
          IF x \in to .. to + Len(c) - 1 THEN c[x - to + 1] ELSE Read(ra, x)
    BY <1>5, <2>1, ReadWritten
  <2> QED BY <1>5, <2>2 DEF to
<1>2. /\ from + offset \in Int /\ a \in Int
      /\ Read(Write(ra, from + offset, c), a) =
           IF a \in from + offset .. from + offset + n - 1 THEN c[a - (from + offset) + 1] ELSE Read(ra, a)
  BY <1>1, <1>5, <1>6
<1>3. CASE a \in from + offset .. from + offset + n - 1
  <2> DEFINE m == a - (from + offset) + 1
  <2>1. m \in 1 .. n /\ from + m - 1 = at + k
    BY <1>3
  <2>2. c[m] = Read(fl, at + k)
    BY <1>1, <2>1
  <2> QED BY <1>2, <1>3, <2>2 DEF HeldAt
<1>4. CASE a \notin from + offset .. from + offset + n - 1
  <2>1. at + k \notin from .. from + n - 1
    BY <1>4
  <2>2. Read(ra, a) = b[k + 1]
    BY <2>1 DEF HeldAt
  <2> QED BY <1>2, <1>4, <2>2
<1> QED BY <1>3, <1>4

-----------------------------------------------------------------------------
(* Words that the memories depend on                                        *)

IsNamed(d) == \E a \in DOMAIN arch_desc : d = Named(a)

(* What a word does to them.                                                *)
MemoryWord ==
  /\ do'["args"] = IF Word.opt = "args" THEN Bit(Word.on) ELSE do["args"]
  /\ Word.opt = "args" /\ Word.on => args' = SubSeq(argv, i + 1, Len(argv))
  /\ Word.opt # "args" => args' = args
  /\ (do["pm"] = 0 => flash_pm_offset = 0) => (do'["pm"] = 0 => flash_pm_offset' = 0)
  /\ arch' = arch \/ IsNamed(arch')
  /\ IF Word.opt = None THEN program'.short_name = ShortName(argv[i])
     ELSE UNCHANGED << program.name, program.short_name >>

LEMMA OtherNames ==
  /\ {"args", "pm"} \cap {"stdout", "stderr", "stdin", "stdout=", "stderr=", "stdin=", "mmcu=",
                          "graph", "graph=", "e", "m", "s", "sbox"} = {}
  /\ "args" # "pm" /\ None \notin {"args", "pm"}
BY Zenon DEF None

LEMMA ShortIsWord ==
  ASSUME OptionType, NameGiven
  PROVE  program.short_name \in DOMAIN Words
BY SlashAssumption DEF NameGiven, ShortName, OptionType

LEMMA NameSame ==
  ASSUME NameGiven, UNCHANGED << argv, i, program.short_name >>
  PROVE  NameGiven'
BY SameLine DEF NameGiven, ShortName

LEMMA NamedArchs ==
  /\ \A v \in {"classic", "xmega", "tiny"} : IsNamed(DefaultArch(v)) /\ \A a \in Archs(v) : IsNamed(Named(a))
<1>1. {"avr51", "avrxmega6", "avrtiny"} \subseteq DOMAIN arch_desc
  BY DEF arch_desc, ClassicArchs, XmegaArchs
<1>2. \A v \in {"classic", "xmega", "tiny"} : \A a \in Archs(v) : IsNamed(Named(a))
  BY DEF Archs, IsNamed
<1>3. \A v \in {"classic", "xmega", "tiny"} : IsNamed(DefaultArch(v))
  BY <1>1 DEF DefaultArch, IsNamed
<1> QED BY <1>2, <1>3

LEMMA NoneIsNoName == None \notin OptionNames
BY Zenon DEF None, OptionNames, TakesWord, WithText, Flags

LEMMA WordSets ==
  ASSUME OptionType, ReadsWord
  PROVE  MemoryWord
<1>1. {"args", "pm"} \subseteq OptionNames /\ DOMAIN do = OptionNames
  BY OptionNamesAre DEF OptionType
<1>2. CASE NoStream
  <2>1. PICK f \in Streams : Off(f) /\ do' = [do EXCEPT ![f] = 0, ![FileOpt(f)] = 0]
    BY <1>2 DEF NoStream
  <2>2. /\ {f, FileOpt(f)} \cap {"args", "pm"} = {} /\ Word.opt \in {f, FileOpt(f)}
    BY <2>1, OptionNamesAre DEF Off
  <2>3. do'["args"] = do["args"] /\ do'["pm"] = do["pm"] /\ Word.opt # "args" /\ Word.opt # None
    BY <1>1, <2>1, <2>2, OptionNamesAre, NoneIsNoName
  <2> QED BY <1>2, <2>3 DEF NoStream, MemoryWord
<1>3. ASSUME i \in 1 .. Len(argv), Word.opt \in OptionNames, do' = flagged
      PROVE  /\ do'["args"] = IF Word.opt = "args" THEN Bit(Word.on) ELSE do["args"]
             /\ do'["pm"] = IF Word.opt = "pm" THEN Bit(Word.on) ELSE do["pm"]
  BY <1>1, <1>3, FlaggedIs
<1>4. ASSUME NEW o, IsOption(o) PROVE i \in 1 .. Len(argv) /\ Word.opt = o
  BY <1>4 DEF IsOption, Parsing, OptionType
<1>5. CASE Flag
  <2>1. /\ i \in 1 .. Len(argv) /\ Word.opt \in OptionNames /\ Word.opt # "args" /\ Word.opt # "pm"
        /\ do' = flagged /\ UNCHANGED << program, arch, flash_pm_offset, args >>
    BY <1>5 DEF Flag, Parsing, OptionType, TakesWord
  <2> QED BY <1>3, <2>1, NoneIsNoName DEF MemoryWord
<1>6. CASE ProgramName
  <2>1. /\ i \in 1 .. Len(argv) /\ Word.opt = None /\ UNCHANGED << do, arch, flash_pm_offset, args >>
        /\ program'.short_name = ShortName(argv[i])
    BY <1>4, <1>6 DEF ProgramName, OptionType, ProgramType
  <2>3. Word.opt # "args" /\ do'["args"] = do["args"] /\ do'["pm"] = do["pm"]
    BY <2>1, OtherNames
  <2> QED BY <2>1, <2>3 DEF MemoryWord
<1>7. CASE Mmcu
  <2>1. /\ i \in 1 .. Len(argv) /\ Word.opt = "mmcu=" /\ do' = flagged /\ ~BadWord
        /\ arch' = IF Word.on THEN Named(Word.text) ELSE DefaultArch(isa)
        /\ UNCHANGED << program, flash_pm_offset, args >>
    BY <1>4, <1>7 DEF Mmcu, IsOption
  <2>2. IsNamed(arch')
    BY <2>1, NamedArchs DEF BadWord, OptionType
  <2>3. /\ "mmcu=" \in OptionNames /\ "mmcu=" # "args" /\ "mmcu=" # "pm"
    BY OptionNamesAre
  <2> QED BY <1>3, <2>1, <2>2, <2>3, NoneIsNoName DEF MemoryWord
<1>8. CASE FlashPmOffset
  <2>1. /\ i \in 1 .. Len(argv) /\ Word.opt = "pm" /\ do' = flagged
        /\ flash_pm_offset' = IF Word.on THEN get_valid_number(Next1) ELSE 0
        /\ UNCHANGED << program, arch, args >>
    BY <1>4, <1>8 DEF FlashPmOffset
  <2>2. /\ do'["args"] = do["args"] /\ do'["pm"] = Bit(Word.on)
    BY <1>1, <1>3, <2>1
  <2> QED BY <1>1, <2>1, <2>2, NoneIsNoName DEF MemoryWord, Bit
<1>9. CASE Args
  <2>1. /\ i \in 1 .. Len(argv) /\ Word.opt = "args" /\ do' = flagged
        /\ args' = IF Word.on THEN SubSeq(argv, i + 1, Len(argv)) ELSE << >>
        /\ UNCHANGED << program, arch, flash_pm_offset >>
    BY <1>4, <1>9 DEF Args
  <2> QED BY <1>1, <1>3, <2>1, NoneIsNoName DEF MemoryWord
<1>10. CASE EntryPoint \/ Sandbox \/ MaxInstrCount
  <2>1. /\ i \in 1 .. Len(argv) /\ Word.opt \in {"e", "sbox", "m"} /\ do' = flagged
        /\ UNCHANGED << arch, flash_pm_offset, args >>
    BY <1>4, <1>10 DEF EntryPoint, Sandbox, MaxInstrCount
  <2>2. {"e", "sbox", "m"} \subseteq OptionNames
    BY OptionNamesAre
  <2>3. UNCHANGED << program.name, program.short_name >>
    BY <1>10 DEF EntryPoint, Sandbox, MaxInstrCount, OptionType, ProgramType
  <2> QED BY <1>3, <2>1, <2>2, <2>3, NoneIsNoName DEF MemoryWord
<1>11. CASE Size
  <2>1. /\ i \in 1 .. Len(argv) /\ Word.opt = "s"
        /\ do' = IF Word.on THEN [do EXCEPT !.s = get_valid_kilo(Next1)] ELSE flagged
        /\ UNCHANGED << program, arch, flash_pm_offset, args >>
    BY <1>4, <1>11 DEF Size
  <2>2. "s" \in OptionNames /\ Word.opt # None
    BY <2>1, OptionNamesAre, NoneIsNoName
  <2>3. do'["args"] = do["args"] /\ do'["pm"] = do["pm"]
    BY <1>1, <1>3, <2>1, <2>2
  <2> QED BY <2>1, <2>2, <2>3 DEF MemoryWord
<1>12. CASE Graph
  <2>1. /\ i \in 1 .. Len(argv) /\ Word.opt \in {"graph", "graph="}
        /\ do' = CASE Word.opt = "graph"  -> [flagged EXCEPT !["graph="] = IF Word.on THEN @ ELSE 0]
                   [] Word.opt = "graph=" -> [flagged EXCEPT !.graph = IF Word.on THEN 1 ELSE 0]
        /\ UNCHANGED << program, arch, flash_pm_offset, args >>
    BY <1>4, <1>12 DEF Graph
  <2>2. \A o : o \notin {"graph", "graph="} => (do'[o] = flagged[o] /\ flagged[o] = do[o]) \/ o \notin OptionNames
    BY <2>1 DEF flagged, OptionType
  <2>3. do'["args"] = do["args"] /\ do'["pm"] = do["pm"]
    BY <1>1, <2>2
  <2>4. Word.opt # None
    BY <2>1, OptionNamesAre, NoneIsNoName
  <2> QED BY <2>1, <2>3, <2>4 DEF MemoryWord
<1> QED BY <1>2, <1>5, <1>6, <1>7, <1>8, <1>9, <1>10, <1>11, <1>12 DEF ReadsWord

LineRead == ArgsRead /\ NameRead /\ OffsetRead

LEMMA WordLine ==
  ASSUME SessionInv, LineRead, ReadsWord, argv' = argv, isa' = isa
  PROVE  LineRead'
<1>1. OptionType /\ ArchType /\ Live(i) /\ phase = "options" /\ phase' = "options" /\ WordEffect
  <2>1. WordEffect
    BY ReadsWordEffect DEF SessionInv
  <2> QED BY <2>1 DEF SessionInv, PhaseInv, Reading, WordEffect
<1>2. MemoryWord
  BY <1>1, WordSets
<1>3. ArgsRead'
  <2>1. /\ At("args")' = IF "args" = Word.opt THEN i ELSE At("args")
        /\ IsOn("args")' <=> IF "args" = Word.opt THEN Word.on ELSE IsOn("args")
        /\ OnOff("args")' = IF "args" = Word.opt THEN Bit(Word.on) ELSE OnOff("args")
    BY <1>1, OneAfter
  <2>2. do'["args"] = OnOff("args")'
    BY <1>2, <2>1 DEF MemoryWord, LineRead, ArgsRead
  <2>3. IsOn("args")' => args' = SubSeq(argv, At("args")' + 1, Len(argv))
    <3>1. CASE Word.opt = "args"
      BY <1>2, <2>1, <3>1 DEF MemoryWord
    <3>2. CASE Word.opt # "args"
      BY <1>2, <2>1, <3>2 DEF MemoryWord, LineRead, ArgsRead
    <3> QED BY <3>1, <3>2
  <2> QED BY <2>2, <2>3 DEF ArgsRead
<1>4. NameRead'
  <2>1. /\ At(None)' = IF None = Word.opt THEN i ELSE At(None)
        /\ i \in 1 .. Len(argv)
    BY <1>1, OneAfter DEF WordEffect
  <2>2. CASE Word.opt = None
    BY <1>1, <1>2, <2>1, <2>2 DEF MemoryWord, NameRead, NameGiven, ShortName, Reading
  <2>3. CASE Word.opt # None
    BY <1>1, <1>2, <2>1, <2>3 DEF MemoryWord, LineRead, NameRead, NameGiven, ShortName, Reading
  <2> QED BY <2>2, <2>3
<1>5. OffsetRead'
  <2>1. \A d : IsNamed(d) => /\ d.desc.flash_addr_mask = arch_desc[d.name].flash_addr_mask
                             /\ d.desc.flash_pm_offset = arch_desc[d.name].flash_pm_offset
    BY DEF IsNamed, Named
  <2>2. /\ arch'.desc.flash_addr_mask = arch_desc[arch'.name].flash_addr_mask
        /\ arch'.desc.flash_pm_offset = arch_desc[arch'.name].flash_pm_offset
    <3>1. CASE arch' = arch
      BY <1>1, <3>1 DEF LineRead, OffsetRead, DescOf, pm, Reading
    <3>2. CASE IsNamed(arch')
      BY <2>1, <3>2
    <3> QED BY <1>2, <3>1, <3>2 DEF MemoryWord
  <2>3. do'["pm"] = 0 => flash_pm_offset' = 0
    BY <1>2 DEF MemoryWord, LineRead, OffsetRead
  <2> QED BY <1>1, <2>2, <2>3 DEF OffsetRead, DescOf, pm, Reading, Afterwards
<1> QED BY <1>3, <1>4, <1>5 DEF LineRead

LEMMA ArgsReadKept ==
  ASSUME ArgsRead, UNCHANGED << argv, i, do, args >>
  PROVE  ArgsRead'
BY SameLine DEF ArgsRead

(* The step of a phase that does not touch what was read.                    *)
LineRests == UNCHANGED << argv, i, do, args, program, arch, flash_pm_offset >>

LEMMA FileRests ==
  ASSUME program' = program
  PROVE  file' = file
BY DEF file

LEMMA LineKept ==
  ASSUME LineRead, LineRests,
         \/ phase' = "left" \/ phase' = phase
         \/ phase = "help" /\ phase' = "options"
         \/ phase = "open" /\ phase' = "header"
         \/ phase = "open" /\ phase' = "mask" /\ ~file.elf
         \/ phase = "segments" /\ phase' = "mask"
         \/ phase = "mask" /\ phase' = "decode"
         \/ phase = "decode" /\ phase' = "run"
  PROVE  LineRead'
<1>1. file' = file
  BY FileRests DEF LineRests
<1>2. ArgsRead'
  BY ArgsReadKept DEF LineRests, LineRead
<1>3. NameRead'
  BY NameSame DEF LineRests, LineRead, NameRead, Reading
<1>4. OffsetRead'
  BY <1>1 DEF LineRests, LineRead, OffsetRead, DescOf, pm, Reading, Afterwards
<1> QED BY <1>2, <1>3, <1>4 DEF LineRead

LEMMA EndOfWordsLine ==
  ASSUME SessionInv, LineRead, EndOfWords, argv' = argv
  PROVE  LineRead'
<1>1. /\ UNCHANGED << i, do, s, program, flash_pm_offset, args >> /\ phase = "options"
  BY DEF EndOfWords
<1>2. ArgsRead'
  BY <1>1, ArgsReadKept DEF LineRead
<1>3. CASE arch' = arch /\ phase' = "left"
  BY <1>1, <1>3, LineKept DEF LineRests
<1>4. CASE /\ program.name # None /\ phase' = "open"
           /\ arch' = IF flash_pm_offset = 0 THEN arch
                      ELSE [arch EXCEPT !.desc.flash_pm_offset = flash_pm_offset]
  <2>1. arch \in [name : DOMAIN arch_desc, desc : DescType]
    BY DEF SessionInv, ArchType
  <2>2. /\ arch'.name = arch.name /\ arch'.desc.flash_addr_mask = arch.desc.flash_addr_mask
        /\ flash_pm_offset = 0 => arch' = arch
    BY <1>4, <2>1 DEF DescType
  <2>3. OffsetRead'
    BY <1>1, <1>4, <2>2 DEF LineRead, OffsetRead, DescOf, pm, Reading, Afterwards
  <2>4. NameRead'
    BY <1>1, <1>4, NameSame DEF LineRead, NameRead
  <2> QED BY <1>2, <2>3, <2>4 DEF LineRead
<1> QED BY <1>3, <1>4 DEF EndOfWords, MissingName, leave

LEMMA ReadingLine ==
  ASSUME SessionInv, LineRead, parse_args, argv' = argv, isa' = isa
  PROVE  LineRead' /\ phase' \in {"options", "open", "left"}
<1>1. CASE ReadsWord
  <2>1. phase' = "options"
    BY <1>1, ReadsWordEffect DEF SessionInv, WordEffect
  <2> QED BY <1>1, <2>1, WordLine
<1>2. CASE EndOfWords
  BY <1>2, EndOfWordsLine DEF EndOfWords, leave
<1>3. CASE Help \/ Usage
  <2>1. /\ LineRests /\ (phase' = "left" \/ (phase = "help" /\ phase' = "options"))
    BY <1>3 DEF Help, Usage, leave, LineRests, optionVars
  <2> QED BY <2>1, LineKept
<1> QED BY <1>1, <1>2, <1>3 DEF parse_args, ReadsWord

LEMMA LoadHeaderLine ==
  ASSUME SessionInv, LineRead, LoadHeader, argv' = argv
  PROVE  LineRead' /\ phase' \in {"sections", "left"}
<1>1. /\ UNCHANGED << i, do, args, flash_pm_offset, arch >> /\ phase = "header"
      /\ program' = IF file.header /\ TakesEntry
                    THEN [program EXCEPT !.entry_point = file.entry] ELSE program
      /\ phase' \in {"sections", "left"}
  BY DEF LoadHeader, Stay, leave
<1>2. program'.name = program.name /\ program'.short_name = program.short_name
  BY <1>1 DEF SessionInv, OptionType, ProgramType
<1>3. ArgsRead'
  BY <1>1, ArgsReadKept DEF LineRead
<1>4. NameRead'
  BY <1>1, <1>2, NameSame DEF LineRead, NameRead, Reading
<1>5. OffsetRead'
  BY <1>1 DEF LineRead, OffsetRead, DescOf, pm, Reading, Afterwards
<1> QED BY <1>1, <1>3, <1>4, <1>5 DEF LineRead

LEMMA LoadSectionsLine ==
  ASSUME SessionInv, LineRead, LoadSections, argv' = argv
  PROVE  LineRead' /\ phase' \in {"segments", "left"}
<1>1. /\ UNCHANGED << i, do, args, flash_pm_offset, program >> /\ phase = "sections"
      /\ phase' \in {"segments", "left"}
      /\ phase' = "segments" =>
           arch' = [arch EXCEPT !.desc.flash_pm_offset = OffsetOfDevice(file.arch)]
      /\ \/ arch' = arch
         \/ arch' = [arch EXCEPT !.desc.flash_pm_offset = OffsetOfDevice(file.arch)]
  BY DEF LoadSections, Stay, leave
<1>2. file' = file
  BY <1>1, FileRests
<1>3. arch \in [name : DOMAIN arch_desc, desc : DescType]
  BY DEF SessionInv, ArchType
<1>4. /\ arch'.name = arch.name /\ arch'.desc.flash_addr_mask = arch.desc.flash_addr_mask
      /\ phase' = "segments" => arch'.desc.flash_pm_offset = OffsetOfDevice(file.arch)
  BY <1>1, <1>3 DEF DescType
<1>5. ArgsRead'
  BY <1>1, ArgsReadKept DEF LineRead
<1>6. NameRead'
  BY <1>1, NameSame DEF LineRead, NameRead, Reading
<1>7. OffsetRead'
  BY <1>1, <1>2, <1>4 DEF LineRead, OffsetRead, DescOf, pm, Reading, Afterwards, OffsetOfDevice
<1> QED BY <1>1, <1>5, <1>6, <1>7 DEF LineRead

-----------------------------------------------------------------------------
(* A segment is loaded                                                      *)

LEMMA SegmentFacts ==
  ASSUME program.name \in DOMAIN ProgramFiles, file.elf, NEW j \in LoadedAt
  PROVE  LET p == SegmentAt(j) IN
         /\ p \in PhdrType /\ p.paddr \in Nat /\ p.vaddr \in Nat /\ p.memsz \in Nat
         /\ Len(p.bytes) \in Nat \ {0} /\ Len(p.bytes) <= p.memsz /\ filesz(p) = Len(p.bytes)
<1> DEFINE p == SegmentAt(j)
<1>1. p \in PhdrType /\ Len(p.bytes) <= p.memsz /\ Len(p.bytes) > 0
  BY FileIs DEF LoadedAt, SegmentAt, IsLoaded, filesz
<1> HIDE DEF p
<1>2. p.paddr \in Nat /\ p.vaddr \in Nat /\ p.memsz \in Nat /\ Len(p.bytes) \in Nat
  BY <1>1 DEF PhdrType
<1> QED BY <1>1, <1>2 DEF filesz, p

LEMMA InFlashIs ==
  ASSUME NEW p \in PhdrType, ~TooBig(p), Len(p.bytes) <= p.memsz, p.paddr < DATA_VADDR
  PROVE  InFlash(p)
BY SegmentElsewhere

(* Segments for .data are in flash.                                         *)
LEMMA DataInFlash ==
  ASSUME NEW p \in PhdrType, Len(p.bytes) > 0, is_data_for_sram_init(p), SegmentLinked(p)
  PROVE  p.paddr < DATA_VADDR /\ InFlash(p)
<1>1. p.vaddr \in Nat /\ Len(p.bytes) \in Nat
  BY DEF PhdrType
<1>2. p.vaddr < EEPROM_VADDR
  BY <1>1 DEF is_data_for_sram_init, filesz, DATA_VADDR_END, EEPROM_VADDR
<1>3. EEPROM_VADDR \in Int /\ EEPROM_VADDR_END \in Int
  BY DEF EEPROM_VADDR, EEPROM_VADDR_END
<1>4. ~InEeprom(p)
  BY <1>1, <1>2, <1>3 DEF InEeprom
<1> QED BY <1>4 DEF SegmentLinked, InFlash

LEMMA NoDeviceName == NoDevice.name \notin At0x4000
BY Zenon DEF NoDevice, None, At0x4000

LEMMA ArchOf ==
  ASSUME RightArch
  PROVE  /\ file.arch = 100 => arch.name = "avrtiny"
         /\ file.arch = 102 => arch.name = "avrxmega2"
         /\ file.arch = 103 => arch.name = "avrxmega3"
         /\ file.arch = 104 => arch.name = "avrxmega4"
BY DEF RightArch, ArchNumber

LEMMA Descs ==
  /\ arch_desc["avrtiny"].flash_pm_offset = 16384
  /\ arch_desc["avrxmega3"].flash_pm_offset = 32768
  /\ arch_desc["avrxmega2"].flash_addr_mask = 65535
  /\ arch_desc["avrxmega4"].flash_addr_mask = 131071
<1>1. {"avrtiny", "avrxmega3", "avrxmega2", "avrxmega4"} \subseteq ClassicArchs \cup XmegaArchs \cup {"avrtiny"}
  BY DEF XmegaArchs
<1>2. \A a \in {"avrtiny", "avrxmega3", "avrxmega2", "avrxmega4"} : arch_desc[a] = ArchDesc(a)
  BY <1>1 DEF arch_desc
<1>3. /\ ArchDesc("avrtiny").flash_pm_offset = 16384
      /\ ArchDesc("avrxmega3").flash_pm_offset = 32768
  BY DEF ArchDesc
<1>4. ArchDesc("avrxmega2").flash_addr_mask = 65535
  BY DEF ArchDesc, K64, ArchsWith3BytePc, ArchsWith128K
<1>5. ArchDesc("avrxmega4").flash_addr_mask = 131071
  BY DEF ArchDesc, K128, ArchsWith3BytePc, ArchsWith128K
<1> QED BY <1>2, <1>3, <1>4, <1>5

(* .rodata of a segment that was not refused is in the part of flash that RAM *)
(* shows, where the linker wanted it.                                       *)
LEMMA RodataShown ==
  ASSUME OffsetRead, phase = "segments" \/ (Afterwards /\ file.elf), do.pm = 0, RightArch,
         NEW p \in PhdrType, Len(p.bytes) <= p.memsz, ~TooBig(p),
         IsRodata(p), RodataLinked(p), file.arch \in {100, 103}
  PROVE  /\ pm \in Nat /\ p.vaddr = p.paddr + pm /\ ShownInRam(p) /\ ~is_data_for_sram_init(p)
<1>1. pm = IF file.arch = 103 /\ file.device # NoDevice /\ file.device.name \in At0x4000
           THEN 16384 ELSE DescOf.flash_pm_offset
  BY DEF OffsetRead
<1>2. pm = LinkedOffset
  BY <1>1, ArchOf, Descs, NoDeviceName DEF LinkedOffset, DescOf
<1>3. pm \in Nat \ {0}
  BY <1>2 DEF LinkedOffset
<1>4. p.vaddr = p.paddr + pm /\ p.paddr < DATA_VADDR
  BY <1>2 DEF RodataLinked
<1>5. InFlash(p)
  BY <1>4, InFlashIs
<1>6. ~is_data_for_sram_init(p)
  BY DEF PhdrType, IsRodata, is_data_for_sram_init, DATA_VADDR
<1> QED BY <1>3, <1>4, <1>5, <1>6 DEF TooBig, ShownInRam

LEMMA FlashAfter ==
  ASSUME NEW fl, Addressed(fl), NEW p \in PhdrType, NEW q \in PhdrType,
         q = p \/ (HeldAt(fl, q.paddr, q.bytes) /\ Disjoint(InFlashAt(q), InFlashAt(p)))
  PROVE  HeldAt(Write(fl, p.paddr, p.bytes), q.paddr, q.bytes)
<1>1. /\ p.paddr \in Int /\ q.paddr \in Int /\ Len(p.bytes) \in Nat /\ Len(q.bytes) \in Nat
  BY DEF PhdrType
<1>2. CASE q = p
  BY <1>1, <1>2, HeldWritten
<1>3. CASE HeldAt(fl, q.paddr, q.bytes) /\ Disjoint(InFlashAt(q), InFlashAt(p))
  <2>1. \A k \in 0 .. Len(q.bytes) - 1 :
          q.paddr + k \notin p.paddr .. p.paddr + Len(p.bytes) - 1
    <3> SUFFICES ASSUME NEW k \in 0 .. Len(q.bytes) - 1
                 PROVE  q.paddr + k \notin p.paddr .. p.paddr + Len(p.bytes) - 1
      OBVIOUS
    <3>1. q.paddr + k \in InFlashAt(q)
      BY <1>1 DEF InFlashAt, filesz
    <3> QED BY <1>3, <3>1 DEF Disjoint, InFlashAt, filesz
  <2> QED BY <1>1, <1>3, <2>1, HeldKept
<1> QED BY <1>2, <1>3

LEMMA EepromAfter ==
  ASSUME NEW ee, Addressed(ee), NEW p \in PhdrType, NEW q \in PhdrType, p.vaddr = p.paddr,
         q = p \/ (/\ HeldAt(ee, q.vaddr - EEPROM_VADDR, q.bytes)
                   /\ Disjoint(InEepromAt(q), InEepromAt(p)))
  PROVE  HeldAt(Write(ee, p.paddr - EEPROM_VADDR, p.bytes), q.vaddr - EEPROM_VADDR, q.bytes)
<1> DEFINE at == p.paddr - EEPROM_VADDR
           to == q.vaddr - EEPROM_VADDR
<1>1. /\ at \in Int /\ to \in Int /\ Len(p.bytes) \in Nat /\ Len(q.bytes) \in Nat
      /\ InEepromAt(p) = at .. at + Len(p.bytes) - 1
      /\ InEepromAt(q) = to .. to + Len(q.bytes) - 1
      /\ q = p => to = at
  BY Addresses DEF PhdrType, InEepromAt, filesz
<1> HIDE DEF at, to
<1>2. CASE q = p
  <2>1. HeldAt(Write(ee, at, p.bytes), at, p.bytes)
    BY <1>1, HeldWritten
  <2> QED BY <1>1, <1>2, <2>1 DEF at, to
<1>3. CASE HeldAt(ee, to, q.bytes) /\ Disjoint(InEepromAt(q), InEepromAt(p))
  <2>1. \A k \in 0 .. Len(q.bytes) - 1 : to + k \notin at .. at + Len(p.bytes) - 1
    <3> SUFFICES ASSUME NEW k \in 0 .. Len(q.bytes) - 1
                 PROVE  to + k \notin InEepromAt(p)
      BY <1>1
    <3>1. to + k \in InEepromAt(q)
      BY <1>1
    <3> QED BY <1>3, <3>1 DEF Disjoint
  <2>2. HeldAt(Write(ee, at, p.bytes), to, q.bytes)
    BY <1>1, <1>3, <2>1, HeldKept
  <2> QED BY <2>2 DEF at, to
<1> QED BY <1>2, <1>3 DEF to

(* RAM after a segment has been loaded: what flash shows, then .data.        *)
ShownAfter(p, ra, fl) ==
  IF pm # 0 /\ SeenInRam(p) THEN Write(ra, p.paddr + pm, Bytes(fl, p.paddr, p.memsz)) ELSE ra

LEMMA RamIs ==
  ASSUME NEW p, NEW fl
  PROVE  RamAfter(p, fl) = IF InitializesData(p)
                           THEN Write(ShownAfter(p, ram, fl), p.vaddr - DATA_VADDR, p.bytes)
                           ELSE ShownAfter(p, ram, fl)
BY DEF RamAfter, ShownAfter, InitializesData

LEMMA ShownAddressed ==
  ASSUME Addressed(ram), NEW fl, NEW p \in PhdrType, pm \in Int
  PROVE  Addressed(ShownAfter(p, ram, fl)) /\ Addressed(RamAfter(p, fl))
<1> DEFINE c == Bytes(fl, p.paddr, p.memsz)
           at == p.paddr + pm
           to == p.vaddr - DATA_VADDR
<1>1. /\ p.paddr \in Int /\ p.memsz \in Nat /\ at \in Int /\ to \in Int /\ Len(p.bytes) \in Nat
  BY Addresses DEF PhdrType
<1>2. Len(c) \in Nat
  BY <1>1, BytesAre
<1> HIDE DEF c, at, to
<1>3. Addressed(Write(ram, at, c))
  BY <1>1, <1>2, ReadWritten
<1>4. Addressed(ShownAfter(p, ram, fl))
  BY <1>3 DEF ShownAfter, c, at
<1>5. Addressed(Write(ShownAfter(p, ram, fl), to, p.bytes))
  BY <1>1, <1>4, ReadWritten
<1> QED BY <1>4, <1>5, RamIs DEF to

LEMMA DataAfter ==
  ASSUME Addressed(ram), NEW fl, NEW p \in PhdrType, NEW q \in PhdrType, pm \in Int,
         InFlash(p), InitializesData(q),
         \/ q = p
         \/ /\ HeldAt(ram, q.vaddr - DATA_VADDR, q.bytes)
            /\ InitializesData(p) => Disjoint(InDataAt(q), InDataAt(p))
            /\ ShownInRam(p) => Disjoint(InDataAt(q), ShownAt(p))
  PROVE  HeldAt(RamAfter(p, fl), q.vaddr - DATA_VADDR, q.bytes)
<1> DEFINE c == Bytes(fl, p.paddr, p.memsz)
           at == p.paddr + pm
           to == p.vaddr - DATA_VADDR
           me == q.vaddr - DATA_VADDR
           ra == ShownAfter(p, ram, fl)
<1>1. /\ p.paddr \in Int /\ p.memsz \in Nat /\ at \in Int /\ to \in Int /\ me \in Int
      /\ Len(p.bytes) \in Nat /\ Len(q.bytes) \in Nat
      /\ InDataAt(p) = to .. to + Len(p.bytes) - 1 /\ InDataAt(q) = me .. me + Len(q.bytes) - 1
      /\ ShownAt(p) = at .. at + p.memsz - 1
      /\ q = p => me = to
  BY Addresses DEF PhdrType, InDataAt, ShownAt, filesz
<1>2. Len(c) = p.memsz
  BY <1>1, BytesAre
<1>3. Addressed(ra)
  BY ShownAddressed
<1>4. /\ ra = IF pm # 0 /\ SeenInRam(p) THEN Write(ram, at, c) ELSE ram
      /\ RamAfter(p, fl) = IF InitializesData(p) THEN Write(ra, to, p.bytes) ELSE ra
  BY RamIs DEF ShownAfter
<1> HIDE DEF c, at, to, me, ra
<1>5. CASE q = p
  <2>1. HeldAt(Write(ra, to, p.bytes), to, p.bytes)
    BY <1>1, <1>3, HeldWritten
  <2> QED BY <1>1, <1>4, <1>5, <2>1 DEF me, to
<1>6. CASE /\ HeldAt(ram, me, q.bytes)
           /\ InitializesData(p) => Disjoint(InDataAt(q), InDataAt(p))
           /\ ShownInRam(p) => Disjoint(InDataAt(q), ShownAt(p))
  <2>1. \A k \in 0 .. Len(q.bytes) - 1 : me + k \in InDataAt(q)
    BY <1>1
  <2>2. HeldAt(ra, me, q.bytes)
    <3>1. CASE pm # 0 /\ SeenInRam(p)
      <4>1. ShownInRam(p)
        BY <3>1 DEF ShownInRam
      <4>2. \A k \in 0 .. Len(q.bytes) - 1 : me + k \notin at .. at + Len(c) - 1
        <5> SUFFICES ASSUME NEW k \in 0 .. Len(q.bytes) - 1
                     PROVE  me + k \notin ShownAt(p)
          BY <1>1, <1>2
        <5> QED BY <1>6, <2>1, <4>1 DEF Disjoint
      <4>3. Len(c) \in Nat
        BY <1>1, <1>2
      <4> QED BY <1>1, <1>4, <1>6, <3>1, <4>2, <4>3, HeldKept
    <3> QED BY <1>4, <1>6, <3>1
  <2>3. CASE InitializesData(p)
    <3>1. \A k \in 0 .. Len(q.bytes) - 1 : me + k \notin to .. to + Len(p.bytes) - 1
      BY <1>1, <1>6, <2>1, <2>3 DEF Disjoint
    <3>2. HeldAt(Write(ra, to, p.bytes), me, q.bytes)
      BY <1>1, <1>3, <2>2, <3>1, HeldKept
    <3> QED BY <1>4, <2>3, <3>2 DEF me
  <2> QED BY <1>4, <2>2, <2>3 DEF me
<1> QED BY <1>5, <1>6 DEF me

LEMMA RodataAfter ==
  ASSUME Addressed(ram), NEW fl, NEW p \in PhdrType, NEW q \in PhdrType, pm \in Int,
         InFlash(p), Len(p.bytes) <= p.memsz, q.vaddr = q.paddr + pm, HeldAt(fl, q.paddr, q.bytes),
         \/ q = p /\ ShownInRam(p)
         \/ HeldAt(ram, q.vaddr, q.bytes),
         InitializesData(p) => Disjoint(InDataAt(p), InRodataAt(q))
  PROVE  HeldAt(RamAfter(p, fl), q.vaddr, q.bytes)
<1> DEFINE to == p.vaddr - DATA_VADDR
           ra == ShownAfter(p, ram, fl)
<1>1. /\ p.paddr \in Int /\ p.memsz \in Nat /\ to \in Int /\ q.paddr \in Int /\ q.vaddr \in Int
      /\ Len(p.bytes) \in Nat /\ Len(q.bytes) \in Nat
      /\ InDataAt(p) = to .. to + Len(p.bytes) - 1
      /\ InRodataAt(q) = q.vaddr .. q.vaddr + Len(q.bytes) - 1
  BY Addresses DEF PhdrType, InDataAt, InRodataAt, filesz
<1>2. Addressed(ra)
  BY ShownAddressed
<1>3. /\ ra = IF pm # 0 /\ SeenInRam(p)
              THEN Write(ram, p.paddr + pm, Bytes(fl, p.paddr, p.memsz)) ELSE ram
      /\ RamAfter(p, fl) = IF InitializesData(p) THEN Write(ra, to, p.bytes) ELSE ra
  BY RamIs DEF ShownAfter
<1> HIDE DEF to, ra
<1>4. HeldAt(ra, q.vaddr, q.bytes)
  <2>1. CASE pm # 0 /\ SeenInRam(p)
    <3>1. CASE q = p
      <4>1. \A k \in 0 .. Len(q.bytes) - 1 : q.paddr + k \in p.paddr .. p.paddr + p.memsz - 1
        <5> SUFFICES ASSUME NEW k \in 0 .. Len(q.bytes) - 1
                     PROVE  q.paddr + k \in p.paddr .. p.paddr + p.memsz - 1
          OBVIOUS
        <5> DEFINE a == p.paddr  n == p.memsz  m == Len(p.bytes)
        <5>1. a \in Int /\ n \in Nat /\ m \in Nat /\ m <= n
          BY <1>1
        <5>2. q.paddr = a /\ k \in 0 .. m - 1
          BY <3>1
        <5> HIDE DEF a, n, m
        <5>3. a + k \in a .. a + n - 1
          BY <5>1, <5>2
        <5> QED BY <5>2, <5>3 DEF a, n
      <4>2. HeldAt(Write(ram, p.paddr + pm, Bytes(fl, p.paddr, p.memsz)), q.paddr + pm, q.bytes)
        BY <1>1, <4>1, HeldShown
      <4> QED BY <1>3, <2>1, <4>2
    <3>2. CASE HeldAt(ram, q.vaddr, q.bytes)
      <4>1. HeldAt(ram, q.paddr + pm, q.bytes)
        BY <3>2
      <4>2. HeldAt(Write(ram, p.paddr + pm, Bytes(fl, p.paddr, p.memsz)), q.paddr + pm, q.bytes)
        BY <1>1, <4>1, HeldShown
      <4> QED BY <1>3, <2>1, <4>2
    <3> QED BY <3>1, <3>2
  <2>2. CASE ~(pm # 0 /\ SeenInRam(p))
    BY <1>3, <2>2 DEF ShownInRam
  <2> QED BY <2>1, <2>2
<1>5. CASE InitializesData(p)
  <2>1. \A k \in 0 .. Len(q.bytes) - 1 : q.vaddr + k \notin to .. to + Len(p.bytes) - 1
    <3> SUFFICES ASSUME NEW k \in 0 .. Len(q.bytes) - 1
                 PROVE  q.vaddr + k \notin InDataAt(p)
      BY <1>1
    <3> DEFINE me == q.vaddr
    <3>1. me \in Int /\ InRodataAt(q) = me .. me + Len(q.bytes) - 1 /\ Len(q.bytes) \in Nat
      BY <1>1
    <3> HIDE DEF me
    <3>2. me + k \in InRodataAt(q)
      BY <3>1
    <3> QED BY <1>5, <3>2 DEF Disjoint, me
  <2>2. HeldAt(Write(ra, to, p.bytes), q.vaddr, q.bytes)
    BY <1>1, <1>2, <1>4, <2>1, HeldKept
  <2> QED BY <1>3, <1>5, <2>2
<1> QED BY <1>3, <1>4, <1>5

-----------------------------------------------------------------------------
(* Another segment leaves the ones before it where they are                 *)

(* p is the segment that is loaded, q the same or one before it.             *)
SegmentsFit(p, q) ==
  /\ SegmentsApart(q, p)
  /\ InitializesData(q) /\ ShownInRam(p) => Disjoint(InDataAt(q), ShownAt(p))

LEMMA LoadedHeld ==
  ASSUME Addressed(flash), Addressed(ram), pm \in Int,
         NEW p \in PhdrType, InFlash(p), NEW q \in PhdrType, Len(q.bytes) > 0,
         q = p \/ (Held(q) /\ SegmentsFit(p, q)),
         SegmentLinked(q), NEW fl, fl = Write(flash, p.paddr, p.bytes)
  PROVE  /\ q.paddr < DATA_VADDR => HeldAt(fl, q.paddr, q.bytes)
         /\ InitializesData(q) => HeldAt(RamAfter(p, fl), q.vaddr - DATA_VADDR, q.bytes)
<1>1. ASSUME q.paddr < DATA_VADDR PROVE HeldAt(fl, q.paddr, q.bytes)
  <2>1. q = p \/ (HeldAt(flash, q.paddr, q.bytes) /\ Disjoint(InFlashAt(q), InFlashAt(p)))
    BY <1>1 DEF Held, SegmentsFit, SegmentsApart, InFlash
  <2> QED BY <2>1, FlashAfter
<1>2. ASSUME InitializesData(q) PROVE HeldAt(RamAfter(p, fl), q.vaddr - DATA_VADDR, q.bytes)
  <2>1. \/ q = p
        \/ /\ HeldAt(ram, q.vaddr - DATA_VADDR, q.bytes)
           /\ InitializesData(p) => Disjoint(InDataAt(q), InDataAt(p))
           /\ ShownInRam(p) => Disjoint(InDataAt(q), ShownAt(p))
    BY <1>2 DEF Held, SegmentsFit, SegmentsApart
  <2> QED BY <1>2, <2>1, DataAfter
<1> QED BY <1>1, <1>2

LEMMA LoadedRodata ==
  ASSUME OffsetRead, phase = "segments", do.pm = 0, RightArch, file.arch \in {100, 103},
         Addressed(ram), pm \in Int,
         NEW p \in PhdrType, InFlash(p), Len(p.bytes) <= p.memsz,
         NEW q \in PhdrType, Len(q.bytes) <= q.memsz, ~TooBig(q), IsRodata(q), SegmentLinked(q),
         q = p \/ RodataHeld(q),
         InitializesData(p) /\ ShownInRam(q) => Disjoint(InDataAt(p), ShownAt(q)),
         NEW fl, HeldAt(fl, q.paddr, q.bytes)
  PROVE  HeldAt(RamAfter(p, fl), q.vaddr, q.bytes)
<1>1. /\ pm \in Nat /\ q.vaddr = q.paddr + pm /\ ShownInRam(q) /\ ~is_data_for_sram_init(q)
  BY RodataShown DEF SegmentLinked
<1>2. (q = p /\ ShownInRam(p)) \/ HeldAt(ram, q.vaddr, q.bytes)
  BY <1>1 DEF RodataHeld
<1>3. InRodataAt(q) \subseteq ShownAt(q)
  <2>1. q.vaddr \in Nat /\ Len(q.bytes) \in Nat /\ q.memsz \in Nat
    BY DEF PhdrType
  <2> QED BY <1>1, <2>1 DEF InRodataAt, ShownAt, filesz
<1>4. InitializesData(p) => Disjoint(InDataAt(p), InRodataAt(q))
  BY <1>1, <1>3 DEF Disjoint
<1> QED BY <1>1, <1>2, <1>4, RodataAfter

(* What the layout says of two segments.                                    *)
LEMMA LaidOutSegments ==
  ASSUME LaidOut, file.elf, NEW j \in LoadedAt, NEW k \in LoadedAt
  PROVE  /\ SegmentLinked(SegmentAt(j))
         /\ j # k => SegmentsApart(SegmentAt(j), SegmentAt(k))
         /\ InitializesData(SegmentAt(j)) /\ ShownInRam(SegmentAt(k))
              => Disjoint(InDataAt(SegmentAt(j)), ShownAt(SegmentAt(k)))
BY DEF LaidOut

LEMMA PmIs == ASSUME ArchType PROVE pm \in Int
BY DEF ArchType, DescType, pm

(* The program, its options and its architecture do not change any more.     *)
FileRead == UNCHANGED << program, do, arch, args >>

LEMMA FileReads ==
  ASSUME FileRead
  PROVE  /\ file' = file /\ LoadedAt' = LoadedAt /\ pm' = pm
         /\ \A j : SegmentAt(j)' = SegmentAt(j)
         /\ \A p : (TooBig(p)' <=> TooBig(p)) /\ (InitializesData(p)' <=> InitializesData(p))
<1>1. file' = file
  BY DEF FileRead, file
<1>2. LoadedAt' = LoadedAt
  BY <1>1 DEF LoadedAt, SegmentAt
<1>3. pm' = pm /\ do' = do
  BY DEF FileRead, pm
<1>4. \A p : TooBig(p)' <=> TooBig(p)
  BY <1>3 DEF TooBig, SeenInRam
<1>5. \A p : InitializesData(p)' <=> InitializesData(p)
  BY <1>3 DEF InitializesData
<1> QED BY <1>1, <1>2, <1>3, <1>4, <1>5 DEF SegmentAt

LEMMA LayoutKept ==
  ASSUME FileRead
  PROVE  LaidOut' <=> LaidOut
<1>1. /\ file' = file /\ LoadedAt' = LoadedAt /\ pm' = pm /\ do' = do
      /\ \A j : SegmentAt(j)' = SegmentAt(j)
      /\ \A p : InitializesData(p)' <=> InitializesData(p)
  BY FileReads DEF FileRead
<1>2. ArgsAt' = ArgsAt
  <2>1. pargs' = pargs
    BY <1>1 DEF pargs
  <2>2. ArgStrings' = ArgStrings
    BY DEF FileRead, ArgStrings
  <2> HIDE DEF pargs, ArgStrings
  <2> QED BY <2>1, <2>2 DEF ArgsAt
<1>3. (WithFlmap' <=> WithFlmap) /\ \A p : IsRodata(p)' <=> IsRodata(p)
  BY <1>1 DEF WithFlmap, IsRodata
<1>4. \A p : SegmentLinked(p)' <=> SegmentLinked(p)
  <2>1. LinkedOffset' = LinkedOffset /\ LinkedWindow' = LinkedWindow
    BY <1>1 DEF LinkedOffset, LinkedWindow
  <2>2. \A p : RodataLinked(p)' <=> RodataLinked(p)
    BY <1>1, <1>3, <2>1 DEF RodataLinked
  <2>3. \A p : InDataAt(p)' = InDataAt(p)
    BY DEF InDataAt
  <2> QED BY <1>1, <1>3, <2>2, <2>3 DEF SegmentLinked
<1>5. \A p, q : SegmentsApart(p, q)' <=> SegmentsApart(p, q)
  <2>1. \A p : InFlashAt(p)' = InFlashAt(p) /\ InEepromAt(p)' = InEepromAt(p) /\ InDataAt(p)' = InDataAt(p)
    BY DEF InFlashAt, InEepromAt, InDataAt
  <2> QED BY <1>1, <2>1 DEF SegmentsApart
<1>6. \A p : (ShownInRam(p)' <=> ShownInRam(p)) /\ ShownAt(p)' = ShownAt(p)
  BY <1>1 DEF ShownInRam, ShownAt, SeenInRam
<1>7. \A p : ArgsApart(p)' <=> ArgsApart(p)
  BY <1>1, <1>2, <1>3 DEF ArgsApart, InDataAt, InRodataAt
<1> QED BY <1>1, <1>2, <1>3, <1>4, <1>5, <1>6, <1>7 DEF LaidOut

LEMMA SegmentAddressed ==
  ASSUME SessionInv, StageInv, LoadSegment, phase' = "segments"
  PROVE  Addressed(flash') /\ Addressed(ram') /\ Addressed(eeprom')
<1>1. /\ phase = "segments" /\ seg \in 1 .. Len(file.phdrs)
      /\ program.name \in DOMAIN ProgramFiles /\ file.elf /\ pm \in Int
      /\ Addressed(flash) /\ Addressed(ram) /\ Addressed(eeprom)
  BY PmIs DEF LoadSegment, SessionInv, ArchType, PhaseInv, InFile, StageInv
<1>2. /\ Phdr \in PhdrType /\ Phdr.paddr \in Int /\ Len(Phdr.bytes) \in Nat
      /\ Phdr.paddr - EEPROM_VADDR \in Int
  <2>1. Phdr \in PhdrType
    BY <1>1, FileIs DEF Phdr
  <2> QED BY <2>1, Addresses DEF PhdrType
<1>3. CASE InFlash(Phdr) /\ flash' = Write(flash, Phdr.paddr, Phdr.bytes)
           /\ ram' = RamAfter(Phdr, flash') /\ eeprom' = eeprom
  <2>1. Addressed(flash')
    BY <1>1, <1>2, <1>3, ReadWritten
  <2> QED BY <1>1, <1>2, <1>3, <2>1, ShownAddressed
<1>4. CASE /\ UNCHANGED << flash, ram >>
           /\ eeprom' = eeprom \/ eeprom' = Write(eeprom, Phdr.paddr - EEPROM_VADDR, Phdr.bytes)
  BY <1>1, <1>2, <1>4, ReadWritten
<1> QED BY <1>3, <1>4 DEF LoadSegment

LEMMA SegmentsLoaded ==
  ASSUME SessionInv, LineRead, StageInv, LaidOut, SegmentsHeld, LoadSegment, argv' = argv,
         phase' = "segments"
  PROVE  SegmentsHeld'
<1>1. /\ FileRead /\ phase = "segments" /\ seg \in Nat \ {0} /\ seg' = seg + 1 /\ seg <= Len(file.phdrs)
      /\ program.name \in DOMAIN ProgramFiles /\ file.elf /\ pm \in Int
      /\ Addressed(flash) /\ Addressed(ram) /\ Addressed(eeprom)
  BY PmIs DEF LoadSegment, Stay, FileRead, SessionInv, ArchType, PhaseInv, InFile, StageInv
<1>2. /\ file' = file /\ LoadedAt' = LoadedAt /\ pm' = pm /\ do' = do /\ arch' = arch
      /\ \A j : SegmentAt(j)' = SegmentAt(j)
      /\ \A p : (TooBig(p)' <=> TooBig(p)) /\ (InitializesData(p)' <=> InitializesData(p))
  BY <1>1, FileReads DEF FileRead
<1>3. \A j \in LoadedAt : j < seg =>
         /\ ~TooBig(SegmentAt(j)) /\ Held(SegmentAt(j))
         /\ file.arch \in {100, 103} => RodataHeld(SegmentAt(j))
  BY <1>1 DEF SegmentsHeld
<1>4. ASSUME \A j \in LoadedAt : j < seg \/ j = seg =>
                LET p == SegmentAt(j) IN
                /\ ~TooBig(p)
                /\ p.paddr < DATA_VADDR => HeldAt(flash', p.paddr, p.bytes)
                /\ InEeprom(p) => HeldAt(eeprom', p.vaddr - EEPROM_VADDR, p.bytes)
                /\ InitializesData(p) => HeldAt(ram', p.vaddr - DATA_VADDR, p.bytes)
                /\ file.arch \in {100, 103} /\ IsRodata(p) /\ do.pm = 0 /\ RightArch =>
                     HeldAt(ram', p.vaddr, p.bytes)
      PROVE  SegmentsHeld'
  <2>1. SUFFICES ASSUME NEW j \in LoadedAt, j < seg'
                 PROVE  /\ ~TooBig(SegmentAt(j)) /\ Held(SegmentAt(j))'
                        /\ file.arch \in {100, 103} => RodataHeld(SegmentAt(j))'
    BY <1>2 DEF SegmentsHeld
  <2>2. j < seg \/ j = seg
    BY <1>1, <2>1 DEF LoadedAt
  <2>3. Held(SegmentAt(j))'
    BY <1>2, <1>4, <2>2 DEF Held, HeldAt
  <2>4. file.arch \in {100, 103} => RodataHeld(SegmentAt(j))'
    BY <1>2, <1>4, <2>2 DEF RodataHeld, HeldAt, IsRodata, RightArch
  <2> QED BY <1>4, <2>2, <2>3, <2>4
<1>5. CASE ~IsLoaded(Phdr)
  <2>1. UNCHANGED << flash, ram, eeprom >>
    BY <1>5 DEF LoadSegment
  <2>2. ASSUME NEW j \in LoadedAt, j < seg \/ j = seg
        PROVE  j < seg
    BY <1>5, <2>2 DEF LoadedAt, SegmentAt, Phdr
  <2>3. \A j \in LoadedAt : j < seg \/ j = seg =>
          /\ ~TooBig(SegmentAt(j)) /\ Held(SegmentAt(j))
          /\ file.arch \in {100, 103} => RodataHeld(SegmentAt(j))
    BY <1>3, <2>2
  <2>4. SegmentsHeld'
    BY <1>4, <2>1, <2>3 DEF Held, RodataHeld
  <2> QED BY <2>4
<1>6. ASSUME IsLoaded(Phdr), NEW j \in LoadedAt, j < seg \/ j = seg
      PROVE  LET p == Phdr  q == SegmentAt(j) IN
             /\ p \in PhdrType /\ Len(p.bytes) <= p.memsz /\ Len(p.bytes) > 0
             /\ q \in PhdrType /\ Len(q.bytes) <= q.memsz /\ Len(q.bytes) > 0
             /\ SegmentLinked(p) /\ SegmentLinked(q)
             /\ q = p \/ (Held(q) /\ SegmentsFit(p, q))
             /\ file.arch \in {100, 103} => q = p \/ RodataHeld(q)
             /\ InitializesData(p) /\ ShownInRam(q) => Disjoint(InDataAt(p), ShownAt(q))
             /\ ~TooBig(p) => ~TooBig(q)
  <2>1. seg \in LoadedAt /\ Phdr = SegmentAt(seg)
    BY <1>1, <1>6 DEF LoadedAt, SegmentAt, Phdr
  <2>2. /\ Phdr \in PhdrType /\ Len(Phdr.bytes) <= Phdr.memsz /\ Len(Phdr.bytes) > 0
    BY <1>1, <2>1, SegmentFacts
  <2>3. LET q == SegmentAt(j) IN q \in PhdrType /\ Len(q.bytes) <= q.memsz /\ Len(q.bytes) > 0
    BY <1>1, SegmentFacts
  <2>4. SegmentLinked(Phdr) /\ SegmentLinked(SegmentAt(j))
    BY <1>1, <2>1, LaidOutSegments
  <2>5. InitializesData(Phdr) /\ ShownInRam(SegmentAt(j)) => Disjoint(InDataAt(Phdr), ShownAt(SegmentAt(j)))
    BY <1>1, <2>1, LaidOutSegments
  <2>6. CASE j = seg
    BY <2>1, <2>2, <2>3, <2>4, <2>5, <2>6
  <2>7. CASE j # seg
    <3>1. SegmentsFit(Phdr, SegmentAt(j))
      BY <1>1, <2>1, <2>7, LaidOutSegments DEF SegmentsFit
    <3>2. /\ ~TooBig(SegmentAt(j)) /\ Held(SegmentAt(j))
          /\ file.arch \in {100, 103} => RodataHeld(SegmentAt(j))
      BY <1>3, <1>6, <2>7
    <3> QED BY <2>2, <2>3, <2>4, <2>5, <3>1, <3>2
  <2> QED BY <2>6, <2>7
<1>7. CASE IsLoaded(Phdr) /\ InFlash(Phdr)
  <2>1. /\ ~TooBig(Phdr) /\ flash' = Write(flash, Phdr.paddr, Phdr.bytes)
        /\ ram' = RamAfter(Phdr, flash') /\ eeprom' = eeprom
    BY <1>7 DEF LoadSegment, leave
  <2>2. ASSUME NEW j \in LoadedAt, j < seg \/ j = seg
        PROVE  LET q == SegmentAt(j) IN
               /\ ~TooBig(q)
               /\ q.paddr < DATA_VADDR => HeldAt(flash', q.paddr, q.bytes)
               /\ InEeprom(q) => HeldAt(eeprom', q.vaddr - EEPROM_VADDR, q.bytes)
               /\ InitializesData(q) => HeldAt(ram', q.vaddr - DATA_VADDR, q.bytes)
               /\ file.arch \in {100, 103} /\ IsRodata(q) /\ do.pm = 0 /\ RightArch =>
                    HeldAt(ram', q.vaddr, q.bytes)
    <3> DEFINE p == Phdr  q == SegmentAt(j)
    <3>1. /\ p \in PhdrType /\ Len(p.bytes) <= p.memsz /\ Len(p.bytes) > 0
          /\ q \in PhdrType /\ Len(q.bytes) <= q.memsz /\ Len(q.bytes) > 0
          /\ SegmentLinked(p) /\ SegmentLinked(q)
          /\ q = p \/ (Held(q) /\ SegmentsFit(p, q))
          /\ file.arch \in {100, 103} => q = p \/ RodataHeld(q)
          /\ InitializesData(p) /\ ShownInRam(q) => Disjoint(InDataAt(p), ShownAt(q))
          /\ ~TooBig(q)
      BY <1>6, <1>7, <2>1, <2>2
    <3>2. p = Phdr /\ q = SegmentAt(j)
      OBVIOUS
    <3> HIDE DEF p, q
    <3>3. /\ InFlash(p) /\ flash' = Write(flash, p.paddr, p.bytes) /\ ram' = RamAfter(p, flash')
      BY <1>7, <2>1, <3>2
    <3>4. /\ q.paddr < DATA_VADDR => HeldAt(flash', q.paddr, q.bytes)
          /\ InitializesData(q) => HeldAt(ram', q.vaddr - DATA_VADDR, q.bytes)
      BY <1>1, <3>1, <3>3, LoadedHeld
    <3>5. InEeprom(q) => HeldAt(eeprom', q.vaddr - EEPROM_VADDR, q.bytes)
      BY <2>1, <3>1, <3>3 DEF Held, InFlash
    <3>6. file.arch \in {100, 103} /\ IsRodata(q) /\ do.pm = 0 /\ RightArch => HeldAt(ram', q.vaddr, q.bytes)
      <4>1. IsRodata(q) => q.paddr < DATA_VADDR
        BY <3>1 DEF SegmentLinked, RodataLinked
      <4> QED BY <1>1, <3>1, <3>3, <3>4, <4>1, LoadedRodata DEF LineRead
    <3> QED BY <3>1, <3>2, <3>4, <3>5, <3>6
  <2>3. SegmentsHeld'
    BY <1>4, <2>2
  <2> QED BY <2>3
<1>8. CASE IsLoaded(Phdr) /\ ~InFlash(Phdr)
  <2>1. /\ ~TooBig(Phdr) /\ flash' = flash /\ ram' = ram
        /\ eeprom' = IF InEeprom(Phdr)
                     THEN Write(eeprom, Phdr.paddr - EEPROM_VADDR, Phdr.bytes) ELSE eeprom
    BY <1>8 DEF LoadSegment, leave
  <2>2. ASSUME NEW j \in LoadedAt, j < seg \/ j = seg
        PROVE  LET q == SegmentAt(j) IN
               /\ ~TooBig(q)
               /\ q.paddr < DATA_VADDR => HeldAt(flash', q.paddr, q.bytes)
               /\ InEeprom(q) => HeldAt(eeprom', q.vaddr - EEPROM_VADDR, q.bytes)
               /\ InitializesData(q) => HeldAt(ram', q.vaddr - DATA_VADDR, q.bytes)
               /\ file.arch \in {100, 103} /\ IsRodata(q) /\ do.pm = 0 /\ RightArch =>
                    HeldAt(ram', q.vaddr, q.bytes)
    <3> DEFINE p == Phdr  q == SegmentAt(j)
    <3>1. /\ p \in PhdrType /\ Len(p.bytes) <= p.memsz /\ Len(p.bytes) > 0
          /\ q \in PhdrType /\ Len(q.bytes) <= q.memsz /\ Len(q.bytes) > 0
          /\ SegmentLinked(p) /\ SegmentLinked(q)
          /\ q = p \/ (Held(q) /\ SegmentsFit(p, q))
          /\ file.arch \in {100, 103} => q = p \/ RodataHeld(q)
          /\ ~TooBig(q)
      BY <1>6, <1>8, <2>1, <2>2
    <3>2. p = Phdr /\ q = SegmentAt(j)
      OBVIOUS
    <3> HIDE DEF p, q
    <3>3. /\ ~InFlash(p) /\ ~TooBig(p)
          /\ eeprom' = IF InEeprom(p) THEN Write(eeprom, p.paddr - EEPROM_VADDR, p.bytes) ELSE eeprom
      BY <1>8, <2>1, <3>2
    <3>4. ~(p.paddr < DATA_VADDR) /\ ~InitializesData(p) /\ ~IsRodata(p)
      BY <3>1, <3>3, SegmentElsewhere DEF SegmentLinked, InitializesData, RodataLinked
    <3>5. /\ q.paddr < DATA_VADDR => HeldAt(flash', q.paddr, q.bytes)
          /\ InitializesData(q) => HeldAt(ram', q.vaddr - DATA_VADDR, q.bytes)
          /\ file.arch \in {100, 103} /\ IsRodata(q) /\ do.pm = 0 /\ RightArch => HeldAt(ram', q.vaddr, q.bytes)
      BY <2>1, <3>1, <3>4 DEF Held, RodataHeld
    <3>6. InEeprom(q) => HeldAt(eeprom', q.vaddr - EEPROM_VADDR, q.bytes)
      <4>1. CASE InEeprom(p)
        <5>1. p.vaddr = p.paddr
          BY <3>1, <4>1 DEF SegmentLinked
        <5>2. InEeprom(q) => q = p \/ (/\ HeldAt(eeprom, q.vaddr - EEPROM_VADDR, q.bytes)
                                      /\ Disjoint(InEepromAt(q), InEepromAt(p)))
          BY <3>1, <4>1 DEF Held, SegmentsFit, SegmentsApart
        <5> QED BY <1>1, <3>1, <3>3, <4>1, <5>1, <5>2, EepromAfter
      <4>2. CASE ~InEeprom(p)
        BY <3>1, <3>3, <4>2 DEF Held
      <4> QED BY <4>1, <4>2
    <3> QED BY <3>1, <3>2, <3>5, <3>6
  <2>3. SegmentsHeld'
    BY <1>4, <2>2
  <2> QED BY <2>3
<1> QED BY <1>5, <1>7, <1>8

-----------------------------------------------------------------------------
(* Steps that leave the memories alone                                      *)

MemoriesRest == UNCHANGED << flash, ram, eeprom, seg, argc_argv >>

LEMMA HeldRests ==
  ASSUME FileRead, MemoriesRest
  PROVE  /\ \A p : (Held(p)' <=> Held(p)) /\ (RodataHeld(p)' <=> RodataHeld(p))
         /\ ArgsPassed' <=> ArgsPassed
<1>1. /\ file' = file /\ do' = do /\ arch' = arch /\ \A p : InitializesData(p)' <=> InitializesData(p)
  BY FileReads DEF FileRead
<1>2. \A p : Held(p)' <=> Held(p)
  BY <1>1 DEF Held, HeldAt, MemoriesRest
<1>3. \A p : RodataHeld(p)' <=> RodataHeld(p)
  BY <1>1 DEF RodataHeld, HeldAt, IsRodata, RightArch, MemoriesRest
<1>4. ArgsPassed' <=> ArgsPassed
  <2>1. ArgStrings' = ArgStrings
    BY DEF FileRead, ArgStrings
  <2> HIDE DEF ArgStrings
  <2> QED BY <1>1, <2>1 DEF ArgsPassed, ArgsHeld, HeldAt, WordAt, MemoriesRest
<1> QED BY <1>2, <1>3, <1>4

PhaseGoesOn ==
  \/ phase' = "left" \/ phase' = phase
  \/ phase = "segments" /\ phase' = "mask" /\ seg > Len(file.phdrs)
  \/ phase = "mask" /\ phase' = "decode"
  \/ phase = "decode" /\ phase' = "run"

StageGoesOn ==
  \/ stage' = stage
  \/ /\ phase = "run"
     /\ \/ stage' = "reset"
        \/ stage' = "init4" /\ WithFlmap
        \/ stage' = "init8" /\ ~WithFlmap
        \/ stage = "abort_2nd_hit" /\ stage' = "main"

LEMMA MemoryRests ==
  ASSUME MemoryInv, FileRead, MemoriesRest, LineRests, PhaseGoesOn, StageGoesOn
  PROVE  MemoryInv'
<1>1. LineRead'
  BY LineKept DEF MemoryInv, LineRead, PhaseGoesOn
<1>2. file' = file /\ LoadedAt' = LoadedAt /\ (\A j : SegmentAt(j)' = SegmentAt(j)) /\ seg' = seg
  BY FileReads DEF MemoriesRest
<1>3. StageInv'
  <2>1. Addressed(flash') /\ Addressed(ram') /\ Addressed(eeprom')
    BY DEF MemoryInv, StageInv, MemoriesRest
  <2>2. phase' \notin {"run", "left"} => stage' = "reset"
    BY DEF MemoryInv, StageInv, PhaseGoesOn, StageGoesOn
  <2>3. Afterwards' /\ file'.elf => seg' > Len(file'.phdrs)
    BY <1>2 DEF MemoryInv, StageInv, PhaseGoesOn, Afterwards
  <2>4. Running_' /\ stage' = "init4" => WithFlmap'
    <3>1. WithFlmap' <=> WithFlmap
      BY <1>2 DEF WithFlmap
    <3> QED BY <3>1 DEF MemoryInv, StageInv, PhaseGoesOn, StageGoesOn, Running_
  <2> QED BY <2>1, <2>2, <2>3, <2>4 DEF StageInv, Addressed
<1>4. ASSUME LaidOut' PROVE Filled'
  <2>1. LaidOut /\ Filled
    BY <1>4, LayoutKept DEF MemoryInv
  <2>2. SegmentsHeld'
    <3>1. phase' = "segments" \/ (Afterwards' /\ file.elf) => phase = "segments" \/ (Afterwards /\ file.elf)
      BY DEF PhaseGoesOn, Afterwards
    <3>2. \A p : TooBig(p)' <=> TooBig(p)
      BY FileReads
    <3> QED BY <1>2, <2>1, <3>1, <3>2, HeldRests DEF Filled, SegmentsHeld
  <2>3. FlmapHeld'
    <3>1. WithFlmap' <=> WithFlmap
      BY <1>2 DEF WithFlmap
    <3>2. Running_' => Running_ \/ stage' = "reset"
      BY DEF Running_, PhaseGoesOn, MemoryInv, StageInv, StageGoesOn
    <3>3. Running_' /\ WithFlmap /\ stage' \in {"init8", "abort_2nd_hit", "main"} =>
            Running_ /\ stage \in {"init8", "abort_2nd_hit", "main"}
      BY <3>2 DEF StageGoesOn
    <3> QED BY <1>2, <2>1, <3>1, <3>3, HeldRests DEF Filled, FlmapHeld
  <2>4. Running_' /\ stage' \in {"abort_2nd_hit", "main"} => ArgsPassed'
    <3>1. Running_' => Running_ \/ stage' = "reset"
      BY DEF Running_, PhaseGoesOn, MemoryInv, StageInv, StageGoesOn
    <3>2. Running_' /\ stage' \in {"abort_2nd_hit", "main"} => Running_ /\ stage \in {"abort_2nd_hit", "main"}
      BY <3>1 DEF StageGoesOn
    <3> QED BY <2>1, <3>2, HeldRests DEF Filled
  <2> QED BY <2>2, <2>3, <2>4 DEF Filled
<1> QED BY <1>1, <1>3, <1>4 DEF MemoryInv, LineRead

-----------------------------------------------------------------------------
(* Up to the end of loading                                                 *)

(* As long as nothing is loaded, and no file is, there is nothing to hold.   *)
LEMMA NothingHeld ==
  ASSUME LineRead', StageInv', phase' \notin {"segments", "run"}, ~(Afterwards' /\ file'.elf)
  PROVE  MemoryInv'
<1>1. Filled'
  BY DEF Filled, SegmentsHeld, FlmapHeld, Running_
<1> QED BY <1>1 DEF MemoryInv, LineRead

LEMMA ReadingMemory ==
  ASSUME SessionInv, MemoryInv, parse_args, UNCHANGED << isa, is_log, argv, loadVars, hostVars, targetVars >>
  PROVE  MemoryInv'
<1>1. LineRead' /\ phase' \in {"options", "open", "left"}
  BY ReadingLine DEF MemoryInv, LineRead
<1>2. ~Afterwards'
  BY <1>1 DEF Afterwards
<1>3. phase \in {"help", "options"}
  BY DEF parse_args, Help, Usage, NoStream, Flag, ProgramName, Mmcu, EntryPoint, FlashPmOffset, Sandbox,
         Args, MaxInstrCount, Size, Graph, EndOfWords, IsOption, Parsing
<1>4. StageInv'
  BY <1>2, <1>3 DEF MemoryInv, StageInv, loadVars, targetVars, Addressed, Running_
<1> QED BY <1>1, <1>2, <1>4, NothingHeld

LEMMA LoadingMemory ==
  ASSUME SessionInv, MemoryInv, load_to_flash, UNCHANGED << isa, is_log, argv, hostVars, targetVars >>
  PROVE  MemoryInv'
<1>1. /\ LineRead /\ StageInv /\ (LaidOut => SegmentsHeld) /\ UNCHANGED << argc_argv, stage >>
      /\ argv' = argv
  BY DEF MemoryInv, LineRead, Filled, hostVars, targetVars
<1>2. CASE OpenProgram
  <2>1. phase = "open" /\ LineRests /\ phase' \in {"left", "header", "mask"} /\ stage' = "reset"
        /\ UNCHANGED << ram, eeprom >>
    BY <1>1, <1>2 DEF OpenProgram, Stay, LineRests, leave, StageInv
  <2>2. file' = file /\ (phase' = "mask" => ~file.elf /\ program.name \in DOMAIN ProgramFiles)
    BY <1>2, <2>1, FileRests DEF OpenProgram, LineRests, leave
  <2>3. LineRead'
    BY <1>1, <2>1, <2>2, LineKept
  <2>4. Addressed(flash')
    <3>1. CASE flash' = flash
      BY <1>1, <3>1 DEF StageInv
    <3>2. CASE program.name \in DOMAIN ProgramFiles /\ ~file.elf /\ flash' = Write(flash, 0, file.bytes)
      <4>1. Len(file.bytes) \in Nat
        BY <3>2, FileIs
      <4> QED BY <1>1, <3>2, <4>1, ReadWritten DEF StageInv
    <3> QED BY <1>2, <3>1, <3>2 DEF OpenProgram
  <2>5. ~(Afterwards' /\ file'.elf)
    BY <2>1, <2>2 DEF Afterwards
  <2>6. StageInv'
    BY <1>1, <2>1, <2>4, <2>5 DEF StageInv, Addressed, Running_
  <2> QED BY <2>1, <2>3, <2>5, <2>6, NothingHeld
<1>3. CASE LoadHeader
  <2>1. LineRead' /\ phase' \in {"sections", "left"}
    BY <1>1, <1>3, LoadHeaderLine
  <2>2. ~Afterwards'
    BY <2>1 DEF Afterwards
  <2>3. StageInv'
    BY <1>1, <1>3, <2>2 DEF LoadHeader, StageInv, loadVars, Addressed, Running_
  <2> QED BY <2>1, <2>2, <2>3, NothingHeld
<1>4. CASE LoadSections
  <2>1. LineRead' /\ phase' \in {"segments", "left"}
    BY <1>1, <1>4, LoadSectionsLine
  <2>2. ~Afterwards'
    BY <2>1 DEF Afterwards
  <2>3. StageInv'
    BY <1>1, <1>4, <2>2 DEF LoadSections, StageInv, Addressed, Running_
  <2>4. seg' = 1
    BY <1>4 DEF LoadSections, SessionInv, PhaseInv
  <2>5. Filled'
    BY <2>1, <2>2, <2>4 DEF Filled, SegmentsHeld, FlmapHeld, Running_, LoadedAt
  <2> QED BY <2>1, <2>3, <2>5 DEF MemoryInv, LineRead
<1>5. CASE LoadSegment
  <2>1. phase = "segments" /\ LineRests /\ phase' \in {"left", "segments"} /\ FileRead
    BY <1>5 DEF LoadSegment, Stay, LineRests, FileRead, leave
  <2>2. LineRead'
    BY <1>1, <2>1, LineKept
  <2>3. ~Afterwards'
    BY <2>1 DEF Afterwards
  <2>4. CASE phase' = "left"
    <3>1. IsLoaded(Phdr) /\ TooBig(Phdr) /\ UNCHANGED << flash, ram, eeprom >>
      BY <1>5, <2>1, <2>4 DEF LoadSegment
    <3>2. StageInv'
      BY <1>1, <2>3, <2>4, <3>1 DEF StageInv, Addressed, Running_
    <3> QED BY <2>2, <2>3, <2>4, <3>2, NothingHeld
  <2>5. CASE phase' = "segments"
    <3>1. Addressed(flash') /\ Addressed(ram') /\ Addressed(eeprom')
      BY <1>1, <1>5, <2>5, SegmentAddressed
    <3>2. StageInv'
      BY <1>1, <2>1, <2>3, <2>5, <3>1 DEF StageInv, Addressed, Running_
    <3>3. LaidOut' => Filled'
      <4>1. LaidOut' => SegmentsHeld'
        BY <1>1, <1>5, <2>1, <2>5, LayoutKept, SegmentsLoaded
      <4> QED BY <2>5, <4>1 DEF Filled, FlmapHeld, Running_
    <3> QED BY <2>2, <3>2, <3>3 DEF MemoryInv, LineRead
  <2> QED BY <2>1, <2>4, <2>5
<1>6. CASE CheckArch \/ SetMask \/ Decode
  <2>1. LineRests /\ FileRead /\ MemoriesRest /\ StageGoesOn
    BY <1>1, <1>6 DEF CheckArch, SetMask, Decode, optionVars, loadVars, LineRests, FileRead, MemoriesRest, StageGoesOn
  <2>2. PhaseGoesOn
    BY <1>6 DEF CheckArch, SetMask, Decode, leave, Crash, PhaseGoesOn
  <2> QED BY <2>1, <2>2, MemoryRests
<1> QED BY <1>2, <1>3, <1>4, <1>5, <1>6 DEF load_to_flash

-----------------------------------------------------------------------------
(* The window of FLMAP                                                      *)

LEMMA RodataLmaIs ==
  ASSUME ArchType
  PROVE  rodata_lma(3) \in Int
<1> DEFINE n == arch.desc.flash_addr_mask + 1
<1>1. n \in Nat /\ n > 0
  BY DEF ArchType, DescType, K64, K128, K256
<1>2. rodata_lma(3) = (RodataLen * (3 % 4)) % n
  BY DEF rodata_lma
<1>3. RodataLen * (3 % 4) = 98304
  BY DEF RodataLen
<1> HIDE DEF n
<1> QED BY <1>1, <1>2, <1>3

(* The last 32 KiB of flash.                                                *)
LEMMA LmaIsLinked ==
  ASSUME OffsetRead, RightArch, file.arch \in {102, 104}
  PROVE  rodata_lma(3) = LinkedWindow
<1>1. arch.desc.flash_addr_mask + 1 = IF file.arch = 104 THEN 131072 ELSE 65536
  BY ArchOf, Descs DEF OffsetRead, DescOf
<1>2. rodata_lma(3) = (RodataLen * (3 % 4)) % (arch.desc.flash_addr_mask + 1)
  BY DEF rodata_lma
<1>3. RodataLen * (3 % 4) = 98304
  BY DEF RodataLen
<1> HIDE DEF RodataLen, rodata_lma
<1>4. rodata_lma(3) = 98304 % (IF file.arch = 104 THEN 131072 ELSE 65536)
  BY <1>1, <1>2, <1>3
<1> QED BY <1>4 DEF LinkedWindow

(* What RAM holds when the window shows flash from lma on.                   *)
Windowed(mem, lma) ==
  /\ Addressed(mem)
  /\ \A a \in Int :
       Read(mem, a) = IF a < RodataVma THEN Read(ram, a)
                      ELSE IF a - RodataVma \in 0 .. RodataLen - 1 THEN Read(flash, a - RodataVma + lma)
                      ELSE 0

LEMMA FlmapWindow ==
  ASSUME Addressed(flash), Addressed(ram), rodata_lma(3) \in Int, sys_misc_flmap(3)
  PROVE  Windowed(ram', rodata_lma(3))
<1> DEFINE lma == rodata_lma(3)
           vma == RodataVma
           n == RodataLen
           shown == {a \in DOMAIN flash : a - lma \in 0 .. n - 1}
           dom == {b \in DOMAIN ram : b < vma} \cup {vma + b - lma : b \in shown}
<1>1. ram' = [a \in dom |-> IF a < vma THEN ram[a] ELSE flash[a - vma + lma]]
  BY DEF sys_misc_flmap
<1>2. vma \in Int /\ n \in Int /\ lma \in Int /\ lma = rodata_lma(3) /\ vma = RodataVma /\ n = RodataLen
  BY DEF RodataVma, RodataLen
<1> HIDE DEF vma, n, lma
<1>3. DOMAIN ram' = dom /\ dom \subseteq Int
  BY <1>1, <1>2 DEF Addressed
<1>4. ASSUME NEW a \in Int
      PROVE  Read(ram', a) = IF a < vma THEN Read(ram, a)
                             ELSE IF a - vma \in 0 .. n - 1 THEN Read(flash, a - vma + lma) ELSE 0
  <2>1. CASE a < vma
    <3>1. a \in dom <=> a \in DOMAIN ram
      BY <1>2, <2>1 DEF Addressed
    <3> HIDE DEF dom
    <3> QED BY <1>1, <2>1, <3>1 DEF Read
  <2>2. CASE ~(a < vma)
    <3>1. a \in dom <=> a - vma + lma \in DOMAIN flash /\ a - vma \in 0 .. n - 1
      <4>1. ASSUME a \in dom PROVE a - vma + lma \in DOMAIN flash /\ a - vma \in 0 .. n - 1
        <5>1. PICK b \in shown : a = vma + b - lma
          BY <1>2, <2>2, <4>1
        <5>2. b \in Int /\ b - lma \in 0 .. n - 1 /\ b \in DOMAIN flash
          BY <5>1 DEF Addressed
        <5>3. a - vma + lma = b /\ a - vma = b - lma
          BY <1>2, <5>1, <5>2
        <5> QED BY <5>2, <5>3
      <4>2. ASSUME a - vma + lma \in DOMAIN flash, a - vma \in 0 .. n - 1 PROVE a \in dom
        <5> DEFINE b == a - vma + lma
        <5>1. b \in Int /\ b - lma = a - vma /\ vma + b - lma = a
          BY <1>2
        <5>2. b \in shown
          BY <4>2, <5>1
        <5> QED BY <5>1, <5>2
      <4> QED BY <4>1, <4>2
    <3> HIDE DEF dom
    <3> QED BY <1>1, <2>2, <3>1 DEF Read
  <2> QED BY <2>1, <2>2
<1> QED BY <1>2, <1>3, <1>4 DEF Windowed, Addressed

(* .data is below the window, .rodata in it.                                 *)
LEMMA FlmapHolds ==
  ASSUME NEW ra, Windowed(ra, rodata_lma(3)), OffsetRead, WithFlmap, LaidOut, file.elf,
         NEW q \in PhdrType, SegmentLinked(q), Held(q)
  PROVE  /\ InitializesData(q) => HeldAt(ra, q.vaddr - DATA_VADDR, q.bytes)
         /\ IsRodata(q) /\ do.pm = 0 /\ RightArch => HeldAt(ra, q.vaddr, q.bytes)
<1>1. q.paddr \in Nat /\ q.vaddr \in Nat /\ Len(q.bytes) \in Nat /\ filesz(q) = Len(q.bytes)
  BY DEF PhdrType, filesz
<1>2. ASSUME InitializesData(q) PROVE HeldAt(ra, q.vaddr - DATA_VADDR, q.bytes)
  <2> DEFINE at == q.vaddr - DATA_VADDR
  <2>1. at \in Int /\ HeldAt(ram, at, q.bytes)
    BY <1>1, <1>2, Addresses DEF Held
  <2>2. \A a \in at .. at + Len(q.bytes) - 1 : a < RodataVma
    BY <1>1, <1>2 DEF SegmentLinked, InDataAt
  <2> HIDE DEF at
  <2> SUFFICES ASSUME NEW k \in 0 .. Len(q.bytes) - 1
               PROVE  Read(ra, at + k) = q.bytes[k + 1]
    BY DEF HeldAt, at
  <2>3. at + k \in at .. at + Len(q.bytes) - 1 /\ at + k \in Int
    BY <1>1, <2>1
  <2>4. at + k < RodataVma
    BY <2>2, <2>3
  <2>5. Read(ra, at + k) = Read(ram, at + k)
    BY <2>3, <2>4 DEF Windowed
  <2> QED BY <2>1, <2>5 DEF HeldAt
<1>3. ASSUME IsRodata(q), do.pm = 0, RightArch PROVE HeldAt(ra, q.vaddr, q.bytes)
  <2> DEFINE vma == RodataVma  lma == LinkedWindow  n == RodataLen  v == q.vaddr  p == q.paddr
             len == Len(q.bytes)
  <2>1. /\ p < DATA_VADDR /\ file.arch \in {102, 104}
        /\ v - vma = p - lma /\ v >= vma /\ v + len <= vma + n
    BY <1>1, <1>3 DEF SegmentLinked, RodataLinked, LaidOut
  <2>2. rodata_lma(3) = lma
    BY <1>3, <2>1, LmaIsLinked
  <2>3. HeldAt(flash, p, q.bytes)
    BY <2>1 DEF Held
  <2>4. /\ lma \in Int /\ vma \in Int /\ n \in Int /\ v \in Int /\ p \in Int /\ len \in Nat
        /\ vma = RodataVma /\ n = RodataLen /\ len = Len(q.bytes)
    BY <1>1 DEF LinkedWindow, RodataVma, RodataLen
  <2> HIDE DEF vma, lma, n, v, p, len
  <2> SUFFICES ASSUME NEW k \in 0 .. len - 1
               PROVE  Read(ra, v + k) = q.bytes[k + 1]
    BY <2>4 DEF HeldAt, v
  <2>5. /\ v + k \in Int /\ ~(v + k < vma) /\ v + k - vma \in 0 .. n - 1
        /\ v + k - vma + lma = p + k
    BY <2>1, <2>4
  <2>6. Read(ra, v + k) = Read(flash, v + k - vma + lma)
    BY <2>2, <2>4, <2>5 DEF Windowed
  <2> QED BY <2>3, <2>4, <2>5, <2>6 DEF HeldAt
<1> QED BY <1>2, <1>3

LEMMA FlmapMemory ==
  ASSUME SessionInv, MemoryInv, avrtest_init_rodata, argv' = argv
  PROVE  MemoryInv'
<1>1. /\ phase = "run" /\ phase' = "run" /\ stage = "init4" /\ stage' = "init8"
      /\ LineRests /\ FileRead /\ UNCHANGED << flash, eeprom, seg >> /\ sys_misc_flmap(3)
  BY DEF avrtest_init_rodata, sys_misc_flmap, Target, Unchanged, optionVars, LineRests, FileRead
<1>2. LineRead /\ LineRead'
  BY <1>1, LineKept DEF MemoryInv, LineRead
<1>3. /\ file' = file /\ LoadedAt' = LoadedAt /\ (\A j : SegmentAt(j)' = SegmentAt(j))
      /\ do' = do /\ arch' = arch
      /\ \A p : (TooBig(p)' <=> TooBig(p)) /\ (InitializesData(p)' <=> InitializesData(p))
  BY <1>1, FileReads DEF FileRead
<1>4. /\ WithFlmap /\ Addressed(flash) /\ Addressed(ram) /\ Addressed(eeprom)
      /\ (file.elf => seg > Len(file.phdrs)) /\ program.name \in DOMAIN ProgramFiles
  BY <1>1 DEF MemoryInv, StageInv, Running_, Afterwards, SessionInv, PhaseInv
<1>5. Windowed(ram', rodata_lma(3))
  BY <1>1, <1>4, RodataLmaIs, FlmapWindow DEF SessionInv
<1>6. StageInv'
  BY <1>1, <1>3, <1>4, <1>5 DEF StageInv, Windowed, Addressed, Afterwards, Running_
<1>7. ASSUME LaidOut, file.elf, NEW j \in LoadedAt
      PROVE  ~TooBig(SegmentAt(j)) /\ Held(SegmentAt(j))' /\ RodataHeld(SegmentAt(j))'
  <2>1. SegmentAt(j) \in PhdrType
    BY <1>4, <1>7, SegmentFacts
  <2>2. ~TooBig(SegmentAt(j)) /\ Held(SegmentAt(j)) /\ SegmentLinked(SegmentAt(j))
    <3>1. file.phdrs \in Seq(PhdrType) /\ seg \in Nat
      BY <1>4, <1>7, FileIs DEF SessionInv, ArchType
    <3>2. j < seg
      BY <1>4, <1>7, <3>1 DEF LoadedAt
    <3> QED BY <1>1, <1>7, <3>2, LaidOutSegments DEF MemoryInv, Filled, SegmentsHeld, Afterwards
  <2>3. LET q == SegmentAt(j) IN
        /\ InitializesData(q) => HeldAt(ram', q.vaddr - DATA_VADDR, q.bytes)
        /\ IsRodata(q) /\ do.pm = 0 /\ RightArch => HeldAt(ram', q.vaddr, q.bytes)
    BY <1>2, <1>4, <1>5, <1>7, <2>1, <2>2, FlmapHolds DEF LineRead
  <2>4. Held(SegmentAt(j))'
    BY <1>1, <1>3, <2>2, <2>3 DEF Held, HeldAt
  <2>5. RodataHeld(SegmentAt(j))'
    BY <1>3, <2>3 DEF RodataHeld, HeldAt, IsRodata, RightArch
  <2> QED BY <2>2, <2>4, <2>5
<1>8. ASSUME LaidOut' PROVE Filled'
  <2>1. LaidOut
    BY <1>1, <1>8, LayoutKept
  <2>2. SegmentsHeld'
    BY <1>1, <1>3, <1>7, <2>1 DEF SegmentsHeld, Afterwards
  <2>3. FlmapHeld'
    BY <1>3, <1>7, <2>1 DEF FlmapHeld
  <2> QED BY <1>1, <2>2, <2>3 DEF Filled
<1> QED BY <1>2, <1>6, <1>8 DEF MemoryInv, LineRead

-----------------------------------------------------------------------------
(* Sequences that are put behind each other                                 *)

(* What FlattenSeq computes, up to the n-th sequence.                       *)
Flattens(F, ss, n) ==
  F = [k \in 1 .. n |-> IF k = 1 THEN ss[k] ELSE F[k - 1] \o ss[k]]

LEMMA FlattensExists ==
  ASSUME NEW ss, NEW n \in Nat \ {0}
  PROVE  \E F : Flattens(F, ss, n)
<1> DEFINE Bad == {m \in Nat \ {0} : ~ \E F : Flattens(F, ss, m)}
<1> SUFFICES ASSUME Bad # {} PROVE FALSE
  OBVIOUS
<1>1. PICK m \in Bad : \A k \in Bad : m <= k
  <2>1. Bad \subseteq Nat
    OBVIOUS
  <2> HIDE DEF Bad
  <2> QED BY <2>1, Least
<1>2. m \in Nat \ {0} /\ ~ \E F : Flattens(F, ss, m)
  OBVIOUS
<1>3. CASE m = 1
  <2> DEFINE F == [k \in 1 .. 1 |-> ss[k]]
  <2>1. F = [k \in 1 .. 1 |-> IF k = 1 THEN ss[k] ELSE F[k - 1] \o ss[k]]
    OBVIOUS
  <2> QED BY <1>2, <1>3, <2>1 DEF Flattens
<1>4. CASE m # 1
  <2>1. m - 1 \in Nat \ {0} /\ m - 1 \notin Bad
    BY <1>1, <1>2, <1>4
  <2>2. PICK G : Flattens(G, ss, m - 1)
    BY <2>1
  <2> DEFINE F == [k \in 1 .. m |-> IF k = m THEN G[m - 1] \o ss[m] ELSE G[k]]
             H == [k \in 1 .. m |-> IF k = 1 THEN ss[k] ELSE F[k - 1] \o ss[k]]
  <2>3. \A k \in 1 .. m - 1 : G[k] = IF k = 1 THEN ss[k] ELSE G[k - 1] \o ss[k]
    BY <2>2 DEF Flattens
  <2>4. \A k \in 1 .. m - 1 : F[k] = G[k]
    <3>1. \A k \in 1 .. m - 1 : k \in 1 .. m /\ k # m
      BY <1>2
    <3> QED BY <3>1
  <2>5. F[m] = G[m - 1] \o ss[m]
    <3>1. m \in 1 .. m
      BY <1>2
    <3> QED BY <3>1
  <2> HIDE DEF F
  <2>6. \A k \in 1 .. m : F[k] = IF k = 1 THEN ss[k] ELSE F[k - 1] \o ss[k]
    <3> TAKE k \in 1 .. m
    <3>1. CASE k = m
      <4>1. m - 1 \in 1 .. m - 1
        BY <2>1
      <4> QED BY <1>4, <2>4, <2>5, <3>1, <4>1
    <3>2. CASE k # m /\ k = 1
      <4>1. k \in 1 .. m - 1
        BY <1>2, <3>2
      <4> QED BY <2>3, <2>4, <3>2, <4>1
    <3>3. CASE k # m /\ k # 1
      <4>1. k \in 1 .. m - 1 /\ k - 1 \in 1 .. m - 1
        BY <1>2, <3>3
      <4> QED BY <2>3, <2>4, <3>3, <4>1
    <3> QED BY <3>1, <3>2, <3>3
  <2>7. F = H
    BY <2>6 DEF F
  <2> QED BY <1>2, <2>7 DEF Flattens
<1> QED BY <1>3, <1>4

(* It depends on the first n sequences only.                                *)
LEMMA FlattensAgree ==
  ASSUME NEW ss, NEW tt, NEW n \in Nat, NEW m \in Nat, n <= m,
         \A j \in 1 .. n : ss[j] = tt[j],
         NEW F, NEW G, Flattens(F, ss, n), Flattens(G, tt, m)
  PROVE  \A k \in 1 .. n : F[k] = G[k]
<1> DEFINE Bad == {k \in 1 .. n : F[k] # G[k]}
<1> SUFFICES ASSUME Bad # {} PROVE FALSE
  OBVIOUS
<1>1. PICK k \in Bad : \A l \in Bad : k <= l
  <2>1. Bad \subseteq Nat
    OBVIOUS
  <2> HIDE DEF Bad
  <2> QED BY <2>1, Least
<1>2. k \in 1 .. n /\ k \in 1 .. m /\ F[k] # G[k] /\ ss[k] = tt[k]
  OBVIOUS
<1>3. F[k] = (IF k = 1 THEN ss[k] ELSE F[k - 1] \o ss[k])
  BY <1>2 DEF Flattens
<1>4. G[k] = (IF k = 1 THEN tt[k] ELSE G[k - 1] \o tt[k])
  BY <1>2 DEF Flattens
<1>5. k # 1 => k - 1 \in 1 .. n /\ k - 1 \notin Bad
  BY <1>1, <1>2
<1> QED BY <1>2, <1>3, <1>4, <1>5

(* FlattenSeq is the last of these sums.                                   *)
LEMMA FlattenIs ==
  ASSUME NEW ss, Len(ss) \in Nat \ {0}
  PROVE  \E F : Flattens(F, ss, Len(ss)) /\ FlattenSeq(ss) = F[Len(ss)]
<1> DEFINE G == CHOOSE F : Flattens(F, ss, Len(ss))
<1>1. Flattens(G, ss, Len(ss))
  BY FlattensExists
<1>2. FlattenSeq(ss) = G[Len(ss)]
  BY DEF FlattenSeq, Flattens
<1> QED BY <1>1, <1>2

(* Two sequences behind each other.                                         *)
IsCat(h, f, g) ==
  /\ Len(h) = Len(f) + Len(g)
  /\ \A m \in 1 .. Len(f) : h[m] = f[m]
  /\ \A m \in 1 .. Len(g) : h[Len(f) + m] = g[m]

LEMMA Both ==
  ASSUME NEW S, NEW f \in Seq(S), NEW g \in Seq(S), NEW h, h = f \o g
  PROVE  h \in Seq(S) /\ IsCat(h, f, g)
BY DEF IsCat

(* n sequences of elements of S, and pairs of them.                          *)
SeqsOf(ss, n, S) == \A k \in 1 .. n : ss[k] \in Seq(S)
PairsOf(ss, n, S) == \A k \in 1 .. n : ss[k] \in Seq(S) /\ Len(ss[k]) = 2

(* The sums are sequences of the same elements.                             *)
LEMMA SumsType ==
  ASSUME NEW S, NEW n \in Nat, NEW ss, SeqsOf(ss, n, S),
         NEW F, Flattens(F, ss, n)
  PROVE  \A k \in 1 .. n : F[k] \in Seq(S)
<1> DEFINE Bad == {k \in 1 .. n : F[k] \notin Seq(S)}
<1> SUFFICES ASSUME Bad # {} PROVE FALSE
  OBVIOUS
<1>1. PICK k \in Bad : \A l \in Bad : k <= l
  <2>1. Bad \subseteq Nat
    OBVIOUS
  <2> HIDE DEF Bad
  <2> QED BY <2>1, Least
<1>2. k \in 1 .. n /\ F[k] \notin Seq(S) /\ ss[k] \in Seq(S)
  BY DEF SeqsOf
<1>3. F[k] = (IF k = 1 THEN ss[k] ELSE F[k - 1] \o ss[k])
  BY <1>2 DEF Flattens
<1>4. k # 1 => k - 1 \in 1 .. n /\ k - 1 \notin Bad
  BY <1>1, <1>2
<1>5. k # 1 => F[k - 1] \in Seq(S)
  BY <1>4
<1> QED BY <1>2, <1>3, <1>5, ConcatProperties

(* How long the sum is up to the sequence before the k-th.                   *)
SumBefore(F, k) == IF k = 1 THEN 0 ELSE Len(F[k - 1])

LEMMA BeforeIs ==
  ASSUME NEW n \in Nat, NEW S, NEW ss \in Seq(S), Len(ss) = n, NEW F, Flattens(F, ss, n), NEW k \in 1 .. n
  PROVE  Before(ss, k) = SumBefore(F, k)
<1> DEFINE tt == SubSeq(ss, 1, k - 1)
<1>1. Len(tt) = k - 1 /\ \A j \in 1 .. k - 1 : tt[j] = ss[j]
  OBVIOUS
<1>2. Before(ss, k) = Len(FlattenSeq(tt))
  BY DEF Before
<1> HIDE DEF tt
<1>3. CASE k = 1
  <2>1. Len(tt) = 0
    BY <1>1, <1>3
  <2>2. FlattenSeq(tt) = tt
    BY <2>1 DEF FlattenSeq
  <2> QED BY <1>2, <1>3, <2>1, <2>2 DEF SumBefore
<1>4. CASE k # 1
  <2>1. Len(tt) \in Nat \ {0}
    BY <1>1, <1>4
  <2>2. PICK G : Flattens(G, tt, Len(tt)) /\ FlattenSeq(tt) = G[Len(tt)]
    BY <2>1, FlattenIs
  <2>3. \A j \in 1 .. k - 1 : G[j] = F[j]
    <3>1. k - 1 \in Nat /\ k - 1 <= n /\ Flattens(G, tt, k - 1)
      BY <1>1, <1>4, <2>2
    <3> QED BY <1>1, <3>1, FlattensAgree
  <2>4. k - 1 \in 1 .. k - 1
    BY <1>4
  <2> QED BY <1>1, <1>2, <1>4, <2>2, <2>3, <2>4 DEF SumBefore
<1> QED BY <1>3, <1>4

(* The k-th sequence stands at its place in all sums that it is a part of.   *)
PlacedIn(f, at, q) == at + Len(q) <= Len(f) /\ \A m \in 1 .. Len(q) : f[at + m] = q[m]

LEMMA PlacedLonger ==
  ASSUME NEW S, NEW f \in Seq(S), NEW g \in Seq(S), NEW h, h = f \o g,
         NEW at \in Nat, NEW q \in Seq(S), PlacedIn(f, at, q)
  PROVE  PlacedIn(h, at, q)
<1> DEFINE lf == Len(f)  lg == Len(g)  lh == Len(h)  lq == Len(q)
<1>1. /\ lh = lf + lg /\ lf \in Nat /\ lg \in Nat /\ lq \in Nat
      /\ \A m \in 1 .. lf : h[m] = f[m]
  OBVIOUS
<1>2. at + lq <= lf /\ \A m \in 1 .. lq : f[at + m] = q[m]
  BY DEF PlacedIn
<1> HIDE DEF lf, lg, lh, lq
<1>3. at + lq <= lh
  BY <1>1, <1>2
<1>4. ASSUME NEW m \in 1 .. lq PROVE h[at + m] = q[m]
  <2>1. at + m \in 1 .. lf
    BY <1>1, <1>2
  <2> QED BY <1>1, <1>2, <2>1
<1> QED BY <1>3, <1>4 DEF PlacedIn, lh, lq

LEMMA Placed ==
  ASSUME NEW n \in Nat, NEW S, NEW ss, SeqsOf(ss, n, S),
         NEW F, Flattens(F, ss, n), NEW k \in 1 .. n
  PROVE  SumBefore(F, k) \in Nat /\ \A j \in k .. n : PlacedIn(F[j], SumBefore(F, k), ss[k])
<1> DEFINE at == SumBefore(F, k)
           q == ss[k]
           Bad == {j \in k .. n : ~PlacedIn(F[j], at, q)}
<1>1. /\ \A j \in 1 .. n : F[j] \in Seq(S)
      /\ \A j \in 1 .. n : F[j] = IF j = 1 THEN ss[j] ELSE F[j - 1] \o ss[j]
  BY SumsType DEF Flattens
<1>2. at \in Nat
  <2>1. k # 1 => k - 1 \in 1 .. n
    OBVIOUS
  <2> QED BY <1>1, <2>1 DEF SumBefore
<1>3. q \in Seq(S)
  BY DEF SeqsOf
<1> SUFFICES ASSUME Bad # {} PROVE FALSE
  BY <1>2
<1>4. PICK j \in Bad : \A l \in Bad : j <= l
  <2>1. Bad \subseteq Nat
    OBVIOUS
  <2> HIDE DEF Bad
  <2> QED BY <2>1, Least
<1>5. j \in k .. n /\ j \in 1 .. n /\ ~PlacedIn(F[j], at, q)
  OBVIOUS
<1>6. ASSUME NEW f \in Seq(S), NEW g \in Seq(S)
      PROVE  /\ Len(f \o g) = Len(f) + Len(g)
             /\ \A m \in 1 .. Len(f) : (f \o g)[m] = f[m]
             /\ \A m \in 1 .. Len(g) : (f \o g)[Len(f) + m] = g[m]
  BY ConcatProperties
<1>7. CASE j = k /\ k = 1
  <2>1. F[j] = q /\ at = 0
    BY <1>1, <1>5, <1>7 DEF SumBefore
  <2> HIDE DEF at, q
  <2> QED BY <1>3, <1>5, <2>1 DEF PlacedIn
<1>8. CASE j = k /\ k # 1
  <2>1. F[j] = F[k - 1] \o q /\ at = Len(F[k - 1]) /\ F[k - 1] \in Seq(S)
    <3>1. k - 1 \in 1 .. n
      BY <1>8
    <3> QED BY <1>1, <1>5, <1>8, <3>1 DEF SumBefore
  <2> HIDE DEF at, q
  <2>2. Len(F[j]) = at + Len(q) /\ \A m \in 1 .. Len(q) : F[j][at + m] = q[m]
    BY <1>3, <1>6, <2>1
  <2>3. at + Len(q) <= Len(F[j])
    BY <1>2, <1>3, <2>2
  <2> QED BY <1>5, <2>2, <2>3 DEF PlacedIn
<1>9. CASE j # k
  <2>1. j - 1 \in k .. n /\ j - 1 \in 1 .. n /\ j # 1 /\ ~(j <= j - 1)
    BY <1>5, <1>9
  <2>2. PlacedIn(F[j - 1], at, q)
    BY <1>4, <2>1
  <2>3. F[j] = F[j - 1] \o ss[j] /\ F[j - 1] \in Seq(S) /\ ss[j] \in Seq(S)
    BY <1>1, <1>5, <2>1 DEF SeqsOf
  <2> HIDE DEF at, q
  <2>4. PlacedIn(F[j], at, q)
    BY <1>2, <1>3, <2>2, <2>3, PlacedLonger
  <2> QED BY <1>5, <2>4
<1> QED BY <1>5, <1>7, <1>8, <1>9

(* Sums of pairs.                                                           *)
TwoEach(F, n) == \A j \in 1 .. n : Len(F[j]) = 2 * j

LEMMA PairSums ==
  ASSUME NEW n \in Nat, NEW S, NEW ss, PairsOf(ss, n, S),
         NEW F, Flattens(F, ss, n)
  PROVE  TwoEach(F, n)
<1> DEFINE Bad == {j \in 1 .. n : Len(F[j]) # 2 * j}
<1>1. /\ \A j \in 1 .. n : F[j] \in Seq(S)
      /\ \A j \in 1 .. n : F[j] = IF j = 1 THEN ss[j] ELSE F[j - 1] \o ss[j]
  BY SumsType DEF Flattens, SeqsOf, PairsOf
<1> SUFFICES ASSUME Bad # {} PROVE FALSE
  BY DEF TwoEach
<1>2. PICK j \in Bad : \A l \in Bad : j <= l
  <2>1. Bad \subseteq Nat
    OBVIOUS
  <2> HIDE DEF Bad
  <2> QED BY <2>1, Least
<1>3. j \in 1 .. n /\ Len(F[j]) # 2 * j
  OBVIOUS
<1>4. CASE j = 1
  BY <1>1, <1>3, <1>4 DEF PairsOf
<1>5. CASE j # 1
  <2>1. j - 1 \in 1 .. n /\ ~(j <= j - 1)
    BY <1>3, <1>5
  <2>2. Len(F[j - 1]) = 2 * (j - 1)
    BY <1>2, <2>1
  <2>3. /\ F[j] = F[j - 1] \o ss[j] /\ F[j - 1] \in Seq(S) /\ ss[j] \in Seq(S) /\ Len(ss[j]) = 2
    BY <1>1, <1>3, <1>5, <2>1 DEF PairsOf
  <2>4. Len(F[j]) = Len(F[j - 1]) + 2
    <3>1. IsCat(F[j], F[j - 1], ss[j])
      BY <2>3, Both
    <3> QED BY <2>3, <3>1 DEF IsCat
  <2>5. Len(F[j]) = 2 * j
    BY <1>3, <2>2, <2>4
  <2> QED BY <1>3, <2>5
<1> QED BY <1>4, <1>5

-----------------------------------------------------------------------------
(* put_argv                                                                 *)

Packed(strs, addr) == FlattenSeq(strs) \o FlattenSeq(Pointers(addr, strs)) \o << 0, 0 >>

(* An address fits into a word, and a word holds an address.                 *)
Is16(a) == a \in Nat /\ a < 65536
WordOf(w, a) == w \in Seq(Nat) /\ Len(w) = 2 /\ w[1] + 256 * w[2] = a

LEMMA Word16Is ==
  ASSUME NEW a, Is16(a)
  PROVE  WordOf(Word16(a), a)
<1> USE DEF Is16
<1>1. /\ a \div 256 \in Nat /\ a % 256 \in Nat /\ a = 256 * (a \div 256) + (a % 256)
  BY DivMod
<1>2. a \div 256 < 256
  BY <1>1
<1>3. (a \div 256) % 256 = a \div 256
  BY <1>1, <1>2
<1> QED BY <1>1, <1>3 DEF Word16, WordOf

(* Three sequences behind each other.                                       *)
AreThree(q, f, g, h) ==
  /\ Len(q) = Len(f) + Len(g) + Len(h)
  /\ \A m \in 1 .. Len(f) : q[m] = f[m]
  /\ \A m \in 1 .. Len(g) : q[Len(f) + m] = g[m]
  /\ \A m \in 1 .. Len(h) : q[Len(f) + Len(g) + m] = h[m]

LEMMA Three ==
  ASSUME NEW S, NEW f \in Seq(S), NEW g \in Seq(S), NEW h \in Seq(S), NEW q, q = f \o g \o h
  PROVE  q \in Seq(S) /\ AreThree(q, f, g, h)
<1> DEFINE r == f \o g  lf == Len(f)  lg == Len(g)  lh == Len(h)
<1>1. q = r \o h /\ r = f \o g
  OBVIOUS
<1> HIDE DEF r
<1>2. /\ r \in Seq(S) /\ Len(r) = lf + lg
      /\ \A m \in 1 .. lf : r[m] = f[m]
      /\ \A m \in 1 .. lg : r[lf + m] = g[m]
  BY <1>1, Both DEF IsCat
<1>3. /\ q \in Seq(S) /\ Len(q) = Len(r) + lh
      /\ \A m \in 1 .. Len(r) : q[m] = r[m]
      /\ \A m \in 1 .. lh : q[Len(r) + m] = h[m]
  BY <1>1, <1>2, Both DEF IsCat
<1>4. lf \in Nat /\ lg \in Nat /\ lh \in Nat
  OBVIOUS
<1> HIDE DEF lf, lg, lh
<1>5. \A m \in 1 .. lf : m \in 1 .. Len(r)
  BY <1>2, <1>4
<1>6. \A m \in 1 .. lg : lf + m \in 1 .. Len(r)
  BY <1>2, <1>4
<1>7. Len(q) = lf + lg + lh /\ \A m \in 1 .. lh : q[lf + lg + m] = h[m]
  BY <1>2, <1>3
<1>8. \A m \in 1 .. lf : q[m] = f[m]
  BY <1>2, <1>3, <1>5
<1>9. \A m \in 1 .. lg : q[lf + m] = g[m]
  BY <1>2, <1>3, <1>6
<1> QED BY <1>3, <1>7, <1>8, <1>9 DEF AreThree, lf, lg, lh

(* Where the strings are.                                                   *)
LEMMA StringsPlaced ==
  ASSUME NEW n \in Nat \ {0}, NEW S, NEW strs \in Seq(S), Len(strs) = n, SeqsOf(strs, n, Nat)
  PROVE  /\ FlattenSeq(strs) \in Seq(Nat)
         /\ \A k \in 1 .. n : Before(strs, k) \in Nat /\ PlacedIn(FlattenSeq(strs), Before(strs, k), strs[k])
<1>1. PICK F : Flattens(F, strs, n) /\ FlattenSeq(strs) = F[n]
  BY FlattenIs
<1>2. n \in 1 .. n /\ n \in Nat
  OBVIOUS
<1>3. FlattenSeq(strs) \in Seq(Nat)
  BY <1>1, <1>2, SumsType, Zenon
<1>4. ASSUME NEW k \in 1 .. n
      PROVE  Before(strs, k) \in Nat /\ PlacedIn(FlattenSeq(strs), Before(strs, k), strs[k])
  <2>1. Before(strs, k) = SumBefore(F, k)
    BY <1>1, <1>2, BeforeIs, Zenon
  <2>2. n \in k .. n
    OBVIOUS
  <2>3. SumBefore(F, k) \in Nat /\ PlacedIn(F[n], SumBefore(F, k), strs[k])
    BY <1>1, <1>2, <2>2, Placed, Zenon
  <2> QED BY <1>1, <2>1, <2>3
<1> QED BY <1>3, <1>4

(* Where the words are.                                                     *)
PairsIn(g, ws, n) ==
  /\ g \in Seq(Nat) /\ Len(g) = 2 * n
  /\ \A k \in 1 .. n : g[2 * (k - 1) + 1] = ws[k][1] /\ g[2 * (k - 1) + 2] = ws[k][2]

LEMMA PairsPlaced ==
  ASSUME NEW n \in Nat \ {0}, NEW ws, Len(ws) = n, PairsOf(ws, n, Nat)
  PROVE  PairsIn(FlattenSeq(ws), ws, n)
<1>1. PICK G : Flattens(G, ws, n) /\ FlattenSeq(ws) = G[n]
  BY FlattenIs
<1>2. n \in 1 .. n /\ n \in Nat /\ SeqsOf(ws, n, Nat)
  BY DEF SeqsOf, PairsOf
<1>3. FlattenSeq(ws) \in Seq(Nat)
  BY <1>1, <1>2, SumsType, Zenon
<1>4. \A j \in 1 .. n : Len(G[j]) = 2 * j
  <2>1. TwoEach(G, n)
    BY <1>1, <1>2, PairSums, Zenon
  <2> QED BY <2>1 DEF TwoEach
<1>5. ASSUME NEW k \in 1 .. n
      PROVE  /\ FlattenSeq(ws)[2 * (k - 1) + 1] = ws[k][1]
             /\ FlattenSeq(ws)[2 * (k - 1) + 2] = ws[k][2]
  <2>1. SumBefore(G, k) = 2 * (k - 1)
    <3>1. k # 1 => k - 1 \in 1 .. n
      OBVIOUS
    <3> QED BY <1>4, <3>1 DEF SumBefore
  <2>2. n \in k .. n
    OBVIOUS
  <2>3. PlacedIn(G[n], SumBefore(G, k), ws[k])
    BY <1>1, <1>2, <2>2, Placed, Zenon
  <2>4. Len(ws[k]) = 2
    BY DEF PairsOf
  <2>5. \A m \in 1 .. 2 : G[n][2 * (k - 1) + m] = ws[k][m]
    BY <2>1, <2>3, <2>4 DEF PlacedIn
  <2> QED BY <1>1, <2>5
<1> QED BY <1>1, <1>2, <1>3, <1>4, <1>5 DEF PairsIn

(* The k-th word is the address of the k-th string.                          *)
AddressesOf(ws, strs, addr, n) ==
  Len(ws) = n /\ \A k \in 1 .. n : WordOf(ws[k], addr + Before(strs, k))

FitIn(strs, addr, n) == \A k \in 1 .. n : Is16(addr + Before(strs, k))

LEMMA PointersAre ==
  ASSUME NEW n \in Nat \ {0}, NEW strs, Len(strs) = n, NEW addr \in Nat, FitIn(strs, addr, n)
  PROVE  AddressesOf(Pointers(addr, strs), strs, addr, n)
<1>1. Pointers(addr, strs) = [k \in 1 .. n |-> Word16(addr + Before(strs, k))]
  BY DEF Pointers
<1>2. ASSUME NEW k \in 1 .. n
      PROVE  WordOf(Word16(addr + Before(strs, k)), addr + Before(strs, k))
  BY Word16Is DEF FitIn
<1>3. \A k \in 1 .. n : Pointers(addr, strs)[k] = Word16(addr + Before(strs, k))
  BY <1>1
<1>4. Len(Pointers(addr, strs)) = n
  BY <1>1
<1> QED BY <1>2, <1>3, <1>4 DEF AddressesOf

(* What put_argv writes: the strings, their addresses, and 0.                *)
PackedAs(q, strs, addr, n, t) ==
  /\ t \in Nat /\ q \in Seq(Nat) /\ Len(q) = t + 2 * n + 2
  /\ \A k \in 1 .. n :
       /\ Before(strs, k) \in Nat /\ Before(strs, k) + Len(strs[k]) <= t
       /\ \A m \in 1 .. Len(strs[k]) : q[Before(strs, k) + m] = strs[k][m]
       /\ q[t + 2 * (k - 1) + 1] + 256 * q[t + 2 * (k - 1) + 2] = addr + Before(strs, k)
  /\ q[t + 2 * n + 1] = 0 /\ q[t + 2 * n + 2] = 0

LEMMA PackedIs ==
  ASSUME NEW n \in Nat \ {0}, NEW S, NEW strs \in Seq(S), Len(strs) = n, SeqsOf(strs, n, Nat),
         NEW addr \in Nat, Is16(addr + Len(FlattenSeq(strs)))
  PROVE  PackedAs(Packed(strs, addr), strs, addr, n, Len(FlattenSeq(strs)))
<1> DEFINE ws == Pointers(addr, strs)
           f == FlattenSeq(strs)
           g == FlattenSeq(ws)
           q == Packed(strs, addr)
           t == Len(f)
           z == << 0, 0 >>
<1>1. /\ f \in Seq(Nat) /\ t \in Nat
      /\ \A k \in 1 .. n : Before(strs, k) \in Nat /\ PlacedIn(f, Before(strs, k), strs[k])
  <2>1. /\ f \in Seq(Nat)
        /\ \A k \in 1 .. n : Before(strs, k) \in Nat /\ PlacedIn(f, Before(strs, k), strs[k])
    BY StringsPlaced
  <2> QED BY <2>1
<1>2. \A k \in 1 .. n : Len(strs[k]) \in Nat
  BY DEF SeqsOf
<1> HIDE DEF f
<1>3. FitIn(strs, addr, n)
  <2>1. ASSUME NEW k \in 1 .. n PROVE Is16(addr + Before(strs, k))
    <3>1. Before(strs, k) \in Nat /\ PlacedIn(f, Before(strs, k), strs[k]) /\ Len(strs[k]) \in Nat
      BY <1>1, <1>2
    <3>2. Before(strs, k) + Len(strs[k]) <= t
      BY <3>1 DEF PlacedIn
    <3>3. Is16(addr + t)
      BY DEF f
    <3> HIDE DEF t
    <3> QED BY <3>1, <3>2, <3>3, <1>1 DEF Is16
  <2> QED BY <2>1 DEF FitIn
<1>4. /\ Len(ws) = n /\ PairsOf(ws, n, Nat)
      /\ \A k \in 1 .. n : ws[k][1] + 256 * ws[k][2] = addr + Before(strs, k)
  <2>1. AddressesOf(ws, strs, addr, n)
    BY <1>3, PointersAre, Zenon
  <2> HIDE DEF ws
  <2> QED BY <2>1 DEF AddressesOf, WordOf, PairsOf
<1> HIDE DEF ws
<1>5. /\ g \in Seq(Nat) /\ Len(g) = 2 * n
      /\ \A k \in 1 .. n : g[2 * (k - 1) + 1] = ws[k][1] /\ g[2 * (k - 1) + 2] = ws[k][2]
  <2>1. PairsIn(g, ws, n)
    BY <1>4, PairsPlaced, Zenon
  <2> HIDE DEF g
  <2> QED BY <2>1 DEF PairsIn
<1>6. z \in Seq(Nat) /\ Len(z) = 2 /\ z[1] = 0 /\ z[2] = 0
  OBVIOUS
<1>7. q = f \o g \o z
  BY DEF Packed, f, ws
<1> HIDE DEF q, z, g
<1>8. /\ q \in Seq(Nat) /\ Len(q) = Len(f) + Len(g) + Len(z)
      /\ \A m \in 1 .. Len(f) : q[m] = f[m]
      /\ \A m \in 1 .. Len(g) : q[Len(f) + m] = g[m]
      /\ \A m \in 1 .. Len(z) : q[Len(f) + Len(g) + m] = z[m]
  <2>1. f \in Seq(Nat) /\ g \in Seq(Nat) /\ z \in Seq(Nat)
    BY <1>1, <1>5, <1>6
  <2>2. q \in Seq(Nat) /\ AreThree(q, f, g, z)
    BY <1>7, <2>1, Three
  <2> QED BY <2>2 DEF AreThree
<1>9. Len(f) = t
  OBVIOUS
<1> HIDE DEF t
<1>10. Len(q) = t + 2 * n + 2 /\ q[t + 2 * n + 1] = 0 /\ q[t + 2 * n + 2] = 0
  <2>1. 1 \in 1 .. Len(z) /\ 2 \in 1 .. Len(z)
    BY <1>6
  <2> QED BY <1>5, <1>6, <1>8, <1>9, <2>1
<1>11. ASSUME NEW k \in 1 .. n
       PROVE  /\ Before(strs, k) \in Nat /\ Before(strs, k) + Len(strs[k]) <= t
              /\ \A m \in 1 .. Len(strs[k]) : q[Before(strs, k) + m] = strs[k][m]
              /\ q[t + 2 * (k - 1) + 1] + 256 * q[t + 2 * (k - 1) + 2] = addr + Before(strs, k)
  <2> DEFINE b == Before(strs, k)  l == Len(strs[k])
  <2>1. b \in Nat /\ l \in Nat /\ b + l <= t /\ \A m \in 1 .. l : f[b + m] = strs[k][m]
    <3>1. PlacedIn(f, Before(strs, k), strs[k])
      BY <1>1
    <3> QED BY <1>1, <1>2, <1>9, <3>1 DEF PlacedIn
  <2> HIDE DEF b, l
  <2>2. \A m \in 1 .. l : q[b + m] = strs[k][m]
    <3> TAKE m \in 1 .. l
    <3>1. b + m \in 1 .. t
      BY <1>1, <2>1
    <3> QED BY <1>8, <1>9, <2>1, <3>1
  <2>3. 2 * (k - 1) + 1 \in 1 .. Len(g) /\ 2 * (k - 1) + 2 \in 1 .. Len(g)
    BY <1>5
  <2>4. q[t + (2 * (k - 1) + 1)] = ws[k][1] /\ q[t + (2 * (k - 1) + 2)] = ws[k][2]
    <3>1. \A m \in 1 .. Len(g) : q[t + m] = g[m]
      BY <1>8, <1>9
    <3>2. /\ q[t + (2 * (k - 1) + 1)] = g[2 * (k - 1) + 1]
          /\ q[t + (2 * (k - 1) + 2)] = g[2 * (k - 1) + 2]
      BY <2>3, <3>1
    <3> QED BY <1>5, <3>2
  <2>5. t + 2 * (k - 1) + 1 = t + (2 * (k - 1) + 1) /\ t + 2 * (k - 1) + 2 = t + (2 * (k - 1) + 2)
    BY <1>1
  <2>6. q[t + 2 * (k - 1) + 1] + 256 * q[t + 2 * (k - 1) + 2] = addr + Before(strs, k)
    BY <1>4, <2>4, <2>5
  <2> QED BY <2>1, <2>2, <2>6 DEF b, l
<1>12. PackedAs(q, strs, addr, n, t)
  BY <1>1, <1>8, <1>10, <1>11 DEF PackedAs
<1> QED BY <1>12 DEF q, t, f

(* A memory that q has been written to at addr.                             *)
LEMMA PutArgv ==
  ASSUME NEW mem, Addressed(mem), NEW addr \in Nat, NEW strs, NEW n \in Nat \ {0}, Len(strs) = n,
         SeqsOf(strs, n, Nat), NEW t, NEW q, PackedAs(q, strs, addr, n, t),
         NEW pass, pass = [argc |-> n, argv |-> addr + t]
  PROVE  ArgsHeld(Write(mem, addr, q), pass, strs)
<1> DEFINE w == Write(mem, addr, q)  len == Len(q)
<1>1. /\ t \in Nat /\ len \in Nat /\ len = t + 2 * n + 2
      /\ q[t + 2 * n + 1] = 0 /\ q[t + 2 * n + 2] = 0
  BY DEF PackedAs
<1>6. addr \in Int /\ Len(q) \in Nat
  BY <1>1
<1>7. \A a \in Int : Read(Write(mem, addr, q), a) =
        IF a \in addr .. addr + Len(q) - 1 THEN q[a - addr + 1] ELSE Read(mem, a)
  BY <1>6, ReadWritten
<1>2. ASSUME NEW m \in 1 .. len PROVE Read(w, addr + (m - 1)) = q[m]
  <2> DEFINE a == addr + (m - 1)
  <2>1. a \in Int /\ a \in addr .. addr + len - 1 /\ a - addr + 1 = m
    BY <1>1
  <2> HIDE DEF a
  <2>2. Read(w, a) = IF a \in addr .. addr + Len(q) - 1 THEN q[a - addr + 1] ELSE Read(mem, a)
    BY <1>7, <2>1
  <2> QED BY <2>1, <2>2 DEF a
<1> HIDE DEF w, len
<1>3. pass.argc = n /\ pass.argv = addr + t
  OBVIOUS
<1>4. ASSUME NEW k \in 1 .. n
      PROVE  /\ WordAt(w, pass.argv + 2 * (k - 1)) \in Nat
             /\ HeldAt(w, WordAt(w, pass.argv + 2 * (k - 1)), strs[k])
  <2> DEFINE b == Before(strs, k)  l == Len(strs[k])
  <2>1. /\ b \in Nat /\ b + l <= t /\ \A m \in 1 .. l : q[b + m] = strs[k][m]
        /\ q[t + 2 * (k - 1) + 1] + 256 * q[t + 2 * (k - 1) + 2] = addr + b
    BY DEF PackedAs
  <2>2. l \in Nat
    BY DEF SeqsOf
  <2> HIDE DEF b, l
  <2>3. WordAt(w, pass.argv + 2 * (k - 1)) = addr + b
    <3> DEFINE m == t + 2 * (k - 1) + 1
    <3>1. /\ m \in 1 .. len /\ m + 1 \in 1 .. len /\ addr + (m - 1) = pass.argv + 2 * (k - 1)
          /\ addr + ((m + 1) - 1) = pass.argv + 2 * (k - 1) + 1 /\ m + 1 = t + 2 * (k - 1) + 2
      BY <1>1, <1>3
    <3>2. q[m] + 256 * q[m + 1] = addr + b
      BY <2>1, <3>1
    <3> HIDE DEF m
    <3>3. Read(w, addr + (m - 1)) = q[m] /\ Read(w, addr + ((m + 1) - 1)) = q[m + 1]
      BY <1>2, <3>1
    <3> QED BY <3>1, <3>2, <3>3 DEF WordAt
  <2>4. ASSUME NEW j \in 0 .. l - 1 PROVE Read(w, (addr + b) + j) = strs[k][j + 1]
    <3>1. /\ b + (j + 1) \in 1 .. len /\ j + 1 \in 1 .. l
          /\ addr + ((b + (j + 1)) - 1) = (addr + b) + j
      BY <1>1, <2>1, <2>2
    <3> QED BY <1>2, <2>1, <3>1
  <2>5. HeldAt(w, addr + b, strs[k])
    BY <2>4, Zenon DEF HeldAt, l
  <2>6. addr + b \in Nat
    BY <2>1
  <2> QED BY <2>3, <2>5, <2>6
<1>5. WordAt(w, pass.argv + 2 * pass.argc) = 0
  <2> DEFINE m == t + 2 * n + 1
  <2>1. /\ m \in 1 .. len /\ m + 1 \in 1 .. len /\ addr + (m - 1) = pass.argv + 2 * pass.argc
        /\ addr + ((m + 1) - 1) = pass.argv + 2 * pass.argc + 1 /\ m + 1 = t + 2 * n + 2
    BY <1>1, <1>3
  <2>2. q[m] = 0 /\ q[m + 1] = 0
    BY <1>1, <2>1
  <2> HIDE DEF m
  <2>3. Read(w, addr + (m - 1)) = q[m] /\ Read(w, addr + ((m + 1) - 1)) = q[m + 1]
    BY <1>2, <2>1
  <2> QED BY <2>1, <2>2, <2>3 DEF WordAt
<1> QED BY <1>3, <1>4, <1>5 DEF ArgsHeld, w

LEMMA CharsAre ==
  ASSUME NEW word \in DOMAIN Words
  PROVE  Words[word].chars \in Seq(Nat) /\ Chars(word) \in Seq(Nat)
<1>1. Words[word].chars \in Seq(Nat)
  BY WordsAssumption
<1>2. \A c \in Seq(Nat) : Append(c, 0) \in Seq(Nat)
  OBVIOUS
<1> QED BY <1>1, <1>2 DEF Chars

(* The strings of words that are passed on.                                 *)
StringsOf(strs, first, ws) == strs = << Chars(first) >> \o [k \in DOMAIN ws |-> Chars(ws[k])]
WordsOf(passed, first, ws) == passed = << first >> \o ws

StringsFit(strs, passed) ==
  /\ strs \in Seq(Seq(Nat)) /\ Len(strs) = Len(passed) /\ Len(passed) \in Nat \ {0}
  /\ \A n \in 1 .. Len(passed) : passed[n] \in DOMAIN Words /\ strs[n] = Chars(passed[n])

LEMMA CharsOf ==
  ASSUME NEW first \in DOMAIN Words, NEW ws \in Seq(DOMAIN Words),
         NEW strs, StringsOf(strs, first, ws), NEW passed, WordsOf(passed, first, ws)
  PROVE  StringsFit(strs, passed)
<1> DEFINE S == Seq(Nat)  D == DOMAIN Words  n == Len(ws)  cs == [k \in DOMAIN ws |-> Chars(ws[k])]
<1>1. Chars(first) \in S /\ \A k \in 1 .. n : ws[k] \in D /\ Chars(ws[k]) \in S
  BY CharsAre
<1>2. n \in Nat /\ DOMAIN ws = 1 .. n
  OBVIOUS
<1>3. cs \in Seq(S) /\ Len(cs) = n /\ \A k \in 1 .. n : cs[k] = Chars(ws[k])
  BY <1>1, <1>2
<1> HIDE DEF S, D, cs
<1>4. << Chars(first) >> \in Seq(S) /\ Len(<< Chars(first) >>) = 1 /\ << Chars(first) >>[1] = Chars(first)
  BY <1>1
<1>5. << first >> \in Seq(D) /\ Len(<< first >>) = 1 /\ << first >>[1] = first /\ ws \in Seq(D)
  BY DEF D
<1>6. strs \in Seq(S) /\ IsCat(strs, << Chars(first) >>, cs)
  <2>1. strs = << Chars(first) >> \o cs
    BY DEF cs, StringsOf
  <2> QED BY <1>3, <1>4, <2>1, Both
<1>7. passed \in Seq(D) /\ IsCat(passed, << first >>, ws)
  <2>1. passed = << first >> \o ws
    BY DEF WordsOf
  <2> QED BY <1>5, <2>1, Both
<1>8. Len(strs) = 1 + n /\ strs[1] = Chars(first) /\ \A k \in 1 .. n : strs[1 + k] = Chars(ws[k])
  BY <1>3, <1>4, <1>6 DEF IsCat
<1>9. Len(passed) = 1 + n /\ passed[1] = first /\ \A k \in 1 .. n : passed[1 + k] = ws[k]
  BY <1>2, <1>5, <1>7 DEF IsCat
<1>10. ASSUME NEW m \in 1 .. Len(passed) PROVE passed[m] \in D /\ strs[m] = Chars(passed[m])
  <2>1. passed[m] \in D
    BY <1>7
  <2>2. CASE m = 1
    BY <1>8, <1>9, <2>1, <2>2
  <2>3. CASE m # 1
    <3>1. m - 1 \in 1 .. n /\ 1 + (m - 1) = m
      BY <1>2, <1>9, <2>3
    <3>2. strs[1 + (m - 1)] = Chars(ws[m - 1]) /\ passed[1 + (m - 1)] = ws[m - 1]
      BY <1>8, <1>9, <3>1
    <3> QED BY <2>1, <3>1, <3>2
  <2> QED BY <2>2, <2>3
<1> QED BY <1>2, <1>6, <1>8, <1>9, <1>10 DEF S, D, StringsFit

(* What -args passes on.                                                    *)
Passed == << program.short_name >> \o args

LEMMA ArgStringsAre ==
  ASSUME OptionType, ArgsRead, IsOn("args"), program.short_name \in DOMAIN Words
  PROVE  /\ Passed = << program.short_name >> \o SubSeq(argv, At("args") + 1, Len(argv))
         /\ StringsFit(ArgStrings, Passed)
<1>1. args = SubSeq(argv, At("args") + 1, Len(argv))
  BY DEF ArgsRead
<1>2. At("args") \in Nat
  BY GivenRange DEF OptionType
<1>3. args \in Seq(DOMAIN Words)
  BY <1>1, <1>2 DEF OptionType
<1>4. StringsFit(ArgStrings, Passed)
  <2>1. WordsOf(Passed, program.short_name, args)
    BY DEF Passed, WordsOf
  <2>2. StringsOf(ArgStrings, program.short_name, args)
    BY DEF ArgStrings, StringsOf
  <2> QED BY <1>3, <2>1, <2>2, CharsOf
<1> QED BY <1>1, <1>4 DEF Passed

LEMMA PackedLength ==
  ASSUME NEW n \in Nat \ {0}, NEW S, NEW strs \in Seq(S), Len(strs) = n, SeqsOf(strs, n, Nat),
         NEW addr \in Nat
  PROVE  /\ Len(FlattenSeq(strs)) \in Nat
         /\ Len(Packed(strs, addr)) = Len(FlattenSeq(strs)) + 2 * n + 2
<1> DEFINE ws == Pointers(addr, strs)  f == FlattenSeq(strs)  g == FlattenSeq(ws)
           q == Packed(strs, addr)  z == << 0, 0 >>
<1>1. f \in Seq(Nat) /\ \A k \in 1 .. n : Before(strs, k) \in Nat
  BY StringsPlaced
<1>2. Len(ws) = n /\ \A k \in 1 .. n : ws[k] = Word16(addr + Before(strs, k))
  BY DEF Pointers
<1> HIDE DEF ws, f
<1>3. PairsOf(ws, n, Nat)
  <2>1. \A a \in Nat : a % 256 \in Nat /\ (a \div 256) % 256 \in Nat
    OBVIOUS
  <2>2. \A a \in Nat : Word16(a) \in Seq(Nat) /\ Len(Word16(a)) = 2
    BY <2>1 DEF Word16
  <2> QED BY <1>1, <1>2, <2>2 DEF PairsOf
<1>4. g \in Seq(Nat) /\ Len(g) = 2 * n
  <2>1. PairsIn(g, ws, n)
    BY <1>2, <1>3, PairsPlaced, Zenon
  <2> HIDE DEF g
  <2> QED BY <2>1 DEF PairsIn
<1>5. z \in Seq(Nat) /\ Len(z) = 2
  OBVIOUS
<1>6. q = f \o g \o z
  BY DEF Packed, f, ws
<1> HIDE DEF q, z, g
<1>7. AreThree(q, f, g, z)
  BY <1>1, <1>4, <1>5, <1>6, Three
<1> QED BY <1>1, <1>4, <1>5, <1>7 DEF AreThree, f, q

LEMMA PargsIs == pargs \in Nat
BY DEF pargs

(* The strings and the words of avrtest_init_argc_argv.                      *)
LEMMA ArgsWritten ==
  ASSUME OptionType, ArgsRead, IsOn("args"), program.short_name \in DOMAIN Words,
         NEW q, q = Packed(ArgStrings, pargs)
  PROVE  /\ Len(ArgStrings) \in Nat \ {0} /\ SeqsOf(ArgStrings, Len(ArgStrings), Nat)
         /\ Len(q) \in Nat /\ ArgsAt = pargs .. pargs + Len(q) - 1
         /\ LaidOut => PackedAs(q, ArgStrings, pargs, Len(ArgStrings), Len(FlattenSeq(ArgStrings)))
<1> DEFINE n == Len(ArgStrings)  t == Len(FlattenSeq(ArgStrings))
<1>1. StringsFit(ArgStrings, Passed)
  BY ArgStringsAre
<1>2. ArgStrings \in Seq(Seq(Nat)) /\ n \in Nat \ {0}
  BY <1>1 DEF StringsFit
<1>3. SeqsOf(ArgStrings, n, Nat)
  BY <1>2 DEF SeqsOf
<1>4. t \in Nat /\ Len(q) = t + 2 * n + 2
  BY <1>2, <1>3, PargsIs, PackedLength
<1>5. pargs \in Nat /\ ArgsAt = pargs .. pargs + t + 2 * n + 1
  BY PargsIs DEF ArgsAt
<1> HIDE DEF n, t
<1>6. Len(q) \in Nat /\ ArgsAt = pargs .. pargs + Len(q) - 1
  BY <1>2, <1>4, <1>5
<1>7. ASSUME LaidOut PROVE Is16(pargs + t)
  <2>1. do.args = 1
    BY DEF ArgsRead, OnOff
  <2>2. \A a \in ArgsAt : a < 65536
    BY <1>7, <2>1 DEF LaidOut
  <2>3. pargs + t \in ArgsAt /\ pargs + t \in Nat
    BY <1>2, <1>4, <1>5
  <2> QED BY <2>2, <2>3 DEF Is16
<1>8. ASSUME LaidOut PROVE PackedAs(q, ArgStrings, pargs, n, t)
  <2>1. pargs \in Nat /\ Is16(pargs + t) /\ t = Len(FlattenSeq(ArgStrings)) /\ n = Len(ArgStrings)
    BY <1>5, <1>7, <1>8 DEF n, t
  <2> QED BY <1>2, <1>3, <2>1, PackedIs
<1> QED BY <1>2, <1>3, <1>6, <1>8 DEF n, t

(* They are not where .data and .rodata are.                                *)
LEMMA ArgsElsewhere ==
  ASSUME Addressed(ram), NEW p \in PhdrType, ArgsApart(p), NEW q, Len(q) \in Nat,
         ArgsAt = pargs .. pargs + Len(q) - 1, NEW ra, ra = Write(ram, pargs, q)
  PROVE  /\ InitializesData(p) /\ HeldAt(ram, p.vaddr - DATA_VADDR, p.bytes)
              => HeldAt(ra, p.vaddr - DATA_VADDR, p.bytes)
         /\ IsRodata(p) /\ HeldAt(ram, p.vaddr, p.bytes) => HeldAt(ra, p.vaddr, p.bytes)
<1>1. /\ p.vaddr \in Nat /\ Len(p.bytes) \in Nat /\ filesz(p) = Len(p.bytes)
      /\ p.vaddr - DATA_VADDR \in Int /\ p.vaddr \in Int /\ pargs \in Int
  BY PargsIs, Addresses DEF PhdrType, filesz
<1>2. ASSUME InitializesData(p), HeldAt(ram, p.vaddr - DATA_VADDR, p.bytes)
      PROVE  HeldAt(ra, p.vaddr - DATA_VADDR, p.bytes)
  <2> DEFINE at == p.vaddr - DATA_VADDR  len == Len(p.bytes)
  <2>1. \A a \in ArgsAt : a \notin at .. at + len - 1
    BY <1>1, <1>2 DEF ArgsApart, Disjoint, InDataAt
  <2>2. at \in Int /\ len \in Nat /\ HeldAt(ram, at, p.bytes) /\ len = Len(p.bytes)
    BY <1>1, <1>2
  <2> HIDE DEF at, len
  <2>3. \A k \in 0 .. len - 1 : at + k \notin pargs .. pargs + Len(q) - 1
    BY <2>1, <2>2
  <2>4. HeldAt(ra, at, p.bytes)
    BY <1>1, <2>2, <2>3, HeldKept
  <2> QED BY <2>4 DEF at
<1>3. ASSUME IsRodata(p), HeldAt(ram, p.vaddr, p.bytes)
      PROVE  HeldAt(ra, p.vaddr, p.bytes)
  <2> DEFINE at == p.vaddr  len == Len(p.bytes)
  <2>1. \A a \in ArgsAt : a \notin at .. at + len - 1
    BY <1>1, <1>3 DEF ArgsApart, Disjoint, InRodataAt
  <2>2. at \in Int /\ len \in Nat /\ HeldAt(ram, at, p.bytes) /\ len = Len(p.bytes)
    BY <1>1, <1>3
  <2> HIDE DEF at, len
  <2>3. \A k \in 0 .. len - 1 : at + k \notin pargs .. pargs + Len(q) - 1
    BY <2>1, <2>2
  <2>4. HeldAt(ra, at, p.bytes)
    BY <1>1, <2>2, <2>3, HeldKept
  <2> QED BY <2>4 DEF at
<1> QED BY <1>2, <1>3

LEMMA ArgsMemory ==
  ASSUME SessionInv, MemoryInv, avrtest_init_argc_argv, argv' = argv
  PROVE  MemoryInv'
<1>1. /\ phase = "run" /\ phase' = "run" /\ stage = "init8" /\ stage' = "abort_2nd_hit"
      /\ LineRests /\ FileRead /\ UNCHANGED << flash, eeprom, seg >> /\ sys_argc_argv(pargs)
  BY DEF avrtest_init_argc_argv, sys_argc_argv, Target, Unchanged, optionVars, LineRests, FileRead
<1>2. LineRead /\ LineRead'
  BY <1>1, LineKept DEF MemoryInv, LineRead
<1>3. /\ file' = file /\ LoadedAt' = LoadedAt /\ (\A j : SegmentAt(j)' = SegmentAt(j))
      /\ do' = do /\ arch' = arch
      /\ \A p : (TooBig(p)' <=> TooBig(p)) /\ (InitializesData(p)' <=> InitializesData(p))
  BY <1>1, FileReads DEF FileRead
<1>4. /\ Addressed(flash) /\ Addressed(ram) /\ Addressed(eeprom) /\ OptionType /\ ArgsRead
      /\ (file.elf => seg > Len(file.phdrs)) /\ program.name \in DOMAIN ProgramFiles
      /\ program.short_name \in DOMAIN Words
  BY <1>1, ShortIsWord DEF MemoryInv, StageInv, Running_, Afterwards, SessionInv, PhaseInv, NameRead, Reading
<1>5. ArgStrings' = ArgStrings
  BY <1>1 DEF FileRead, ArgStrings
<1> DEFINE q == Packed(ArgStrings, pargs)  n == Len(ArgStrings)  t == Len(FlattenSeq(ArgStrings))
<1>6. \/ do.args = 0 /\ ram' = ram /\ argc_argv' = [argc |-> 0, argv |-> 0]
      \/ /\ do.args # 0 /\ ram' = Write(ram, pargs, q)
         /\ argc_argv' = [argc |-> n, argv |-> pargs + t]
  BY <1>1 DEF sys_argc_argv, Packed
<1>7. do.args # 0 => IsOn("args") /\ do.args = 1
  BY <1>4 DEF ArgsRead, OnOff
<1>8. do.args # 0 =>
        /\ n \in Nat \ {0} /\ SeqsOf(ArgStrings, n, Nat)
        /\ Len(q) \in Nat /\ ArgsAt = pargs .. pargs + Len(q) - 1
        /\ LaidOut => PackedAs(q, ArgStrings, pargs, n, t)
  BY <1>4, <1>7, ArgsWritten
<1> HIDE DEF q, n, t
<1>9. Addressed(ram')
  BY <1>4, <1>6, <1>8, PargsIs, ReadWritten
<1>10. StageInv'
  BY <1>1, <1>3, <1>4, <1>9 DEF StageInv, Addressed, Afterwards, Running_
<1>11. ASSUME LaidOut, file.elf, NEW j \in LoadedAt
       PROVE  /\ ~TooBig(SegmentAt(j)) /\ Held(SegmentAt(j))'
              /\ RodataHeld(SegmentAt(j)) => RodataHeld(SegmentAt(j))'
  <2>1. SegmentAt(j) \in PhdrType
    BY <1>4, <1>11, SegmentFacts
  <2>2. ~TooBig(SegmentAt(j)) /\ Held(SegmentAt(j))
    <3>1. file.phdrs \in Seq(PhdrType) /\ seg \in Nat
      BY <1>4, <1>11, FileIs DEF SessionInv, ArchType
    <3>2. j < seg
      BY <1>4, <1>11, <3>1 DEF LoadedAt
    <3> QED BY <1>1, <1>11, <3>2 DEF MemoryInv, Filled, SegmentsHeld, Afterwards
  <2>3. LET p == SegmentAt(j) IN
        /\ InitializesData(p) /\ HeldAt(ram, p.vaddr - DATA_VADDR, p.bytes)
             => HeldAt(ram', p.vaddr - DATA_VADDR, p.bytes)
        /\ IsRodata(p) /\ HeldAt(ram, p.vaddr, p.bytes) => HeldAt(ram', p.vaddr, p.bytes)
    <3>1. CASE do.args = 0
      BY <1>6, <3>1
    <3>2. CASE do.args # 0
      <4>1. ArgsApart(SegmentAt(j))
        BY <1>7, <1>11, <3>2 DEF LaidOut
      <4>2. /\ Len(q) \in Nat /\ ArgsAt = pargs .. pargs + Len(q) - 1
            /\ ram' = Write(ram, pargs, q) /\ Addressed(ram)
        BY <1>4, <1>6, <1>8, <3>2
      <4> QED BY <2>1, <4>1, <4>2, ArgsElsewhere
    <3> QED BY <3>1, <3>2
  <2>4. Held(SegmentAt(j))'
    BY <1>1, <1>3, <2>2, <2>3 DEF Held, HeldAt
  <2>5. RodataHeld(SegmentAt(j)) => RodataHeld(SegmentAt(j))'
    BY <1>3, <2>3 DEF RodataHeld, HeldAt, IsRodata, RightArch
  <2> QED BY <2>2, <2>4, <2>5
<1>12. ASSUME LaidOut PROVE ArgsPassed'
  <2>1. CASE do.args = 0
    BY <1>3, <1>6, <2>1 DEF ArgsPassed
  <2>2. CASE do.args # 0
    <3>1. /\ n \in Nat \ {0} /\ SeqsOf(ArgStrings, n, Nat) /\ n = Len(ArgStrings)
          /\ PackedAs(q, ArgStrings, pargs, n, t) /\ pargs \in Nat
          /\ ram' = Write(ram, pargs, q) /\ argc_argv' = [argc |-> n, argv |-> pargs + t]
      BY <1>6, <1>8, <1>12, <2>2, PargsIs DEF n
    <3>2. ArgsHeld(Write(ram, pargs, q), argc_argv', ArgStrings)
      BY <1>4, <3>1, PutArgv
    <3>3. ArgsHeld(ram', argc_argv', ArgStrings)
      BY <3>1, <3>2
    <3> HIDE DEF ArgsHeld
    <3> QED BY <1>3, <1>5, <2>2, <3>3 DEF ArgsPassed
  <2> QED BY <2>1, <2>2
<1>13. ASSUME LaidOut' PROVE Filled'
  <2>1. LaidOut
    BY <1>1, <1>13, LayoutKept
  <2>2. SegmentsHeld'
    <3>1. LaidOut => SegmentsHeld
      BY DEF MemoryInv, Filled
    <3> QED BY <1>1, <1>3, <1>11, <2>1, <3>1 DEF SegmentsHeld, Afterwards
  <2>3. FlmapHeld'
    <3>1. FlmapHeld
      BY <2>1 DEF MemoryInv, Filled
    <3>2. WithFlmap' <=> WithFlmap
      BY <1>3 DEF WithFlmap
    <3> QED BY <1>1, <1>3, <1>11, <2>1, <3>1, <3>2 DEF FlmapHeld, Running_
  <2> QED BY <1>12, <2>1, <2>2, <2>3 DEF Filled
<1> QED BY <1>2, <1>10, <1>13 DEF MemoryInv, LineRead

-----------------------------------------------------------------------------
(* The memories, always                                                     *)

LEMMA MemoryInit == Init => MemoryInv
<1> SUFFICES ASSUME Init PROVE MemoryInv
  OBVIOUS
<1>1. /\ i = 1 /\ phase = "help" /\ do = Defaults /\ flash_pm_offset = 0
      /\ program = [name |-> None, short_name |-> None, entry_point |-> 0, max_insns |-> 0]
      /\ arch = DefaultArch(isa)
  BY DEF Init, InitOptions
<1>2. flash = Empty /\ ram = Empty /\ eeprom = Empty
  BY DEF Init, InitLoader
<1>3. stage = "reset"
  BY DEF Init
<1>4. OptionType /\ isa \in {"classic", "xmega", "tiny"}
  BY InvInit DEF Inv, SessionInv, OptionType
<1>5. ArgsRead
  <2>1. ~IsOn("args") /\ OnOff("args") = 0
    BY <1>1, <1>4, NothingRead
  <2>2. \A o \in OptionNames : Defaults[o] = IF o \in {"stdin", "stdout", "stderr", "log"} THEN 1 ELSE 0
    BY DEF Defaults, OptionNames
  <2>3. do.args = 0
    BY <1>1, <2>2, OptionNamesAre
  <2> QED BY <2>1, <2>3 DEF ArgsRead
<1>6. NameRead
  BY <1>1 DEF NameRead, Reading
<1>7. OffsetRead
  <2>1. IsNamed(arch)
    BY <1>1, <1>4, NamedArchs
  <2>2. /\ arch.desc.flash_addr_mask = arch_desc[arch.name].flash_addr_mask
        /\ arch.desc.flash_pm_offset = arch_desc[arch.name].flash_pm_offset
    BY <2>1 DEF IsNamed, Named
  <2> QED BY <1>1, <2>2 DEF OffsetRead, DescOf, pm, Afterwards
<1>8. StageInv
  <2>1. Addressed(Empty)
    BY DEF Addressed, Empty
  <2> QED BY <1>1, <1>2, <1>3, <2>1 DEF StageInv, Afterwards, Running_
<1>9. Filled
  BY <1>1 DEF Filled, SegmentsHeld, FlmapHeld, Afterwards, Running_
<1> QED BY <1>5, <1>6, <1>7, <1>8, <1>9 DEF MemoryInv

(* Steps of the target that leave the memories alone.                        *)
LEMMA TargetMemory ==
  ASSUME MemoryInv, UNCHANGED argv, Target, Unchanged, MemoriesRest, phase' \in {"run", "left"}, StageGoesOn
  PROVE  MemoryInv'
<1>1. FileRead /\ LineRests /\ PhaseGoesOn
  BY DEF Target, Unchanged, optionVars, FileRead, LineRests, PhaseGoesOn
<1> QED BY <1>1, MemoryRests

LEMMA StartMemory ==
  ASSUME SessionInv, MemoryInv, UNCHANGED argv, Start
  PROVE  MemoryInv'
<1>1. CASE Reset
  <2>1. /\ Target /\ Unchanged /\ MemoriesRest /\ phase' \in {"run", "left"} /\ StageGoesOn
    BY <1>1 DEF Reset, Target, Unchanged, MemoriesRest, hostVars, leave, StageGoesOn, WithFlmap
  <2> QED BY <2>1, TargetMemory
<1>2. CASE avrtest_init_rodata
  BY <1>2, FlmapMemory
<1>3. CASE avrtest_init_argc_argv
  BY <1>3, ArgsMemory
<1>4. CASE sys_abort_2nd_hit
  <2>1. /\ Target /\ Unchanged /\ MemoriesRest /\ phase' \in {"run", "left"} /\ StageGoesOn
    BY <1>4 DEF sys_abort_2nd_hit, Target, Unchanged, MemoriesRest, hostVars, leave, StageGoesOn
  <2> QED BY <2>1, TargetMemory
<1> QED BY <1>1, <1>2, <1>3, <1>4 DEF Start

LEMMA MainMemory ==
  ASSUME SessionInv, MemoryInv, UNCHANGED argv, main
  PROVE  MemoryInv'
<1>1. CASE UsesStream
  <2>1. Target /\ Unchanged /\ MemoriesRest /\ phase' \in {"run", "left"} /\ StageGoesOn
    BY <1>1 DEF UsesStream, UseStream, Made, Target, Unchanged, MemoriesRest, StageGoesOn
  <2> QED BY <2>1, TargetMemory
<1>2. CASE SetsFormat
  <2>1. Target /\ Unchanged /\ MemoriesRest /\ phase' \in {"run", "left"} /\ StageGoesOn
    BY <1>2 DEF SetsFormat, log_set_format, log_unset_format, Made, Target, Unchanged, MemoriesRest, StageGoesOn
  <2> QED BY <2>1, TargetMemory
<1>3. CASE LogsValue
  <2>1. Target /\ Unchanged /\ MemoriesRest /\ phase' \in {"run", "left"} /\ StageGoesOn
    BY <1>3 DEF LogsValue, log_value, Made, Target, Unchanged, MemoriesRest, StageGoesOn
  <2> QED BY <2>1, TargetMemory
<1>4. CASE Computes
  <2>1. Target /\ Unchanged /\ MemoriesRest /\ phase' \in {"run", "left"} /\ StageGoesOn
    BY <1>4 DEF Computes, sys_misc_arith, Made, Target, Unchanged, MemoriesRest, StageGoesOn
  <2> QED BY <2>1, TargetMemory
<1>5. CASE ToFloat \/ FromFloat
  <2>1. Target /\ Unchanged /\ MemoriesRest /\ phase' \in {"run", "left"} /\ StageGoesOn
    BY <1>5 DEF ToFloat, FromFloat, sys_misc_fxtof, sys_misc_ftofx, Made, Target, Unchanged, MemoriesRest, StageGoesOn
  <2> QED BY <2>1, TargetMemory
<1>6. CASE End
  <2>1. Target /\ Unchanged /\ MemoriesRest /\ phase' \in {"run", "left"} /\ StageGoesOn
    BY <1>6 DEF End, sys_exit, sys_abort, Timeout, Haywire, leave, Made, Target, Unchanged, MemoriesRest,
                hostVars, targetVars, StageGoesOn
  <2> QED BY <2>1, TargetMemory
<1>7. CASE JumpsToZero
  <2>1. Target /\ Unchanged /\ MemoriesRest /\ phase' \in {"run", "left"} /\ StageGoesOn
    BY <1>7 DEF JumpsToZero, Target, Unchanged, MemoriesRest, hostVars, StageGoesOn
  <2> QED BY <2>1, TargetMemory
<1> QED BY <1>1, <1>2, <1>3, <1>4, <1>5, <1>6, <1>7 DEF main

LEMMA MemoryNext == Inv /\ MemoryInv /\ [Next]_vars => MemoryInv'
<1> SUFFICES ASSUME Inv, MemoryInv, [Next]_vars PROVE MemoryInv'
  OBVIOUS
<1>1. SessionInv
  BY DEF Inv
<1>2. CASE UNCHANGED vars
  <2>1. FileRead /\ MemoriesRest /\ LineRests /\ PhaseGoesOn /\ StageGoesOn
    BY <1>2 DEF vars, optionVars, loadVars, hostVars, targetVars, FileRead, MemoriesRest, LineRests,
                PhaseGoesOn, StageGoesOn
  <2> QED BY <2>1, MemoryRests
<1>3. CASE /\ parse_args /\ UNCHANGED << isa, is_log, argv, plan >>
           /\ UNCHANGED << loadVars, hostVars, targetVars >>
  BY <1>1, <1>3, ReadingMemory
<1>4. CASE /\ load_to_flash /\ UNCHANGED << isa, is_log, argv, plan >>
           /\ UNCHANGED << hostVars, targetVars >>
  BY <1>1, <1>4, LoadingMemory
<1>5. CASE Start /\ UNCHANGED << isa, is_log, argv, plan >>
  BY <1>1, <1>5, StartMemory
<1>6. CASE main /\ UNCHANGED << isa, is_log, argv, plan >>
  BY <1>1, <1>6, MainMemory
<1> QED BY <1>2, <1>3, <1>4, <1>5, <1>6 DEF Next, Left, Start

(* A segment is held where it is used when main starts.                      *)
LEMMA HeldAtMain ==
  ASSUME Inv, MemoryInv, LaidOut, AtMain, file.elf, NEW p \in Segments
  PROVE  Held(p) /\ RodataHeld(p) /\ filesz(p) = Len(p.bytes) /\ Len(p.bytes) \in Nat
<1>1. /\ phase = "run" /\ stage = "main" /\ program.name \in DOMAIN ProgramFiles
      /\ seg > Len(file.phdrs) /\ seg \in Nat
  BY DEF AtMain, Running_, Inv, SessionInv, PhaseInv, ArchType, Afterwards, MemoryInv, StageInv
<1>2. file.phdrs \in Seq(PhdrType)
  BY <1>1, FileIs
<1>3. PICK j \in DOMAIN file.phdrs : p = file.phdrs[j]
  BY DEF Segments, Range
<1>4. j \in LoadedAt /\ p = SegmentAt(j) /\ j < seg /\ p \in PhdrType
  BY <1>1, <1>2, <1>3 DEF Segments, LoadedAt, SegmentAt
<1>5. Held(p) /\ (file.arch \in {100, 103} => RodataHeld(p))
  BY <1>1, <1>4 DEF MemoryInv, Filled, SegmentsHeld, Afterwards
<1>6. WithFlmap => RodataHeld(p)
  BY <1>1, <1>4 DEF MemoryInv, Filled, FlmapHeld, Running_
<1>7. IsRodata(p) => file.arch \in {100, 103} \/ WithFlmap
  BY <1>4 DEF LaidOut, SegmentLinked, RodataLinked
<1>8. RodataHeld(p)
  BY <1>5, <1>6, <1>7 DEF RodataHeld
<1> QED BY <1>4, <1>5, <1>8 DEF PhdrType, filesz

LEMMA LinkedAtMain == Inv /\ MemoryInv /\ LaidOut => MemoryAsLinked
<1> SUFFICES ASSUME Inv, MemoryInv, LaidOut, AtMain, file.elf,
                    NEW p \in Segments, NEW k \in 0 .. filesz(p) - 1
             PROVE  /\ p.paddr < DATA_VADDR => Read(flash, p.paddr + k) = p.bytes[k + 1]
                    /\ InEeprom(p) => Read(eeprom, p.vaddr - EEPROM_VADDR + k) = p.bytes[k + 1]
                    /\ do.d = 1 /\ is_data_for_sram_init(p) => Read(ram, p.vaddr - DATA_VADDR + k) = p.bytes[k + 1]
                    /\ p.vaddr # p.paddr /\ p.vaddr < 65536 /\ do.pm = 0 /\ RightArch
                         => Read(ram, p.vaddr + k) = p.bytes[k + 1]
  BY DEF MemoryAsLinked
<1>1. Held(p) /\ RodataHeld(p) /\ k \in 0 .. Len(p.bytes) - 1
  BY HeldAtMain
<1> QED BY <1>1 DEF Held, RodataHeld, HeldAt, InitializesData, IsRodata

LEMMA StringHeld ==
  ASSUME NEW a \in Nat, NEW word \in DOMAIN Words, HeldAt(ram, a, Chars(word))
  PROVE  IsString(a, Words[word].chars)
<1> DEFINE c == Words[word].chars  len == Len(c)
<1>1. c \in Seq(Nat) /\ Chars(word) = Append(c, 0)
  BY CharsAre DEF Chars
<1> HIDE DEF c
<1>2. /\ len \in Nat /\ DOMAIN c = 1 .. len /\ Len(Chars(word)) = len + 1
      /\ Chars(word)[len + 1] = 0 /\ \A n \in 1 .. len : Chars(word)[n] = c[n]
  BY <1>1
<1> HIDE DEF len
<1>3. \A k \in 0 .. len : Read(ram, a + k) = Chars(word)[k + 1]
  BY <1>2 DEF HeldAt
<1>4. Read(ram, a + len) = 0
  BY <1>2, <1>3
<1>5. ASSUME NEW n \in 1 .. len PROVE Read(ram, a + n - 1) = c[n]
  <2>1. n - 1 \in 0 .. len /\ (n - 1) + 1 = n /\ a + (n - 1) = a + n - 1
    BY <1>2
  <2> QED BY <1>2, <1>3, <2>1
<1> QED BY <1>2, <1>4, <1>5 DEF IsString, c, len

(* What -args passes on is held where argv points to.                       *)
PassesWords == AtMain /\ Given("args") # {} /\ Reads(Latest(Given("args"))).on

LEMMA PassedAtMain ==
  ASSUME Inv, MemoryInv, LaidOut, PassesWords
  PROVE  /\ args = SubSeq(argv, Latest(Given("args")) + 1, Len(argv)) /\ args \in Seq(DOMAIN Words)
         /\ \A n \in 1 .. Len(Passed) : ArgvPointsTo(n - 1, Words[Passed[n]].chars)
         /\ argc_argv.argc = Len(Passed) /\ RamWord(argc_argv.argv + 2 * argc_argv.argc) = 0
<1>1. OptionType /\ ArgsRead /\ ArgsPassed /\ program.short_name \in DOMAIN Words
  BY ShortIsWord DEF PassesWords, AtMain, Running_, Inv, SessionInv, MemoryInv, Filled, NameRead, Reading
<1> DEFINE k == Latest(Given("args"))
<1>2. k = At("args") /\ k # 0 /\ IsOn("args") /\ k \in Nat
  <2>1. Given("args") \in SUBSET (1 .. i - 1) /\ i - 1 \in Nat /\ At("args") \in Nat
    BY <1>1, GivenRange DEF OptionType
  <2>2. k # 0
    BY <2>1, LatestRange DEF PassesWords
  <2> QED BY <2>1, <2>2 DEF At, IsOn, PassesWords
<1> HIDE DEF k
<1>3. args = SubSeq(argv, k + 1, Len(argv)) /\ args \in Seq(DOMAIN Words)
  <2>1. args = SubSeq(argv, k + 1, Len(argv))
    BY <1>1, <1>2 DEF ArgsRead
  <2>2. argv \in Seq(DOMAIN Words)
    BY <1>1 DEF OptionType
  <2> QED BY <1>2, <2>1, <2>2
<1>4. ArgsHeld(ram, argc_argv, ArgStrings)
  BY <1>1, <1>2 DEF ArgsRead, OnOff, ArgsPassed
<1>5. StringsFit(ArgStrings, Passed)
  BY <1>1, <1>2, ArgStringsAre
<1>6. ASSUME NEW n \in 1 .. Len(Passed)
      PROVE  ArgvPointsTo(n - 1, Words[Passed[n]].chars)
  <2> DEFINE a == WordAt(ram, argc_argv.argv + 2 * (n - 1))
  <2>1. Passed[n] \in DOMAIN Words /\ ArgStrings[n] = Chars(Passed[n]) /\ n \in 1 .. Len(ArgStrings)
    BY <1>5 DEF StringsFit
  <2>2. a \in Nat /\ HeldAt(ram, a, ArgStrings[n])
    BY <1>4, <2>1 DEF ArgsHeld
  <2>3. RamWord(argc_argv.argv + 2 * (n - 1)) = a
    BY DEF RamWord, WordAt
  <2> HIDE DEF a
  <2> QED BY <2>1, <2>2, <2>3, StringHeld DEF ArgvPointsTo
<1>7. argc_argv.argc = Len(Passed) /\ RamWord(argc_argv.argv + 2 * argc_argv.argc) = 0
  BY <1>4, <1>5 DEF ArgsHeld, StringsFit, RamWord, WordAt
<1> QED BY <1>3, <1>6, <1>7 DEF k

(* The name of the program and then the words of -args.                     *)
LEMMA PassedIs ==
  ASSUME OptionType, NEW S, args \in Seq(S)
  PROVE  /\ Len(args) \in Nat /\ DOMAIN args = 1 .. Len(args)
         /\ Len(Passed) = Len(args) + 1 /\ Passed[1] = program.short_name
         /\ \A n \in 1 .. Len(args) : Passed[n + 1] = args[n]
<1> DEFINE q == << program.short_name >>  T == S \cup {program.short_name}
<1>1. q \in Seq(T) /\ Len(q) = 1 /\ q[1] = program.short_name
  OBVIOUS
<1>2. args \in Seq(T) /\ Len(args) \in Nat /\ DOMAIN args = 1 .. Len(args)
  OBVIOUS
<1>3. Passed = q \o args
  BY DEF Passed
<1> HIDE DEF q, T
<1>4. IsCat(Passed, q, args)
  BY <1>1, <1>2, <1>3, Both
<1>5. \A n \in 1 .. Len(args) : Passed[n + 1] = args[n]
  <2>1. \A n \in 1 .. Len(args) : n + 1 = 1 + n
    BY <1>2
  <2> QED BY <1>1, <1>4, <2>1 DEF IsCat
<1> QED BY <1>1, <1>2, <1>4, <1>5 DEF IsCat

LEMMA ArgvAtMain == Inv /\ MemoryInv /\ LaidOut => ArgvIsReadable
<1> SUFFICES ASSUME Inv, MemoryInv, LaidOut, AtMain, Given("args") # {} PROVE ArgvIsReadable
  BY DEF ArgvIsReadable
<1>1. OptionType /\ ArgsRead /\ ArgsPassed
  BY DEF AtMain, Running_, Inv, SessionInv, MemoryInv, Filled
<1> DEFINE k == Latest(Given("args"))
<1>2. CASE ~Reads(k).on
  <2>1. ~IsOn("args")
    BY <1>2 DEF At, IsOn
  <2>2. argc_argv = [argc |-> 0, argv |-> 0]
    BY <1>1, <2>1 DEF ArgsRead, OnOff, ArgsPassed
  <2> QED BY <1>2, <2>2 DEF ArgvIsReadable
<1>3. CASE Reads(k).on
  <2>1. PassesWords
    BY <1>3 DEF PassesWords
  <2>2. /\ args = SubSeq(argv, k + 1, Len(argv)) /\ args \in Seq(DOMAIN Words)
        /\ \A n \in 1 .. Len(Passed) : ArgvPointsTo(n - 1, Words[Passed[n]].chars)
        /\ argc_argv.argc = Len(Passed) /\ RamWord(argc_argv.argv + 2 * argc_argv.argc) = 0
    BY <2>1, PassedAtMain
  <2>3. /\ Len(args) \in Nat /\ DOMAIN args = 1 .. Len(args) /\ Len(Passed) = Len(args) + 1
        /\ \A n \in 1 .. Len(args) : Passed[n + 1] = args[n]
    BY <1>1, <2>2, PassedIs
  <2>4. ASSUME NEW n \in DOMAIN args PROVE ArgvPointsTo(n, Words[args[n]].chars)
    <3>1. n + 1 \in 1 .. Len(Passed) /\ (n + 1) - 1 = n /\ Passed[n + 1] = args[n]
      BY <2>3
    <3>2. ArgvPointsTo((n + 1) - 1, Words[Passed[n + 1]].chars)
      BY <2>2, <3>1
    <3> QED BY <3>1, <3>2
  <2> HIDE DEF k
  <2> QED BY <1>3, <2>2, <2>3, <2>4 DEF ArgvIsReadable, k
<1> QED BY <1>2, <1>3

LEMMA NameAtMain == Inv /\ MemoryInv /\ LaidOut => NameAtArgv0
<1> SUFFICES ASSUME Inv, MemoryInv, LaidOut, PassesWords PROVE NameAtArgv0
  BY DEF NameAtArgv0, PassesWords
<1>1. OptionType /\ NameGiven
  BY DEF PassesWords, AtMain, Running_, Inv, SessionInv, MemoryInv, NameRead, Reading
<1> DEFINE name == argv[Latest(Given(None))]  chars == Words[name].chars
<1>2. program.short_name = ShortName(name)
  BY <1>1 DEF NameGiven, At
<1>3. ArgvPointsTo(0, Words[program.short_name].chars)
  <2>1. /\ args \in Seq(DOMAIN Words)
        /\ \A n \in 1 .. Len(Passed) : ArgvPointsTo(n - 1, Words[Passed[n]].chars)
    BY PassedAtMain
  <2>2. Len(args) \in Nat /\ Len(Passed) = Len(args) + 1 /\ Passed[1] = program.short_name
    BY <1>1, <2>1, PassedIs
  <2>3. 1 \in 1 .. Len(Passed) /\ 1 - 1 = 0
    BY <2>2
  <2> QED BY <2>1, <2>2, <2>3
<1> HIDE DEF name
<1>4. CASE name \in DOMAIN FromLastSlash
  <2>1. EndOf(chars, Words[program.short_name].chars)
    BY <1>2, <1>4, SlashAssumption DEF ShortName
  <2>2. \E n \in 1 .. Len(chars) - 1 : ArgvPointsTo(0, SubSeq(chars, n + 1, Len(chars)))
    BY <1>3, <2>1 DEF EndOf
  <2> QED BY <1>4, <2>2 DEF NameAtArgv0, name
<1>5. CASE name \notin DOMAIN FromLastSlash
  <2>1. ArgvPointsTo(0, chars)
    BY <1>2, <1>3, <1>5 DEF ShortName
  <2> QED BY <1>5, <2>1 DEF NameAtArgv0, name
<1> QED BY <1>4, <1>5

LEMMA MemoryAlways == Spec => []MemoryInv
BY InvAlways, MemoryInit, MemoryNext, PTL DEF Spec

(* For every file that is laid out as a linker does it, and whose data is not *)
(* where -args puts the words: none of the writes to the memories -- segment by *)
(* segment, with the view of flash in RAM, the copy that FLMAP selects, .data, *)
(* the strings and pointers of -args -- destroys what another one has written. *)
THEOREM NothingOverwritten == Spec => [](LaidOut => MemoryAtMain)
<1>1. Inv /\ MemoryInv => (LaidOut => MemoryAtMain)
  BY LinkedAtMain, ArgvAtMain DEF MemoryAtMain
<1> QED BY <1>1, InvAlways, MemoryAlways, PTL

(* For the same files: what main finds as argv[0] is the word that names the *)
(* program, as it is or without its directories -- whatever else was written *)
(* to RAM, and however the name stands between the options.                 *)
THEOREM NameReachesMain == Spec => [](LaidOut => NameAtArgv0)
<1>1. Inv /\ MemoryInv => (LaidOut => NameAtArgv0)
  BY NameAtMain
<1> QED BY <1>1, InvAlways, MemoryAlways, PTL

==============================================================================
