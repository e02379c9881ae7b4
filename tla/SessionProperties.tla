-------------------------- MODULE SessionProperties --------------------------
(***************************************************************************)
(* What a user is promised of a run of AVRtest.  The properties read the    *)
(* command line, the file and the history of syscalls on their own.         *)
(***************************************************************************)
EXTENDS Session

Running_ == phase = "run"
AtMain == Running_ /\ stage = "main"

-----------------------------------------------------------------------------
(* The command line                                                         *)

Reads(k) == Words[argv[k]]
Consumed[k \in 1 .. Len(argv)] ==
  k > 1 /\ ~Consumed[k - 1] /\ Reads(k - 1).opt \in TakesWord

(* Where an option stands: not as the argument of another, and not behind    *)
(* -args, where all words are the target's.                                 *)
Given(o) == {k \in 1 .. Len(argv) :
  /\ Reads(k).opt = o /\ k < i /\ ~Consumed[k]
  /\ \A j \in 1 .. k - 1 : Reads(j).opt = "args" => Consumed[j]}
GivenOn(o) == {k \in Given(o) : Reads(k).on}
GivenOff(o) == Given(o) \ GivenOn(o)
Latest(ks) == IF ks = {} THEN 0 ELSE Max(ks)

Opened(name, f) == IF name \in TxtNames THEN fopen(name, f) ELSE Std(f)

AskedStream(f) ==
  LET off  == Latest(GivenOff(f) \cup GivenOff(FileOpt(f)))
      name == Latest(GivenOn(FileOpt(f)))
      on   == Latest(GivenOn(f))
  IN  IF name > off THEN Opened(Reads(name).text, f)
      ELSE IF off = 0 \/ on > off THEN Std(f) ELSE NULL

AskedLog ==
  LET k == Latest(Given("log=")) IN
  IF k = 0 THEN Std("stdout")
  ELSE IF Reads(k).on /\ Reads(k).text = "stderr" THEN Std("stderr")
  ELSE IF Reads(k).on /\ Reads(k).text \in TxtNames /\ Reads(k).text \notin Unwritable
  THEN File(Reads(k).text) ELSE Std("stdout")

(* README, -stdin=FILE, -no-stdout and so on: of a name and a "no" for a     *)
(* stream the later one counts, a name that is no text file stands for the   *)
(* stream of AVRtest itself, and all that the target reads and writes (and   *)
(* logs) goes there (set_streams; syscalls 24, 28, 29, 7, 8).               *)
StreamsAsAsked ==
  Running_ =>
    /\ \A f \in Streams : streams[f] = AskedStream(f)
    /\ streams["log"] = AskedLog
    /\ \A n \in DOMAIN io :
         /\ io[n].stream \in Streams => io[n].dest = AskedStream(io[n].stream) /\ io[n].dest # NULL
         /\ io[n].stream = "log" => io[n].dest = AskedLog

(* -e ADDRESS.  The entry point is an even address in flash, because half of *)
(* it indexes decoded_flash.                                                *)
EntryAsAsked ==
  LET k == Latest(Given("e")) IN
  /\ program.entry_point =
       IF k # 0 /\ Reads(k).on THEN Reads(k + 1).num
       ELSE IF file.elf /\ file.entry < DATA_VADDR THEN file.entry ELSE 0
  /\ program.entry_point \in 0 .. MAX_FLASH_SIZE - 2 /\ program.entry_point % 2 = 0

(* README, -s SIZE.                                                         *)
FlashSizeAsAsked ==
  LET k == Latest(Given("s"))
      asked == k # 0 /\ Reads(k).on
  IN  2 * (image.pc_mask + 1) =
        IF asked /\ Reads(k + 1).num # -1
        THEN IF Reads(k + 1).unit = "k" THEN 1024 * Reads(k + 1).num ELSE Reads(k + 1).num
        ELSE IF ~asked /\ device.flash_start = 0 /\ device.flash_end \in PowersOf2
        THEN device.flash_end ELSE arch.desc.flash_addr_mask + 1

(* README, -m MAXCOUNT: 0 is no limit; a number above 0 is always a limit,   *)
(* also one that is below 1 or cut off (get_valid_numberE).                 *)
ALimitIsALimit ==
  \A k \in GivenOn("m") :
    k = Latest(GivenOn("m")) => (program.max_insns = 0 <=> Reads(k + 1).num = 0)

(* The last word on the entry point, the size of flash and the limit counts, *)
(* and the file (its header, its device note) only where the command line is *)
(* silent.                                                                  *)
ArgumentsAsAsked == Running_ => EntryAsAsked /\ FlashSizeAsAsked /\ ALimitIsALimit

-----------------------------------------------------------------------------
(* The program file                                                         *)

Segments == {p \in Range(file.phdrs) : IsLoaded(p)}

ArchNumber ==
  [avrtiny |-> 100, avrxmega2 |-> 102, avrxmega3 |-> 103, avrxmega4 |-> 104, avrxmega6 |-> 106]
RightArch == arch.name \in DOMAIN ArchNumber /\ ArchNumber[arch.name] = file.arch

(* Every byte is where the linker said: code in flash, .rodata where loads    *)
(* from RAM look for it once the start-up code is through (in avrxmega3 and   *)
(* avrtiny by the offset of flash in RAM, with FLMAP by the copy), .data if    *)
(* -d is on, .eeprom.  -pm is the user's own choice of an offset.           *)
MemoryAsLinked ==
  AtMain /\ file.elf => \A p \in Segments : \A k \in 0 .. filesz(p) - 1 :
    /\ p.paddr < DATA_VADDR => Read(flash, p.paddr + k) = p.bytes[k + 1]
    /\ InEeprom(p) => Read(eeprom, p.vaddr - EEPROM_VADDR + k) = p.bytes[k + 1]
    /\ do.d = 1 /\ is_data_for_sram_init(p) => Read(ram, p.vaddr - DATA_VADDR + k) = p.bytes[k + 1]
    /\ p.vaddr # p.paddr /\ p.vaddr < 65536 /\ do.pm = 0 /\ RightArch
         => Read(ram, p.vaddr + k) = p.bytes[k + 1]

(* decode_flash decodes from code_start to code_end: no byte of an            *)
(* executable segment may be outside, nor behind where the program counter   *)
(* of relative jumps wraps around.                                          *)
CodeIsDecoded ==
  Running_ /\ file.elf => \A p \in Segments :
    p.x /\ p.paddr < DATA_VADDR =>
      /\ image.code_start <= p.paddr /\ p.paddr + p.memsz - 1 <= image.code_end
      /\ p.paddr + p.memsz <= 2 * (image.pc_mask + 1) /\ image.code_end \div 2 < image.max_pc

(* A program that was built for another variant, another size of the program *)
(* counter or another view of flash never runs, whatever -mmcu, -pm and the   *)
(* device note have made of the architecture (check_arch).                  *)
OnlyFittingFilesRun ==
  Running_ /\ file.elf =>
    file.arch \in CASE isa = "tiny" -> {100}
                       [] isa = "classic" -> IF arch.desc.pc_3bytes THEN {6} ELSE 0 .. 99 \ {6}
                       [] isa = "xmega" -> IF arch.desc.pc_3bytes THEN {106, 107}
                                           ELSE IF pm # 0 THEN {103} ELSE {102, 104, 105}

-----------------------------------------------------------------------------
(* The end                                                                  *)

Quiet == LET k == Latest(Given("q")) IN k # 0 /\ Reads(k).on
Exited(v) == Len(calls) > 0 /\ Last(calls) = [call |-> "exit", val |-> v]

(* README, -q: with it, 0 means that the program called exit(0), and every    *)
(* failure has its number; without it 1 means a failure of AVRtest or of how  *)
(* it was called, and 0 everything else.                                    *)
ExitCodeAsDocumented ==
  phase = "left" /\ left.status \notin {"HELP", "CRASH"} =>
    IF Quiet
    THEN /\ left.code = 0 => Exited(0)
         /\ left.status = "EXIT" => Exited(left.code)
         /\ left.status # "EXIT" => left.code = exit_status[left.status]
    ELSE left.code = IF left.status \in {"FOPEN", "USAGE"} THEN 1 ELSE 0

-----------------------------------------------------------------------------
(* What the target calls                                                    *)

RamWord(a) == Read(ram, a) + 256 * Read(ram, a + 1)
IsString(a, chars) ==
  /\ \A n \in DOMAIN chars : Read(ram, a + n - 1) = chars[n]
  /\ Read(ram, a + Len(chars)) = 0

ArgvPointsTo(n, chars) == IsString(RamWord(argc_argv.argv + 2 * n), chars)

(* README, -args: main finds argc; argv[1] to argv[argc - 1] point to the     *)
(* words behind -args, and argv[argc] is NULL.                               *)
ArgvIsReadable ==
  AtMain /\ Given("args") # {} =>
    LET k == Latest(Given("args"))
        passed == SubSeq(argv, k + 1, Len(argv))
    IN  IF ~Reads(k).on THEN argc_argv = [argc |-> 0, argv |-> 0]
        ELSE /\ argc_argv.argc = Len(passed) + 1
             /\ \A n \in DOMAIN passed : ArgvPointsTo(n, Words[passed[n]].chars)
             /\ RamWord(argc_argv.argv + 2 * argc_argv.argc) = 0

(* argv[0] points to the word that names the program if that has no          *)
(* directory, else to an end of it, as it does without its directories       *)
(* (whether a "/" is left of these is not said).                             *)
NameAtArgv0 ==
  AtMain /\ Given("args") # {} /\ Reads(Latest(Given("args"))).on =>
    LET name  == argv[Latest(Given(None))]
        chars == Words[name].chars
    IN  IF name \in DOMAIN FromLastSlash
        THEN \E n \in 1 .. Len(chars) - 1 : ArgvPointsTo(0, SubSeq(chars, n + 1, Len(chars)))
        ELSE ArgvPointsTo(0, chars)

(* What loader and start-up code write to RAM, one after the other, does not *)
(* destroy what another one of them has written.                            *)
MemoryAtMain == MemoryAsLinked /\ ArgvIsReadable

LastCall == Last(calls)
Lately(call) == Len(calls) > 0 /\ LastCall.call = call

(* A logged value is the one that was passed, whatever else is in the         *)
(* registers: the same bytes, and the sign of the signed ones (syscalls 7, 8). *)
LoggedIsPassed ==
  Lately("value") =>
    LET size == layout[LastCall.cmd][1]  val == Last(io).val
        wide == IF size = 8 THEN Wide(8) ELSE Full
    IN
    /\ (val - LastCall.val) % Wide(size) = 0
    /\ IF layout[LastCall.cmd][2]
       THEN val - (IF val >= wide \div 2 THEN wide ELSE 0) = Signed(LastCall.val, size)
       ELSE val < Wide(size)

LogCalls == {n \in DOMAIN calls : calls[n].call \in FormatCmds \cup {"UNSET_FMT", "value"}}
LogBefore(n) == Latest({k \in LogCalls : k < n})
LastingBefore(n) ==
  Latest({k \in LogCalls : k < n /\ calls[k].call \in {"SET_FMT", "SET_PFMT", "UNSET_FMT"}})
OnceAt(n) == n \in DOMAIN calls /\ calls[n].call \in {"SET_FMT_ONCE", "SET_PFMT_ONCE"}
InForce(n) == LET k == LastingBefore(n) IN k # 0 /\ calls[k].call # "UNSET_FMT"

(* avrtest.h: LOG_SET_FMT_ONCE is for the next action only, LOG_SET_FMT for    *)
(* all subsequent logs, LOG_UNSET_FMT resets to the default.                 *)
FormatIsDocumented(n) ==
  Last(io).fmt = IF OnceAt(LogBefore(n)) THEN calls[LogBefore(n)].fmt
                 ELSE IF InForce(n) THEN calls[LastingBefore(n)].fmt ELSE calls[n].cmd
FormatAsDocumented == Lately("value") => FormatIsDocumented(Len(calls))

(* The same as long as no format is set once while another one is in force    *)
(* (sys_log_dump keeps both in fmt_once and in one buffer).                  *)
FormatAsSet ==
  (\A n \in DOMAIN calls : OnceAt(n) => ~InForce(n)) => FormatAsDocumented

(* A log shows the value that was passed in the format that was asked for.  *)
LoggedAsPassed == LoggedIsPassed /\ FormatAsSet

Arith == Len(calls) > 0 /\ LastCall.call \in {"mul", "div", "mod"}

(* Division of syscall 21 fits together, for the most negative number by -1    *)
(* and for 0 as well: quotient * divisor + remainder is the dividend, modulo   *)
(* the size, and the remainder is smaller and has the sign of the dividend.   *)
(* A product is the one of the numbers, modulo the size.                     *)
Result(size) == Unsigned(regs, FirstReg(size), size)
Number(v, size) == IF LastCall.signed THEN Signed(v, size) ELSE v
SameSign(x, y) == x # 0 => (x < 0 <=> y < 0)
QuotientAndRemainder ==
  Arith =>
    LET size == LastCall.size
        a == Number(LastCall.a, size)  b == Number(LastCall.b, size)
        c == Number(Result(size), size)
    IN
    /\ LastCall.call = "mul" => (c - a * b) % Wide(size) = 0
    /\ LastCall.call = "mod" =>
         IF b = 0 THEN c = a
         ELSE (a - c) % Abs(b) = 0 /\ Abs(c) < Abs(b) /\ SameSign(c, a)
    /\ LastCall.call = "div" =>
         IF b = 0 THEN IF LastCall.signed THEN Abs(c) = 1 ELSE c = Wide(size) - 1
         ELSE \/ Abs(a - b * c) < Abs(b) /\ SameSign(a - b * c, a)
              \/ a = IntMin(size) /\ b = -1 /\ c = IntMin(size)

(* Fixed point to float and back (the same or another type): nothing is lost   *)
(* as long as the mantissa has one bit to spare; beyond, the error is below the *)
(* spacing of floats there; what does not fit saturates.                     *)
Exactly(v, from, to) ==    \* v * 2^(to - from), to nearest, the middle away from 0
  LET n == IF to >= from THEN Abs(v) * 2^(to - from)
           ELSE ((2 * Abs(v)) \div 2^(from - to) + 1) \div 2
  IN  IF v < 0 THEN -n ELSE n
Spacing(n) == IF BitLen(Abs(n)) < MantBits THEN 0 ELSE 2^(BitLen(Abs(n)) - MantBits)
Back(u) == LET sz == FxTypes[u][2]  v == Unsigned(regs, FxReg(sz), sz)
           IN  IF FxTypes[u][1] THEN Signed(v, sz) ELSE v
FixedRoundTrip ==
  Len(calls) = 2 /\ calls[1].call = "fxtof" /\ calls[2].call = "ftofx" =>
    LET t == calls[1].t  u == calls[2].t
        v == IF FxTypes[t][1] THEN Signed(calls[1].val, FxTypes[t][2]) ELSE calls[1].val
        n == Exactly(v, FxTypes[t][3], FxTypes[u][3])
        sat == Saturated(n, FxTypes[u][1], FxTypes[u][2])
    IN  /\ Abs(Back(u) - sat) <= Spacing(n)
        /\ sat # n /\ Abs(n - sat) > Spacing(n) => Back(u) = sat

=============================================================================
