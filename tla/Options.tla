------------------------------- MODULE Options -------------------------------
(***************************************************************************)
(* options.c: parse_args reads the command line word by word, set_streams   *)
(* opens what the target reads and writes; and leave() of avrtest.c.        *)
(*                                                                         *)
(* A word is a string; how the C functions read it (as an option, as a      *)
(* number, as a file name) is what the constant Words says of it.           *)
(***************************************************************************)
EXTENDS Integers, Sequences, FiniteSets

CONSTANTS
  Words,      \* [word -> how it reads]: .opt the option it is ("" when none),
              \* .on FALSE with "-no", .text what follows "=", .num and .unit
              \* the number it starts with and the rest
  TxtNames,   \* the words that end in .txt, .out, .log, .ppm and the like
  Unwritable, Readable,  \* names that fopen refuses to write, and can read
  FromLastSlash          \* [program -> its name from the last "/" on]

(* A word reads as an option, as a number and as a name, all at once.        *)
ASSUME WordsAssumption ==
  \A w \in DOMAIN Words :
    Words[w] \in [opt : STRING, on : BOOLEAN, text : STRING, num : Int,
                 unit : STRING, frac : Nat, expo : Int, chars : Seq(Nat)]

(* What is left of a name from the last "/" on is a word as well, and its    *)
(* characters are the last ones of that name.                               *)
EndOf(w, v) == \E n \in 1 .. Len(w) - 1 : v = SubSeq(w, n + 1, Len(w))

ASSUME SlashAssumption ==
  \A n \in DOMAIN FromLastSlash :
    /\ n \in DOMAIN Words /\ FromLastSlash[n] \in DOMAIN Words
    /\ EndOf(Words[n].chars, Words[FromLastSlash[n]].chars)

VARIABLES
  isa, is_log,     \* the variant of AVRtest: "classic", "xmega", "tiny"; _log?
  argv, i,         \* the command line, and the word that is read next
  phase,           \* what main is doing
  do, s,           \* options.do_xxx and options.s_xxx
  program,         \* name, short_name, entry_point, max_insns
  arch, flash_pm_offset,
  args,            \* what -args passes on, without argv[0]
  streams,         \* program.f_stdout, f_stderr, f_stdin, log_stream
  left             \* leave_status and exit code of the process, or Running

optionVars == << do, s, program, arch, flash_pm_offset, args, streams >>

(* No option, no name, no unit.                                             *)
None == ""

MAX_FLASH_SIZE == 262144

-----------------------------------------------------------------------------
(* leave()                                                                  *)

Running == [status |-> "RUNNING", code |-> 0]

exit_status ==
  [EXIT |-> 0, ABORTED |-> 1, TIMEOUT |-> 10, ELF |-> 11, CODE |-> 12,
   SYMBOL |-> 13, HOSTIO |-> 14, MEMORY |-> 20, USAGE |-> 21, FOPEN |-> 22,
   IEEE32 |-> 23, IEEE64 |-> 24, FATAL |-> 42]

(* Not the fault of the target program.                                     *)
Failure == {"MEMORY", "USAGE", "FOPEN", "IEEE32", "IEEE64", "FATAL"}

\* Seeded fault: without -q the value of exit() is passed on.
exit_code_always(n, exit_value) ==
  IF n = "EXIT" THEN exit_value ELSE IF do.q = 0 THEN 0 ELSE exit_status[n]

exit_code(n, exit_value) ==
  IF do.q = 0 THEN IF n \in Failure THEN 1 ELSE 0
              ELSE IF n = "EXIT" THEN exit_value ELSE exit_status[n]

leave(n, exit_value) ==
  /\ left' = [status |-> n, code |-> exit_code(n, exit_value)]
  /\ phase' = "left"

-----------------------------------------------------------------------------
(* Archs with their features.                                               *)
K64  == \h00ffff
K128 == \h01ffff
K256 == \h03ffff

XmegaArchs == {"avrxmega2", "avrxmega3", "avrxmega4", "avrxmega5", "avrxmega6", "avrxmega7"}
ClassicArchs == {"avr2", "avr25", "avr3", "avr31", "avr35", "avr4", "avr5", "avr51", "avr6"}
ArchsWith3BytePc == {"avr6", "avrxmega6", "avrxmega7"}
ArchsWith128K == {"avr31", "avr51", "avrtiny", "avrxmega4", "avrxmega5"}

ArchDesc(a) ==
  [isa             |-> IF a = "avrtiny" THEN "tiny"
                       ELSE IF a \in XmegaArchs THEN "xmega" ELSE "classic",
   pc_3bytes       |-> a \in ArchsWith3BytePc,
   has_eind        |-> a \in ArchsWith3BytePc,
   has_rampd       |-> a \in {"avrxmega5", "avrxmega7"},
   flash_addr_mask |-> IF a \in ArchsWith3BytePc THEN K256
                       ELSE IF a \in ArchsWith128K THEN K128 ELSE K64,
   flash_pm_offset |-> IF a = "avrtiny" THEN \h4000
                       ELSE IF a = "avrxmega3" THEN \h8000 ELSE 0]

arch_desc == [a \in ClassicArchs \cup XmegaArchs \cup {"avrtiny"} |-> ArchDesc(a)]

Named(a) == [name |-> a, desc |-> arch_desc[a]]
DefaultArch(v) ==
  Named(CASE v = "classic" -> "avr51" [] v = "xmega" -> "avrxmega6" [] v = "tiny" -> "avrtiny")

Streams == {"stdout", "stderr", "stdin"}
FileOpt(f) == CASE f = "stdout" -> "stdout=" [] f = "stderr" -> "stderr=" [] f = "stdin" -> "stdin="

(* options.def: what takes the word that follows, what has text behind "=",  *)
(* and what is on without being given.                                      *)
TakesWord == {"e", "pm", "sbox", "m", "s"}
WithText  == {"mmcu=", "stdin=", "stdout=", "stderr=", "log=", "graph=",
              "graph-base=", "graph-leaf=", "graph-sub=", "graph-skip="}
Flags     == {"d", "q", "runtime", "regs", "stdin", "stdout", "stderr", "flush",
              "v", "args", "log", "graph", "graph-reserved", "graph-all", "debug-tree"}
Defaults  == [o \in TakesWord \cup WithText \cup Flags |->
                IF o \in {"stdin", "stdout", "stderr", "log"} THEN 1 ELSE 0]

-----------------------------------------------------------------------------
(* Numbers: what follows one must be known.  -1 is the largest unsigned one; *)
(* no word is the one before it, so that -2 can stand for no number.         *)

Invalid == -2

PowersOf2 == {2^k : k \in 0 .. 30}

get_valid_number(w) == IF w.unit = None THEN w.num ELSE Invalid

(* -1 turns off what .note.gnu.avr.deviceinfo says.                         *)
get_valid_kilo(w) ==
  LET val == CASE w.unit = None -> w.num [] w.unit = "k" -> 1024 * w.num [] OTHER -> 0
  IN  IF val = -1 \/ (val \in PowersOf2 /\ val >= 512) THEN val ELSE 0

TimesTen(mant, expo) ==
  IF expo >= 0 THEN mant * 10^expo ELSE mant \div 10^(-expo)

(* A number like 1.25e3: num its digits, frac of them behind the dot.       *)
get_valid_numberE(w) ==
  IF w.expo < 0 THEN Invalid
  ELSE IF w.num = 0 THEN 0
  ELSE LET mant == TimesTen(w.num, w.expo - w.frac) IN IF mant < 1 THEN 1 ELSE mant

get_valid_numberKME(w) ==
  CASE w.unit = "e" -> get_valid_numberE(w)
    [] w.unit = "k" -> 1000 * w.num
    [] w.unit = "M" -> 1000000 * w.num
    [] w.unit = None -> w.num
    [] OTHER        -> Invalid

-----------------------------------------------------------------------------
(* parse_args                                                               *)

Word == Words[argv[i]]
Next1 == Words[argv[i + 1]]

Parsing == phase = "options" /\ i <= Len(argv)

BadArgument(o, w) ==
  CASE o = "e"  -> \/ get_valid_number(w) < 0 \/ get_valid_number(w) % 2 # 0
                   \/ get_valid_number(w) >= MAX_FLASH_SIZE
    [] o = "pm" -> get_valid_number(w) \notin {\h4000, \h8000}
    [] o = "m"  -> get_valid_numberKME(w) = Invalid
    [] o = "s"  -> get_valid_kilo(w) = 0
    [] OTHER    -> FALSE

Archs(v) == {a \in DOMAIN arch_desc : arch_desc[a].isa = v}

(* usage(): the process ends with LEAVE_USAGE.                              *)
BadWord ==
  \/ Word.opt = None /\ program.name # None
  \/ Word.opt = "mmcu=" /\ Word.on /\ Word.text \notin Archs(isa)
  \/ Word.opt \in TakesWord /\ i = Len(argv)
  \/ Word.opt \in TakesWord /\ Word.on /\ i < Len(argv) /\ BadArgument(Word.opt, Next1)

(* -h anywhere among the words, the ones behind -args included.             *)
Help ==
  /\ phase = "help"
  /\ IF \E k \in DOMAIN argv : Words[argv[k]].opt = "h"
     THEN phase' = "left" /\ left' = [status |-> "HELP", code |-> 0]
     ELSE phase' = "options" /\ UNCHANGED left
  /\ UNCHANGED << i, optionVars >>

Usage ==
  /\ Parsing /\ BadWord
  /\ leave("USAGE", 0)
  /\ UNCHANGED << i, optionVars >>

Off(f) == ~Word.on /\ Word.opt \in {f, FileOpt(f)}

\* Seeded fault: -no-stdout leaves -stdout=FILE in force.
NoStreamKeepsFile ==
  /\ Parsing
  /\ \E f \in Streams : Off(f) /\ do' = [do EXCEPT ![f] = 0]
  /\ i' = i + 1
  /\ UNCHANGED << phase, s, program, arch, flash_pm_offset, args, streams, left >>

(* -no-stdout, with or without a file name.                                 *)
NoStream ==
  /\ Parsing
  /\ \E f \in Streams : Off(f) /\ do' = [do EXCEPT ![f] = 0, ![FileOpt(f)] = 0]
  /\ i' = i + 1
  /\ UNCHANGED << phase, s, program, arch, flash_pm_offset, args, streams, left >>

(* What the search in option_desc does with any other option.               *)
flagged == [do EXCEPT ![Word.opt] = IF Word.on THEN 1 ELSE 0]
SetFlag ==
  /\ s' = IF Word.opt \in WithText
          THEN [s EXCEPT ![Word.opt] = IF Word.on THEN Word.text ELSE None] ELSE s
  /\ UNCHANGED << phase, streams, left >>

IsOption(o) == Parsing /\ ~BadWord /\ Word.opt = o

Flag ==
  /\ Parsing /\ Word.opt \in DOMAIN do \ (TakesWord \cup {"mmcu=", "args", "graph", "graph="})
  /\ ~\E f \in Streams : Off(f)
  /\ do' = flagged /\ SetFlag
  /\ i' = i + 1
  /\ UNCHANGED << program, arch, flash_pm_offset, args >>

(* Seeded fault: directories are kept.                                      *)
ShortNameWhole(name) == name

ShortName(name) == IF name \in DOMAIN FromLastSlash THEN FromLastSlash[name] ELSE name

ProgramName ==
  /\ IsOption(None)
  /\ program' = [program EXCEPT !.name = argv[i], !.short_name = ShortName(argv[i])]
  /\ i' = i + 1
  /\ UNCHANGED << phase, do, s, arch, flash_pm_offset, args, streams, left >>

Mmcu ==
  /\ IsOption("mmcu=")
  /\ do' = flagged /\ SetFlag
  /\ arch' = IF Word.on THEN Named(Word.text) ELSE DefaultArch(isa)
  /\ i' = i + 1
  /\ UNCHANGED << program, flash_pm_offset, args >>

EntryPoint ==
  /\ IsOption("e")
  /\ do' = flagged /\ SetFlag
  /\ program' = [program EXCEPT !.entry_point = IF Word.on THEN get_valid_number(Next1) ELSE 0]
  /\ i' = i + 2
  /\ UNCHANGED << arch, flash_pm_offset, args >>

FlashPmOffset ==
  /\ IsOption("pm")
  /\ do' = flagged /\ SetFlag
  /\ flash_pm_offset' = IF Word.on THEN get_valid_number(Next1) ELSE 0
  /\ i' = i + 2
  /\ UNCHANGED << program, arch, args >>

(* The folder itself is the business of HostFiles.tla.                      *)
Sandbox ==
  /\ IsOption("sbox")
  /\ do' = flagged /\ SetFlag
  /\ i' = i + 2
  /\ UNCHANGED << program, arch, flash_pm_offset, args >>

Args ==
  /\ IsOption("args")
  /\ do' = flagged /\ SetFlag
  /\ args' = IF Word.on THEN SubSeq(argv, i + 1, Len(argv)) ELSE << >>
  /\ i' = Len(argv) + 1
  /\ UNCHANGED << program, arch, flash_pm_offset >>

MaxInstrCount ==
  /\ IsOption("m")
  /\ do' = flagged /\ SetFlag
  /\ program' = IF Word.on THEN [program EXCEPT !.max_insns = get_valid_numberKME(Next1)]
                           ELSE program
  /\ i' = i + 2
  /\ UNCHANGED << arch, flash_pm_offset, args >>

Size ==
  /\ IsOption("s")
  /\ do' = IF Word.on THEN [do EXCEPT !.s = get_valid_kilo(Next1)] ELSE flagged
  /\ SetFlag
  /\ i' = i + 2
  /\ UNCHANGED << program, arch, flash_pm_offset, args >>

(* -graph=FILE turns -graph on, -no-graph forgets the file.                 *)
Graph ==
  /\ IsOption("graph") \/ IsOption("graph=")
  /\ do' = CASE Word.opt = "graph"  -> [flagged EXCEPT !["graph="] = IF Word.on THEN @ ELSE 0]
             [] Word.opt = "graph=" -> [flagged EXCEPT !.graph = IF Word.on THEN 1 ELSE 0]
  /\ SetFlag
  /\ i' = i + 1
  /\ UNCHANGED << program, arch, flash_pm_offset, args >>

-----------------------------------------------------------------------------
(* set_streams                                                              *)

NULL == << "NULL" >>
Std(f) == << "std", f >>
File(name) == << "file", name >>

fopen(name, f) ==
  IF IF f = "stdin" THEN name \in Readable ELSE name \notin Unwritable
  THEN File(name) ELSE NULL

\* Seeded fault: a name that is no text file switches the stream off.
maybe_open_file_or_null(f) ==
  IF do[FileOpt(f)] = 1
  THEN IF s[FileOpt(f)] \in TxtNames THEN fopen(s[FileOpt(f)], f) ELSE NULL
  ELSE IF do[f] = 1 THEN Std(f) ELSE NULL

maybe_open_file(f) ==
  IF do[FileOpt(f)] = 1
  THEN IF s[FileOpt(f)] \in TxtNames THEN fopen(s[FileOpt(f)], f) ELSE Std(f)
  ELSE IF do[f] = 1 THEN Std(f) ELSE NULL

log_stream ==
  LET name == s["log="]
      file == IF do["log="] = 0 THEN NULL
              ELSE IF name = "stderr" THEN Std("stderr")
              ELSE IF name \in TxtNames THEN fopen(name, "log") ELSE NULL
  IN  IF file = NULL THEN Std("stdout") ELSE file

MissingName == program.name = None
WrongOffset == flash_pm_offset # 0 /\ arch.name # "avrxmega3"

EndOfWords ==
  /\ phase = "options" /\ i > Len(argv)
  /\ UNCHANGED << i, do, s, program, flash_pm_offset, args >>
  /\ IF MissingName \/ WrongOffset
     THEN leave("USAGE", 0) /\ UNCHANGED << arch, streams >>
     ELSE /\ arch' = IF flash_pm_offset = 0 THEN arch
                     ELSE [arch EXCEPT !.desc.flash_pm_offset = flash_pm_offset]
          /\ streams' = [f \in Streams \cup {"log"} |->
                           IF f = "log" THEN log_stream ELSE maybe_open_file(f)]
          /\ phase' = "open" /\ UNCHANGED left

parse_args ==
  \/ Help \/ Usage \/ NoStream \/ Flag \/ ProgramName \/ Mmcu \/ EntryPoint
  \/ FlashPmOffset \/ Sandbox \/ Args \/ MaxInstrCount \/ Size \/ Graph \/ EndOfWords

InitOptions ==
  /\ i = 1 /\ phase = "help" /\ left = Running
  /\ do = Defaults /\ s = [o \in WithText |-> None]
  /\ program = [name |-> None, short_name |-> None, entry_point |-> 0, max_insns |-> 0]
  /\ arch = DefaultArch(isa)
  /\ flash_pm_offset = 0 /\ args = << >>
  /\ streams = [f \in Streams \cup {"log"} |-> NULL]

=============================================================================
