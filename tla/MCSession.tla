------------------------------ MODULE MCSession ------------------------------
EXTENDS SessionProperties

Table(pairs) == [k \in {p[1] : p \in pairs} |-> (CHOOSE p \in pairs : p[1] = k)[2]]

(* The words of the command lines.                                          *)
Plain == [opt |-> "", on |-> TRUE, text |-> "", num |-> 0, unit |-> "x", frac |-> 0,
          expo |-> 0, chars |-> << >>]
Opt(o)          == [Plain EXCEPT !.opt = o]
No(o)           == [Opt(o) EXCEPT !.on = FALSE]
Text(o, t)      == [Opt(o) EXCEPT !.text = t]
Num(n, u)       == [Plain EXCEPT !.num = n, !.unit = u]
Sci(n, fr, ex)  == [Num(n, "e") EXCEPT !.frac = fr, !.expo = ex]
Chars_(cs)      == [Plain EXCEPT !.chars = cs]

ArchNames == {"avrtiny", "avr2", "avr6", "avrxmega2", "avrxmega3", "avrxmega4", "avrxmega6"}
MmcuOf == [a \in ArchNames |->
  CASE a = "avrtiny" -> "-mmcu=avrtiny" [] a = "avr2" -> "-mmcu=avr2" [] a = "avr6" -> "-mmcu=avr6"
    [] a = "avrxmega2" -> "-mmcu=avrxmega2" [] a = "avrxmega3" -> "-mmcu=avrxmega3"
    [] a = "avrxmega4" -> "-mmcu=avrxmega4" [] a = "avrxmega6" -> "-mmcu=avrxmega6"]
MmcuWords == {MmcuOf[a] : a \in ArchNames}

FileNames == {"p", "start", "odd", "deep", "m8", "badsym", "big", "cut", "many", "nohdr",
              "nosec", "data", "raw", "empty", "x3", "x3full", "x3big", "m4808", "x4", "x6", "tiny", "none"}

WordTable ==
  {<< f, Chars_(<< 1, 2 >>) >> : f \in FileNames} \cup
  {<< MmcuOf[a], Text("mmcu=", a) >> : a \in ArchNames} \cup
  {<< "dir/p", Chars_(<< 3, 4, 1, 2 >>) >>, << "/p", Chars_(<< 4, 1, 2 >>) >>, << "hallo", Chars_(<< 5 >>) >>,
   << "4 2", Chars_(<< 6, 7, 8 >>) >>, << "-h", [Opt("h") EXCEPT !.chars = << 3 >>] >>,
   << "-args", [Opt("args") EXCEPT !.chars = << 9 >>] >>, << "-no-args", No("args") >>,
   << "-stdout", Opt("stdout") >>, << "-no-stdout", No("stdout") >>,
   << "-no-stdout=", No("stdout=") >>, << "-stdout=o.txt", Text("stdout=", "o.txt") >>,
   << "-stdout=o.bin", Text("stdout=", "o.bin") >>, << "-stdout=/o.txt", Text("stdout=", "/o.txt") >>,
   << "-no-stderr", No("stderr") >>, << "-stdin=i.txt", Text("stdin=", "i.txt") >>,
   << "-log=stderr", Text("log=", "stderr") >>, << "-log=l.txt", Text("log=", "l.txt") >>,
   << "-log=l.bin", Text("log=", "l.bin") >>, << "-no-log=", No("log=") >>,
   << "-no-log", No("log") >>,
   << "-e", Opt("e") >>, << "-no-e", No("e") >>, << "0x100", Num(256, "") >>, << "7", Num(7, "") >>,
   << "0x40000", Num(262144, "") >>, << "0x4000", Num(\h4000, "") >>, << "0x8000", Num(\h8000, "") >>,
   << "-s", Opt("s") >>, << "-no-s", No("s") >>, << "8k", Num(8, "k") >>, << "-1", Num(-1, "") >>,
   << "-pm", Opt("pm") >>, << "-no-pm", No("pm") >>, << "-sbox", Opt("sbox") >>,
   << "-m", Opt("m") >>, << "-no-m", No("m") >>, << "0", Num(0, "") >>, << "0.05e1", Sci(5, 2, 1) >>,
   << "1.5e1", Sci(15, 1, 1) >>, << "5e-1", Sci(5, 0, -1) >>, << "0e2", Sci(0, 0, 2) >>,
   << "-q", Opt("q") >>, << "-no-q", No("q") >>, << "-d", Opt("d") >>,
   << "-graph", Opt("graph") >>, << "-graph=g.txt", Text("graph=", "g.txt") >>,
   << "-no-mmcu=", No("mmcu=") >>}
AllWords == Table(WordTable)

TextNames == {"o.txt", "/o.txt", "i.txt", "l.txt", "g.txt"}
LastSlash == [p \in {"dir/p"} |-> "/p"]

(* The program files.                                                       *)
Seg(paddr, vaddr, bytes, memsz) ==
  [load |-> TRUE, paddr |-> paddr, vaddr |-> vaddr, bytes |-> bytes, memsz |-> memsz,
   x |-> FALSE, truncated |-> FALSE]
Code(paddr, bytes) == [Seg(paddr, paddr, bytes, Len(bytes)) EXCEPT !.x = TRUE]
Data   == Seg(\h200, \h800100, << 9, 8 >>, 2)
Eeprom == Seg(EEPROM_VADDR, EEPROM_VADDR, << 7 >>, 1)
Bss    == Seg(\h202, \h800102, << >>, 4)

Elf(arch_, phdrs) ==
  [elf |-> TRUE, header |-> TRUE, arch |-> arch_, entry |-> 0, sections |-> TRUE,
   symbols |-> {}, device |-> NoDevice, phdrs |-> phdrs]
Device(n, end) == [name |-> n, flash_start |-> 0, flash_end |-> end]
Raw(bytes) == [elf |-> FALSE, arch |-> 51, device |-> NoDevice, bytes |-> bytes]
Sym(n, t, v) == [name |-> n, type |-> t, exec |-> TRUE, value |-> v, internal |-> FALSE]

P == Elf(51, << Code(0, << 1, 2, 3, 4 >>), Bss, Code(\h100, << 5, 6 >>), Data, Eeprom >>)
FLMAP == "avr128da32"

FileTable == {
  << "p", [P EXCEPT !.entry = \h100] >>, << "start", [P EXCEPT !.entry = \h800100] >>,
  << "odd", [P EXCEPT !.entry = 3] >>, << "deep", [P EXCEPT !.entry = \h1000] >>,
  << "m8", [P EXCEPT !.arch = 4, !.device = Device("atmega8", 8192),
              !.symbols = {Sym("main", "FUNC", 2), Sym("lab", "NOTYPE", 3)}] >>,
  << "dir/p", P >>, << "badsym", [P EXCEPT !.symbols = {Sym("f", "FUNC", 3)}] >>,
  << "big", [P EXCEPT !.phdrs = << Code(0, << 1 >>), Code(\h3fffe, << 1, 2, 3 >>) >>] >>,
  << "cut", [P EXCEPT !.phdrs = << [Code(0, << 1 >>) EXCEPT !.truncated = TRUE] >>] >>,
  << "many", [P EXCEPT !.phdrs = [k \in 1 .. 17 |-> Code(2 * k, << 1, 2 >>)]] >>,
  << "nohdr", [P EXCEPT !.header = FALSE] >>, << "nosec", [P EXCEPT !.sections = FALSE] >>,
  << "data", [P EXCEPT !.phdrs = << Seg(0, 0, << 1 >>, 1), Data >>] >>,
  << "raw", Raw(<< 1, 2, 3, 4 >>) >>, << "empty", Raw(<< >>) >>,
  << "x3", [Elf(103, << Code(0, << 1, 2 >>), Seg(\h7000, \hf000, << 3, 4 >>, 2),
                        Seg(\h7002, \h803e00, << 8 >>, 1) >>) EXCEPT !.device = Device("attiny3216", 32768)] >>,
  << "x3full", Elf(103, << Code(0, << 1, 2 >>), Seg(\h7ffe, \hfffe, << 3, 4 >>, 2) >>) >>,
  << "x3big", Elf(103, << Code(0, << 1, 2 >>), Seg(\h7fff, \hffff, << 3, 4 >>, 2) >>) >>,
  << "m4808", [Elf(103, << Code(0, << 1, 2 >>), Seg(\h3000, \h7000, << 3, 4 >>, 2) >>)
                 EXCEPT !.device = Device("atmega4808", 49152)] >>,
  << "x4", [Elf(104, << Code(0, << 1, 2 >>), Seg(\h1f000, \hf000, << 3, 4 >>, 2) >>)
              EXCEPT !.device = Device(FLMAP, 131072)] >>,
  << "x6", Elf(106, << Code(0, << 1, 2 >>) >>) >>,
  << "tiny", Elf(100, << Code(0, << 1, 2 >>), Seg(16, \h4010, << 3, 4 >>, 3) >>) >>}
AllFiles == Table(FileTable)

Family == [isas |-> {"classic"}, logs |-> {TRUE}, before |-> {<< >>}, words |-> {}, n |-> 0,
           does |-> {}, max |-> 1]

AllFamilies == {
  [Family EXCEPT !.logs = BOOLEAN, !.before = {<< "p" >>}, !.n = 3, !.does = {"streams"},
     !.words = {"-stdout", "-no-stdout", "-no-stdout=", "-stdout=o.txt", "-stdout=o.bin",
                "-stdout=/o.txt", "-no-stderr", "-stdin=i.txt"}],
  [Family EXCEPT !.logs = BOOLEAN, !.before = {<< "p" >>}, !.n = 3, !.does = {"formats"},
     !.words = {"-log=stderr", "-log=l.txt", "-log=l.bin", "-no-log=", "-no-log"}],
  [Family EXCEPT !.words = {"-e", "-no-e", "0x100", "7", "0x40000"}, !.n = 3,
     !.before = {<< f, e >> : f \in {"p", "start", "deep", "raw"}, e \in {"-e", "-no-e"}}],
  [Family EXCEPT !.words = {"-s", "-no-s", "8k", "-1", "7", "0x40000"}, !.n = 3,
     !.before = {<< "p", "-s" >>, << "m8", "-s" >>}],
  [Family EXCEPT !.words = {"-m", "-no-m", "0", "7", "8k", "0.05e1", "1.5e1", "5e-1", "0e2"}, !.n = 3,
     !.before = {<< "p", "-m" >>}],
  [Family EXCEPT !.words = FileNames, !.n = 1, !.isas = {"classic", "xmega", "tiny"},
     !.logs = BOOLEAN, !.before = {<< >>, << "-d" >>} \cup {<< m >> : m \in MmcuWords}
  ],
  [Family EXCEPT !.words = {"0x4000", "0x8000", "-pm", "-no-pm", "-mmcu=avrxmega3", "-mmcu=avrxmega2", "-no-mmcu=",
                            "x3", "m4808", "x6"}, !.n = 3, !.isas = {"xmega"},
     !.before = {<< "-pm" >>, << "-mmcu=avrxmega3" >>}],
  [Family EXCEPT !.words = {"-args", "-no-args", "hallo", "4 2", "-h", "p"}, !.n = 3,
     !.before = {<< "p" >>, << "dir/p" >>}],
  [Family EXCEPT !.words = {"-args", "hallo", "-d"}, !.n = 2, !.isas = {"xmega"},
     !.before = {<< "-mmcu=avrxmega3", "x3" >>, << "-mmcu=avrxmega3", "m4808" >>,
                 << "-mmcu=avrxmega4", "x4" >>}],
  [Family EXCEPT !.words = {"-args", "hallo", "-d"}, !.n = 2, !.isas = {"tiny"},
     !.before = {<< "tiny" >>}],
  [Family EXCEPT !.words = {"-q", "-no-q", "x6", "none", "-sbox", "-graph", "-graph=g.txt"}, !.n = 2,
     !.before = {<< "p" >>, << "-m", "7", "p" >>, << >>, << "odd" >>}],
  [Family EXCEPT !.before = {<< "p" >>}, !.does = {"restart"}],
  [Family EXCEPT !.before = {<< "p" >>}, !.does = {"formats"}, !.max = 4],
  [Family EXCEPT !.before = {<< "p" >>}, !.does = {"values"}, !.max = 2],
  [Family EXCEPT !.before = {<< "p" >>}, !.does = {"arith"}],
  [Family EXCEPT !.before = {<< "p" >>}, !.does = {"fixed"}, !.max = 2]}

(* Boundaries of values of size bytes, with bytes of 2 bits.                 *)
Boundaries == [size \in {1, 2, 3, 4, 8} |->
  IF size = 4 THEN {0, 1, 2, 3, 7, 13, 99, 127, 128, 129, 200, 254, 255}
  ELSE IF size = 8 THEN {0, 1, 2, 3, 7, 100, 255, 256, 12345, 32767, 32768, 32769, 46340, 65279, 65534, 65535}
  ELSE IF size = 3 THEN {0, 1, 21, 31, 32, 63} ELSE 0 .. 4^size - 1]

=============================================================================
