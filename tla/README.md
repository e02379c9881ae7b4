# AVRtest in TLA+

AVRtest simulates AVR microcontrollers for the tests of a compiler: it loads an ELF file, decodes
the flash, and executes instruction by instruction until the program exits, aborts, runs into an
error or reaches a limit. It is a sequential program. What makes it hard is not concurrency but long
sequences: the simulated program may execute any instruction in any order, write the stack pointer
and the stack, and talk to AVRtest with system calls (the opcode `SYSCALL n`) whose effects last.
Most state is read and written by several parts of AVRtest: the stack pointer by instructions, log,
meters and call graph; the cycle counter by instructions, ticks port and meters.

This directory has TLA+ modules translated from the C sources, TLC runs that check them on small
instances, and TLAPS proofs for every value of the constants. `PROJECT.json` lists which lines each
definition stands for, the runs, the mutants each property is known to detect, the hazards the
properties are for, and the theorems.

## The system

| Part | Source | State | Operations |
|---|---|---|---|
| Execution loop | `avrtest.c` | PC, data memory with SP and SREG, cycle and instruction counts, exit status | `do_step`, the `func_*` of every opcode, `leave` |
| Arithmetic and flags | `avrtest.c`, `gen-flag-tables.c` | registers, SREG | the `func_*` that compute, tables of flags computed in advance |
| Ticks port | `host.c`, `avrtest.c` | counters at the last reset, a pending measurement, a random number | SYSCALL 4, hooks in CALL, RCALL and RET |
| Instruction log | `logging.c` | on or off, count-down, stack of saved states, text of the current line | SYSCALLs 0 to 3 and 9 to 11; `log_add_instr` before and `log_dump_line` after each instruction |
| Perf-meters | `perf.c` | seven meters with totals, extremes and the start of their round | SYSCALLs 5 and 6; `perf_instruction` after each instruction |
| Call graph | `graph.c` | functions, edges, a shadow of the call stack, cycles not yet distributed | `graph_update_call_depth` after each instruction |
| Files, host side | `host.c` | eight open files, numbered by handles | SYSCALL 26 with ten functions |
| Files, target side | `dejagnuboards/fileio.c` | eight `FILE`s, three of them standard streams | wrappers of stdio functions, `host_*` functions on handles |
| Log output | `host.c` | the formats set for the next value and for all | SYSCALLs 7 and 8 |
| 64-bit and float arithmetic | `host.c` | none | functions of SYSCALL 21 |
| Decoder | `load-flash.c` | flash and its decoded copy, `max_pc` | `decode_flash`, `decode_opcode` |
| ELF loader | `load-flash.c` | images of flash, RAM and EEPROM, start and end of the code, size of the program counter | `load_elf`, raw images |
| Options and streams | `options.c`, `options.def` | the values of the options, input, output and log streams | `parse_args`, `put_argv`, SYSCALLs 24, 27 to 29 |
| Start-up and exit of the target | `dejagnuboards/exit.c` | none | code in `.init` sections, `exit`, `abort` |
| Build and test scripts | `Makefile`, `dejagnuboards`, `tests` | none | |

How they interact. `main` parses options, loads, decodes, initialises log and meters, and calls
`execute`, which calls `do_step` until `leave()` ends the process from wherever it is called. One
`do_step` is, in this order: `log_add_instr`, advance PC, add the base cycles, the instruction
function (which may be a system call and so change log, meters, ticks port or files), `log_dump_line`
(which calls `perf_instruction` and the call graph), the comparison with the limit, the count. Log
and meters run only in the program `avrtest_log`.

What makes each part correct, and what is hard about it:

- *Execution loop.* Only decoded code is executed, whatever a program jumps to, in a flash that is
  full to its last word too. Return addresses survive and lead back. Limits end the program. Hard:
  boundaries (end of flash, `pc_mask`, stack pointer at both ends of memory, cycles in 64 bits).
- *Arithmetic.* Flags are those of the data sheets, here of `tests/sreg`. Sequences of instructions
  with carry compute on whole numbers. Hard: index computations and results out of 8 bits.
- *Ticks port.* `avrtest_cycles_call` measures the next call and no other. Hard: recursion, a second
  request during a measurement, resets during a measurement.
- *Instruction log.* What is printed is what the commands ask for. Hard: the decision to print is made
  after the instruction and the text must have been collected before; the count-down passes over the
  instruction that starts it; states nest.
- *Perf-meters.* Totals are the sums over rounds, extremes are of rounds. Hard: a meter is switched by
  instructions that may or may not count themselves; SP is sampled while it is half-written.
- *Call graph.* The call stack it keeps is the one of the program; every cycle is accounted once, to
  the function that runs, and once to each of its callers. Hard: calls are guessed from opcodes and SP;
  tail calls, switch tables, `longjmp`, PUSH/RET, code that leaves `main` for `exit` after its return;
  recursion, when costs go to every caller.
- *Files.* Two tables in two programs must agree. Hard: stale pointers and handles, failing opens.
- *Decoder.* Each of the 65536 words is the instruction the data sheet says, in each variant. Hard: a
  cascade of masks whose order decides; words whose meaning depends on the next word.
- *Loader, options, start-up.* The last word of the user counts, the file fills in what the user left
  open; the program finds its code, constants, data and arguments where it was linked to look for them;
  what does not fit is refused. Hard: three parties (command line, file, architecture) set the same
  variables in several orders; three writers of RAM.
- *Log output and arithmetic.* What is logged is what was passed; results are right at the limits of
  each type.
- *End.* No failure looks like `exit(0)`.

## Modules

| Module | Models | Notes |
|---|---|---|
| `TicksPort` | `ticks_port_t`, SYSCALL 4, `maybe_cycles_call_*` | operators and state used by `AvrCore` |
| `AvrCore` | `do_step` and every opcode that does more than compute | one action per group of `func_*`; every way to `leave` |
| `CallFrames` | `AvrCore` with history variables | outstanding calls, instructions executed, the measured call |
| `Alu` | registers and SREG, one disjunct per opcode that computes | SREG is a set of flags; tables as operators of their index |
| `AluFlags` | the flags of `tests/sreg/*.c`; a history variable for numbers of several bytes | |
| `LogControl` | state and commands of `logging.c` | operators on one record |
| `PerfMeters` | state and commands of `perf.c` | operators on a record for each meter |
| `Instrumentation` | `do_step` of `avrtest_log`: log and meters around an instruction | composes the two; the instruction itself is calls, returns, OUTs to SP, system calls or nothing |
| `LogScopes` | abstract: what the logging commands promise | implemented by `Instrumentation` |
| `LogAsScopes` | the refinement mapping | what `logging.c` keeps, entry by entry, as scopes |
| `MeterHistory` | `Instrumentation` with history variables | rounds counted from the program alone: their costs and extremes, the frames of calls, SP as the program means it |
| `HostFiles` | SYSCALL 26 on the table of open files | operators on a record |
| `FileIO` | `fileio.c` with `HostFiles` below it | one action per function |
| `Stdio` | abstract: one table of files | implemented by `FileIO` |
| `FileIOAsStdio` | the refinement mapping | the handle of a FILE leads to the file on the host |
| `CallGraph` | `graph.c` | list elements, edges and costs; `UpdateCallDepth` after an instruction, `WriteDot` at the end |
| `TracedProgram` | programs as avr-gcc, libgcc and avr-libc make them, and the call graph of them | one action per way to enter or leave a function; the true frames and costs as history |
| `Decoder` | `decode_flash` and all it calls | the tables of opcodes as functions, the bits of a word by arithmetic |
| `InstructionSet` | abstract: the list of instructions with their operand bits, from the comments | what `Decoder` is checked against |
| `Options` | `parse_args`, `set_streams`, `set_arch`, `leave` | the words of the command line one by one |
| `Loader` | `load_elf`, `load_to_flash` | one action per part of the file, each with its refusals |
| `HostCalls` | the functions of AVRtest that the target calls: argv, FLMAP, log values, formats, integers, fixed point | bytes of `Bits` bits |
| `Session` | `main`: options, loader, start-up code, `main` of the target, the end | composes the three above |
| `SessionProperties` | what a user is promised | reads the command line and the file on its own |
| `MC*` | constants, programs and command lines for TLC | |
| `ByteArithmetic`, `*Proofs` | theorems | |

A program is a constant: `AvrCore` has a set of images of the decoded flash and chooses one. Operands
that the model does not compute (`v`, `c` in an instruction) are sets to choose from, so that a
register may hold any of several values. `Instrumentation` is one level more abstract: any instruction
may come next. `Alu` has a set of instructions and says which may follow which.

In `TracedProgram` the constant is what a program is made of: which functions call, jump to or fall
into which, and which idioms of compiler and libraries they use; any order of these may happen. In
`Session` it is a family of command lines, a set of files, and what `main` does.

Left out in all of them: the text of log lines and messages.
Programs for `avrtest-tiny`, which has 16 registers, are left out of `Alu`.

The opcodes of `AvrCore` that only compute are one instruction `ALU` that goes to the next instruction
and may set a flag; loads are `LDS`, stores `STS` and `OUT`, CPSE, SBRC and the like `SKIP`. The loop
ends by `status`; `Leave` is `leave()`.

## Runs

All runs take one to three minutes at most. A run whose system may stop turns off deadlock checking:
a program that has left does nothing more, and bounded runs stop at their bound.

| Run | Question | Bounds and why they are enough |
|---|---|---|
| `core` | Types; is anything but decoded code executed; does a limit end every program? | Every program of three one-word or two instructions of all kinds at the end of a full flash, memory cells of 4 values, 8 words of flash, limit 6. Jumps go to, before, behind and to one past the code; the last two-word instruction is cut off. |
| `frames` | Do return addresses survive and returns return? Does a measurement end with its own call, and with which cycles? Does the limit stop what has reached it? | Every program of four of ten kinds of instructions, 3-byte PC with code on both sides of the address where the third byte is not 0, SP at the guard, just above, in the middle and at the top of memory. Four instructions are two nested calls with a disturbance. Every program of four instructions after `avrtest_cycles_call`, recursion from the same place included, and two commands inside the measured call. Limit 10. |
| `alu` | Are the flags those of `tests/sreg`? Do two instructions compare and add two-byte numbers? | All opcodes; operands 0, 1, 8, 15, 127, 128, 255 cover each carry into bits 3, 4, 7 and 8; four values of SREG; two-byte numbers of all these bytes. More bytes: proved. |
| `instrumentation` | Is what is printed what was asked for? Is a text missing? Are totals and extremes those of the rounds? Does PERF_START_CALL count calls? Is SP ever seen half-written? | Three families of programs that stop at a limit of 5, which is six instructions. *Logging*: all commands, a stack of 3 slots, counts of 2: one more LOG_PUSH than fits, and a count interrupted and resumed. *Metering*: every request to two meters, costs 1 and 3: two rounds of one meter while the other is switched. *Calling*: START_CALL, STOP, CALL, PUSH, POP, RET and the two halves of a write of SP: a meter around a call that pushes, or a nested one, and a write of SP before or behind. Instructions cost 5 cycles of a count modulo 16, so that it wraps around. |
| `files` | Do the tables agree? Does the host run out of handles? Is a FILE the right file? Do both halves implement one table? | 2 FILEs, 2 handles, one standard stream, 3 names one of which the sandbox refuses; files of at most one byte. All calls in all orders, without a bound on their number. |
| `callgraph` | Is the call stack of the graph that of the program? Are the costs those of functions with their callees? Is the graph connected? | 7 kinds of programs and 24 combinations of options, 10 to 18 instructions: as many as a call, a nested or recursive one, the idiom and both returns take. Each instruction costs one cycle. |
| `decode` | Is each word decoded as it is listed? Do skips skip one instruction? | All 65536 words in `avrtest` and `avrtest-tiny`, skips of every kind before one-word, two-word and illegal words, in `avrtest-xmega` too (other port addresses). Complete but for the word that follows, which is one of three; `DecoderProofs` has the others. |
| `session` | Which word wins? What is loaded, passed, logged, computed, and how does the process end? | 16 families: up to 3 words after a fixed beginning, for each group of options that influence each other; 22 files, with every refusal of the loader; programs with and without a directory in their name; all architectures. Syscalls of `main`: up to 4 for formats, 2 for values and fixed point. Bytes of 2 bits for numbers: values of 4 and 8 bytes then have 8 and 16 bits, and the float a mantissa narrower than the largest fixed point type. |

Four runs show where a comment or document and the code differ:

- `limit`: README.md of AVRtest says of `-m MAXCOUNT` "Execute at most MAXCOUNT instructions", and `do_step`
  compares with the limit after an instruction was executed and before it is counted, so one more is
  executed. `StopsAtLimit` is what `frames` checks of the limit: it stops every program that goes on behind
  it, and none before.
- `duration`: README.md says that what `avrtest_cycles_call` measures includes the cycles of the call.
  CALL and RCALL start the measurement after `do_step` has added their base cycles, so these are missing.
  `CyclesOfTheCall` is what `frames` checks: nothing else is, whatever is reset, counted or measured
  meanwhile.
- `names`: `host_fopen` passes `AR_RAM` where `read_string` takes `bool flash_p`, so it reads file names
  from flash. The devices whose RAM shows the flash hide it, and on these `FileOfTheName` passes.
- `glitch`: after a write of SPL or SPH, SP counts as inconsistent for some instructions, and
  `log_add_instr` lists instructions that end this earlier because they use SP. ICALL and EICALL, which
  push a return address as CALL does, are not on the list. A call by function pointer right after
  arguments were removed from the stack is entered with the old stack pointer, and the next return pops
  two elements. `callgraph` leaves out such calls (`glitchcall`).

Noticed while modelling, without a run of their own. Execution, log and meters:

- `perf_instruction` means to account "if we have a call depth > 0 relative to the starting point".
  PERF_START_CALL takes the starting point from `get_nonglitch_SP`; started right after a prologue, a
  meter compares with a wrong limit. For PERF_START_CALL `RoundsAreAccounted` excludes rounds in which SP
  moves other than by calls, returns and what the called functions push and pop.
- `push_PC` tests the address of the first byte only: from the lowest SP that passes, a call writes
  SREG, and with a 3-byte PC also SPH. `FramesIntact` is for frames above it.
- With LOG_PERF the instruction after the one that stops the last meter is still printed.
  `LogScopes` allows it.
- `perf.cmd` is not cleared after PERF_DUMP: with another meter on, each further instruction prints a
  line `--- Dump # n`.
- `perf.tick` has 32 bits and the start of a round more: totals are right modulo 2^32, Min and Max of a
  round that begins after or spans 2^32 cycles are not.
- A PUSH at call depth 0 counts for PERF_START_CALL like a call, as the depth is told by SP.
- At the limit, `leave()` prints the last line again, empty.

Call graph:

- When `main` ends in a tail call, the return of the function it jumped to also drops the elements of
  the start-up code below `main`.
- An indirect tail call with a deeper stack than the function was entered with, as after a jump to a
  label, is taken for a `longjmp`; `TracedProgram` has `IJMP` only where this does not happen.
- The graph starts at any function of the name of `-graph-base`, aliases included; then the costs of
  the base are those of several symbols (`CostsAreInclusive` is for one).
- A loop over two labels with symbols, or two functions that jump to each other, pushes one element per
  jump; nothing bounds the list.
- `lfind_base (false)` is never called.

Options, loader, host calls:

- `avrtest.h` calls LOG_SET_FMT "for all subsequent logs". LOG_SET_FMT_ONCE and LOG_FMT_xxx use the same
  buffer, and while a format is in force they end it. `LoggedAsPassed` states the condition under which
  the documentation is right.
- `-args ... -h` prints the help: the words for help are looked for in the whole command line first.
- README.md says that directories are stripped off `argv[0]`; the code leaves the last `/` of them, so that
  `dir/p` becomes `/p`. `NameAtArgv0` asks of a name with a directory that an end of it arrives, and of
  any other that it arrives as it is.
- A `\` in the name of the program separates directories too, on every host (no word of the runs has one).
- The names of options for input allow `*.data`; the check of file names refuses all but `*.txt`.
- `-no-m X` takes a word, too, and keeps the limit of an earlier `-m`.
- A big exponent wraps the number: that of `-m 1e64` would be 0, which is no limit. `get_valid_numberE` makes it
  a limit of 1 (`ALimitIsALimit`).
- `-m -2` is a limit of almost 2^64, as `strtoull` takes signs. In `Options` -2 stands for what is no number;
  no word of the runs is -2.
- `-q` behind the word that is refused does not count: the exit code is 1 and not 21.
- The exit code of `exit(256)` is cut to 0 by the host (`ExitValues` are bytes).
- Signed products overflow in C; the model has them modulo the size, as compilers do it.
- `ftok` and `ftouk` add 0.5 in single precision: odd values from 2^23 up to 2^24 are off by one.
  `FixedRoundTrip` allows the spacing of floats there.
- A segment without PF_X is not considered for `code_start` and `code_end`; an ELF file that has no other
  keeps `code_start` = -1, and decoding begins outside of the array. So it does for an empty raw image.
- The test whether a segment is for EEPROM takes its virtual address; the limit is tested with the
  physical one, and data is written at an offset from that, too.
- The entry point is not compared with the range of the code: the program starts with `BAD_PC`.
- `get_reg_u64` and `get_mem_u64` return what went through a value of 32 bits.
- `-mmcu=avrxmega2` accepts an avrxmega3 file of a device with FLASH at 0x4000, whose note sets
  the offset, and files for avrxmega4, whose `.rodata` is then in another block of FLMAP.
  `MemoryAtMain` is for files of the architecture.
- BSET, BCLR and DES have operands decoded from the wrong bits that nothing uses.

## Fairness

Only `Terminates` needs it: weak fairness of `Step`. `execute()` calls `do_step()` in an endless loop
and nothing in `do_step` waits for anything, so a step that is possible is taken. The property is for
programs with a limit; without one a program may loop for ever.

## Proofs

TLAPS checks them for every value of the constants under the named assumptions of the modules, which
TLC evaluates in the runs:

- sizes are positive, SPL, SPH, SREG and the guard are below the stack, the code lies in the flash,
  programs are made of what the decoder produces (`AvrCore`);
- SYSCALL 5 comes with the command and the meter that its register has, and no other instruction with
  one (`InstructionsAssumption`); a stack pointer is never the INT_MAX that stands for "not only calls"
  (`StackPointerAssumption`);
- `fileio.c` has no more FILEs than `host.c` has slots (5 and 8) where this is said in the theorem: else
  the host may run out of handles, and fopen does what `Stdio` has no step for;
- flash is made of words, and there is one behind the code (`ProgramsAssumption`);
- a word has an option, a number and a text (`WordsAssumption`), and command lines are made of such words
  (`FamiliesAssumption`); in an ELF file no segment is smaller in memory than in the file, its device
  note has whole words of flash, and its architecture is one that avr-gcc writes (`FilesAssumption`;
  101, avrxmega1, is not among them: avr-gcc has no device of it);
- what is left of a program's name from the last `/` on is an end of it (`SlashAssumption`).

| Module | Theorems | Along which argument |
|---|---|---|
| `CallFramesProofs` | `TypeCorrect`, `OnlyDecodedCode`, `FramesStayIntact`, `ReturnsReachCaller`, `MeasuresOwnCall`, `MeasuresItsCycles`, `LimitStops`; the invariant of all but the first two is `HInvariant` | `TypeOK` is inductive: it bounds PC by `MaxPc` while the program runs, as `set_pc` checks; an instruction that is counted was fetched from decoded code or ended the program. `FramesIntact` is not inductive: a push could overwrite a frame. `OnStack` says that SP is below all outstanding frames, so that pushes go elsewhere; a return at the SP of a frame reads its bytes in the order in which they were pushed. `MeasuredFrames` says that a running measurement has return address and SP of its frame, and no other outstanding frame has both. `MeasuredFrom` says that a running measurement starts from the cycles of its call and the base cycles of that instruction; what is reported is a difference modulo 2^32 of counters modulo 2^64, and `WrappedDifference` shows that neither wrap changes it. `MeasuresItsCycles` needs that a call takes less than 2^32 cycles (`Mod32 > 4`). |
| `AluProofs` | `TypeCorrect`, `FlagsOfWholeNumbers` | Lemmas show that the multiplication moves four bits to their places, and so what the tables have at that index: C, Z and S as arithmetic on numbers (`SubFlags`, `AddFlags`). The invariant is that C, Z and S compare (or add) the numbers made of the bytes so far; one more byte decides unless it is equal (`Below`, `Carried`). |
| `AluProofs`, second half | `TablesAreRight`, `ProductsAreTold` | `AddTable`, `SubTableFlags`, `LogicTable` and the like give all flags the tables have at an index, H and V included, as arithmetic on the operands; one lemma per group of instructions compares that with the formulas of `tests/sreg`, which work on single bits. For the products: Z is taken from a result that was shifted and cut to 16 bits, and no two factors have the product 0x8000 that would then be 0 (`FactorsOfProducts`). |
| `InstrumentationProofs` | `TypeCorrect`, `TextOfPrintedLines`, `LogFollowsScopes` | A line without text can be printed only if logging goes on at an instruction whose text was not collected. `Known`: a system call that may switch logging on has been seen by `log_add_instr`; `Ready`: between instructions, what will be on was announced. With them each instruction is a step of `LogScopes`: the state of `logging.c` and its stack map to scopes entry by entry, and the line between two instructions is the one the scope asks for. |
| `InstrumentationProofs`, second half | `TotalsAreExact`, `ExtremesAreExact`, `NoHalfWrittenSP` | The sums are history variables, so that no sum has to be taken in the proof: each instruction adds the same to the meter and to the history. The invariant links them: a meter is on when a round is open, the start of the round in `perf.c` is that of the round, and for PERF_START_CALL SP tells whether a call is outstanding (frames strictly decrease from call to call, and what a function pushes lies below its own). `StackPointerIsWhole` counts the instructions since SP was written. |
| `CallGraphProofs` | `CostsStayBounded`, `StackIsAPath` | Whichever element pays and however often a function is on the stack, the payer is no caller and each caller is charged once, so a symbol gets at most what is accounted; the clock of the graph never passes the program's. `PathInGraph` is not inductive, as elements are freed and one is taken back: `PathInv` says that all elements, free ones too, come from a set whose edges are in the graph, and that neighbours on the stack are linked. Popping keeps it (a suffix of a path is a path), a push adds edge and element together, and no edge is ever removed. |
| `CallGraphProofs` | `PlainStack` | See "The call stack of a plain program" below. |
| `CallGraphProofs`, second half | `EdgesSumUp`, `CostsOfPlainPrograms`, `LeavesOfPlainPrograms` | See "The costs of a plain program" below. |
| `FileIOProofs` | `TypeCorrect`, `TablesAlwaysAgree`, `NeverOutOfHandles`, `FilesAreAsAsked`, `FileIOIsStdio` | `TablesAgree` with types and `StandardStreams` (their handles are not in the table) is inductive; if all FILEs are open and each has its own handle, a pigeonhole argument leaves a free slot for the next. For the refinement each call maps to one of `Stdio` or to none: the handle of a FILE leads to one open file, and no other FILE leads there, so that what changes or closes it leaves the others as they are. `FilesAreAsAsked` is for a device whose RAM shows the flash where the names are. |
| `DecoderProofs` | `SkipsAreWhole`, `DecodedAsListed` | See "The decoder" below. |
| `SessionProofs` | `StreamsGoWhereAsked`, `LastWordCounts`, `AllCodeIsDecoded`, `NoOtherFileRuns`, `ExitCodeTellsTheEnd` | See below. |
| `SessionProofs`, middle part | `NothingOverwritten`, `NameReachesMain` | See "RAM when main starts" below. |
| `SessionProofs`, last part | `LogsShowWhatIsPassed`, `DivisionFitsTogether` | See "Values, formats and divisions" below. |

The invariant of `SessionProofs`. The properties speak of the whole command line: the last word about a
stream that is not itself the argument of another. The code reads word by word and keeps a few
variables. `Live(i)` says that the word that is read next is no argument, and that no `-args` was read
before it. Whether a word is an argument is recursive in the command line; `ConsumedBy` shows that it is
one just if the words right before it that take an argument are odd in number, and `WordRead` that reading
a word adds it to the words given for its option and changes no other such set. With this `OptionInv`
says that the variables are those of the last words: `StreamRead` for the three that decide about a
stream, `SizeRead`, `FlagsRead`, and `EntryRead` while the entry point is still the user's. `PhaseInv`
carries this from phase to phase: streams do not change once they are open, and the entry point is that
of the file or of the user once the header has been read. `FileInv` has the segments so far within
`code_start`, `code_end` and the size of the program; behind the checks the architecture fits and the size
of flash is as asked and not less than the program. `IoInv` is about what has gone over a stream. TLC
has found no violation of this invariant on the instance of `session`.

`ByteArithmetic` has the lemmas on division that the stack and the values need.

### RAM when main starts

`NothingOverwritten` and `NameReachesMain` are for files of any number of segments of any length and for
command lines of any length, under the condition `LaidOut`. It says of the file what a linker makes:
segments that are loaded do not overlap, constants are linked to where the device of the file shows them
(at the offset, or in the window of FLMAP), initialized data lies in front of that window; and of the
command line that what `-args` passes fits between its address and the end of memory, away from the data
of the file. Nothing in AVRtest checks these; without them the writers do overwrite each other. All
programs that reach `main` in the run `session` satisfy `LaidOut`.

The invariant `Filled` goes with the three writers in their order. `SegmentsHeld`: the segments that were
loaded so far are in the memories they belong to; one more segment writes somewhere else (`LaidOut`) and
leaves them. `FlmapHeld`: once the start-up code has asked for it, the window shows the block of flash
that the constants are in. `ArgsPassed`: `put_argv` has written strings and pointers. What a sequence of
writes leaves is said by `ReadWritten`; where the strings and the pointers to them begin are functions on
the number of words before, which are unrolled one word at a time. `ArgsRead` and `NameRead` say that the
arguments and the name are those of the last words, and `OffsetRead` that the offset is that of the device
note, not of the architecture, when the note names such a device.

### Values, formats and divisions

The invariant `CallsInv` says what the last syscall of main has left, whatever the calls before it were.
`LogsFit`: the value that went to the log has the bytes and the sign of the one that was passed.
`set_reg_value` puts the bytes of a number into registers (`SetHolds`), and `Unsigned`, a fold over the
bytes, has the number modulo `Wide(size)` back (`UnsignedOf`); the fold is unrolled by a least
counterexample (`IteratesExist`, `UnsignedIs`), because the library's induction takes a predicate.
`get_reg_value` looks at one byte for the sign; `TopByte` shows that this is the sign of the number.
`ArithFit`: the registers hold quotient, remainder or product of the operands, by the cases of `misc_u` and
`misc_s` (`MiscU`, `MiscS`); a result is cut to `size` bytes and its sign read back (`SignedIs`).
`FormatsFit`: as long as no format was set once while another one was in force, `fmt_once` and `xfmt` are
what the history of calls says (`FormatState`). This is what makes the property inductive: the property
speaks of the last log only, the code remembers two variables. One lemma for each kind of call:
`FormatCall`, `ValueCall`, `OtherCall`. From the constants the proof takes that a byte has a bit
(`BitsAssumption`) and that a value of `size` bytes is less than `Wide(size)` (`ValuesAssumption`). Powers
are a recursive function (`Power`), since the provers know nothing of `^` unless both numbers are
literals. TLC has found no violation of `CallsInv` on the instance of `session`.

### The call stack of a plain program

`PlainStack` states `StackIsThePrograms` for every program whose description satisfies `PlainProgram`:
calls, calls by pointer, recursion, `JMP`, `IJMP` and `PUSH` `PUSH` `RET` to other functions, falling
through, `RCALL .`, `PUSH`, `POP`, returns of functions and of interrupts. Nothing bounds how long it runs
or how deep it calls (`MaxFrames` is any value), and the options of the graph are arbitrary. The programs
`Recursive` and `Costs` of the run `callgraph` are plain. From the constants it takes
`RegionsAssumption`: there is startup code, and what stands for data, for the end of the program and for
no symbol is the address of none of the functions; a cell of the stack is then a code address or data.

`StackIsThePrograms` is not inductive: which elements a return drops depends on the stack pointers they
were entered with, which the property does not mention, and where it returns to depends on the stack.
`PlainInv` adds both. `StackOK` matches the call stack from its top with the frames from the last one:
each element has the symbol, the depth, and the stack pointer of the base of its frame. `FramesOK` has the
bases strictly rising, so a return, which compares stack pointers, drops the elements of one frame and of
no other; `ReturnsOK` that the cell below each frame is a location in its caller, in startup code just for the
first call (and `MachineOK` that the program is in startup code just if no call is outstanding). `PushOK` says what `RET`
does after `PUSH`, and `MachineOK` that SP is set and consistent whenever a function has been called, so
that `get_nonglitch_SP` returns SP itself. TLC has found no violation of the same invariant on three
plain programs (766 000 states). The proof has a lemma for each action; below them, lemmas on what `UpdateCallDepth` does to the call
stack (`PlainQuiet`, `PlainEnters`, `PlainCall`, `PlainReturn`), on frames, and on `FlattenSeq`, from
which `CallLevels` is made: its recursive function exists by well-founded induction.

### The costs of a plain program

`CostsAreInclusive` and `LeavesTakeAll` compare what `account` of `graph.c` has distributed, a stretch
of cycles at a time and over the elements that were on the call stack, with a history that counts each
cycle for the functions the program was in (`inclusive`).

`EdgesSumUp` holds for every program. The sum over the edges into a function is a fold over a set; the
lemmas before it show what one more edge or one more cycle does to such a sum. The fold exists by
well-founded recursion, and the facts about it are shown by a smallest counterexample (`SmallestSet`),
again because the induction theorems take a predicate.

`CostsOfPlainPrograms` is for programs that satisfy `CostedProgram`: a plain program whose vectors only
jump to the startup code; the base of the graph is no startup code; no function has the name
`__utoa_common`, whose callees are charged to it when they have reserved names. The options are arbitrary
otherwise. The property is about the end of the run, so the invariant says what holds until then:
`Balanced`, what a function was charged *plus what it is due* are the cycles spent in it. `account` looks
at the stack only when the stack changes. Until then the functions on it from the base up are due all
cycles since the last change (`Due`), and `ChargedIsOnStack` shows that these are the functions the
program is in: that is `StackOK` of the last section, with a lemma that the chain of functions is the
startup code followed by `CallLevels` (`ChainIs`). `PlainAccount` shows that whoever of them pays, a plain
function gets the stretch exactly once, itself or as a caller. `ElementsOK` has what this needs of the
elements: without `-graph-leaf` none is marked, and those without a call depth are of startup code, so
the base is not below the program. `BalanceSteps` is the step, `LeaveSettles` the end.

`LeavesOfPlainPrograms` is for programs that satisfy `LeafProgram` too: the base is main, which startup
code calls and nobody else, and no startup code is a leaf. If a leaf were *below* the base, the costs
would go to the base instead (all elements above a leaf are marked, so `account` passes all of them). The
invariant is `LeafMarks`, an element is marked just if there is a leaf below it, `NoneBelowMain`, and
`LeafBalanced`; `LeafPays` shows that of all elements of the leaf the first one entered pays. The
programs `Recursive` and `Costs` of the run satisfy these hypotheses (for a leaf those with base main); TLC
has found no violation of both invariants on programs like them.

### The decoder

`decode` has every word, but behind it one of three; the theorems are for every word behind it too, in
code of any length. `DecInv` says that what has been decoded is `Result` of a word and the next one, so
what remains is about a pair of words. The decoder takes the first of 17 groups that claims a word.
`ClassOf` is a decision tree on ranges of words that a data sheet could have printed; one lemma per group
(`Op16Agrees` to `FractionalAgrees`) shows that the group claims only words of its class, that the key it
looks up is the one of the listing, and that its operands are. For this a word is cut into digits
(`Digits`), one per field of bits, so that bits become sums. Hence no word is claimed twice (`OneGroup`),
the order of the groups does not matter and `decode_opcode` is what the one group makes of it
(`Decodes`). `SpecialKeeps` is about what comes then, in `do_skip` and for registers that are the same:
no instruction is invented or lost. `TwoWordsAre`: the two masks of `do_skip` have just the words whose
group gives them the name of a two-word instruction.

Only model-checked:

- `Terminates`: liveness is out of this prover's reach.
- `FixedRoundTrip`: it is about rounding to a mantissa, by the recursive length of a number in bits.
- `StackIsThePrograms` beyond plain programs: with setjmp and longjmp, the helpers of switch and of
  `-mcall-prologues`, a jump to exit or a write of SP by the program (`PlainStack` has the rest); for these programs, and for
  a leaf below the base of the graph, also `CostsAreInclusive` and `LeavesTakeAll`.

## Not modelled

- IEEE single and double functions of SYSCALLs 22 and 23: functions without state; floating point is out
  of reach of both tools. The conversions of fixed point have a float of a narrow mantissa.
- Random numbers of the ticks port, means and deviations of PERF_STAT values, buffers of stdio.
- Characters of the command line: a word has the option and the number it stands for.
- The text of the dot file, and how symbol names are matched with the options of the graph.
- Logging of strings and floats: the value is text.
- File modes with `a` or `+`.
- Build and test scripts.

## Plan

Done: execution loop, log and meters, files, arithmetic, call graph, decoder, loader, options, streams,
host calls and start-up; the theorems above, both refinements among them. Open, in this order:

1. `PlainStack` for programs that also jump to exit, then for those with setjmp and longjmp.
2. `CostsAreInclusive` for the same programs.
3. `FixedRoundTrip` for a float wide enough for every fixed point type.
