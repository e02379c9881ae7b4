--------------------------- MODULE Instrumentation ---------------------------
(***************************************************************************)
(* What avrtest_log does around every instruction of do_step: log_add_instr *)
(* before it, the logging and performance syscalls as its effect, and       *)
(* log_dump_line after it, which prints the line and runs perf_instruction. *)
(* Composes LogControl and PerfMeters.  The instruction itself is reduced   *)
(* to what the two read: its cycles, the stack pointer and the syscall.     *)
(***************************************************************************)
EXTENDS LogControl, PerfMeters

CONSTANTS
  Instructions, (* what programs are made of, see InsnType                  *)
  Costs,        (* cycles an instruction may take                           *)
  SpByte,       (* values of SPL and of SPH, 256 in the code                *)
  MaxInsns      (* bound on the instructions executed (-m MAXCOUNT)         *)

(* no: the number of a SYSCALL, else -1.  cmd and n: the request of         *)
(* SYSCALL 5; n is also the value of LOG_SET and the byte an OUT writes.    *)
Ops == {"plain", "push", "pop", "call", "ret", "out_spl", "out_sph",
        "syscall", "exit"}
InsnType ==
  [op : Ops, no : -1 .. 31, cmd : Commands \cup {"none"}, n : Nat]

ASSUME InstructionsAssumption ==
  /\ Instructions \subseteq InsnType
  /\ \A i \in Instructions :
       /\ i.no # -1 => i.op = "syscall"
       /\ IF i.no = 5 THEN i.cmd \in Commands /\ i.n \in Meters \cup {0}
          ELSE i.cmd = "none"

ASSUME BoundsAssumption ==
  Costs \subseteq Nat /\ SpByte \in Nat \ {0, 1} /\ MaxInsns \in Nat

VARIABLES
  have,      (* have_syscall[]: the syscalls decode_flash has seen          *)
  need,      (* need.perf and need.logging, set once by log_init            *)
  log,       (* alog, options.do_log, log_unused, the stack of LOG_PUSH     *)
  perf,
  meters,    (* perfs[]                                                     *)
  prog,      (* program.n_insns, program.n_cycles                           *)
  sp,        (* the SPL and SPH registers                                   *)
  glitch,    (* maybe_SP_glitch, and nonglitch_SP of get_nonglitch_SP       *)
  lines,     (* what the last step printed to the log: one BOOLEAN per      *)
             (* line, FALSE for a line without text                         *)
  status     (* program.leave_status                                        *)

vars == << have, need, log, perf, meters, prog, sp, glitch, lines, status >>

Syscalls == {i.no : i \in Instructions} \ {-1}

(* have_syscall[] is set while the program is decoded, so nothing that is   *)
(* executed is missing; -no-log clears options.do_log.                      *)
Init == \E do_log \in BOOLEAN :
  /\ have \in SUBSET Syscalls
  /\ need = [perf |-> NeedPerf(have), logging |-> NeedLogging(do_log, have)]
  /\ log = InitLog(do_log)
  /\ perf = InitPerf
  /\ meters = [i \in Meters |-> UnusedMeter]
  /\ prog = [n_insns |-> 0, n_cycles |-> 0]
  /\ sp = SpByte * SpByte - 1
  /\ glitch = [left |-> 0, sp |-> 0]
  /\ lines = << >>
  /\ status = "RUNNING"

-----------------------------------------------------------------------------
(* The stack pointer                                                       *)

Hi(s) == s \div SpByte
Lo(s) == s % SpByte

NextSP(i) ==
  CASE i.op = "push"    -> (sp - 1) % (SpByte * SpByte)
    [] i.op = "pop"     -> (sp + 1) % (SpByte * SpByte)
    [] i.op = "call"    -> (sp - 2) % (SpByte * SpByte)
    [] i.op = "ret"     -> (sp + 2) % (SpByte * SpByte)
    [] i.op = "out_spl" -> SpByte * Hi(sp) + (i.n % SpByte)
    [] i.op = "out_sph" -> SpByte * (i.n % SpByte) + Lo(sp)
    [] OTHER            -> sp

(* Seeded fault: log_maybe_change_SP bridges the next instruction only.     *)
GlitchLeftShort(i) == IF i.op \in {"out_spl", "out_sph"} THEN 1 ELSE 0

(* maybe_SP_glitch: log_add_instr counts it down or ends it before the      *)
(* instruction, OUT to SPL or SPH sets it (log_maybe_change_SP).            *)
GlitchLeft(i) ==
  CASE i.op \in {"out_spl", "out_sph"} -> 4
    [] i.op \in {"ret", "call", "push", "pop"} -> 0
    [] OTHER -> IF glitch.left = 0 THEN 0 ELSE glitch.left - 1

(* get_nonglitch_SP, called after the instruction.                          *)
NonglitchSP(i) == IF GlitchLeft(i) = 0 THEN NextSP(i) ELSE glitch.sp

-----------------------------------------------------------------------------

(* log_dump_line.  `at' is program.n_insns and n_cycles, `s' the stack      *)
(* pointer, `text' whether there is any text, `counts' whether d # NULL.    *)
LogDumpLine(st, counts, at, s, text) ==
  LET log1    == CountDown(st.log, counts)
      metered == st.perf.on \/ st.perf.will_be_on
      served  == ServeMeters(st.meters, st.perf, at, s)
  IN  [log    |-> DumpLine(log1, metered),
       meters |-> IF need.perf THEN served ELSE st.meters,
       perf   |-> IF need.perf
                  THEN PerfInstruction(st.perf, served, at, s) ELSE st.perf,
       lines  |-> IF Prints(log1, metered)
                  THEN Append(st.lines, text) ELSE st.lines,
       fatal  |-> st.fatal \/ Fatal(log1, metered)]

(* What log_dump_line finds after instruction i: the line was begun by      *)
(* log_add_instr, the syscall has changed what to log or left a request.    *)
Executed(i) ==
  LET begun == AddInstr(log, i.no, need.logging)
  IN  [log    |-> DoSyscall(begun, i.no, i.n),
       perf   |-> IF i.no = 5 THEN PerfCmd(perf, i.cmd, i.n) ELSE perf,
       meters |-> meters, lines |-> << >>, fatal |-> FALSE]

Logged(i, at) ==
  LogDumpLine(Executed(i), i.op # "exit", at, NonglitchSP(i),
              ~Executed(i).log.log_unused)

(* leave() after do_step has logged the instruction: log_dump_line finds an *)
(* empty line.                                                             *)
LastLine(st, at, s) == LogDumpLine(st, FALSE, at, s, FALSE)

Becomes(st) == /\ log' = st.log
               /\ perf' = st.perf
               /\ meters' = st.meters
               /\ lines' = st.lines

(* do_step for an instruction that uses c cycles.                           *)
Execute(i, c) ==
  LET at    == [prog EXCEPT !.n_cycles = @ + c]
      once  == Logged(i, at)
      limit == MaxInsns # 0 /\ prog.n_insns >= MaxInsns
      left  == i.op # "exit" /\ limit /\ ~once.fatal
  IN  /\ status = "RUNNING"
      /\ i.no # -1 => i.no \in have
      /\ sp' = NextSP(i)
      /\ glitch' = [left |-> GlitchLeft(i), sp |-> NonglitchSP(i)]
      /\ Becomes(IF left THEN LastLine(once, at, NonglitchSP(i)) ELSE once)
      /\ status' = CASE once.fatal     -> "FATAL"
                     [] i.op = "exit"  -> "EXIT"
                     [] left           -> "TIMEOUT"
                     [] OTHER          -> "RUNNING"
      /\ prog' = IF status' = "RUNNING"
                 THEN [at EXCEPT !.n_insns = @ + 1] ELSE at
      /\ UNCHANGED << have, need >>

Next == \E i \in Instructions, c \in Costs : Execute(i, c)

Spec == Init /\ [][Next]_vars

-----------------------------------------------------------------------------

TypeOK ==
  /\ have \in SUBSET Syscalls
  /\ need \in [perf : BOOLEAN, logging : BOOLEAN]
  /\ log \in LogType
  /\ perf \in PerfType
  /\ meters \in [Meters -> MeterType]
  /\ prog \in [n_insns : Nat, n_cycles : Nat]
  /\ sp \in 0 .. SpByte * SpByte - 1
  /\ glitch \in [left : 0 .. 4, sp : 0 .. SpByte * SpByte - 1]
  /\ lines \in Seq(BOOLEAN)
  /\ status \in {"RUNNING", "EXIT", "TIMEOUT", "FATAL"}

(* log_add_instr guesses, before the instruction, whether its line may be   *)
(* needed; log_dump_line finds out afterwards.  The guess never misses: a   *)
(* line printed for an instruction has its text, so log_dump_line never     *)
(* leaves with "problem in log_dump_line".  (At the instruction limit       *)
(* leave() prints the line again when its text is gone.)                    *)
PrintedLinesHaveText ==
  /\ status # "FATAL"
  /\ \A l \in DOMAIN lines :
       ~lines[l] => status = "TIMEOUT" /\ l = Len(lines)
=============================================================================
