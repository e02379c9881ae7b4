------------------------------- MODULE Session -------------------------------
(***************************************************************************)
(* A run of AVRtest from the command line to the exit code: parse_args,     *)
(* load_to_flash, and the target program with the start-up code of exit.c   *)
(* in front of main.  AvrCore.tla has the instructions and TracedProgram    *)
(* the calls that are left out here: what main does is a choice of          *)
(* syscalls.                                                               *)
(***************************************************************************)
EXTENDS HostCalls

CONSTANTS
  Families,    \* bound: the sessions that are looked at.  A family has its
               \* variants .isas and .logs, a sequence of words .before the
               \* ones that vary (.words, up to .n of them), and what main
               \* .does in at most .max syscalls
  HasFlmap,    \* devices whose avr/io.h has NVMCTRL_CTRLB.FLMAP
  Values,      \* [size -> bound: values of size bytes that the target passes]
  ExitValues   \* bound: arguments of exit()

ASSUME FamiliesAssumption ==
  \A f \in Families : /\ f.n \in Nat /\ f.words \subseteq DOMAIN Words
                      /\ \A b \in f.before : b \in Seq(DOMAIN Words)

ASSUME ValuesAssumption == \A size \in {1, 2, 3, 4, 8} : Values[size] \subseteq 0 .. Wide(size) - 1

VARIABLES
  plan,        \* the family
  stage,       \* what the target is executing
  hits,        \* static variable of sys_abort_2nd_hit
  calls        \* history: the syscalls of main

targetVars == << stage, hits, calls >>
vars == << isa, is_log, argv, i, phase, left, optionVars, loadVars, hostVars, plan, targetVars >>

-----------------------------------------------------------------------------
(* execute(), and the start-up code                                         *)

EntryIsCode == program.entry_point \in image.code_start .. image.code_end

(* Outside of the code decoded_flash holds BAD_PC.                          *)
Reset ==
  /\ Target /\ stage = "reset"
  /\ Unchanged /\ UNCHANGED << ram, hostVars, hits, calls >>
  /\ IF EntryIsCode
     THEN /\ stage' = IF file.device.name \in HasFlmap THEN "init4" ELSE "init8"
          /\ UNCHANGED << phase, left >>
     ELSE leave("CODE", 0) /\ UNCHANGED stage

(* The reset value of FLMAP is all ones.                                    *)
avrtest_init_rodata ==
  /\ stage = "init4" /\ sys_misc_flmap(3)
  /\ stage' = "init8" /\ UNCHANGED << hits, calls >>

\* Seeded fault: the arguments are put where flash is seen.
pargs_high == \hf000

pargs == IF file.device.name \in HasFlmap \/ file.arch = 100 THEN \h3000
         ELSE IF file.arch = 103 THEN \h1600 ELSE \hf000

avrtest_init_argc_argv ==
  /\ stage = "init8" /\ sys_argc_argv(pargs)
  /\ stage' = "abort_2nd_hit" /\ UNCHANGED << hits, calls >>

sys_abort_2nd_hit ==
  /\ Target /\ stage = "abort_2nd_hit"
  /\ hits' = hits + 1
  /\ IF hits' > 1 THEN leave("CODE", 0) /\ UNCHANGED stage
                  ELSE stage' = "main" /\ UNCHANGED << phase, left >>
  /\ Unchanged /\ UNCHANGED << ram, hostVars, calls >>

-----------------------------------------------------------------------------
(* main                                                                     *)

Main(kind) == stage = "main" /\ kind \in plan.does /\ Len(calls) < plan.max
Made(call) == calls' = Append(calls, call) /\ UNCHANGED << stage, hits >>

UsesStream == /\ Main("streams")
              /\ \E f \in Streams : UseStream(f) /\ Made([call |-> "stream", of |-> f])

SetsFormat ==
  /\ Main("formats")
  /\ \/ \E cmd \in FormatCmds, fmt \in Formats :
          log_set_format(cmd, fmt) /\ Made([call |-> cmd, fmt |-> fmt])
     \/ log_unset_format /\ Made([call |-> "UNSET_FMT", fmt |-> None])

LogsValue ==
  /\ Main("formats") \/ Main("values")
  /\ \E cmd \in IF "values" \in plan.does THEN DOMAIN layout ELSE {"U8"} :
       \E val \in IF "values" \in plan.does THEN Values[layout[cmd][1]] ELSE {0} :
         log_value(cmd, val) /\ Made([call |-> "value", cmd |-> cmd, val |-> val])

(* The product of unsigned numbers would be out of TLC's integers: Small is  *)
(* a bound on its factors.                                                  *)
Small(a, b) == a < 46340 \/ b < 32768
Computes ==
  /\ Main("arith")
  /\ \E op \in {"mul", "div", "mod"}, signed_p \in BOOLEAN, size \in {4, 8} :
     \E a \in Values[size], b \in Values[size] :
       /\ op = "mul" => Small(a, b) /\ Small(b, a)
       /\ sys_misc_arith(op, signed_p, size, a, b)
       /\ Made([call |-> op, signed |-> signed_p, size |-> size, a |-> a, b |-> b])

ToFloat == /\ Main("fixed") /\ calls = << >>
           /\ \E t \in DOMAIN FxTypes : \E val \in 0 .. Wide(FxTypes[t][2]) - 1 :
                sys_misc_fxtof(t, val) /\ Made([call |-> "fxtof", t |-> t, val |-> val])

FromFloat == /\ Main("fixed") /\ calls # << >>
             /\ \E t \in DOMAIN FxTypes :
                  sys_misc_ftofx(t) /\ Made([call |-> "ftofx", t |-> t, val |-> 0])

(* Ends: exit and abort, a limit that is reached, an instruction that is     *)
(* illegal, a jump to the reset vector.                                     *)
sys_exit == \E v \in ExitValues :
  Target /\ stage = "main" /\ leave("EXIT", v) /\ Made([call |-> "exit", val |-> v])
sys_abort == Target /\ stage = "main" /\ leave("ABORTED", 0) /\ UNCHANGED targetVars
Timeout == Target /\ program.max_insns > 0 /\ leave("TIMEOUT", 0) /\ UNCHANGED targetVars
Haywire == Target /\ stage = "main" /\ leave("CODE", 0) /\ UNCHANGED targetVars
End == (sys_exit \/ sys_abort \/ Timeout \/ Haywire) /\ Unchanged /\ UNCHANGED << ram, hostVars >>

JumpsToZero ==
  /\ Target /\ stage = "main" /\ "restart" \in plan.does
  /\ stage' = "reset" /\ UNCHANGED << hits, calls >>
  /\ Unchanged /\ UNCHANGED << phase, left, ram, hostVars >>

main == UsesStream \/ SetsFormat \/ LogsValue \/ Computes \/ ToFloat \/ FromFloat \/ End \/ JumpsToZero

-----------------------------------------------------------------------------
Init ==
  /\ \E f \in Families, v \in {"classic", "xmega", "tiny"}, l \in BOOLEAN :
       \E n \in 0 .. f.n : \E w \in [1 .. n -> f.words], before \in f.before :
         /\ v \in f.isas /\ l \in f.logs
         /\ plan = [does |-> f.does, max |-> f.max]
         /\ isa = v /\ is_log = l /\ argv = before \o w
  /\ InitOptions /\ InitLoader /\ InitHostCalls
  /\ stage = "reset" /\ hits = 0 /\ calls = << >>

(* The process is gone.                                                     *)
Left == phase = "left" /\ UNCHANGED vars

Next ==
  \/ /\ UNCHANGED << isa, is_log, argv, plan >>
     /\ \/ parse_args /\ UNCHANGED << loadVars, hostVars, targetVars >>
        \/ load_to_flash /\ UNCHANGED << hostVars, targetVars >>
        \/ Reset \/ avrtest_init_rodata \/ avrtest_init_argc_argv \/ sys_abort_2nd_hit
        \/ main
  \/ Left

Spec == Init /\ [][Next]_vars

=============================================================================
