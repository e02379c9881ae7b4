----------------------------- MODULE LogControl -----------------------------
(***************************************************************************)
(* Which instructions avrtest_log writes to its log (logging.c).            *)
(*                                                                         *)
(* log_add_instr runs before an instruction and decides whether text for    *)
(* the line is collected at all, the logging syscalls change what shall be  *)
(* logged, and log_dump_line runs after the instruction and prints the      *)
(* collected text.  The text itself is not modelled, only whether there is  *)
(* any.  Operators on one record: alog, options.do_log, log_unused and the  *)
(* stack of sys_log_pushpop.                                                *)
(***************************************************************************)
EXTENDS Integers, Sequences

CONSTANTS
  StackSlots,  (* n_slots in sys_log_pushpop: 100                           *)
  SetDefault   (* LOG_SET (0): 0x10000                                      *)

ASSUME StackSlotsAssumption == StackSlots \in Nat \ {0}
ASSUME SetDefaultAssumption == SetDefault \in Nat \ {0}

SlotType == [on : BOOLEAN, perf : BOOLEAN, count_val : Nat, countdown : Nat]

LogType ==
  [do_log : BOOLEAN, perf_only : BOOLEAN, count_val : Nat, countdown : Nat,
   log_this : BOOLEAN, maybe_log : BOOLEAN, log_unused : BOOLEAN,
   stack : Seq(SlotType)]

(* log_init; do_log is options.do_log, which -no-log clears.                *)
InitLog(do_log) ==
  [do_log |-> do_log, perf_only |-> FALSE, count_val |-> 0, countdown |-> 0,
   log_this |-> FALSE, maybe_log |-> TRUE, log_unused |-> FALSE,
   stack |-> << >>]

(* need.perf and need.logging: `have' are the syscalls in the program.      *)
NeedPerf(have) == have \cap {5, 6} # {}

NeedLogging(do_log, have) ==
  \/ do_log
  \/ have \cap {1, 3, 10, 11} # {}
  \/ 2 \in have /\ NeedPerf(have)

-----------------------------------------------------------------------------

(* Seeded fault: LOG_POP is forgotten.                                      *)
SysMaskNoPop == {0, 1, 2, 3, 5, 10}

(* The syscalls that might turn on logging.                                 *)
SysMask == {0, 1, 2, 3, 5, 10, 11}

(* log_add_instr; `sysno' is -1 for an instruction other than SYSCALL.      *)
AddInstr(log, sysno, needed) ==
  [log EXCEPT !.log_unused = ~(log.maybe_log \/ sysno \in SysMask) \/ ~needed]

(* log_set_logging                                                          *)
SetLogging(log, on, perf, cntdwn) ==
  [log EXCEPT !.do_log = on, !.perf_only = perf, !.countdown = cntdwn]

LogOff(log)  == SetLogging(log, FALSE, FALSE, 0)
LogOn(log)   == SetLogging(log, TRUE, FALSE, 0)
LogPerf(log) == SetLogging(log, FALSE, TRUE, 0)

(* Seeded fault: LOG_SET does not allow for its own line.                   *)
LogSetShort(log, val) ==
  LET n == IF val = 0 THEN SetDefault ELSE val
  IN  [SetLogging(log, TRUE, FALSE, n) EXCEPT !.count_val = n]

LogSet(log, val) ==
  LET n == IF val = 0 THEN SetDefault ELSE val
  IN  [SetLogging(log, TRUE, FALSE, 1 + n) EXCEPT !.count_val = n]

(* sys_log_pushpop.  One of the slots is never used; a push to a full stack *)
(* and a pop from an empty one change nothing.                              *)
Push(log, what) ==
  LET slot == [on |-> log.do_log, perf |-> log.perf_only,
               count_val |-> log.count_val, countdown |-> log.countdown]
  IN  IF Len(log.stack) < StackSlots - 1
      THEN [SetLogging(log, what, FALSE, 0)
              EXCEPT !.count_val = 0, !.stack = Append(@, slot)]
      ELSE log

Pop(log) ==
  IF log.stack # << >>
  THEN LET slot == log.stack[Len(log.stack)]
       IN  [SetLogging(log, slot.on, slot.perf, slot.countdown)
              EXCEPT !.count_val = slot.count_val,
                     !.stack = SubSeq(@, 1, Len(@) - 1)]
  ELSE log

(* log_do_syscall                                                           *)
DoSyscall(log, sysno, val) ==
  CASE sysno = 0  -> LogOff(log)
    [] sysno = 1  -> LogOn(log)
    [] sysno = 2  -> LogPerf(log)
    [] sysno = 3  -> LogSet(log, val)
    [] sysno = 9  -> Push(log, FALSE)
    [] sysno = 10 -> Push(log, TRUE)
    [] sysno = 11 -> Pop(log)
    [] OTHER      -> log

-----------------------------------------------------------------------------
(* log_dump_line                                                            *)

(* Seeded fault: the count-down has no end.                                 *)
CountDownOn(log, counts) ==
  IF counts
  THEN [log EXCEPT !.countdown = @ - 1, !.do_log = @ /\ log.countdown # 1]
  ELSE log

(* `counts' is d # NULL: leave() prints the last line without counting it.  *)
CountDown(log, counts) ==
  IF counts /\ log.countdown # 0
  THEN [log EXCEPT !.countdown = @ - 1, !.do_log = @ /\ log.countdown # 1]
  ELSE log

(* metered is perf.on || perf.will_be_on                                    *)
LogThis(log, metered) == log.do_log \/ (log.perf_only /\ metered)

Prints(log, metered) == LogThis(log, metered) \/ log.log_this

DumpLine(log, metered) ==
  [log EXCEPT !.maybe_log = Prints(log, metered),
              !.log_this  = LogThis(log, metered)]

Fatal(log, metered) == LogThis(log, metered) /\ log.log_unused
=============================================================================
