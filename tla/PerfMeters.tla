----------------------------- MODULE PerfMeters -----------------------------
(***************************************************************************)
(* The performance meters of avrtest_log (perf.c): SYSCALL 5 leaves a       *)
(* request in `perf', and perf_instruction, which runs after every          *)
(* instruction, serves it and brings all meters up to date.                 *)
(*                                                                         *)
(* Like the ticks port this is state of a sequential program that other     *)
(* components own and call: operators on the records `perf' and `p' (one    *)
(* element of perfs[]).  Left out are labels, tags, the call depth column   *)
(* (it is treated like the SP column) and the values of PERF_STAT.          *)
(***************************************************************************)
EXTENDS Integers, FiniteSets

CONSTANTS
  Meters,      (* 1 .. 7 in the code                                        *)
  DWord        (* 2^32: ticks and tick are 32-bit unsigned                  *)

ASSUME MetersAssumption == Meters \subseteq Nat \ {0} /\ IsFiniteSet(Meters)
ASSUME DWordAssumption  == DWord \in Nat \ {0}

IntMax == 2147483647

Commands == {"stop", "dump", "start", "start_call", "stat"}

(* perf_t.  pmask is the set of meters addressed, not yet served.           *)
PerfType ==
  [on : BOOLEAN, will_be_on : BOOLEAN, tick : Nat, sp : Nat, n_dumps : Nat,
   cmd : Commands, pmask : SUBSET Meters]

InitPerf == [on |-> FALSE, will_be_on |-> FALSE, tick |-> 0, sp |-> 0,
             n_dumps |-> 0, cmd |-> "stop", pmask |-> {}]

(* minmax_t: extremal values; LONG_MAX and LONG_MIN before the first.       *)
NoExtremes == [min |-> IntMax, max |-> -IntMax]
Extremes   == [min : Int, max : Int]

(* perfs_t.  call_only.sp is INT_MAX unless the round was begun with        *)
(* PERF_START_CALL.                                                         *)
MeterType ==
  [valid : {"none", "start", "stat"}, on : BOOLEAN, n : Nat,
   ticks : Nat, insns : Int, tick_start : Nat, insn_start : Nat,
   call_only : [sp : Nat, insns : Nat, ticks : Nat],
   tick : Extremes, insn : Extremes, sp : Extremes]

NoCall == [sp |-> IntMax, insns |-> 0, ticks |-> 0]

UnusedMeter ==
  [valid |-> "none", on |-> FALSE, n |-> 0, ticks |-> 0, insns |-> 0,
   tick_start |-> 0, insn_start |-> 0, call_only |-> NoCall,
   tick |-> NoExtremes, insn |-> NoExtremes, sp |-> NoExtremes]

-----------------------------------------------------------------------------

(* sys_perf_cmd: meter 0 addresses all of them.                             *)
PerfCmd(perf, cmd, n) ==
  [perf EXCEPT !.pmask      = IF n = 0 THEN Meters ELSE {n},
               !.will_be_on = cmd \in {"start", "start_call"},
               !.cmd        = cmd]

(* Seeded fault: a value that is a new minimum is no candidate for the      *)
(* maximum.                                                                 *)
UpdateElse(mm, x) == IF x < mm.min THEN [mm EXCEPT !.min = x]
                     ELSE [mm EXCEPT !.max = IF x > @ THEN x ELSE @]

(* minmax_update                                                            *)
Update(mm, x) == [min |-> IF x < mm.min THEN x ELSE mm.min,
                  max |-> IF x > mm.max THEN x ELSE mm.max]

(* What perf_instruction works on: `prog' holds program.n_insns (which does *)
(* not count the current instruction yet) and program.n_cycles (which       *)
(* does); sp is get_nonglitch_SP().                                         *)

(* Seeded fault: the RET that comes back to the starting level is missed.   *)
CallCostsNoRet(p, perf, prog, sp) ==
  IF p.on /\ p.call_only.sp < IntMax /\ sp < p.call_only.sp
  THEN [p EXCEPT !.call_only.insns = @ + 1,
                 !.call_only.ticks = (@ + prog.n_cycles - perf.tick) % DWord]
  ELSE p

(* PERF_START_CALL: SP is below the starting point before or after.         *)
CallCosts(p, perf, prog, sp) ==
  IF /\ p.on /\ p.call_only.sp < IntMax
     /\ sp < p.call_only.sp \/ perf.sp < p.call_only.sp
  THEN [p EXCEPT !.call_only.insns = @ + 1,
                 !.call_only.ticks = (@ + prog.n_cycles - perf.tick) % DWord]
  ELSE p

(* Seeded fault: the instruction that stops the meter is counted.           *)
StopLate(p, perf, prog) ==
  LET insns == prog.n_insns - p.insn_start
  IN  IF p.valid = "start" /\ p.on
      THEN [p EXCEPT !.on = FALSE, !.insns = @ + insns,
                     !.insn = Update(@, insns)]
      ELSE p

(* perf_stop, once the messages about ignored stops are left out: perf.tick *)
(* and n_insns - 1 are from before the stopping instruction.                *)
Stop(p, perf, prog) ==
  LET called == p.call_only.sp # IntMax
      ticks  == IF called THEN p.call_only.ticks
                ELSE perf.tick - p.tick_start
      insns  == IF called THEN p.call_only.insns
                ELSE prog.n_insns - 1 - p.insn_start
  IN  IF p.valid = "start" /\ p.on
      THEN [p EXCEPT !.on    = FALSE,
                     !.ticks = (@ + ticks) % DWord,
                     !.insns = @ + insns,
                     !.tick  = Update(@, ticks),
                     !.insn  = Update(@, insns)]
      ELSE p

Dump(p) == [p EXCEPT !.valid = "none"]

Watch(p, sp) == IF p.on THEN [p EXCEPT !.sp = Update(@, sp)] ELSE p

(* perf_verbose_start and perf_start; the first round resets all there is.  *)
Start(p, cmd, prog, perf, sp) ==
  LET q == IF p.valid = "none"
           THEN [UnusedMeter EXCEPT !.valid = "start"]
           ELSE p
  IN  IF p.valid = "none" \/ (p.valid = "start" /\ ~p.on)
      THEN [q EXCEPT !.on = TRUE, !.n = @ + 1,
                     !.call_only  = [NoCall EXCEPT !.sp =
                                      IF cmd = "start_call" THEN sp ELSE @],
                     !.insn_start = prog.n_insns,
                     !.tick_start = prog.n_cycles]
      ELSE p

(* perf_verbose_start and perf_stat.                                        *)
Stat(p) ==
  CASE p.valid = "none"  -> [p EXCEPT !.valid = "stat", !.on = FALSE, !.n = 1]
    [] p.valid = "stat"  -> [p EXCEPT !.n = @ + 1]
    [] p.valid = "start" -> p

(* The body of the loop in perf_instruction for one meter.                  *)
ServeMeter(p, asked, perf, prog, sp) ==
  LET p1 == CallCosts(p, perf, prog, sp)
      p2 == IF asked /\ perf.cmd \in {"stop", "dump"}
            THEN Stop(p1, perf, prog) ELSE p1
      p3 == IF asked /\ perf.cmd = "dump" THEN Dump(p2) ELSE p2
      p4 == Watch(p3, sp)
  IN  CASE asked /\ perf.cmd \in {"start", "start_call"}
             -> Start(p4, perf.cmd, prog, perf, sp)
        [] asked /\ perf.cmd = "stat" -> Stat(p4)
        [] OTHER -> p4

Idle(perf) == ~perf.on /\ perf.pmask = {}

ServeMeters(meters, perf, prog, sp) ==
  IF Idle(perf) THEN meters
  ELSE [i \in Meters |->
          ServeMeter(meters[i], i \in perf.pmask, perf, prog, sp)]

AnyOn(meters) == \E i \in Meters : meters[i].on

(* The rest of perf_instruction; `served' are the meters after it.  The     *)
(* command is not cleared, only the mask.                                   *)
PerfInstruction(perf, served, prog, sp) ==
  LET q == [perf EXCEPT !.will_be_on = FALSE,
                        !.sp = sp, !.tick = prog.n_cycles % DWord]
  IN  IF Idle(perf) THEN q
      ELSE [q EXCEPT !.pmask   = {},
                     !.on      = AnyOn(served),
                     !.n_dumps = @ + IF perf.cmd = "dump" THEN 1 ELSE 0]
=============================================================================
