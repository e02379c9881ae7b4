------------------------------ MODULE TicksPort ------------------------------
(***************************************************************************)
(* The ticks port: the cycle and instruction counters a target program     *)
(* reads with SYSCALL 4 (avrtest.h: avrtest_cycles, avrtest_insns,          *)
(* avrtest_reset_*, avrtest_cycles_call), as host.c keeps them in           *)
(* `ticks_port' and avrtest.c updates them on calls and returns.            *)
(*                                                                         *)
(* The port is one record, so the module has operators and no variables:    *)
(* AvrCore owns the record and applies the operators.  The number a get     *)
(* command puts into R22..R25 goes to registers, which are not modelled,    *)
(* and the random numbers are left out.                                     *)
(***************************************************************************)
EXTENDS Integers

CONSTANT Mod32      (* 2^32 in the code: values handed out are uint32_t     *)

ASSUME Mod32Assumption == Mod32 \in Nat \ {0}

Mod64 == Mod32 * Mod32      \* the counters themselves are uint64_t

(* Commands in R24.  The reset commands are the bits 3..5 of R24, any       *)
(* subset of which may be given at once; a get command is a small number.   *)
Resets == {"reset_cycles", "reset_insns", "reset_prand"}
Gets   == {"get_cycles", "get_insns", "get_rand", "get_prand"}

(* An avrtest_cycles_call measurement in ticks_port.call:                   *)
(*   state 0  nothing to do                                                 *)
(*   state 1  armed: the next CALL or RCALL starts it                       *)
(*   state 2  running: waits for the RET to pc_ret with SP = sp_ret         *)
(*   state 3  done: n_cycles waits for the next get_cycles                  *)
CallType ==
  [state : 0 .. 3, pc_ret : Nat, sp_ret : Nat, before : Nat, n_cycles : Nat]

TicksPortType == [cycles : Nat, insns : Nat, call : CallType]

InitTicksPort ==
  [cycles |-> 0, insns |-> 0,
   call   |-> [state |-> 0, pc_ret |-> 0, sp_ret |-> 0,
               before |-> 0, n_cycles |-> 0]]

-----------------------------------------------------------------------------

(* A CALL or RCALL is about to push the return address `ret' at `sp'; the   *)
(* cycles of the instruction itself are already part of `cycles'.           *)
CallStart(tp, ret, sp, cycles) ==
  IF tp.call.state = 1
  THEN [tp EXCEPT !.call = [@ EXCEPT !.state  = 2,
                                     !.pc_ret = ret,
                                     !.sp_ret = sp,
                                     !.before = cycles]]
  ELSE tp

(* Seeded fault: the stack pointer is not compared, so the return of an     *)
(* inner call from the same place ends the measurement.                     *)
CallEndAnySP(tp, pc, sp, cycles) ==
  IF tp.call.state = 2 /\ pc = tp.call.pc_ret
  THEN [tp EXCEPT !.call = [@ EXCEPT !.state = 3,
                                     !.n_cycles = (cycles - tp.call.before) % Mod32]]
  ELSE tp

(* Seeded fault: cycles are counted from the last reset.                    *)
CallEndSinceReset(tp, pc, sp, cycles) ==
  IF /\ tp.call.state = 2
     /\ pc = tp.call.pc_ret
     /\ sp = tp.call.sp_ret
  THEN [tp EXCEPT !.call = [@ EXCEPT !.state = 3,
                                     !.n_cycles = (cycles - tp.cycles) % Mod32]]
  ELSE tp

(* A RET or RETI has returned to `pc' and left the stack pointer at `sp'.   *)
CallEnd(tp, pc, sp, cycles) ==
  IF /\ tp.call.state = 2
     /\ pc = tp.call.pc_ret
     /\ sp = tp.call.sp_ret
  THEN [tp EXCEPT !.call =
          [@ EXCEPT !.state    = 3,
                    !.n_cycles = (cycles - tp.call.before) % Mod32]]
  ELSE tp

(* sys_ticks_cmd, the effect on the port.  A command with a reset bit does  *)
(* the resets and returns; it never arms a measurement nor reads a value.   *)
Reset(tp, what, cycles, insns) ==
  [tp EXCEPT !.call.state = IF "reset_cycles" \in what THEN 0 ELSE @,
             !.cycles     = IF "reset_cycles" \in what THEN cycles ELSE @,
             !.insns      = IF "reset_insns" \in what THEN insns ELSE @]

ArmCall(tp) == [tp EXCEPT !.call.state = 1]

(* avrtest_cycles() takes a finished measurement away with it.              *)
Read(tp, what) ==
  IF what = "get_cycles" /\ tp.call.state = 3
  THEN [tp EXCEPT !.call.state = 0]
  ELSE tp

=============================================================================
