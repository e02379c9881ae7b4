------------------------------ MODULE MCAvrCore ------------------------------
(***************************************************************************)
(* Programs and constants for model checking AvrCore.                       *)
(*                                                                         *)
(* A memory cell has 4 values, so data addresses are 0..15 and a return     *)
(* address takes two cells.  Cell 0 is a register, SPL, SPH and SREG are    *)
(* cells 1, 2 and 3, the stack may use the cells from 4 on.                 *)
(***************************************************************************)
EXTENDS AvrCore, Sequences

Insn0(id)        == [id |-> id, k |-> 0, v |-> {}, c |-> {}]
InsnK(id, k)     == [id |-> id, k |-> k, v |-> {}, c |-> {}]
InsnV(id, v)     == [id |-> id, k |-> 0, v |-> v, c |-> {}]
InsnKV(id, k, v) == [id |-> id, k |-> k, v |-> v, c |-> {}]
SysTick(cmd)     == [id |-> "SYSCALL", k |-> 4, v |-> {}, c |-> cmd]
Sys(n)           == InsnK("SYSCALL", n)
SecondWord       == Insn0("ILLEGAL")

(* The flash with `words' from CodeStart to its very end, so that max_pc is *)
(* one past decoded_flash; what lies there looks like a NOP.                *)
Image(words) ==
  [a \in 0 .. FlashWords |->
     IF a \in Code THEN words[a - CodeStart + 1]
     ELSE IF a = FlashWords THEN Insn0("NOP") ELSE Insn0("BAD_PC")]

(* Startup code sets the stack pointer to one of several values.            *)
SetSP(lows, highs) ==
  << InsnKV("OUT", SPL, lows), InsnKV("OUT", SPH, highs) >>

(* Every sequence of three instructions of these kinds, after the start-up  *)
(* code.                                                                    *)
Kinds ==
  << Insn0("NOP"), Insn0("ILLEGAL"), InsnV("ALU", {0, 3}), InsnV("PUSH", {3}),
     Insn0("POP"), Insn0("RET"), Insn0("RETI"),
     InsnK("RJMP", -1), InsnK("RJMP", -2), InsnK("RJMP", -5),
     InsnK("RCALL", 0), InsnK("RCALL", -2),
     InsnKV("BRBS", -2, {3}), InsnKV("BRBC", -2, {3}),
     InsnK("SKIP", 1), InsnK("SKIP", 2),
     InsnV("IJMP", {0, 5, 8, 9}), InsnV("ICALL", {5, 9}), InsnV("EIJMP", {4}),
     InsnV("EICALL", {0, 5}) >>

(* The two-word instructions, each before an instruction of every sort; the *)
(* last one may be cut off by the end of the code.                          *)
TwoWord ==
  << InsnKV("STS", SREG, {3}), Insn0("LDS"), InsnK("JMP", 4), InsnK("JMP", 9),
     InsnK("CALL", 5), InsnK("CALL", 7), Sys(1), Sys(25), Sys(30), Sys(31),
     SysTick({"cycles_call"}), SysTick({"get_cycles"}), SysTick({"get_insns"}),
     SysTick({"reset_cycles", "reset_prand"}), SysTick({"reset_insns"}) >>

Singles == DOMAIN Kinds
Doubles == DOMAIN TwoWord
Last    == TwoWord \o Kinds

MCImages == (Singles \X Singles \X Singles)
            \cup (Doubles \X (DOMAIN Last))

MCPrograms ==
  [i \in MCImages |->
     Image(SetSP({3}, {0, 3}) \o
           (IF Len(i) = 3 THEN << Kinds[i[1]], Kinds[i[2]], Kinds[i[3]] >>
            ELSE << TwoWord[i[1]], SecondWord, Last[i[2]] >>))]

MCExitValues == {-1, 0, 1}

=============================================================================
