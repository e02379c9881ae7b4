----------------------------- MODULE MCCallFrames -----------------------------
(***************************************************************************)
(* Programs for model checking CallFrames: every sequence of four           *)
(* instructions that call, return, use the stack, change flags or write the *)
(* stack pointer, after start-up code that sets the stack pointer to 4 (the *)
(* guard), 7, 8 or 15; and every sequence of four after avrtest_cycles_call. *)
(* Memory is as in MCAvrCore: 4 values in a cell, 16 cells; the third byte  *)
(* of a program counter counts from address 16 on.                          *)
(***************************************************************************)
EXTENDS CallFrames, Sequences

InsnKV(id, k, v) == [id |-> id, k |-> k, v |-> v, c |-> {}]
InsnK(id, k)     == InsnKV(id, k, {})
InsnV(id, v)     == InsnKV(id, 0, v)
Insn0(id)        == InsnKV(id, 0, {})
SysTick(cmd)     == [id |-> "SYSCALL", k |-> 4, v |-> {}, c |-> cmd]
SecondWord       == Insn0("ILLEGAL")

Padded(words) ==
  [a \in 0 .. FlashWords |->
     IF a - CodeStart + 1 \in DOMAIN words THEN words[a - CodeStart + 1]
     ELSE IF a \in Code THEN Insn0("ILLEGAL") ELSE Insn0("BAD_PC")]

StartUp(lows, highs) ==
  << InsnKV("OUT", SPL, lows), InsnKV("OUT", SPH, highs) >>

Body ==
  << InsnK("RCALL", 0), InsnK("RCALL", 1), InsnK("RCALL", -2), Insn0("RET"),
     Insn0("RETI"), InsnV("PUSH", {2}), Insn0("POP"), InsnV("ALU", {3}),
     InsnKV("OUT", SPL, {2}), InsnK("RJMP", -3) >>

(* The four instructions start at address 16.                               *)
FrameImages == LET D == DOMAIN Body IN {"frames"} \X D \X D \X D \X D
FramesProgram(i) ==
  StartUp({0, 3}, {1, 2, 3})
  \o << InsnK("RJMP", 2), SecondWord, SecondWord >>
  \o << Body[i[2]], Body[i[3]], Body[i[4]], Body[i[5]] >>

(* The measured call may call itself from the same place, directly or       *)
(* through the conditional branches, and reset or read the port.            *)
Measuring ==
  << InsnK("RCALL", 0), InsnK("RCALL", 1), InsnK("RCALL", -2), Insn0("RET"),
     InsnV("PUSH", {3}), Insn0("POP"), InsnK("SKIP", 1),
     InsnV("ICALL", {15}), InsnK("RJMP", -3) >>

(* The second kind of image has two commands inside the measured call.      *)
Port == << SysTick({"cycles_call"}), SysTick({"get_cycles"}),
           SysTick({"reset_cycles"}) >>

MeasureImages ==
  LET M == DOMAIN Measuring
      P == DOMAIN Port
  IN  ({"measure"} \X M \X M \X M \X M) \cup ({"port"} \X M \X P \X P)

MeasuredProgram(i) ==
  StartUp({3}, {3}) \o << SysTick({"cycles_call"}), SecondWord >> \o
  IF i[1] = "measure"
  THEN [n \in 1 .. 4 |-> Measuring[i[n + 1]]]
  ELSE << Measuring[i[2]], Port[i[3]], SecondWord, Port[i[4]], SecondWord, Insn0("RET") >>

AllImages == FrameImages \cup MeasureImages
AllPrograms ==
  [i \in AllImages |-> Padded(IF i[1] = "frames" THEN FramesProgram(i) ELSE MeasuredProgram(i))]

=============================================================================
