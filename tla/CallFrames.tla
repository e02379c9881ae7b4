----------------------------- MODULE CallFrames -----------------------------
(***************************************************************************)
(* AvrCore with history variables, to say what a call promises: a return    *)
(* goes back to where its call came from, and avrtest_cycles_call measures  *)
(* the call it was armed for.                                              *)
(*                                                                         *)
(* `frames' are the calls whose return address lies untouched on the        *)
(* stack: a call adds one; it goes when the stack pointer rises past it     *)
(* (its return, POP, a longjmp that writes SPL) or when the program stores  *)
(* into it.  `executed' counts the instructions whose function has run to   *)
(* its end.  `meas' is the call a measurement was started for.  The history *)
(* is no state of the program and restricts no step of it.                  *)
(***************************************************************************)
EXTENDS AvrCore

VARIABLES frames, executed, meas

history == << frames, executed, meas >>
hvars   == << vars, history >>

Calls   == {"CALL", "RCALL", "ICALL", "EICALL"}
Returns == {"RET", "RETI"}
Stores  == {"OUT", "STS"}

(* ret: the return address, sp: the stack pointer before the call and after *)
(* its return, born: the number of instructions executed before the call.   *)
FrameType == [ret : Nat, sp : Nat, born : Nat]
Cells(f)  == f.sp - PcBytes + 1 .. f.sp

(* push_PC tests only the first byte it writes: a frame that starts right   *)
(* above the reserved register area reaches into it.                        *)
AboveSfr(f) == f.sp - PcBytes >= SREG

Pushes == /\ Executing(Calls)
          /\ ~StackOverflow
          /\ Id = "EICALL" => HasEind

Live(f) == /\ ReadSP(ram') <= f.sp - PcBytes
           /\ ~(Id \in Stores /\ Insn.k \in Cells(f))

NextFrames ==
  {f \in frames : Live(f)} \cup
  IF Pushes THEN {[ret |-> NextPc, sp |-> ReadSP(ram), born |-> executed]}
            ELSE {}

Starts == ticks_port.call.state = 1 /\ ticks_port'.call.state = 2
Ends   == ticks_port.call.state = 2 /\ ticks_port'.call.state = 3

(* The measured call: its frame, and the program cycles before the first    *)
(* cycle of the call instruction is accounted.                              *)
NextMeas == IF Starts THEN [born |-> executed, cycles |-> n_cycles] ELSE meas

RanToEnd == status' \in {"RUNNING", "TIMEOUT"}

HInit == Init /\ frames = {} /\ executed = 0
              /\ meas = [born |-> 0, cycles |-> 0]

HStep == /\ Step
         /\ frames' = NextFrames
         /\ executed' = IF RanToEnd THEN executed + 1 ELSE executed
         /\ meas' = NextMeas

HNext == HStep \/ (Exited /\ UNCHANGED history)

HSpec == HInit /\ [][HNext]_hvars

-----------------------------------------------------------------------------

HTypeOK ==
  /\ TypeOK
  /\ frames \in SUBSET FrameType
  /\ executed \in Nat
  /\ meas \in [born : Nat, cycles : Nat]

(* While a call is outstanding, what push_PC wrote stays on the stack: no   *)
(* push, pop, flag update or other call in between touches it.              *)
FramesIntact ==
  \A f \in frames : AboveSfr(f) =>
    /\ ram[f.sp] = Lo(f.ret)
    /\ ram[f.sp - 1] = Hi(f.ret)
    /\ Pc3Bytes => ram[f.sp - 2] = Ext(f.ret)

(* A return with the stack pointer where the call left it goes to the       *)
(* instruction after that call, whatever ran in between.  (An address that  *)
(* does not fit in the bytes pushed, which is one past the last word of a   *)
(* full flash, wraps around.)                                              *)
PcLimit == IF Pc3Bytes THEN Byte * Top ELSE Top

ReturnsFrom(f) == Executing(Returns) /\ ReadSP(ram) = f.sp - PcBytes

ReturnsToCaller ==
  [][\A f \in frames :
       AboveSfr(f) /\ ReturnsFrom(f) => pc' = f.ret % PcLimit]_hvars

(* avrtest_cycles_call: while the measured call is outstanding, its own     *)
(* return, and nothing else (a recursive call from the same place, a return *)
(* to the same address), ends the measurement.                             *)
Measured(f) == /\ ticks_port.call.state = 2
               /\ f.born = meas.born
               /\ AboveSfr(f) /\ f.ret < PcLimit

MeasurementIsOwnCall ==
  [][\A f \in frames : Measured(f) =>
       (Ends <=> ReturnsFrom(f) /\ pc' <= MaxPc)]_hvars

(* -m MAXCOUNT: a program goes on no further than MAXCOUNT instructions, and *)
(* is stopped by the limit no sooner; without a limit it never is.           *)
StopsAtLimit ==
  IF MaxInsns = 0 THEN status # "TIMEOUT"
  ELSE /\ status = "RUNNING" => executed <= MaxInsns
       /\ status = "TIMEOUT" => executed >= MaxInsns

(* README, -m: "Execute at most MAXCOUNT instructions".                      *)
AtMostMaxInsns == MaxInsns # 0 => executed <= MaxInsns

(* What avrtest_cycles() gets are the cycles from the measured call to its   *)
(* return, whatever else was counted or reset meanwhile and though counters  *)
(* wrap around; they may fall short of the cycles that have passed by those  *)
(* of the call instruction, and by no more.                                 *)
Missed == (n_cycles' - meas.cycles - ticks_port'.call.n_cycles) % Mod32

CyclesOfTheCall ==
  [][\A f \in frames : Measured(f) /\ Ends => Missed \in 0 .. Ticks("CALL")]_hvars

(* README on avrtest_cycles_call: the cycles from the first [R]CALL up to the *)
(* respective RET, "including [R]CALL and RET".                             *)
DurationOfTheCall ==
  [][\A f \in frames : Measured(f) /\ Ends => Missed = 0]_hvars

=============================================================================
