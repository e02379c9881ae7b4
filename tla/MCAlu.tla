-------------------------------- MODULE MCAlu --------------------------------
(***************************************************************************)
(* Every instruction on R0 and R2 from operands at the boundaries, and      *)
(* additions and subtractions of the two-byte numbers in R1:R0 and R3:R2.   *)
(***************************************************************************)
EXTENDS AluFlags

Constants == {1, 128, 255}

Insn(op, rd, rr, k, f) == [op |-> op, rd |-> rd, rr |-> rr, k |-> k, f |-> f]
NOP == Insn("NOP", 0, 0, 0, "C")

FirstInsns ==
  {Insn(op, 0, 2, 0, "C") : op \in OneReg \cup TwoRegs \cup Products \cup {"MOVW"}}
  \cup {Insn(op, 0, 0, k, "C") : op \in RegConst, k \in Constants}
  \cup {Insn(op, 0, 0, k, "C") : op \in {"ADIW", "SBIW"}, k \in {0, 1, 63}}
  \cup {Insn(op, 0, 0, 0, f) : op \in OnSreg, f \in {"C", "T"}}

HighInsns == {Insn(op, 1, 3, 0, "C") : op \in {"ADC", "ROL", "SBC", "CPC"}}
             \cup {Insn("SBCI", 1, 0, k, "C") : k \in Constants}

MCInsns == FirstInsns \cup HighInsns \cup {NOP}

MCFollow ==
  [i \in MCInsns |->
     IF i.op \in {"ADD", "LSL", "SUB", "SUBI", "CP", "CPI", "MOV", "NEG"}
     THEN HighInsns \cup {NOP} ELSE {NOP}]

MCOperands == {0, 1, 8, 15, 127, 128, 255}
MCFlags == {{}, {"C"}, {"Z"}, AllFlags}
=============================================================================
