-------------------------- MODULE CallFramesProofs --------------------------
(***************************************************************************)
(* Proofs about the execution loop, for every program and every size of     *)
(* memory, flash and program counter: AvrCore alone first, then calls,      *)
(* returns and cycle measurements.                                         *)
(***************************************************************************)
EXTENDS CallFrames, ByteArithmetic

-----------------------------------------------------------------------------
(* The execution loop                                                      *)

Memory == [0 .. Top - 1 -> Bytes]
Count  == 0 .. Mod64 - 1          \* the values of a 64-bit counter

(* The values constants have, in the form the provers use them.             *)
LEMMA Constants ==
  /\ Byte \in Nat \ {0} /\ Byte > 1 /\ Top \in Nat /\ Top > Byte
  /\ Mod32 \in Nat \ {0} /\ Mod64 \in Nat \ {0}
  /\ SPL \in 0 .. Top - 1 /\ SPH \in 0 .. Top - 1 /\ SREG \in 0 .. Top - 1
  /\ Guard \in Nat /\ Guard >= 3 /\ SPH = SPL + 1 /\ SREG = SPL + 2
  /\ MaxPc \in Nat /\ MaxPc <= FlashWords /\ FlashWords \in Nat
  /\ Entry \in 0 .. FlashWords - 1 /\ PcMask \in Nat
PROOF
  <1>1. Byte \in Nat \ {0} /\ Byte > 1 /\ Byte * Byte \in Nat /\ Byte * Byte > Byte
    BY CoreAssumption
  <1>2. Mod32 * Mod32 \in Nat \ {0}
    BY Mod32Assumption
  <1> QED
    BY <1>1, <1>2, CoreAssumption, Mod32Assumption
    DEF Top, Mod64, SPH, SREG, Guard, MaxPc

LEMMA Remainder ==
  ASSUME NEW n \in Int, NEW b \in Nat \ {0}
  PROVE  n % b \in 0 .. b - 1
  OBVIOUS

LEMMA Add64Type ==
  ASSUME NEW x \in Int, NEW d \in Int
  PROVE  Add64(x, d) \in Count
  BY Constants, Remainder DEF Add64, Count

(* The stack pointer is a data address.                                     *)
LEMMA ReadSPType ==
  ASSUME NEW m \in Memory
  PROVE  ReadSP(m) \in 0 .. Top - 1
PROOF
  <1>1. m[SPL] \in 0 .. Byte - 1 /\ m[SPH] \in 0 .. Byte - 1
    BY Constants DEF Memory, Bytes
  <1>2. Byte * m[SPH] \in Nat /\ Byte * m[SPH] <= Byte * (Byte - 1)
    BY <1>1, Constants, ProductMonotone, ProductNat
  <1>3. Byte * (Byte - 1) = Byte * Byte - Byte
    BY Constants
  <1> QED
    BY <1>1, <1>2, <1>3, Constants DEF ReadSP, Top

LEMMA WriteSPType ==
  ASSUME NEW m \in Memory, NEW sp \in Int
  PROVE  WriteSP(m, sp) \in Memory
PROOF
  <1>1. sp % Byte \in Bytes /\ (sp \div Byte) % Byte \in Bytes
    BY Constants, Remainder DEF Bytes
  <1> QED
    BY <1>1, Constants DEF WriteSP, Memory

LEMMA PushByteType ==
  ASSUME NEW m \in Memory, NEW b \in Bytes
  PROVE  PushByte(m, b) \in Memory
PROOF
  <1>1. [m EXCEPT ![ReadSP(m)] = b] \in Memory
    BY DEF Memory
  <1> QED
    BY <1>1, ReadSPType, WriteSPType, Constants DEF PushByte

LEMMA PushPCType ==
  ASSUME NEW m \in Memory, NEW p \in Nat
  PROVE  PushPC(m, p) \in Memory
PROOF
  <1>1. Lo(p) \in Bytes /\ Hi(p) \in Bytes /\ Ext(p) \in Bytes
    <2>1. p \div Byte \in Int /\ p \div (Byte * Byte) \in Int
      BY Constants DEF Top
    <2> QED
      BY <2>1, Constants, Remainder DEF Lo, Hi, Ext, Bytes
  <1> DEFINE m2 == [m EXCEPT ![ReadSP(m)] = Lo(p), ![ReadSP(m) - 1] = Hi(p)]
             m3 == IF Pc3Bytes THEN [m2 EXCEPT ![ReadSP(m) - 2] = Ext(p)] ELSE m2
  <1>2. m2 \in Memory
    BY <1>1 DEF Memory
  <1>3. m3 \in Memory
    BY <1>1, <1>2 DEF Memory
  <1>4. ReadSP(m) - PcBytes \in Int
    BY ReadSPType, Constants DEF PcBytes
  <1> QED
    BY <1>3, <1>4, WriteSPType DEF PushPC

(* A program counter taken from the stack is a number.                      *)
LEMMA PopPCType ==
  ASSUME NEW m \in Memory, NEW p \in PopPC(m)
  PROVE  p \in Nat
PROOF
  <1> DEFINE sp == ReadSP(m)
             a == sp + (IF Pc3Bytes THEN 1 ELSE 0)
             E == IF Pc3Bytes THEN MayRead(m, sp + 1) ELSE {0}
  <1>1. a \in Nat /\ sp \in Nat
    BY ReadSPType, Constants
  <1>2. ASSUME NEW n \in Nat PROVE MayRead(m, n) \subseteq Nat
    BY Constants, CoreAssumption DEF MayRead, Memory, Bytes
  <1>3. E \subseteq Nat /\ MayRead(m, a + 1) \subseteq Nat /\ MayRead(m, a + 2) \subseteq Nat
    BY <1>1, <1>2
  <1>4. PICK x \in E, y \in MayRead(m, a + 1), z \in MayRead(m, a + 2) :
           p = (x * Byte + y) * Byte + z
    BY DEF PopPC
  <1>5. x * Byte + y \in Nat
    BY <1>3, Constants, ProductNat
  <1> HIDE DEF a, E, sp
  <1>6. (x * Byte + y) * Byte \in Nat
    BY <1>5, Constants, ProductNat
  <1> QED
    BY <1>3, <1>4, <1>6

(* Setting the I flag gives a byte again.                                   *)
LEMMA SetFlagType ==
  ASSUME NEW m \in Memory
  PROVE  SetFlag(m, FlagI) \in Memory
PROOF
  <1>1. m[SREG] \in 0 .. Byte - 1
    BY Constants DEF Memory, Bytes
  <1>2. FlagI \in Nat \ {0} /\ Byte = 2 * FlagI
    BY CoreAssumption DEF FlagI
  <1>3. CASE (m[SREG] \div FlagI) % 2 = 1
    BY <1>3 DEF SetFlag
  <1>4. CASE (m[SREG] \div FlagI) % 2 # 1
    <2>1. m[SREG] < FlagI
      <3> DEFINE q == m[SREG] \div FlagI
      <3>1. q \in Nat /\ m[SREG] = FlagI * q + (m[SREG] % FlagI)
            /\ m[SREG] % FlagI \in 0 .. FlagI - 1
        <4>1. m[SREG] \in Nat /\ FlagI \in Nat \ {0}
          BY <1>1, <1>2, Constants
        <4> QED
          BY <4>1, DivMod
      <3>2. q # 1
        BY <1>4
      <3> HIDE DEF q
      <3>3. q < 2
        <4>1. CASE q >= 2
          <5>1. FlagI * 2 <= FlagI * q
            BY <4>1, <3>1, <1>2, ProductMonotone
          <5> QED
            BY <5>1, <3>1, <1>1, <1>2
        <4> QED
          BY <4>1, <3>1
      <3> QED
        BY <3>1, <3>2, <3>3, <1>2
    <2>2. m[SREG] + FlagI \in Bytes
      BY <2>1, <1>1, <1>2 DEF Bytes
    <2> QED
      BY <1>4, <2>2, Constants DEF SetFlag, Memory
  <1> QED
    BY <1>3, <1>4

-----------------------------------------------------------------------------
(* The parts of do_step that instructions share                            *)

(* What TypeOK says of the state that do_step itself changes.               *)
StepType ==
  /\ image' = image
  /\ pc' \in Nat
  /\ n_cycles' \in Count
  /\ n_insns' \in Count
  /\ status' \in Statuses
  /\ status' = "RUNNING" => pc' <= MaxPc

(* A running program fetches from decoded_flash or from right behind it.    *)
LEMMA FetchInFlash ==
  ASSUME TypeOK, status = "RUNNING"
  PROVE  pc \in 0 .. FlashWords /\ image \in Images /\ WellFormed(Insn)
  BY Constants, ProgramsAssumption DEF TypeOK, Insn

LEMMA FetchType ==
  ASSUME TypeOK
  PROVE  /\ NextPc \in Nat /\ NextPc >= pc
         /\ Cycles \in Count
PROOF
  <1>1. Words(Id) \in {0, 1, 2}
    BY DEF Words
  <1>2. Ticks(Id) \in {0, 1, 2, 2 + CX, 2 - CX, 3, 4 - CX, 3 - CX, 4}
    BY Zenon DEF Ticks
  <1>3. Ticks(Id) \in Int
    BY <1>2, CoreAssumption
  <1>4. pc \in Nat /\ n_cycles \in Int
    BY DEF TypeOK
  <1>5. NextPc \in Nat /\ NextPc >= pc
    BY <1>1, <1>4 DEF NextPc
  <1>6. Cycles \in Count
    BY <1>3, <1>4, Add64Type DEF Cycles
  <1> QED
    BY <1>5, <1>6

LEMMA RetireType ==
  ASSUME TypeOK, status = "RUNNING", NEW p \in Nat, p <= MaxPc,
         NEW c \in Count, Retire(p, c)
  PROVE  StepType
PROOF
  <1>1. n_insns \in Count /\ Add64(n_insns, 1) \in Count
    BY Add64Type DEF TypeOK, Count
  <1>2. n_insns' \in Count /\ status' \in {"RUNNING", "TIMEOUT"}
    BY <1>1 DEF Retire
  <1> QED
    BY <1>2 DEF Retire, StepType, Statuses

LEMMA LeaveType ==
  ASSUME TypeOK, NEW s \in Statuses \ {"RUNNING"}, NEW p \in Nat,
         NEW c \in Count, Leave(s, p, c)
  PROVE  StepType
  BY DEF TypeOK, Leave, StepType, Statuses, Count

LEMMA GotoType ==
  ASSUME TypeOK, status = "RUNNING", NEW p \in Nat, NEW e \in Int, Goto(p, e)
  PROVE  StepType
PROOF
  <1>1. Cycles \in Count /\ Add64(Cycles, e) \in Count
    BY FetchType, Add64Type DEF Count
  <1>2. CASE p > MaxPc
    BY <1>1, <1>2, LeaveType DEF Goto, Statuses
  <1>3. CASE ~(p > MaxPc)
    BY <1>1, <1>3, RetireType, Constants DEF Goto
  <1> QED
    BY <1>2, <1>3

LEMMA RelativeType ==
  ASSUME TypeOK, NEW d \in Int
  PROVE  Relative(d) \in Nat
PROOF
  <1> DEFINE n == NextPc + d
             b == PcMask + 1
  <1>1. n \in Int /\ b \in Nat \ {0}
    BY FetchType, Constants
  <1> HIDE DEF n, b
  <1>2. n % b \in 0 .. b - 1
    BY <1>1, Remainder
  <1>3. n % b \in Nat
    BY <1>1, <1>2
  <1> QED
    BY <1>3 DEF Relative, n, b

LEMMA CallToType ==
  ASSUME TypeOK, status = "RUNNING", NEW t \in Nat, NEW e \in Int, CallTo(t, e)
  PROVE  StepType /\ ram' \in Memory
PROOF
  <1>1. ram \in Memory
    BY DEF TypeOK, Memory
  <1>2. CASE StackOverflow
    BY <1>1, <1>2, FetchType, LeaveType DEF CallTo, Statuses
  <1>3. CASE ~StackOverflow
    BY <1>1, <1>3, FetchType, PushPCType, GotoType DEF CallTo
  <1> QED
    BY <1>2, <1>3

LEMMA CallEndType ==
  ASSUME NEW tp \in TicksPortType, NEW p, NEW sp, NEW c \in Int
  PROVE  CallEnd(tp, p, sp, c) \in TicksPortType
PROOF
  <1> DEFINE n  == (c - tp.call.before) % Mod32
             c1 == [tp.call EXCEPT !.state = 3]
             c2 == [c1 EXCEPT !.n_cycles = n]
  <1>1. n \in Nat
    BY Remainder, Constants DEF TicksPortType, CallType
  <1> HIDE DEF n
  <1>2. c1 \in CallType
    BY DEF TicksPortType, CallType
  <1>3. c2 \in CallType
    BY <1>1, <1>2 DEF CallType
  <1> HIDE DEF c2
  <1>4. [tp EXCEPT !.call = c2] \in TicksPortType
    BY <1>3 DEF TicksPortType
  <1> QED
    BY <1>4, Zenon DEF CallEnd, c2, n

(* A call may start, and a return may end, a measurement.                   *)
LEMMA CallStartType ==
  ASSUME NEW tp \in TicksPortType, NEW p \in Nat, NEW sp \in Nat, NEW c \in Nat
  PROVE  CallStart(tp, p, sp, c) \in TicksPortType
PROOF
  <1> DEFINE c1 == [tp.call EXCEPT !.state = 2]
             c2 == [c1 EXCEPT !.pc_ret = p]
             c3 == [c2 EXCEPT !.sp_ret = sp]
             c4 == [c3 EXCEPT !.before = c]
  <1>1. c1 \in CallType
    BY DEF TicksPortType, CallType
  <1> HIDE DEF c1
  <1>2. c2 \in CallType
    BY <1>1 DEF CallType
  <1> HIDE DEF c2
  <1>3. c3 \in CallType
    BY <1>2 DEF CallType
  <1> HIDE DEF c3
  <1>4. c4 \in CallType
    BY <1>3 DEF CallType
  <1> HIDE DEF c4
  <1>5. [tp EXCEPT !.call = c4] \in TicksPortType
    BY <1>4 DEF TicksPortType
  <1> QED
    BY <1>5, Zenon DEF CallStart, c4, c3, c2, c1

LEMMA CallStateType ==
  ASSUME NEW tp \in TicksPortType, NEW s \in 0 .. 3
  PROVE  [tp EXCEPT !.call.state = s] \in TicksPortType
PROOF
  <1>1. [tp.call EXCEPT !.state = s] \in CallType
    BY DEF TicksPortType, CallType
  <1> QED
    BY <1>1 DEF TicksPortType

LEMMA ResetType ==
  ASSUME NEW tp \in TicksPortType, NEW what, NEW c \in Nat, NEW i \in Nat
  PROVE  Reset(tp, what, c, i) \in TicksPortType
PROOF
  <1> DEFINE s  == IF "reset_cycles" \in what THEN 0 ELSE tp.call.state
             cy == IF "reset_cycles" \in what THEN c ELSE tp.cycles
             in == IF "reset_insns" \in what THEN i ELSE tp.insns
             t1 == [tp EXCEPT !.call.state = s]
             t2 == [t1 EXCEPT !.cycles = cy]
             t3 == [t2 EXCEPT !.insns = in]
  <1>1. s \in 0 .. 3 /\ cy \in Nat /\ in \in Nat
    BY DEF TicksPortType, CallType
  <1> HIDE DEF s, cy, in
  <1>2. t1 \in TicksPortType
    BY <1>1, CallStateType
  <1> HIDE DEF t1
  <1>3. t2 \in TicksPortType
    BY <1>1, <1>2 DEF TicksPortType
  <1> HIDE DEF t2
  <1>4. t3 \in TicksPortType
    BY <1>1, <1>3 DEF TicksPortType
  <1> QED
    BY <1>4, Zenon DEF Reset, t3, t2, t1, s, cy, in

LEMMA ArmCallType ==
  ASSUME NEW tp \in TicksPortType
  PROVE  ArmCall(tp) \in TicksPortType
PROOF
  <1>1. 1 \in 0 .. 3
    OBVIOUS
  <1> QED
    BY <1>1, CallStateType, Zenon DEF ArmCall

LEMMA ReadType ==
  ASSUME NEW tp \in TicksPortType, NEW what
  PROVE  Read(tp, what) \in TicksPortType
PROOF
  <1>1. 0 \in 0 .. 3
    OBVIOUS
  <1> QED
    BY <1>1, CallStateType, Zenon DEF Read

-----------------------------------------------------------------------------
(* Type correctness                                                        *)

LEMMA InitType == Init => TypeOK
PROOF
  <1> SUFFICES ASSUME Init PROVE TypeOK
    OBVIOUS
  <1>1. InitTicksPort \in TicksPortType
    BY DEF InitTicksPort, TicksPortType, CallType
  <1>2. 0 \in Bytes /\ 0 \in 0 .. Mod64 - 1
    BY Constants DEF Bytes
  <1> QED
    BY <1>1, <1>2, Constants DEF Init, TypeOK, Statuses

(* The rest of the type invariant.                                          *)
RestType == /\ ram' \in Memory
            /\ ticks_port' \in TicksPortType
            /\ hits' \in Nat
            /\ exit_value' \in Int

LEMMA StepIsTyped ==
  StepType /\ RestType /\ image \in Images => TypeOK'
  BY DEF StepType, RestType, TypeOK, Memory, Count, MaxPc, Top, Bytes

(* Every instruction leaves a state of the right type.                      *)
LEMMA StepKeepsType ==
  ASSUME TypeOK, Step
  PROVE  StepType /\ RestType
PROOF
  <1>1. status = "RUNNING"
    BY DEF Step, FetchOutOfBounds, BadPc, Illegal, Plain, AluOp, Store, Push,
           Pop, Jump, Rjmp, DirectCall, IndirectCall, Return, Branch, Skip,
           SysTicks, SysAbort2ndHit, SysExit, SysAbort, SysOther, Executing
  <1>2. WellFormed(Insn) /\ pc \in Nat
    BY <1>1, FetchInFlash
  <1>3. NextPc \in Nat /\ Cycles \in Count
    BY FetchType
  <1>4. ram \in Memory /\ ticks_port \in TicksPortType /\ hits \in Nat
        /\ exit_value \in Int /\ n_cycles \in Count /\ n_insns \in Count
    BY DEF TypeOK, Memory, Count
  <1>5. ASSUME Retire(NextPc, Cycles), NextPc <= MaxPc
        PROVE  StepType
    BY <1>1, <1>3, <1>5, RetireType
  <1>6. ASSUME NEW s \in Statuses \ {"RUNNING"}, Leave(s, NextPc, Cycles)
        PROVE  StepType
    BY <1>3, <1>6, LeaveType
  <1>7. ASSUME NEW s \in Statuses \ {"RUNNING"}, Leave(s, pc, Cycles)
        PROVE  StepType
    BY <1>2, <1>3, <1>7, LeaveType
  <1>8. Pc3 \in Int
    BY DEF Pc3
  <1>9. CASE FetchOutOfBounds
    BY <1>3, <1>4, <1>9, LeaveType DEF FetchOutOfBounds, RestType, Statuses
  <1>10. CASE BadPc \/ Illegal \/ SysAbort
    BY <1>4, <1>6, <1>7, <1>10 DEF BadPc, Illegal, SysAbort, RestType, Statuses
  <1>11. CASE Plain \/ SysOther
    BY <1>4, <1>5, <1>11 DEF Plain, SysOther, RestType, Executing
  <1>12. CASE AluOp
    <2>1. PICK f \in Insn.v : ram' = [ram EXCEPT ![SREG] = f]
      BY <1>12 DEF AluOp
    <2>2. f \in Bytes
      BY <1>2, <1>12 DEF WellFormed, AluOp, Executing, Id
    <2>3. ram' \in Memory
      BY <1>4, <2>1, <2>2 DEF Memory
    <2> QED
      BY <1>4, <1>5, <1>12, <2>3 DEF AluOp, RestType, Executing
  <1>13. CASE Store
    <2>1. PICK b \in Insn.v : ram' = [ram EXCEPT ![Insn.k] = b]
      BY <1>13 DEF Store
    <2>2. b \in Bytes
      BY <1>2, <1>13 DEF WellFormed, Store, Executing, Id
    <2>3. ram' \in Memory
      BY <1>4, <2>1, <2>2 DEF Memory
    <2> QED
      BY <1>4, <1>5, <1>13, <2>3 DEF Store, RestType, Executing
  <1>14. CASE Push
    <2>1. CASE StackOverflow
      BY <1>4, <1>6, <1>14, <2>1 DEF Push, RestType, Statuses
    <2>2. CASE ~StackOverflow
      <3>1. PICK b \in Insn.v : ram' = PushByte(ram, b)
        BY <1>14, <2>2 DEF Push
      <3>2. b \in Bytes
        BY <1>2, <1>14 DEF WellFormed, Push, Executing, Id
      <3> QED
        BY <1>4, <1>5, <1>14, <2>2, <3>1, <3>2, PushByteType
        DEF Push, RestType, Executing
    <2> QED
      BY <2>1, <2>2
  <1>15. CASE Pop
    <2>1. ReadSP(ram) + 1 \in Int
      BY <1>4, ReadSPType, Constants
    <2> QED
      BY <1>4, <1>5, <1>15, <2>1, WriteSPType DEF Pop, RestType, Executing
  <1>16. CASE Jump
    <2>1. RestType
      BY <1>4, <1>16 DEF Jump, RestType
    <2>2. CASE Executing({"JMP"}) /\ Goto(Insn.k, 0)
      <3>1. Insn.k \in Nat
        BY <1>2, <2>2 DEF WellFormed, Executing, Id
      <3> QED
        BY <1>1, <2>1, <2>2, <3>1, GotoType
    <2>3. ASSUME Executing({"IJMP"}), NEW z \in Insn.v, Goto(z % Top, 0)
          PROVE  StepType
      <3>1. z \in Nat /\ Top \in Nat \ {0}
        BY <1>2, Constants DEF WellFormed, InsnType
      <3>2. z % Top \in Nat
        BY <3>1, Remainder
      <3> QED
        BY <1>1, <2>3, <3>2, GotoType
    <2>4. ASSUME NEW z \in Insn.v, Goto(z, 0)
          PROVE  StepType
      <3>1. z \in Nat
        BY <1>2 DEF WellFormed, InsnType
      <3> QED
        BY <1>1, <2>4, <3>1, GotoType
    <2> QED
      BY <1>7, <1>16, <2>1, <2>2, <2>3, <2>4 DEF Jump, Statuses
  <1>17. CASE Rjmp
    <2>1. Relative(Insn.k) \in Nat
      BY <1>2, RelativeType DEF WellFormed, InsnType
    <2> QED
      BY <1>1, <1>4, <1>6, <1>17, <2>1, GotoType DEF Rjmp, RestType, Statuses
  <1>18. CASE DirectCall
    <2>1. Relative(Insn.k) \in Nat
      BY <1>2, RelativeType DEF WellFormed, InsnType
    <2>2. Id = "CALL" => Insn.k \in Nat
      BY <1>2 DEF WellFormed, Id
    <2>3. StepType /\ ram' \in Memory
      BY <1>1, <1>8, <1>18, <2>1, <2>2, CallToType DEF DirectCall, Executing
    <2>4. ReadSP(ram) \in Nat /\ Cycles \in Nat
      BY <1>3, <1>4, ReadSPType, Constants DEF Count
    <2>5. ticks_port' \in TicksPortType
      BY <1>3, <1>4, <1>18, <2>4, CallStartType DEF DirectCall
    <2> QED
      BY <1>4, <1>18, <2>3, <2>5 DEF DirectCall, RestType
  <1>19. CASE IndirectCall
    <2>1. ASSUME NEW z \in Insn.v
          PROVE  z \in Nat /\ z % Top \in Nat
      <3>1. z \in Nat /\ Top \in Nat \ {0}
        BY <1>2, <2>1, Constants DEF WellFormed, InsnType
      <3> QED
        BY <3>1, Remainder
    <2>2. StepType /\ ram' \in Memory
      <3>1. CASE \E z \in Insn.v : CallTo(z % Top, Pc3)
        BY <1>1, <1>8, <2>1, <3>1, CallToType
      <3>2. CASE \E z \in Insn.v : CallTo(z, 0)
        BY <1>1, <2>1, <3>2, CallToType
      <3>3. CASE Leave("CODE", pc, Cycles) /\ ram' = ram
        BY <1>4, <1>7, <3>3 DEF Statuses
      <3> QED
        BY <1>19, <3>1, <3>2, <3>3 DEF IndirectCall
    <2> QED
      BY <1>4, <1>19, <2>2 DEF IndirectCall, RestType
  <1>20. CASE Return
    <2> DEFINE sp    == (ReadSP(ram) + PcBytes) % Top
               m     == WriteSP(ram, sp)
               extra == IF IsTiny THEN 2 ELSE Pc3
    <2>1. PICK p \in PopPC(ram) :
            /\ Goto(p, extra)
            /\ ticks_port' = IF p > MaxPc THEN ticks_port
                             ELSE CallEnd(ticks_port, p, sp, Add64(Cycles, extra))
            /\ ram' = IF Id = "RETI" /\ p <= MaxPc THEN SetFlag(m, FlagI) ELSE m
      BY <1>20, Zenon DEF Return
    <2>2. p \in Nat /\ extra \in Int
      BY <1>4, <1>8, PopPCType
    <2>3. sp \in Int
      <3>1. ReadSP(ram) + PcBytes \in Int /\ Top \in Nat \ {0}
        BY <1>4, ReadSPType, Constants DEF PcBytes
      <3> QED
        BY <3>1, Remainder
    <2> HIDE DEF sp, extra
    <2>4. Add64(Cycles, extra) \in Int
      BY <1>3, <2>2, Add64Type DEF Count
    <2>5. m \in Memory
      BY <1>4, <2>3, WriteSPType
    <2> HIDE DEF m
    <2>6. ram' \in Memory
      BY <2>1, <2>5, SetFlagType
    <2>7. ticks_port' \in TicksPortType
      BY <1>4, <2>1, <2>4, CallEndType
    <2>8. StepType
      BY <1>1, <2>1, <2>2, GotoType
    <2> QED
      BY <1>4, <1>20, <2>6, <2>7, <2>8 DEF Return, RestType
  <1>21. CASE Branch
    <2>1. Relative(Insn.k) \in Nat
      BY <1>2, RelativeType DEF WellFormed, InsnType
    <2> QED
      BY <1>1, <1>4, <1>5, <1>21, <2>1, GotoType DEF Branch, RestType, Executing
  <1>22. CASE Skip
    <2>1. Insn.k \in {1, 2}
      BY <1>2, <1>22 DEF WellFormed, Skip, Executing, Id
    <2>2. NextPc + Insn.k \in Nat
      BY <1>3, <2>1
    <2>3. StepType
      BY <1>1, <1>5, <1>22, <2>1, <2>2, GotoType DEF Skip, Executing
    <2> QED
      BY <1>4, <1>22, <2>3 DEF Skip, RestType
  <1>23. CASE SysTicks
    <2>1. Cycles \in Nat /\ n_insns \in Nat
      BY <1>3, <1>4, Constants DEF Count
    <2>2. ticks_port' \in TicksPortType
      BY <1>4, <1>23, <2>1, ResetType, ArmCallType, ReadType DEF SysTicks
    <2> QED
      BY <1>4, <1>5, <1>23, <2>2 DEF SysTicks, RestType, Executing
  <1>24. CASE SysAbort2ndHit
    BY <1>4, <1>5, <1>6, <1>24 DEF SysAbort2ndHit, RestType, Executing, Statuses
  <1>25. CASE SysExit
    BY <1>4, <1>6, <1>25, CoreAssumption DEF SysExit, RestType, Statuses
  <1> QED
    BY <1>9, <1>10, <1>11, <1>12, <1>13, <1>14, <1>15, <1>16, <1>17, <1>18,
       <1>19, <1>20, <1>21, <1>22, <1>23, <1>24, <1>25 DEF Step

(* Whatever program runs, do_step keeps every byte a byte, the counters in  *)
(* their width and the program counter of a running program in bounds.      *)
THEOREM TypeCorrect == Spec => []TypeOK
PROOF
  <1>1. TypeOK /\ [Next]_vars => TypeOK'
    <2> SUFFICES ASSUME TypeOK, [Next]_vars PROVE TypeOK'
      OBVIOUS
    <2>1. CASE Step
      <3>1. image \in Images
        BY DEF TypeOK
      <3> QED
        BY <2>1, <3>1, StepKeepsType, StepIsTyped
    <2>2. CASE UNCHANGED vars
      BY <2>2 DEF vars, TypeOK
    <2> QED
      BY <2>1, <2>2 DEF Next, Exited
  <1> QED
    BY <1>1, InitType, PTL DEF Spec

(* Whatever is counted as executed was decoded from the program's code.     *)
THEOREM OnlyDecodedCode == Spec => OnlyDecodedCodeRuns
PROOF
  <1>1. TypeOK /\ [Next]_vars => [n_insns' # n_insns => pc \in Code]_vars
    <2> SUFFICES ASSUME TypeOK, Step, n_insns' # n_insns PROVE pc \in Code
      BY DEF Next, Exited, vars
    <2>1. status = "RUNNING" /\ NextPc <= MaxPc /\ Id \notin {"BAD_PC", "ILLEGAL"}
      <3>1. ASSUME NEW s, NEW p, NEW c PROVE ~Leave(s, p, c)
        BY DEF Leave
      <3>2. PICK ids : Executing(ids) /\ "BAD_PC" \notin ids /\ "ILLEGAL" \notin ids
        BY <3>1 DEF Step, FetchOutOfBounds, BadPc, Illegal, Plain, AluOp, Store,
           Push, Pop, Jump, Rjmp, DirectCall, IndirectCall, Return, Branch, Skip,
           SysTicks, SysAbort2ndHit, SysExit, SysAbort, SysOther
      <3> QED
        BY <3>2 DEF Executing
    <2>2. pc \in 0 .. FlashWords /\ image \in Images
      BY <2>1, FetchInFlash
    <2>3. pc # FlashWords
      <3>1. Words(Id) \in {1, 2}
        BY <2>1 DEF Words
      <3>2. NextPc > pc
        BY <2>2, <3>1, Constants DEF NextPc
      <3> QED
        BY <2>1, <2>2, <3>2, Constants, FetchType
    <2>4. pc \in 0 .. FlashWords - 1
      BY <2>2, <2>3, Constants
    <2> QED
      BY <2>1, <2>2, <2>4, ProgramsAssumption DEF Id, Insn
  <1> QED
    BY <1>1, TypeCorrect, PTL DEF Spec, OnlyDecodedCodeRuns

-----------------------------------------------------------------------------
(* Calls, returns and measurements                                         *)

(* A call that is outstanding lies in data memory, and the stack pointer    *)
(* has not risen into it.                                                  *)
OnStack(f) == f.sp < Top /\ ReadSP(ram) <= f.sp - PcBytes

(* The frames of a running program differ in `born', and a measurement      *)
(* waits for the return of the call it was started by.                     *)
MeasuredFrames ==
  /\ \A f \in frames : f.born < executed
  /\ ticks_port.call.state = 2 => meas.born < executed
  /\ \A f \in frames :
       ticks_port.call.state = 2 /\ f.born = meas.born =>
         f.ret = ticks_port.call.pc_ret /\ f.sp = ticks_port.call.sp_ret

(* The inductive invariant: OnStack is why no push can reach a frame, and   *)
(* MeasuredFrames relates the port to the frame of the measured call.       *)
HInv ==
  /\ HTypeOK
  /\ \A f \in frames : OnStack(f)
  /\ FramesIntact
  /\ status = "RUNNING" => MeasuredFrames

-----------------------------------------------------------------------------
(* Memory                                                                  *)

(* What is written to SP is read from SP.                                   *)
LEMMA SPRoundTrip ==
  ASSUME NEW m \in Memory, NEW sp \in 0 .. Top - 1
  PROVE  ReadSP(WriteSP(m, sp)) = sp
PROOF
  <1>1. sp \in Nat /\ sp < Byte * Byte /\ Byte \in Nat \ {0}
    BY Constants DEF Top
  <1>2. sp % (Byte * Byte) = ((sp \div Byte) % Byte) * Byte + (sp % Byte)
    BY <1>1, TwoBytes
  <1>3. sp % (Byte * Byte) = sp
    BY <1>1, Constants DEF Top
  <1> DEFINE h == (sp \div Byte) % Byte
             l == sp % Byte
  <1>4. WriteSP(m, sp)[SPL] = l /\ WriteSP(m, sp)[SPH] = h
    BY Constants DEF WriteSP, Memory
  <1>5. h \in Int /\ l \in Int
    BY <1>1, DivMod, Remainder
  <1>8. sp = h * Byte + l
    BY <1>2, <1>3
  <1> HIDE DEF h, l
  <1>6. ReadSP(WriteSP(m, sp)) = l + Byte * h
    BY <1>4 DEF ReadSP
  <1>7. Byte * h = h * Byte
    BY <1>1, <1>5
  <1> QED
    BY <1>1, <1>5, <1>6, <1>7, <1>8

(* Writing SP changes nothing else.                                         *)
LEMMA WriteSPElsewhere ==
  ASSUME NEW m \in Memory, NEW sp, NEW a \in 0 .. Top - 1, a # SPL, a # SPH
  PROVE  WriteSP(m, sp)[a] = m[a]
  BY DEF WriteSP, Memory

LEMMA PushByteElsewhere ==
  ASSUME NEW m \in Memory, NEW b \in Bytes, NEW a \in 0 .. Top - 1,
         a > SREG, a > ReadSP(m)
  PROVE  PushByte(m, b)[a] = m[a]
PROOF
  <1> DEFINE m1 == [m EXCEPT ![ReadSP(m)] = b]
  <1>1. m1 \in Memory /\ m1[a] = m[a]
    BY ReadSPType DEF Memory
  <1>2. a # SPL /\ a # SPH
    BY Constants
  <1> HIDE DEF m1
  <1>3. WriteSP(m1, ReadSP(m) - 1)[a] = m1[a]
    BY <1>1, <1>2, WriteSPElsewhere
  <1> QED
    BY <1>1, <1>3 DEF PushByte, m1

(* push_PC moves SP, writes the return address below the old SP and         *)
(* nothing else above SREG.                                                *)
LEMMA PushPCEffect ==
  ASSUME NEW m \in Memory, NEW p \in Nat, ReadSP(m) >= Guard
  PROVE  LET sp == ReadSP(m)
             n  == PushPC(m, p)
         IN  /\ ReadSP(n) = sp - PcBytes
             /\ sp - PcBytes >= SREG => /\ n[sp] = Lo(p)
                                        /\ n[sp - 1] = Hi(p)
                                        /\ Pc3Bytes => n[sp - 2] = Ext(p)
             /\ \A a \in 0 .. Top - 1 : a > SREG /\ a > sp => n[a] = m[a]
PROOF
  <1> DEFINE sp == ReadSP(m)
             m2 == [m EXCEPT ![sp] = Lo(p), ![sp - 1] = Hi(p)]
             m3 == IF Pc3Bytes THEN [m2 EXCEPT ![sp - 2] = Ext(p)] ELSE m2
  <1>1. sp \in 0 .. Top - 1 /\ sp >= 3 /\ Top \in Nat
    BY ReadSPType, Constants
  <1>2. sp - PcBytes \in 0 .. Top - 1 /\ PcBytes \in {2, 3} /\ (Pc3Bytes <=> PcBytes = 3)
    BY <1>1 DEF PcBytes
  <1>3. Lo(p) \in Bytes /\ Hi(p) \in Bytes /\ Ext(p) \in Bytes
    BY Constants, Remainder DEF Lo, Hi, Ext, Bytes, Top
  <1> HIDE DEF sp
  <1>4. m2 \in Memory /\ m2[sp] = Lo(p) /\ m2[sp - 1] = Hi(p)
        /\ \A a \in 0 .. Top - 1 : a > sp => m2[a] = m[a]
    BY <1>1, <1>3 DEF Memory
  <1> HIDE DEF m2
  <1>5. /\ m3 \in Memory /\ m3[sp] = Lo(p) /\ m3[sp - 1] = Hi(p)
        /\ Pc3Bytes => m3[sp - 2] = Ext(p)
        /\ \A a \in 0 .. Top - 1 : a > sp => m3[a] = m[a]
    BY <1>1, <1>3, <1>4 DEF Memory
  <1>6. PushPC(m, p) = WriteSP(m3, sp - PcBytes)
    BY DEF PushPC, m2, sp
  <1> HIDE DEF m3
  <1>7. ReadSP(PushPC(m, p)) = sp - PcBytes
    BY <1>2, <1>5, <1>6, SPRoundTrip
  <1>8. \A a \in 0 .. Top - 1 : a > SREG => PushPC(m, p)[a] = m3[a]
    BY <1>5, <1>6, WriteSPElsewhere, Constants
  <1>9. sp - PcBytes >= SREG => /\ PushPC(m, p)[sp] = Lo(p)
                                /\ PushPC(m, p)[sp - 1] = Hi(p)
                                /\ Pc3Bytes => PushPC(m, p)[sp - 2] = Ext(p)
    <2> SUFFICES ASSUME sp - PcBytes >= SREG
                 PROVE  /\ PushPC(m, p)[sp] = m3[sp]
                        /\ PushPC(m, p)[sp - 1] = m3[sp - 1]
                        /\ Pc3Bytes => PushPC(m, p)[sp - 2] = m3[sp - 2]
      BY <1>5
    <2> QED
      BY <1>1, <1>2, <1>8, Constants
  <1> QED
    BY <1>5, <1>7, <1>8, <1>9 DEF sp

(* pop_PC finds what push_PC has written.                                   *)
LEMMA PopPCDecodes ==
  ASSUME NEW m \in Memory, NEW sp \in 0 .. Top - 1, NEW ret \in Nat,
         ReadSP(m) = sp - PcBytes, sp - PcBytes >= SREG,
         m[sp] = Lo(ret), m[sp - 1] = Hi(ret),
         Pc3Bytes => m[sp - 2] = Ext(ret),
         NEW p \in PopPC(m)
  PROVE  p = ret % PcLimit
PROOF
  <1> DEFINE s == ReadSP(m)
             a == s + (IF Pc3Bytes THEN 1 ELSE 0)
             E == IF Pc3Bytes THEN MayRead(m, s + 1) ELSE {0}
  <1>0. PICK x \in E, y \in MayRead(m, a + 1), z \in MayRead(m, a + 2) :
           p = (x * Byte + y) * Byte + z
    BY DEF PopPC
  <1>1. SREG \in Nat /\ SREG >= NRegs /\ NRegs \in Nat /\ Byte \in Nat \ {0}
    BY Constants, CoreAssumption
  <1>2. \A c \in 0 .. Top - 1 : c > SREG => MayRead(m, c) = {m[c]}
    BY <1>1, Constants DEF MayRead
  <1>3. CASE Pc3Bytes
    <2>1. s = sp - 3
      BY <1>3 DEF PcBytes
    <2>2. s + 1 \in 0 .. Top - 1 /\ s + 1 > SREG /\ s + 2 \in 0 .. Top - 1
          /\ s + 2 > SREG /\ s + 3 \in 0 .. Top - 1 /\ s + 3 > SREG
      BY <1>1, <1>3, <2>1, Constants DEF PcBytes
    <2>3. E = MayRead(m, s + 1) /\ a = s + 1
      BY <1>3
    <2>4. a + 1 = s + 2 /\ a + 2 = s + 3
      BY <2>1, <2>3
    <2>5. x = m[sp - 2] /\ y = m[sp - 1] /\ z = m[sp]
      <3>1. MayRead(m, s + 1) = {m[s + 1]} /\ MayRead(m, s + 2) = {m[s + 2]}
            /\ MayRead(m, s + 3) = {m[s + 3]}
        BY <1>2, <2>2
      <3>2. x = m[s + 1] /\ y = m[s + 2] /\ z = m[s + 3]
        BY <1>0, <2>3, <2>4, <3>1, Zenon
      <3>3. s + 1 = sp - 2 /\ s + 2 = sp - 1 /\ s + 3 = sp
        BY <2>1
      <3> QED
        BY <3>2, <3>3
    <2>6. p = (Ext(ret) * Byte + Hi(ret)) * Byte + Lo(ret)
      BY <1>0, <1>3, <2>5
    <2> QED
      BY <1>1, <1>3, <2>6, ThreeBytes DEF PcLimit, Top, Lo, Hi, Ext
  <1>4. CASE ~Pc3Bytes
    <2>1. s = sp - 2
      BY <1>4 DEF PcBytes
    <2>2. s + 1 \in 0 .. Top - 1 /\ s + 1 > SREG /\ s + 2 \in 0 .. Top - 1
          /\ s + 2 > SREG
      BY <1>1, <1>4, <2>1, Constants DEF PcBytes
    <2>3. x = 0 /\ a = s
      <3>1. E = {0} /\ a = s
        BY <1>4, <2>1
      <3> QED
        BY <1>0, <3>1, Zenon
    <2>4. y = m[sp - 1] /\ z = m[sp]
      <3>1. MayRead(m, s + 1) = {m[s + 1]} /\ MayRead(m, s + 2) = {m[s + 2]}
        BY <1>2, <2>2
      <3>2. y = m[s + 1] /\ z = m[s + 2]
        BY <1>0, <2>3, <3>1, Zenon
      <3>3. s + 1 = sp - 1 /\ s + 2 = sp
        BY <2>1
      <3> QED
        BY <3>2, <3>3
    <2>6. Hi(ret) \in Int
      BY <1>1, DivMod, Remainder DEF Hi
    <2>7. p = Hi(ret) * Byte + Lo(ret)
      BY <1>0, <1>1, <2>3, <2>4, <2>6
    <2> QED
      BY <1>1, <1>4, <2>7, TwoBytes DEF PcLimit, Top, Lo, Hi
  <1> QED
    BY <1>3, <1>4

-----------------------------------------------------------------------------
(* Steps                                                                   *)

LEMMA StepRuns ==
  ASSUME Step
  PROVE  status = "RUNNING"
  BY DEF Step, FetchOutOfBounds, BadPc, Illegal, Plain, AluOp, Store, Push,
       Pop, Jump, Rjmp, DirectCall, IndirectCall, Return, Branch, Skip, SysTicks,
       SysAbort2ndHit, SysExit, SysAbort, SysOther, Executing

(* A step that executes a call or a return is the action of that name.      *)
LEMMA NoFetchError ==
  ASSUME TypeOK, NEW ids, Executing(ids)
  PROVE  ~FetchOutOfBounds
  BY FetchType, Constants DEF Executing, FetchOutOfBounds

LEMMA CallAction ==
  ASSUME TypeOK, Step, Executing(Calls)
  PROVE  DirectCall \/ IndirectCall
PROOF
  <1>1. ~FetchOutOfBounds /\ Id \in Calls
    BY NoFetchError DEF Executing
  <1>2. \A ids : Executing(ids) => Id \in ids
    BY DEF Executing
  <1> QED
    BY <1>1, <1>2
    DEF Calls, Step, BadPc, Illegal, Plain, AluOp, Store, Push, Pop, Jump, Rjmp,
        Return, Branch, Skip, SysTicks, SysAbort2ndHit, SysExit, SysAbort, SysOther

LEMMA ReturnAction ==
  ASSUME TypeOK, Step, Executing(Returns)
  PROVE  Return
PROOF
  <1>1. ~FetchOutOfBounds /\ Id \in Returns
    BY NoFetchError DEF Executing
  <1>2. \A ids : Executing(ids) => Id \in ids
    BY DEF Executing
  <1> QED
    BY <1>1, <1>2
    DEF Returns, Step, BadPc, Illegal, Plain, AluOp, Store, Push, Pop, Jump, Rjmp,
        DirectCall, IndirectCall, Branch, Skip, SysTicks, SysAbort2ndHit, SysExit,
        SysAbort, SysOther

LEMMA PushesPC ==
  ASSUME TypeOK, Step, Pushes
  PROVE  ram' = PushPC(ram, NextPc)
PROOF
  <1>1. ~StackOverflow /\ (DirectCall \/ IndirectCall) /\ (Id = "EICALL" => HasEind)
    BY CallAction DEF Pushes
  <1>2. ASSUME NEW t, NEW e, CallTo(t, e) PROVE ram' = PushPC(ram, NextPc)
    BY <1>1, <1>2 DEF CallTo
  <1> QED
    BY <1>1, <1>2 DEF DirectCall, IndirectCall, Executing

(* No instruction reaches into the return address of a call that stays      *)
(* outstanding.                                                            *)
LEMMA KeepsCells ==
  ASSUME HInv, Step, NEW f \in frames, AboveSfr(f), Live(f), NEW a \in Cells(f)
  PROVE  ram'[a] = ram[a]
PROOF
  <1>1. ram \in Memory /\ f \in FrameType /\ OnStack(f) /\ WellFormed(Insn)
    BY StepRuns, FetchInFlash DEF HInv, HTypeOK, TypeOK, Memory
  <1>2. a \in 0 .. Top - 1 /\ a > SREG /\ a > ReadSP(ram)
        /\ a # SPL /\ a # SPH /\ a # SREG
    BY <1>1, ReadSPType, Constants
    DEF AboveSfr, Cells, OnStack, FrameType, PcBytes
  <1>3. ASSUME NEW m \in Memory, NEW sp PROVE WriteSP(m, sp)[a] = m[a]
    BY <1>2, WriteSPElsewhere
  <1>4. CASE ram' = ram
    BY <1>4
  <1>5. CASE AluOp
    BY <1>1, <1>2, <1>5 DEF AluOp, Memory
  <1>6. CASE Store
    <2>1. a # Insn.k
      BY <1>6 DEF Store, Executing, Live, Stores
    <2> QED
      BY <1>1, <1>2, <1>6, <2>1 DEF Store, Memory
  <1>7. CASE Push
    <2>1. CASE ~StackOverflow
      <3>1. PICK b \in Insn.v : ram' = PushByte(ram, b)
        BY <1>7, <2>1 DEF Push
      <3>2. b \in Bytes
        BY <1>1, <1>7 DEF WellFormed, Push, Executing, Id
      <3> QED
        BY <1>1, <1>2, <3>1, <3>2, PushByteElsewhere
    <2> QED
      BY <1>4, <1>7, <2>1 DEF Push
  <1>8. CASE Pop
    BY <1>1, <1>3, <1>8 DEF Pop
  <1>9. CASE DirectCall \/ IndirectCall
    <2>1. CASE StackOverflow \/ (Id = "EICALL" /\ ~HasEind)
      BY <1>4, <1>9, <2>1 DEF DirectCall, IndirectCall, CallTo, Executing
    <2>2. CASE ~StackOverflow /\ ~(Id = "EICALL" /\ ~HasEind)
      <3>1. Pushes
        BY <1>9, <2>2 DEF DirectCall, IndirectCall, Pushes, Calls, Executing
      <3>2. ReadSP(ram) >= Guard
        BY <1>1, <2>2, ReadSPType, Constants DEF StackOverflow
      <3>3. NextPc \in Nat
        BY FetchType DEF HInv, HTypeOK
      <3> QED
        BY <1>1, <1>2, <3>1, <3>2, <3>3, PushesPC, PushPCEffect DEF HInv, HTypeOK
    <2> QED
      BY <2>1, <2>2
  <1>10. CASE Return
    <2> DEFINE m == WriteSP(ram, (ReadSP(ram) + PcBytes) % Top)
    <2>1. ram' = m \/ ram' = SetFlag(m, FlagI)
      BY <1>10 DEF Return
    <2>2. m[a] = ram[a]
      BY <1>1, <1>3
    <2>3. m \in Memory
      <3>1. ReadSP(ram) + PcBytes \in Int /\ Top \in Nat \ {0}
        BY <1>1, ReadSPType, Constants DEF PcBytes
      <3>2. (ReadSP(ram) + PcBytes) % Top \in Int
        BY <3>1, Remainder
      <3> QED
        BY <1>1, <3>2, WriteSPType
    <2> HIDE DEF m
    <2>4. SetFlag(m, FlagI)[a] = m[a]
      BY <1>2, <2>3 DEF SetFlag, Memory
    <2> QED
      BY <2>1, <2>2, <2>4
  <1> QED
    BY <1>4, <1>5, <1>6, <1>7, <1>8, <1>9, <1>10
    DEF Step, FetchOutOfBounds, BadPc, Illegal, Plain, Jump, Rjmp, Branch, Skip,
        SysTicks, SysAbort2ndHit, SysExit, SysAbort, SysOther

(* What a step can do to a measurement: only CALL and RCALL start one, and  *)
(* nothing but its start changes what it waits for.                        *)
LEMMA MeasurementStarts ==
  ASSUME HTypeOK, Step, ticks_port'.call.state = 2
  PROVE  \/ /\ ticks_port.call.state = 2
            /\ ticks_port'.call.pc_ret = ticks_port.call.pc_ret
            /\ ticks_port'.call.sp_ret = ticks_port.call.sp_ret
            /\ ticks_port'.call.before = ticks_port.call.before
         \/ /\ ticks_port.call.state = 1
            /\ DirectCall
            /\ ticks_port'.call.pc_ret = NextPc
            /\ ticks_port'.call.sp_ret = ReadSP(ram)
            /\ ticks_port'.call.before = Cycles
PROOF
  <1>1. ticks_port \in TicksPortType
    BY DEF HTypeOK, TypeOK
  <1>2. CASE ticks_port' = ticks_port
    BY <1>2
  <1>3. CASE DirectCall
    <2>1. CASE ticks_port.call.state = 1
      BY <1>1, <1>3, <2>1 DEF DirectCall, CallStart, TicksPortType, CallType
    <2> QED
      BY <1>2, <1>3, <2>1 DEF DirectCall, CallStart
  <1>4. ASSUME NEW p, NEW sp, NEW c, ticks_port' = CallEnd(ticks_port, p, sp, c)
        PROVE  ticks_port' = ticks_port
    BY <1>1, <1>4 DEF CallEnd, TicksPortType, CallType
  <1>5. CASE Return
    BY <1>2, <1>4, <1>5 DEF Return
  <1>6. CASE SysTicks
    <2>1. ticks_port' # ArmCall(ticks_port)
      BY <1>1 DEF ArmCall, TicksPortType, CallType
    <2>2. ASSUME NEW w, ticks_port' = Read(ticks_port, w)
          PROVE  ticks_port' = ticks_port
      BY <1>1, <2>2 DEF Read, TicksPortType, CallType
    <2>3. ASSUME NEW w, NEW c, NEW i, ticks_port' = Reset(ticks_port, w, c, i)
          PROVE  ticks_port'.call = ticks_port.call
      BY <1>1, <2>3 DEF Reset, TicksPortType, CallType
    <2> QED
      BY <1>6, <2>1, <2>2, <2>3 DEF SysTicks
  <1> QED
    BY <1>2, <1>3, <1>5, <1>6
    DEF Step, FetchOutOfBounds, BadPc, Illegal, Plain, AluOp, Store, Push, Pop,
        Jump, Rjmp, IndirectCall, Branch, Skip, SysAbort2ndHit, SysExit, SysAbort,
        SysOther

(* Only a return ends one, and only at its place and stack pointer; the     *)
(* cycles of the return are part of what it leaves.                        *)
LEMMA MeasurementEnds ==
  ASSUME HTypeOK, Step, Ends
  PROVE  /\ Executing(Returns)
         /\ pc' = ticks_port.call.pc_ret /\ pc' <= MaxPc
         /\ (ReadSP(ram) + PcBytes) % Top = ticks_port.call.sp_ret
         /\ ticks_port'.call.n_cycles = (n_cycles' - ticks_port.call.before) % Mod32
PROOF
  <1>1. ticks_port \in TicksPortType /\ ticks_port' # ticks_port
    BY DEF HTypeOK, TypeOK, Ends
  <1>2. ~DirectCall
    BY <1>1 DEF DirectCall, CallStart, Ends
  <1>3. ~SysTicks
    <2>1. ticks_port' # ArmCall(ticks_port)
      BY <1>1 DEF ArmCall, Ends, TicksPortType, CallType
    <2>2. \A w : ticks_port' # Read(ticks_port, w)
      BY <1>1 DEF Read, Ends
    <2>3. ASSUME NEW w, NEW c, NEW i, ticks_port' = Reset(ticks_port, w, c, i)
          PROVE  FALSE
      BY <1>1, <2>3 DEF Reset, Ends, TicksPortType, CallType
    <2> QED
      BY <1>1, <2>1, <2>2, <2>3 DEF SysTicks
  <1>4. Return
    BY <1>1, <1>2, <1>3
    DEF Step, FetchOutOfBounds, BadPc, Illegal, Plain, AluOp, Store, Push, Pop,
        Jump, Rjmp, IndirectCall, Branch, Skip, SysAbort2ndHit, SysExit, SysAbort,
        SysOther
  <1> DEFINE sp    == (ReadSP(ram) + PcBytes) % Top
             extra == IF IsTiny THEN 2 ELSE Pc3
  <1>5. PICK p \in PopPC(ram) :
          /\ Goto(p, extra)
          /\ ticks_port' = IF p > MaxPc THEN ticks_port
                           ELSE CallEnd(ticks_port, p, sp, Add64(Cycles, extra))
    BY <1>4, Zenon DEF Return
  <1> HIDE DEF sp, extra
  <1>6. p <= MaxPc /\ p = ticks_port.call.pc_ret /\ sp = ticks_port.call.sp_ret
    <2>1. ~(p > MaxPc)
      BY <1>1, <1>5
    <2>2. p \in Nat /\ MaxPc \in Nat
      BY PopPCType, Constants DEF HTypeOK, TypeOK, Memory
    <2> QED
      BY <1>1, <1>5, <2>1, <2>2 DEF CallEnd
  <1>7. pc' = p
    BY <1>5 DEF Goto, Leave, Retire
  <1>8. ticks_port'.call.n_cycles = (n_cycles' - ticks_port.call.before) % Mod32
    <2>1. p \in Nat /\ MaxPc \in Nat
      BY PopPCType, Constants DEF HTypeOK, TypeOK, Memory
    <2>2. ~(p > MaxPc)
      BY <1>6, <2>1
    <2>3. n_cycles' = Add64(Cycles, extra)
      BY <1>5, <2>2 DEF Goto, Retire
    <2> QED
      BY <1>1, <1>5, <1>6, <2>2, <2>3 DEF CallEnd, Ends, TicksPortType, CallType
  <1> QED
    BY <1>4, <1>6, <1>7, <1>8 DEF Return, Returns, Executing, sp

-----------------------------------------------------------------------------
(* The invariant                                                           *)

LEMMA HInitInv == HInit => HInv
PROOF
  <1> SUFFICES ASSUME HInit PROVE HInv
    OBVIOUS
  <1>1. TypeOK
    BY InitType DEF HInit
  <1>2. frames = {} /\ executed = 0 /\ meas = [born |-> 0, cycles |-> 0]
        /\ ticks_port.call.state = 0
    BY DEF HInit, Init, InitTicksPort
  <1> QED
    BY <1>1, <1>2 DEF HInv, HTypeOK, FramesIntact, MeasuredFrames

LEMMA HTypeStep ==
  ASSUME HInv, HStep
  PROVE  HTypeOK'
PROOF
  <1>1. TypeOK'
    BY StepKeepsType, StepIsTyped DEF HStep, HInv, HTypeOK, TypeOK
  <1>2. NextPc \in Nat /\ ReadSP(ram) \in Nat /\ executed \in Nat /\ n_cycles \in Nat
    BY FetchType, ReadSPType, Constants DEF HInv, HTypeOK, TypeOK, Memory
  <1>3. frames' \in SUBSET FrameType
    BY <1>2 DEF HInv, HTypeOK, HStep, NextFrames, FrameType
  <1>4. meas' \in [born : Nat, cycles : Nat]
    BY <1>2 DEF HInv, HTypeOK, HStep, NextMeas
  <1> QED
    BY <1>1, <1>2, <1>3, <1>4 DEF HTypeOK, HStep

(* The frame that a call adds.                                              *)
NewFrame == [ret |-> NextPc, sp |-> ReadSP(ram), born |-> executed]

LEMMA FramesAfter ==
  ASSUME HStep, NEW f \in frames'
  PROVE  (f \in frames /\ Live(f)) \/ (Pushes /\ f = NewFrame)
  BY DEF HStep, NextFrames, NewFrame

LEMMA NewFrameIntact ==
  ASSUME HInv, Step, Pushes
  PROVE  /\ NewFrame.sp < Top /\ ReadSP(ram') = NewFrame.sp - PcBytes
         /\ AboveSfr(NewFrame) =>
              /\ ram'[NewFrame.sp] = Lo(NewFrame.ret)
              /\ ram'[NewFrame.sp - 1] = Hi(NewFrame.ret)
              /\ Pc3Bytes => ram'[NewFrame.sp - 2] = Ext(NewFrame.ret)
PROOF
  <1>1. ram \in Memory /\ NextPc \in Nat /\ TypeOK
    BY FetchType DEF HInv, HTypeOK, TypeOK, Memory
  <1>2. ReadSP(ram) \in 0 .. Top - 1 /\ ReadSP(ram) >= Guard
    BY <1>1, ReadSPType, Constants DEF Pushes, StackOverflow
  <1>3. ram' = PushPC(ram, NextPc)
    BY <1>1, PushesPC
  <1>4. NewFrame.sp = ReadSP(ram) /\ NewFrame.ret = NextPc
    BY DEF NewFrame
  <1>5. NewFrame.sp < Top
    BY <1>2, <1>4, Constants
  <1> QED
    BY <1>1, <1>2, <1>3, <1>4, <1>5, PushPCEffect DEF AboveSfr

LEMMA OnStackStep ==
  ASSUME HInv, HStep, NEW f \in frames'
  PROVE  OnStack(f)'
PROOF
  <1>1. CASE f \in frames /\ Live(f)
    BY <1>1 DEF HInv, OnStack, Live, Top, PcBytes
  <1>2. CASE Pushes /\ f = NewFrame
    <2>1. ReadSP(ram') \in 0 .. Top - 1 /\ NewFrame.sp < Top
          /\ ReadSP(ram') = NewFrame.sp - PcBytes
      BY <1>2, HTypeStep, ReadSPType, NewFrameIntact
      DEF HTypeOK, TypeOK, Memory, HStep, Top, Bytes
    <2> QED
      BY <1>2, <2>1, Constants DEF OnStack, Top, PcBytes
  <1> QED
    BY <1>1, <1>2, FramesAfter

LEMMA FramesIntactStep ==
  ASSUME HInv, HStep
  PROVE  FramesIntact'
PROOF
  <1> SUFFICES ASSUME NEW f \in frames', AboveSfr(f)
               PROVE  /\ ram'[f.sp] = Lo(f.ret)
                      /\ ram'[f.sp - 1] = Hi(f.ret)
                      /\ Pc3Bytes => ram'[f.sp - 2] = Ext(f.ret)
    BY DEF FramesIntact, AboveSfr, Lo, Hi, Ext, SREG, PcBytes
  <1>1. CASE f \in frames /\ Live(f)
    <2>1. f.sp \in Cells(f) /\ f.sp - 1 \in Cells(f)
          /\ (Pc3Bytes => f.sp - 2 \in Cells(f))
      BY <1>1 DEF HInv, HTypeOK, FrameType, Cells, PcBytes
    <2>2. \A a \in Cells(f) : ram'[a] = ram[a]
      BY <1>1, KeepsCells DEF HStep
    <2> QED
      BY <1>1, <2>1, <2>2 DEF HInv, FramesIntact
  <1>2. CASE Pushes /\ f = NewFrame
    BY <1>2, NewFrameIntact DEF HStep
  <1> QED
    BY <1>1, <1>2, FramesAfter

LEMMA MeasuredStep ==
  ASSUME HInv, HStep, status' = "RUNNING"
  PROVE  MeasuredFrames'
PROOF
  <1>1. MeasuredFrames /\ HTypeOK /\ Step
    BY StepRuns DEF HInv, HStep
  <1>2. executed \in Nat /\ executed' = executed + 1
    BY <1>1 DEF HTypeOK, HStep, RanToEnd
  <1>3. \A f \in frames : f \in FrameType /\ f.born \in Nat /\ f.born < executed
    BY <1>1 DEF HTypeOK, MeasuredFrames, FrameType
  <1>4. meas.born \in Nat /\ NewFrame.born = executed /\ NewFrame.ret = NextPc
        /\ NewFrame.sp = ReadSP(ram)
    BY <1>1 DEF HTypeOK, NewFrame
  <1>5. \A f \in frames' : f.born < executed'
    BY <1>2, <1>3, <1>4, FramesAfter
  <1>6. CASE ticks_port'.call.state # 2
    BY <1>5, <1>6 DEF MeasuredFrames
  <1>7. CASE /\ ticks_port'.call.state = 2
             /\ ticks_port.call.state = 2
             /\ ticks_port'.call.pc_ret = ticks_port.call.pc_ret
             /\ ticks_port'.call.sp_ret = ticks_port.call.sp_ret
    <2>1. meas' = meas /\ meas.born < executed
      BY <1>1, <1>7 DEF HStep, NextMeas, Starts, MeasuredFrames
    <2>2. ASSUME NEW f \in frames', f.born = meas.born
          PROVE  f.ret = ticks_port.call.pc_ret /\ f.sp = ticks_port.call.sp_ret
      <3>1. f \in frames
        BY <1>2, <1>4, <2>1, <2>2, FramesAfter
      <3> QED
        BY <1>1, <1>7, <2>2, <3>1 DEF MeasuredFrames
    <2> QED
      BY <1>2, <1>4, <1>5, <1>7, <2>1, <2>2 DEF MeasuredFrames
  <1>8. CASE /\ ticks_port'.call.state = 2
             /\ ticks_port.call.state = 1
             /\ ticks_port'.call.pc_ret = NextPc
             /\ ticks_port'.call.sp_ret = ReadSP(ram)
    <2>1. meas'.born = executed
      BY <1>8 DEF HStep, NextMeas, Starts
    <2>2. ASSUME NEW f \in frames', f.born = meas'.born
          PROVE  f.ret = NextPc /\ f.sp = ReadSP(ram)
      BY <1>2, <1>3, <1>4, <2>1, <2>2, FramesAfter
    <2> QED
      BY <1>2, <1>5, <1>8, <2>1, <2>2 DEF MeasuredFrames
  <1> QED
    BY <1>1, <1>6, <1>7, <1>8, MeasurementStarts

LEMMA HNextInv == HInv /\ [HNext]_hvars => HInv'
PROOF
  <1> SUFFICES ASSUME HInv, [HNext]_hvars PROVE HInv'
    OBVIOUS
  <1>1. CASE HStep
    BY <1>1, HTypeStep, OnStackStep, FramesIntactStep, MeasuredStep DEF HInv
  <1>2. CASE UNCHANGED hvars
    BY <1>2 DEF hvars, vars, history, HInv, HTypeOK, TypeOK, OnStack, ReadSP,
                FramesIntact, AboveSfr, MeasuredFrames
  <1> QED
    BY <1>1, <1>2 DEF HNext, Exited, hvars

THEOREM HInvariant == HSpec => []HInv
  BY HInitInv, HNextInv, PTL DEF HSpec

-----------------------------------------------------------------------------
(* The properties                                                          *)

(* Return addresses survive on the stack whatever the program does between  *)
(* a call and its return, short of storing into them.                      *)
THEOREM FramesStayIntact == HSpec => []FramesIntact
PROOF
  <1>1. HInv => FramesIntact
    BY DEF HInv
  <1> QED
    BY <1>1, HInvariant, PTL

(* A return with SP where the call left it.                                 *)
LEMMA ReturnGoes ==
  ASSUME HInv, Step, NEW f \in frames, AboveSfr(f), ReturnsFrom(f)
  PROVE  /\ pc' = f.ret % PcLimit
         /\ pc' <= MaxPc /\ ticks_port.call.state = 2
            /\ ticks_port.call.pc_ret = pc' /\ ticks_port.call.sp_ret = f.sp => Ends
PROOF
  <1>1. ram \in Memory /\ TypeOK /\ f \in FrameType /\ OnStack(f)
    BY DEF HInv, HTypeOK, TypeOK, Memory
  <1>2. Return
    BY <1>1, ReturnAction DEF ReturnsFrom
  <1> DEFINE sp    == (ReadSP(ram) + PcBytes) % Top
             extra == IF IsTiny THEN 2 ELSE Pc3
  <1>3. PICK p \in PopPC(ram) :
          /\ Goto(p, extra)
          /\ ticks_port' = IF p > MaxPc THEN ticks_port
                           ELSE CallEnd(ticks_port, p, sp, Add64(Cycles, extra))
    BY <1>2, Zenon DEF Return
  <1> HIDE DEF extra
  <1>4. pc' = p
    BY <1>3 DEF Goto, Leave, Retire
  <1>5. f.sp \in 0 .. Top - 1 /\ f.ret \in Nat /\ ReadSP(ram) = f.sp - PcBytes
    BY <1>1, Constants DEF FrameType, OnStack, ReturnsFrom
  <1>6. p = f.ret % PcLimit
    <2>1. f.sp - PcBytes >= SREG
      BY DEF AboveSfr
    <2>2. ram[f.sp] = Lo(f.ret) /\ ram[f.sp - 1] = Hi(f.ret)
          /\ (Pc3Bytes => ram[f.sp - 2] = Ext(f.ret))
      BY DEF HInv, FramesIntact
    <2> QED
      BY <1>1, <1>3, <1>5, <2>1, <2>2, PopPCDecodes
  <1>7. sp = f.sp
    <2>1. ReadSP(ram) + PcBytes = f.sp
      BY <1>5 DEF PcBytes
    <2> QED
      BY <1>5, <2>1, Constants
  <1> HIDE DEF sp
  <1>8. ASSUME pc' <= MaxPc, ticks_port.call.state = 2,
               ticks_port.call.pc_ret = pc', ticks_port.call.sp_ret = f.sp
        PROVE  Ends
    <2>1. ~(p > MaxPc)
      BY <1>1, <1>3, <1>4, <1>8, PopPCType, Constants
    <2>2. ticks_port' = CallEnd(ticks_port, p, sp, Add64(Cycles, extra))
      BY <1>3, <2>1
    <2>3. ticks_port \in TicksPortType
      BY <1>1 DEF TypeOK
    <2> QED
      BY <1>4, <1>7, <1>8, <2>2, <2>3 DEF Ends, CallEnd, TicksPortType, CallType
  <1> QED
    BY <1>4, <1>6, <1>8

(* Every return from a call whose frame is on the stack goes back to the    *)
(* instruction after that call.                                            *)
THEOREM ReturnsReachCaller == HSpec => ReturnsToCaller
PROOF
  <1>1. HInv /\ [HNext]_hvars =>
          [\A f \in frames :
             AboveSfr(f) /\ ReturnsFrom(f) => pc' = f.ret % PcLimit]_hvars
    <2> SUFFICES ASSUME HInv, HNext, NEW f \in frames, AboveSfr(f), ReturnsFrom(f)
                 PROVE  pc' = f.ret % PcLimit
      OBVIOUS
    <2>1. Step
      BY DEF HNext, HStep, Exited, ReturnsFrom, Executing
    <2> QED
      BY <2>1, ReturnGoes
  <1> QED
    BY <1>1, HInvariant, PTL DEF HSpec, ReturnsToCaller

(* avrtest_cycles_call measures the call it was armed for.                  *)
THEOREM MeasuresOwnCall == HSpec => MeasurementIsOwnCall
PROOF
  <1>1. HInv /\ [HNext]_hvars =>
          [\A f \in frames : Measured(f) =>
             (Ends <=> ReturnsFrom(f) /\ pc' <= MaxPc)]_hvars
    <2> SUFFICES ASSUME HInv, HNext, NEW f \in frames, Measured(f)
                 PROVE  Ends <=> ReturnsFrom(f) /\ pc' <= MaxPc
      OBVIOUS
    <2>1. CASE Exited
      BY <2>1 DEF Exited, vars, Ends, ReturnsFrom, Executing
    <2>2. CASE Step
      <3>1. f.ret = ticks_port.call.pc_ret /\ f.sp = ticks_port.call.sp_ret
        BY <2>2, StepRuns DEF HInv, MeasuredFrames, Measured
      <3>2. f \in FrameType /\ OnStack(f) /\ ReadSP(ram) \in 0 .. Top - 1 /\ HTypeOK
        BY ReadSPType DEF HInv, HTypeOK, TypeOK, Memory
      <3>3. ASSUME Ends PROVE ReturnsFrom(f) /\ pc' <= MaxPc
        <4>1. Executing(Returns) /\ pc' <= MaxPc
              /\ (ReadSP(ram) + PcBytes) % Top = f.sp
          BY <2>2, <3>1, <3>2, <3>3, MeasurementEnds
        <4>2. ReadSP(ram) + PcBytes \in 0 .. Top - 1
          BY <3>2, Constants DEF OnStack, FrameType, PcBytes
        <4>3. ReadSP(ram) + PcBytes = f.sp
          BY <4>1, <4>2, Constants
        <4> QED
          BY <3>2, <4>1, <4>3 DEF ReturnsFrom, FrameType, PcBytes
      <3>4. ASSUME ReturnsFrom(f), pc' <= MaxPc PROVE Ends
        <4>1. pc' = f.ret % PcLimit
          BY <2>2, <3>4, ReturnGoes DEF Measured
        <4>2. f.ret % PcLimit = f.ret
          BY <3>2, Constants DEF Measured, FrameType, PcLimit
        <4> QED
          BY <2>2, <3>1, <3>4, <4>1, <4>2, ReturnGoes DEF Measured
      <3> QED
        BY <3>3, <3>4
    <2> QED
      BY <2>1, <2>2 DEF HNext, HStep
  <1> QED
    BY <1>1, HInvariant, PTL DEF HSpec, MeasurementIsOwnCall

(* The 64-bit count of cycles may wrap around, and the port keeps only the  *)
(* low 32 bits of a difference: what is left is the difference all the same.*)
LEMMA WrappedDifference ==
  ASSUME NEW b \in Nat \ {0}, NEW c \in Nat \ {0},
         NEW n \in Nat, NEW m \in Nat, NEW t \in 0 .. b - 1
  PROVE  (n - m - ((n - ((m + t) % (b * c))) % b)) % b = t
PROOF
  <1> DEFINE d == b * c
             s == m + t
             w == s % d
             q == s \div d
             u == n - w
             r == u % b
             p == u \div b
  <1>1. d \in Nat \ {0} /\ s \in Nat
    BY ProductNat
  <1> HIDE DEF d, s
  <1>2. q \in Nat /\ w \in 0 .. d - 1 /\ s = d * q + w
    BY <1>1, DivMod
  <1> HIDE DEF w, q
  <1>3. u \in Int /\ w \in Nat
    BY <1>1, <1>2
  <1> HIDE DEF u
  <1>4. p \in Int /\ r \in 0 .. b - 1 /\ u = b * p + r
    BY <1>3, DivModInt
  <1> HIDE DEF p, r
  <1>5. d * q = b * (c * q) /\ c * q \in Nat
    BY <1>2, ProductNat DEF d
  <1>6. b * (p - c * q) = b * p - b * (c * q)
    BY <1>4, <1>5
  <1>7. n - m - r = b * (p - c * q) + t
    BY <1>1, <1>2, <1>3, <1>4, <1>5, <1>6 DEF u, s
  <1> DEFINE x == p - c * q
  <1>8. x \in Int
    BY <1>4, <1>5
  <1> HIDE DEF x
  <1>9. (b * x + t) % b = t
    BY <1>8, RemainderUnique
  <1>10. n - m - r = b * x + t
    BY <1>7 DEF x
  <1> QED
    BY <1>9, <1>10 DEF r, u, w, s, d

(* What a running measurement keeps: the cycles when the call was fetched,  *)
(* and the base cycles of that call on top.                                *)
MeasuredFrom ==
  ticks_port.call.state = 2 =>
    \E id \in {"CALL", "RCALL"} :
       ticks_port.call.before = Add64(meas.cycles, Ticks(id))

LEMMA CallTicks ==
  ASSUME Mod32 > 4, NEW id \in {"CALL", "RCALL"}
  PROVE  Ticks(id) \in 0 .. Mod32 - 1 /\ Ticks(id) \in 0 .. Ticks("CALL")
PROOF
  <1>1. Ticks("CALL") = 4 - CX /\ Ticks("RCALL") = 3 - CX
    BY DEF Ticks
  <1>2. CX \in {0, 1} /\ Mod32 \in Nat
    BY CoreAssumption, Mod32Assumption
  <1> QED
    BY <1>1, <1>2

LEMMA MeasuredFromStep ==
  ASSUME HInv, MeasuredFrom, HStep
  PROVE  MeasuredFrom'
PROOF
  <1> SUFFICES ASSUME ticks_port'.call.state = 2
               PROVE  \E id \in {"CALL", "RCALL"} :
                        ticks_port'.call.before = Add64(meas'.cycles, Ticks(id))
    BY DEF MeasuredFrom, Add64, Ticks, Mod64
  <1>1. HTypeOK /\ Step
    BY DEF HInv, HStep
  <1>2. CASE /\ ticks_port.call.state = 2
             /\ ticks_port'.call.before = ticks_port.call.before
    <2>1. meas' = meas
      BY <1>2 DEF HStep, NextMeas, Starts
    <2> QED
      BY <1>2, <2>1 DEF MeasuredFrom
  <1>3. CASE /\ ticks_port.call.state = 1
             /\ DirectCall
             /\ ticks_port'.call.before = Cycles
    <2>1. meas'.cycles = n_cycles
      BY <1>3 DEF HStep, NextMeas, Starts
    <2>2. Id \in {"CALL", "RCALL"}
      BY <1>3 DEF DirectCall, Executing
    <2> QED
      BY <1>3, <2>1, <2>2 DEF Cycles
  <1> QED
    BY <1>1, <1>2, <1>3, MeasurementStarts

(* avrtest_cycles_call reports the cycles of the call, but at most the base *)
(* cycles of the call instruction (all of them, see MeasuredFrom), however  *)
(* long it runs, whatever it resets and though the counters wrap around.    *)
(* 2^32 is above the 4 cycles of a call.                                    *)
THEOREM MeasuresItsCycles ==
  ASSUME Mod32 > 4
  PROVE  HSpec => CyclesOfTheCall
PROOF
  <1>1. HInit => MeasuredFrom
    BY DEF HInit, Init, InitTicksPort, MeasuredFrom
  <1>2. HInv /\ MeasuredFrom /\ [HNext]_hvars => MeasuredFrom'
    <2> SUFFICES ASSUME HInv, MeasuredFrom, [HNext]_hvars PROVE MeasuredFrom'
      OBVIOUS
    <2>1. CASE HStep
      BY <2>1, MeasuredFromStep
    <2>2. CASE UNCHANGED hvars
      BY <2>2 DEF hvars, vars, history, MeasuredFrom, Add64, Ticks, Mod64
    <2> QED
      BY <2>1, <2>2 DEF HNext, Exited, hvars
  <1>3. HInv /\ HInv' /\ MeasuredFrom /\ [HNext]_hvars =>
          [\A f \in frames : Measured(f) /\ Ends => Missed \in 0 .. Ticks("CALL")]_hvars
    <2> SUFFICES ASSUME HInv, HInv', MeasuredFrom, HNext, Ends
                 PROVE  Missed \in 0 .. Ticks("CALL")
      OBVIOUS
    <2>1. HStep
      BY DEF HNext, Exited, vars, Ends
    <2>2. ticks_port'.call.n_cycles = (n_cycles' - ticks_port.call.before) % Mod32
      BY <2>1, MeasurementEnds DEF HInv, HStep
    <2>3. n_cycles' \in Nat /\ meas.cycles \in Nat
      BY DEF HInv, HTypeOK, TypeOK
    <2>4. PICK id \in {"CALL", "RCALL"} :
            ticks_port.call.before = Add64(meas.cycles, Ticks(id))
      BY DEF MeasuredFrom, Ends
    <2>5. Ticks(id) \in 0 .. Mod32 - 1 /\ Ticks(id) \in 0 .. Ticks("CALL")
      BY CallTicks
    <2>6. (n_cycles' - meas.cycles
             - ((n_cycles' - ((meas.cycles + Ticks(id)) % (Mod32 * Mod32))) % Mod32))
          % Mod32 = Ticks(id)
      BY <2>3, <2>5, WrappedDifference, Mod32Assumption
    <2> HIDE DEF Ticks
    <2> QED
      BY <2>2, <2>4, <2>5, <2>6 DEF Add64, Mod64, Missed
  <1> QED
    BY <1>1, <1>2, <1>3, HInvariant, PTL DEF HSpec, CyclesOfTheCall

-----------------------------------------------------------------------------
(* The instruction limit                                                   *)

(* While it runs, a program with a limit has executed what n_insns counts.  *)
LimitInv ==
  /\ executed \in Nat
  /\ MaxInsns # 0 /\ status = "RUNNING" => executed = n_insns /\ n_insns <= MaxInsns
  /\ status = "TIMEOUT" => MaxInsns # 0 /\ executed >= MaxInsns

(* For every program and limit, -m lets a program go on for MAXCOUNT         *)
(* instructions and no further.                                             *)
THEOREM LimitStops == HSpec => []StopsAtLimit
PROOF
  <1>1. HInit => LimitInv
    BY CoreAssumption DEF HInit, Init, LimitInv
  <1>2. HInv /\ LimitInv /\ [HNext]_hvars => LimitInv'
    <2> SUFFICES ASSUME HInv, LimitInv, [HNext]_hvars PROVE LimitInv'
      OBVIOUS
    <2>1. CASE HStep
      <3>1. status = "RUNNING" /\ executed \in Nat /\ executed' \in Nat /\ MaxInsns \in Nat
            /\ MaxInsns < Mod64
        BY <2>1, StepRuns, CoreAssumption, Constants DEF HStep, LimitInv
      <3>2. CASE status' \notin {"RUNNING", "TIMEOUT"}
        BY <3>1, <3>2 DEF LimitInv
      <3>3. CASE status' \in {"RUNNING", "TIMEOUT"}
        <4>1. \E p, c : Retire(p, c)
          BY <2>1, <3>3 DEF HStep, Step, FetchOutOfBounds, BadPc, Illegal, Plain,
             AluOp, Store, Push, Pop, Jump, Rjmp, DirectCall, IndirectCall, CallTo,
             Return, Branch, Skip, SysTicks, SysAbort2ndHit, SysExit, SysAbort,
             SysOther, Goto, Leave
        <4>2. executed' = executed + 1
          BY <2>1, <3>3 DEF HStep, RanToEnd
        <4>3. CASE MaxInsns = 0
          BY <3>1, <4>1, <4>3 DEF Retire, LimitInv
        <4>4. CASE MaxInsns # 0
          <5>1. executed = n_insns /\ n_insns <= MaxInsns
            BY <3>1, <4>4 DEF LimitInv
          <5>2. CASE n_insns >= MaxInsns
            BY <3>1, <4>1, <4>2, <4>4, <5>1, <5>2 DEF Retire, LimitInv
          <5>3. CASE n_insns < MaxInsns
            <6>1. status' = "RUNNING" /\ n_insns' = Add64(n_insns, 1)
              BY <3>1, <4>1, <5>1, <5>3 DEF Retire
            <6>2. n_insns' = n_insns + 1
              BY <3>1, <5>1, <5>3, <6>1, Constants DEF Add64
            <6> QED
              BY <3>1, <4>2, <5>1, <5>3, <6>1, <6>2 DEF LimitInv
          <5> QED
            BY <3>1, <5>1, <5>2, <5>3
        <4> QED
          BY <4>3, <4>4
      <3> QED
        BY <3>2, <3>3
    <2>2. CASE UNCHANGED hvars
      BY <2>2 DEF hvars, vars, history, LimitInv
    <2> QED
      BY <2>1, <2>2 DEF HNext, Exited, hvars
  <1>3. LimitInv => StopsAtLimit
    BY CoreAssumption DEF LimitInv, StopsAtLimit
  <1> QED
    BY <1>1, <1>2, <1>3, HInvariant, PTL DEF HSpec

=============================================================================
