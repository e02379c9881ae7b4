------------------------------- MODULE AvrCore -------------------------------
(***************************************************************************)
(* The execution loop of AVRtest (avrtest.c): fetch a decoded instruction,  *)
(* advance the program counter, execute the instruction, count it, until    *)
(* leave() terminates the program.                                         *)
(*                                                                         *)
(* The module keeps all of the control: program counter checks, stack in    *)
(* data memory, calls, returns, branches, skips, syscalls, cycle and        *)
(* instruction counts, and every way to leave().  It abstracts the data: a  *)
(* register is not modelled, an instruction carries the set `v' of values   *)
(* its register operand may have (module Alu has what the arithmetic        *)
(* instructions compute).                                                  *)
(***************************************************************************)
EXTENDS TicksPort

CONSTANTS
  Byte,        (* number of values of a memory cell; 256 in the code        *)
  NRegs,       (* cells at the start of data memory that are registers:     *)
               (*   32, and 0 with ISA_XMEGA and ISA_TINY                   *)
  SPL,         (* address of SPL, 0x3D + IOBASE in the code                 *)
  Pc3Bytes,    (* arch.pc_3bytes: the program counter takes 3 bytes         *)
  HasEind,     (* arch.has_eind: the core has EICALL and EIJMP              *)
  CX,          (* 1 with ISA_XMEGA, 0 otherwise                             *)
  IsTiny,      (* ISA_TINY                                                  *)
  FlashWords,  (* MAX_FLASH_SIZE / 2, the size of decoded_flash             *)
  CodeStart,   (* first and last word address that decode_flash decodes     *)
  CodeEnd,
  PcMask,      (* program.pc_mask                                           *)
  Entry,       (* initial PC, from -e ENTRY or the ELF header               *)
  MaxInsns,    (* program.max_insns from -m MAXCOUNT, 0: no limit           *)
  ExitValues,  (* what R25:R24 may hold when the program calls exit()       *)
  Images,      (* names of the possible contents of decoded_flash           *)
  Programs     (* the contents of each: Programs[i][a] is the instruction   *)
               (*   at word address a of image i; the one at FlashWords is  *)
               (*   what lies behind the array                              *)

Bytes    == 0 .. Byte - 1
Top      == Byte * Byte            \* one past the 16-bit data addresses
SPH      == SPL + 1
SREG     == SPL + 2
Guard    == SPL + 3                \* 0x40 + IOBASE
FlagI    == Byte \div 2            \* the most significant bit
MaxPc    == CodeEnd + 1            \* program.max_pc as set by decode_flash
Code     == CodeStart .. CodeEnd
PcBytes  == IF Pc3Bytes THEN 3 ELSE 2
Pc3      == IF Pc3Bytes THEN 1 ELSE 0

(* The opcodes that differ in what they do to the state kept here.  ALU     *)
(* stands for the arithmetic and logic instructions of one cycle, OUT and   *)
(* STS for all that store to data memory, LDS for all that load, SKIP for   *)
(* CPSE, SBRC and SBRS.                                                     *)
Ids == {"BAD_PC", "ILLEGAL", "NOP", "ALU", "LDS", "OUT", "STS", "PUSH", "POP",
        "JMP", "RJMP", "IJMP", "EIJMP", "CALL", "RCALL", "ICALL", "EICALL",
        "RET", "RETI", "BRBS", "BRBC", "SKIP", "SYSCALL"}

InsnType == [id : Ids, k : Int, v : SUBSET Nat, c : SUBSET STRING]

(* Operands as decode_opcode produces them.                                 *)
WellFormed(i) ==
  /\ i \in InsnType
  /\ i.id \in {"ALU", "PUSH", "OUT", "STS"} => i.v \in SUBSET Bytes \ {{}}
  /\ i.id \in {"OUT", "STS"} => i.k \in 0 .. Top - 1
  /\ i.id \in {"JMP", "CALL"} => i.k \in Nat
  /\ i.id = "SKIP" => i.k \in {1, 2}
  /\ i.id \in {"IJMP", "ICALL", "EIJMP", "EICALL"} => i.v # {}

(* avr-opcode.def: words in flash and base cycles.                          *)
Words(id) == CASE id \in {"BAD_PC", "ILLEGAL"} -> 0
               [] id \in {"LDS", "STS", "JMP", "CALL", "SYSCALL"} -> 2
               [] OTHER -> 1

Ticks(id) == CASE id \in {"BAD_PC", "ILLEGAL", "SYSCALL"} -> 0
               [] id \in {"NOP", "ALU", "BRBS", "BRBC", "SKIP", "OUT"} -> 1
               [] id \in {"STS", "POP", "RJMP", "IJMP", "EIJMP"} -> 2
               [] id = "LDS" -> 2 + CX
               [] id = "PUSH" -> 2 - CX
               [] id = "JMP" -> 3
               [] id \in {"CALL", "EICALL"} -> 4 - CX
               [] id \in {"ICALL", "RCALL"} -> 3 - CX
               [] OTHER -> 4                               \* RET, RETI

ASSUME CoreAssumption ==
  /\ Byte \in Nat /\ Byte > 1 /\ Byte % 2 = 0 /\ NRegs \in Nat
  /\ SPL \in Nat /\ SPL >= NRegs /\ SPL + 3 < Byte * Byte
  /\ Pc3Bytes \in BOOLEAN /\ HasEind \in BOOLEAN /\ IsTiny \in BOOLEAN
  /\ CX \in {0, 1}
  /\ FlashWords \in Nat /\ CodeStart \in Nat
  /\ CodeEnd \in Nat /\ CodeEnd < FlashWords
  /\ PcMask \in 0 .. FlashWords - 1 /\ Entry \in 0 .. FlashWords - 1
  /\ MaxInsns \in 0 .. Mod64 - 1 /\ ExitValues \subseteq Int

ASSUME ProgramsAssumption ==
  \A i \in Images :
    /\ \A a \in 0 .. FlashWords : WellFormed(Programs[i][a])
    /\ \A a \in 0 .. FlashWords - 1 :
         a \notin Code => Programs[i][a].id = "BAD_PC"

VARIABLES
  image,       (* what is in decoded_flash; SPM is not supported            *)
  pc,          (* cpu.pc, a word address                                    *)
  ram,         (* cpu_data                                                  *)
  n_cycles,    (* program.n_cycles                                          *)
  n_insns,     (* program.n_insns                                           *)
  ticks_port,
  hits,        (* the static counter in sys_abort_2nd_hit                   *)
  status,      (* program.leave_status, "RUNNING" before leave()            *)
  exit_value   (* program.exit_value                                        *)

vars == << image, pc, ram, n_cycles, n_insns, ticks_port, hits, status,
           exit_value >>

Statuses == {"RUNNING", "EXIT", "ABORTED", "TIMEOUT", "CODE", "FATAL"}

-----------------------------------------------------------------------------
(* Memory                                                                  *)

ReadSP(m) == m[SPL] + Byte * m[SPH]

(* data_write_word (SPL, sp) keeps 16 bits.                                 *)
WriteSP(m, sp) == [m EXCEPT ![SPL] = sp % Byte,
                            ![SPH] = (sp \div Byte) % Byte]

(* data_read_byte: the values a read may return.  Registers are not         *)
(* modelled; an address past the 16-bit range, which pop_byte and pop_PC    *)
(* form from SP = 0xffff, is past the end of cpu_data (other memory with    *)
(* ISA_XMEGA) and may return anything.                                      *)
MayRead(m, a) == IF a < NRegs \/ a >= Top THEN Bytes ELSE {m[a]}

Lo(p)  == p % Byte
Hi(p)  == (p \div Byte) % Byte
Ext(p) == (p \div (Byte * Byte)) % Byte

(* Seeded fault: push_PC takes the high byte first.                         *)
PushPCSwapped(m, p) ==
  LET sp == ReadSP(m)
      m2 == [m EXCEPT ![sp] = Hi(p), ![sp - 1] = Lo(p)]
      m3 == IF Pc3Bytes THEN [m2 EXCEPT ![sp - 2] = Ext(p)] ELSE m2
  IN  WriteSP(m3, sp - PcBytes)

(* push_PC after its check: low byte first, towards lower addresses, the    *)
(* stack pointer last.                                                      *)
PushPC(m, p) ==
  LET sp == ReadSP(m)
      m2 == [m EXCEPT ![sp] = Lo(p), ![sp - 1] = Hi(p)]
      m3 == IF Pc3Bytes THEN [m2 EXCEPT ![sp - 2] = Ext(p)] ELSE m2
  IN  WriteSP(m3, sp - PcBytes)

PushByte(m, b) == WriteSP([m EXCEPT ![ReadSP(m)] = b], ReadSP(m) - 1)

(* Seeded fault: pop_PC takes the low byte first.                           *)
PopPCSwapped(m) ==
  LET sp == ReadSP(m)
      a  == sp + (IF Pc3Bytes THEN 1 ELSE 0)
      E  == IF Pc3Bytes THEN MayRead(m, sp + 1) ELSE {0}
  IN  { (x * Byte + y) * Byte + z :
          x \in E, y \in MayRead(m, a + 2), z \in MayRead(m, a + 1) }

(* The program counters pop_PC may find on the stack, high byte first.      *)
PopPC(m) ==
  LET sp == ReadSP(m)
      a  == sp + (IF Pc3Bytes THEN 1 ELSE 0)
      E  == IF Pc3Bytes THEN MayRead(m, sp + 1) ELSE {0}
  IN  { (x * Byte + y) * Byte + z :
          x \in E, y \in MayRead(m, a + 1), z \in MayRead(m, a + 2) }

(* Both push_byte and push_PC leave when the stack pointer is below this.   *)
StackOverflow == ReadSP(ram) < Guard

(* update_flags for one bit of SREG that is to be set.                      *)
SetFlag(m, bit) ==
  IF (m[SREG] \div bit) % 2 = 1 THEN m ELSE [m EXCEPT ![SREG] = @ + bit]

-----------------------------------------------------------------------------
(* do_step, the parts all instructions share                               *)

Insn == Programs[image][pc]
Id   == Insn.id

(* program.n_cycles and program.n_insns are uint64_t.                       *)
Add64(x, d) == (x + d) % Mod64

(* The program counter after set_pc (cpu.pc + insn->size), which is what    *)
(* the instruction sees, and the cycles after the base cycles are added.    *)
NextPc == pc + Words(Id)
Cycles == Add64(n_cycles, Ticks(Id))

(* Seeded fault: do_step does not check where the instruction ends.         *)
ExecutingUnchecked(ids) == status = "RUNNING" /\ Id \in ids

(* Execution reaches the function of an instruction in `ids'.               *)
Executing(ids) ==
  /\ status = "RUNNING"
  /\ Id \in ids
  /\ NextPc <= MaxPc

(* leave (s) from inside the instruction: the step is not counted.          *)
Leave(s, p, cycles) ==
  /\ status' = s
  /\ pc' = p
  /\ n_cycles' = cycles
  /\ UNCHANGED << image, n_insns >>

(* Seeded fault: the step that reaches the limit is still counted.          *)
RetireLate(p, cycles) ==
  /\ pc' = p
  /\ n_cycles' = cycles
  /\ n_insns' = Add64(n_insns, 1)
  /\ status' = IF MaxInsns # 0 /\ n_insns > MaxInsns
               THEN "TIMEOUT" ELSE status
  /\ UNCHANGED image

(* Seeded fault: instructions are not counted.                              *)
RetireUncounted(p, cycles) ==
  /\ pc' = p
  /\ n_cycles' = cycles
  /\ status' = IF MaxInsns # 0 /\ n_insns >= MaxInsns THEN "TIMEOUT" ELSE status
  /\ UNCHANGED << image, n_insns >>

(* The end of do_step: TIMEOUT once n_insns has reached the limit, else     *)
(* count the instruction.                                                   *)
Retire(p, cycles) ==
  LET limit == MaxInsns # 0 /\ n_insns >= MaxInsns
  IN  /\ pc' = p
      /\ n_cycles' = cycles
      /\ status' = IF limit THEN "TIMEOUT" ELSE status
      /\ n_insns' = IF limit THEN n_insns ELSE Add64(n_insns, 1)
      /\ UNCHANGED image

(* Seeded fault: set_pc does not check its argument.                        *)
GotoUnchecked(p, extra) == Retire(p, Add64(Cycles, extra))

(* set_pc or add_pc inside the instruction, extra cycles, end of do_step.   *)
(* A target out of bounds leaves before the extra cycles are added.         *)
Goto(p, extra) ==
  IF p > MaxPc THEN Leave("CODE", p, Cycles)
               ELSE Retire(p, Add64(Cycles, extra))

(* add_pc: relative targets wrap around at the flash size, which is a power *)
(* of two, so the bit mask is a remainder.                                  *)
Relative(delta) == (NextPc + delta) % (PcMask + 1)

-----------------------------------------------------------------------------
(* Instructions                                                            *)

(* set_pc (cpu.pc + insn->size) leaves before the instruction runs: a two   *)
(* word instruction in the last word of the code, or an ENTRY beyond it.    *)
FetchOutOfBounds ==
  /\ status = "RUNNING"
  /\ NextPc > MaxPc
  /\ Leave("CODE", NextPc, n_cycles)
  /\ UNCHANGED << ram, ticks_port, hits, exit_value >>

BadPc ==
  /\ Executing({"BAD_PC"})
  /\ Leave("CODE", pc, Cycles)
  /\ UNCHANGED << ram, ticks_port, hits, exit_value >>

(* func_ILLEGAL and func_UNDEF; opcodes that are known but not supported    *)
(* (SPM, DES) leave with FATAL.                                             *)
Illegal ==
  /\ Executing({"ILLEGAL"})
  /\ \E s \in {"CODE", "FATAL"} : Leave(s, pc, Cycles)
  /\ UNCHANGED << ram, ticks_port, hits, exit_value >>

(* NOP, BREAK, SLEEP, WDR; loads, whose value goes to a register.           *)
Plain ==
  /\ Executing({"NOP", "LDS"})
  /\ Retire(NextPc, Cycles)
  /\ UNCHANGED << ram, ticks_port, hits, exit_value >>

(* update_flags with whatever the operands make of the flags.               *)
AluOp ==
  /\ Executing({"ALU"})
  /\ \E f \in Insn.v : ram' = [ram EXCEPT ![SREG] = f]
  /\ Retire(NextPc, Cycles)
  /\ UNCHANGED << ticks_port, hits, exit_value >>

(* data_write_byte; SPL, SPH and SREG are memory mapped.                    *)
Store ==
  /\ Executing({"OUT", "STS"})
  /\ \E b \in Insn.v : ram' = [ram EXCEPT ![Insn.k] = b]
  /\ Retire(NextPc, Cycles)
  /\ UNCHANGED << ticks_port, hits, exit_value >>

Push ==
  /\ Executing({"PUSH"})
  /\ IF StackOverflow
     THEN Leave("CODE", NextPc, Cycles) /\ ram' = ram
     ELSE /\ \E b \in Insn.v : ram' = PushByte(ram, b)
          /\ Retire(NextPc, Cycles)
  /\ UNCHANGED << ticks_port, hits, exit_value >>

(* pop_byte: the register that takes the value is not modelled.             *)
Pop ==
  /\ Executing({"POP"})
  /\ ram' = WriteSP(ram, ReadSP(ram) + 1)
  /\ Retire(NextPc, Cycles)
  /\ UNCHANGED << ticks_port, hits, exit_value >>

(* JMP to k, IJMP to Z, EIJMP to EIND:Z.                                    *)
Jump ==
  /\ \/ Executing({"JMP"}) /\ Goto(Insn.k, 0)
     \/ Executing({"IJMP"}) /\ \E z \in Insn.v : Goto(z % Top, 0)
     \/ /\ Executing({"EIJMP"})
        /\ IF HasEind THEN \E z \in Insn.v : Goto(z, 0)
                      ELSE Leave("CODE", pc, Cycles)
  /\ UNCHANGED << ram, ticks_port, hits, exit_value >>

(* RJMP to itself is how a program ends.                                    *)
Rjmp ==
  /\ Executing({"RJMP"})
  /\ IF Insn.k = -1 THEN Leave("EXIT", NextPc, Cycles)
                    ELSE Goto(Relative(Insn.k), 0)
  /\ UNCHANGED << ram, ticks_port, hits, exit_value >>

(* What the four calls share: push_PC, then the target and the cycles.      *)
CallTo(target, extra) ==
  IF StackOverflow
  THEN Leave("CODE", NextPc, Cycles) /\ ram' = ram
  ELSE ram' = PushPC(ram, NextPc) /\ Goto(target, extra)

(* CALL and RCALL start a pending cycle measurement, even when the push     *)
(* then leaves.                                                             *)
DirectCall ==
  /\ \/ Executing({"CALL"}) /\ CallTo(Insn.k, Pc3)
     \/ Executing({"RCALL"}) /\ CallTo(Relative(Insn.k), Pc3)
  /\ ticks_port' = CallStart(ticks_port, NextPc, ReadSP(ram), Cycles)
  /\ UNCHANGED << hits, exit_value >>

IndirectCall ==
  /\ \/ Executing({"ICALL"}) /\ \E z \in Insn.v : CallTo(z % Top, Pc3)
     \/ /\ Executing({"EICALL"})
        /\ IF HasEind THEN \E z \in Insn.v : CallTo(z, 0)
                      ELSE Leave("CODE", pc, Cycles) /\ ram' = ram
  /\ UNCHANGED << ticks_port, hits, exit_value >>

(* func_RET: the stack pointer is written before the new program counter    *)
(* is checked; a measurement can only end when that check succeeds.         *)
Return ==
  /\ Executing({"RET", "RETI"})
  /\ \E p \in PopPC(ram) :
       LET sp    == (ReadSP(ram) + PcBytes) % Top
           m     == WriteSP(ram, sp)
           extra == IF IsTiny THEN 2 ELSE Pc3
       IN  /\ Goto(p, extra)
           /\ ticks_port' = IF p > MaxPc THEN ticks_port
                            ELSE CallEnd(ticks_port, p, sp, Add64(Cycles, extra))
           /\ ram' = IF Id = "RETI" /\ p <= MaxPc
                     THEN SetFlag(m, FlagI) ELSE m
  /\ UNCHANGED << hits, exit_value >>

(* branch_on_sreg_condition: Insn.v is the set of SREG values on which a    *)
(* BRBS branches.                                                           *)
Branch ==
  /\ Executing({"BRBS", "BRBC"})
  /\ IF (ram[SREG] \in Insn.v) = (Id = "BRBS")
     THEN Goto(Relative(Insn.k), 1)
     ELSE Retire(NextPc, Cycles)
  /\ UNCHANGED << ram, ticks_port, hits, exit_value >>

(* skip_instruction_on_condition over an instruction of k words (CPSE,      *)
(* SBRC, SBRS, SBIC, SBIS and their two-word variants).                     *)
Skip ==
  /\ Executing({"SKIP"})
  /\ \/ Retire(NextPc, Cycles)
     \/ Goto(NextPc + Insn.k, Insn.k)
  /\ UNCHANGED << ram, ticks_port, hits, exit_value >>

-----------------------------------------------------------------------------
(* Syscalls; k is the number                                               *)

(* SYSCALL 4: Insn.c is the command in R24.                                 *)
SysTicks ==
  /\ Executing({"SYSCALL"}) /\ Insn.k = 4
  /\ ticks_port' =
       IF Insn.c \cap Resets # {}
       THEN Reset(ticks_port, Insn.c, Cycles, n_insns)
       ELSE IF Insn.c = {"cycles_call"} THEN ArmCall(ticks_port)
       ELSE IF Insn.c = {"get_cycles"}  THEN Read(ticks_port, "get_cycles")
       ELSE ticks_port
  /\ Retire(NextPc, Cycles)
  /\ UNCHANGED << ram, hits, exit_value >>

SysAbort2ndHit ==
  /\ Executing({"SYSCALL"}) /\ Insn.k = 25
  /\ hits' = hits + 1
  /\ IF hits' > 1 THEN Leave("CODE", NextPc, Cycles)
                  ELSE Retire(NextPc, Cycles)
  /\ UNCHANGED << ram, ticks_port, exit_value >>

SysExit ==
  /\ Executing({"SYSCALL"}) /\ Insn.k = 30
  /\ exit_value' \in ExitValues
  /\ Leave("EXIT", NextPc, Cycles)
  /\ UNCHANGED << ram, ticks_port, hits >>

SysAbort ==
  /\ Executing({"SYSCALL"}) /\ Insn.k = 31
  /\ Leave("ABORTED", NextPc, Cycles)
  /\ UNCHANGED << ram, ticks_port, hits, exit_value >>

(* Logging, performance meters, streams, files, emulation: other modules;   *)
(* they change registers and memory the target handed over, not the state   *)
(* kept here.  Unknown numbers are ignored.                                 *)
SysOther ==
  /\ Executing({"SYSCALL"}) /\ Insn.k \notin {4, 25, 30, 31}
  /\ Retire(NextPc, Cycles)
  /\ UNCHANGED << ram, ticks_port, hits, exit_value >>

-----------------------------------------------------------------------------

Init ==
  /\ image \in Images
  /\ pc = Entry
  /\ ram = [a \in 0 .. Top - 1 |-> 0]
  /\ n_cycles = 0
  /\ n_insns = 0
  /\ ticks_port = InitTicksPort
  /\ hits = 0
  /\ status = "RUNNING"
  /\ exit_value = 0

Step ==
  \/ FetchOutOfBounds \/ BadPc \/ Illegal
  \/ Plain \/ AluOp \/ Store \/ Push \/ Pop
  \/ Jump \/ Rjmp \/ DirectCall \/ IndirectCall \/ Return \/ Branch \/ Skip
  \/ SysTicks \/ SysAbort2ndHit \/ SysExit \/ SysAbort \/ SysOther

(* leave() has ended the process.                                           *)
Exited == status # "RUNNING" /\ UNCHANGED vars

Next == Step \/ Exited

Spec == Init /\ [][Next]_vars

(* execute() calls do_step() for ever and do_step() never blocks.           *)
FairSpec == Spec /\ WF_vars(Step)

-----------------------------------------------------------------------------

(* The state stays in its types.  In particular every byte of data memory   *)
(* stays a byte and the program counter of a running program stays inside   *)
(* the decoded flash, or is the ENTRY the program was started with.         *)
TypeOK ==
  /\ image \in Images
  /\ pc \in Nat
  /\ ram \in [0 .. Top - 1 -> Bytes]
  /\ n_cycles \in 0 .. Mod64 - 1
  /\ n_insns \in 0 .. Mod64 - 1
  /\ ticks_port \in TicksPortType
  /\ hits \in Nat
  /\ status \in Statuses
  /\ exit_value \in Int
  /\ status = "RUNNING" => pc <= MaxPc \/ pc = Entry

(* Only what decode_flash has decoded is ever executed and counted: a jump, *)
(* branch, skip, return or fall-through to anywhere else ends the program.  *)
(* (avr-opcode.def: ID 0 "is executed when jumping to a location outside of *)
(* the decoded flash memory".)                                              *)
OnlyDecodedCodeRuns == [][n_insns' # n_insns => pc \in Code]_vars

(* With a limit every program ends, endless loops included.                 *)
Terminates == MaxInsns # 0 => <>(status # "RUNNING")

=============================================================================
