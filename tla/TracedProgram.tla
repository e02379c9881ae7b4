---------------------------- MODULE TracedProgram ----------------------------
(***************************************************************************)
(* A target program as avr-gcc and avr-libc make them, and the call stack   *)
(* CallGraph keeps for it.  The program knows what the simulator can only   *)
(* guess: `frames' are the calls that have not returned, each with the      *)
(* functions entered in it, by the call itself, by a tail call, a jump or   *)
(* by falling through.  `inclusive' counts for each function the cycles     *)
(* spent while it was in a frame.  Both are history, kept without looking   *)
(* at CallGraph.                                                           *)
(***************************************************************************)
EXTENDS CallGraph

CONSTANTS
  Top,        \* RAMEND
  MaxFrames   \* bound: nested calls

(* The program has vectors and startup code, it is its functions that have   *)
(* names, and what stands for data, for the end of the program and for no   *)
(* symbol is none of its functions.                                        *)
Data == <<"data", 0>>
ASSUME RegionsAssumption ==
  /\ Top \in Nat
  /\ {"vectors", "init"} \subseteq Regions /\ Named \subseteq Regions
  /\ Data \notin Addresses /\ ProgramStop \notin Addresses /\ NoSymbol \notin Addresses

VARIABLES
  prof,       \* what the program is made of
  pc, memory, \* program counter; the stack, a sequence of addresses and data
  sp_set,     \* whether the startup code has set SP already
  glitch,     \* instructions until SP counts as consistent again
  z,          \* the address in Z for setjmp
  jmp_buf,    \* what setjmp saved
  n_cycles,   \* program.n_cycles
  frames, inclusive, main_run, left

pvars == << prof, pc, memory, sp_set, glitch, z, jmp_buf, n_cycles, frames,
            inclusive, main_run, left >>
vars  == << cgvars, pvars >>

NoBuf  == [to |-> NoSymbol, height |-> 0, frame |-> 0]
Height == Len(memory)
SP(m, set) == IF set THEN Top - Len(m) ELSE 0

Frame  == frames[Len(frames)]
Here   == pc[1]
Atop   == Height = Frame.base

(* Functions entered in the current frame; a jump of a function to its own  *)
(* entry with the same stack is a loop and enters nothing.                  *)
Entered(f, h) ==
  LET fns == Frame.fns
      new == [sym |-> Entry(f), height |-> h]
  IN IF fns[Len(fns)] = new THEN frames
     ELSE [frames EXCEPT ![Len(frames)].fns = Append(@, new)]

(* When a call returns, what its caller had jumped to with a deeper stack    *)
(* (the helper of a switch) is over.                                       *)
Pruned(fr, h) ==
  LET k   == Len(fr)
      fns == fr[k].fns
      top == Max({i \in DOMAIN fns : i = 1 \/ fns[i].height <= h})
  IN  [fr EXCEPT ![k].fns = SubSeq(fns, 1, top)]

(* The functions the program is in, outermost first.                        *)
Chain == LET syms(k) == [j \in DOMAIN frames[k].fns |-> frames[k].fns[j].sym]
         IN  FlattenSeq([k \in DOMAIN frames |-> syms(k)])

(* main is charged for the jump to exit after its return.                   *)
ChainOf(to) == IF to \in Exits /\ main_run = "returned" THEN Append(Chain, T_MAIN) ELSE Chain

(* Those from the base of the graph on have the next cycle, each of them    *)
(* once.                                                                   *)
Charged(chain) ==
  {chain[j] : j \in {i \in DOMAIN chain :
                       \E b \in 1 .. i : IsBase(chain[b])}}

(* Enders: instructions after which log_add_instr takes SP for consistent.  *)
Enders == {"RET", "IJMP", "EIJMP", "RCALL", "CALL", "PUSH", "POP"}
NextGlitch(id) ==
  IF id = "OUT" THEN 4
  ELSE IF id \in Enders \/ glitch = 0 THEN 0 ELSE glitch - 1

(* One instruction: it executes, then the call graph is updated.            *)
Executes(id, to, mem) ==
  /\ ~left /\ n_cycles < prof.insns
  /\ pc' = to /\ memory' = mem
  /\ glitch' = NextGlitch(id)
  /\ n_cycles' = n_cycles + 1
  /\ inclusive' = [s \in Symbols |->
                     IF s \in Charged(ChainOf(to)) THEN inclusive[s] + 1
                                                   ELSE inclusive[s]]
  /\ UpdateCallDepth([id |-> id, old |-> pc, pc |-> to,
                      next |-> id = "RCALL" /\ to = Inside(Here),
                      sp |-> SP(mem, sp_set'), glitch |-> glitch' > 0,
                      now |-> n_cycles'])
  /\ UNCHANGED << prof, left >>

Keeps == UNCHANGED << z, jmp_buf, sp_set, main_run >>
Has(kind) == kind \in prof.kinds

-----------------------------------------------------------------------------
(* Startup code                                                            *)

JumpToInit ==
  /\ pc = Entry("vectors") /\ ~sp_set
  /\ frames' = Entered("init", 0)
  /\ Keeps
  /\ Executes("JMP", Entry("init"), memory)

SetSP ==
  /\ Here = "init" /\ ~sp_set
  /\ sp_set' = TRUE
  /\ UNCHANGED << frames, z, jmp_buf, main_run >>
  /\ Executes("OUT", Inside("init"), memory)

(* Z is in use between a write of SP and the jump that goes with it.        *)
Started == sp_set /\ (z = NoSymbol \/ Here \in Helpers)

FallInto(f) ==
  /\ Has("fall") /\ <<Here, f>> \in prof.follows
  /\ Here = "init" => Started /\ main_run = ""
  /\ Atop
  /\ frames' = Entered(f, Height)
  /\ Keeps
  /\ Executes("LDI", Entry(f), memory)

(* Calls                                                                   *)

Call(id, f) ==
  /\ Started /\ Has(id) /\ <<Here, f>> \in prof.calls
  /\ Len(frames) < MaxFrames
  /\ id = "ICALL" => /\ Here # "init"
                     /\ NextGlitch(id) = 0 \/ Has("glitchcall")
  /\ frames' = Append(frames, [base |-> Height + 1,
                               fns |-> <<[sym |-> Entry(f), height |-> Height + 1]>>])
  /\ Here = "init" \/ f = "main" => main_run = ""
  /\ main_run' = IF f = "main" THEN "called" ELSE main_run
  /\ UNCHANGED << z, jmp_buf, sp_set >>
  /\ Executes(id, Entry(f), Append(memory, Inside(Here)))

InLibrary == Here \in {"setjmp", "longjmp", "__tablejump2__"} \cup Helpers
InFunction == z = NoSymbol /\ ~InLibrary /\ Here \notin {"vectors", "init"}

(* rcall . to allocate stack, PUSH and POP                                 *)
Allocate ==
  /\ Has("alloc") /\ Started /\ InFunction /\ Height < Frame.base + 2
  /\ UNCHANGED frames /\ Keeps
  /\ Executes("RCALL", Inside(Here), Append(memory, Inside(Here)))

PushData ==
  /\ Has("push") /\ Started /\ Height < Frame.base + 2
  /\ Here \notin {"setjmp", "longjmp", "__tablejump2__"}
  /\ UNCHANGED frames /\ Keeps
  /\ Executes("PUSH", Inside(Here), Append(memory, Data))

PopData ==
  /\ (Has("push") \/ Has("alloc")) /\ Started /\ Height > Frame.base
  /\ Here \notin {"setjmp", "longjmp", "__tablejump2__", "__prologue_saves__"}
  /\ UNCHANGED frames /\ Keeps
  /\ Executes("POP", Inside(Here), Front(memory))

(* SP is added to: arguments on the stack go after the call that took them. *)
FreeStack ==
  /\ Has("args") /\ InFunction /\ Height > Frame.base
  /\ UNCHANGED frames /\ Keeps
  /\ Executes("OUT", Inside(Here), SubSeq(memory, 1, Frame.base))

Ret(id) ==
  /\ Has(id) /\ Started
  /\ InFunction \/ (Here = "__epilogue_restores__" /\ id = "RET")
  /\ Len(frames) > 1 /\ Height > 0 /\ Atop /\ graph_id # "PUSH"
  /\ frames' = Pruned(Front(frames), Height - 1)
  /\ main_run' = IF Len(frames) > 2 THEN main_run
                ELSE IF Here = "main" /\ Len(Frame.fns) = 1 THEN "returned"
                ELSE IF main_run = "called" THEN "left" ELSE main_run
  /\ jmp_buf' = IF jmp_buf.frame >= Len(frames) THEN NoBuf ELSE jmp_buf
  /\ UNCHANGED << z, sp_set >>
  /\ Executes(id, Last(memory), Front(memory))

(* Jumps between functions                                                 *)

TailCall(id, f) ==
  /\ Started /\ Has(id) /\ <<Here, f>> \in prof.tails
  /\ Atop
  /\ Entry(f) \in Exits => main_run # "returned"
  /\ id = "IJMP" => \A j \in DOMAIN Frame.fns : Frame.fns[j].height <= Height
  /\ jmp_buf' = IF jmp_buf.frame >= Len(frames) THEN NoBuf ELSE jmp_buf
  /\ frames' = Entered(f, Height)
  /\ UNCHANGED << z, sp_set, main_run >>
  /\ Executes(id, Entry(f), memory)

(* PUSH PUSH RET, the jump of devices and code without IJMP                 *)
PushTarget(f) ==
  /\ Has("pushret") /\ Started /\ InFunction /\ Atop
  /\ <<Here, f>> \in prof.tails
  /\ \A j \in DOMAIN Frame.fns : Frame.fns[j].height <= Height
  /\ UNCHANGED frames /\ Keeps
  /\ Executes("PUSH", Inside(Here), Append(memory, Entry(f)))

RetToTarget ==
  /\ graph_id = "PUSH" /\ Last(memory) \in Addresses /\ Last(memory)[2] = 0
  /\ frames' = Entered(Last(memory)[1], Height - 1)
  /\ Keeps
  /\ Executes("RET", Last(memory), Front(memory))

(* switch: a jump to __tablejump2__, which jumps back into the function     *)
Switch ==
  /\ Has("switch") /\ Started /\ InFunction /\ NextGlitch("JMP") = 0
  /\ z' = Inside(Here)
  /\ frames' = Entered("__tablejump2__", Height)
  /\ UNCHANGED << jmp_buf, sp_set, main_run >>
  /\ Executes("JMP", Entry("__tablejump2__"), memory)

TableJump ==
  /\ Here \in {"__tablejump2__", "__prologue_saves__"}
  /\ Here = "__prologue_saves__" => Height > Frame.base
  /\ z' = NoSymbol
  /\ UNCHANGED << frames, jmp_buf, sp_set, main_run >>
  /\ Executes("IJMP", z, memory)

(* -mcall-prologues: PUSHes by a jump to a location in __prologue_saves__,  *)
(* POPs and the return by a jump into __epilogue_restores__.                *)
Prologue(k) ==
  /\ Has("prologue") /\ pc = Entry(Here) /\ Atop /\ InFunction
  /\ Here \in prof.saving
  /\ z' = Inside(Here)
  /\ UNCHANGED << frames, jmp_buf, sp_set, main_run >>
  /\ Executes("RJMP", <<"__prologue_saves__", k>>, memory)

Epilogue(k) ==
  /\ Has("prologue") /\ InFunction /\ Height > Frame.base
  /\ Here \in prof.saving
  /\ UNCHANGED frames /\ Keeps
  /\ Executes("RJMP", <<"__epilogue_restores__", k>>, memory)

-----------------------------------------------------------------------------
(* setjmp and longjmp of avr-libc, and __builtin_longjmp                    *)

SetjmpPop ==
  /\ Here = "setjmp" /\ z = NoSymbol
  /\ z' = Last(memory)
  /\ jmp_buf' = [to |-> Last(memory), height |-> Height - 1,
                 frame |-> Len(frames) - 1]
  /\ UNCHANGED << frames, sp_set, main_run >>
  /\ Executes("POP", Inside("setjmp"), Front(memory))

SetjmpReturn ==
  /\ Here = "setjmp" /\ z # NoSymbol
  /\ z' = NoSymbol
  /\ frames' = Pruned(Front(frames), Height)
  /\ UNCHANGED << jmp_buf, sp_set, main_run >>
  /\ Executes("IJMP", z, memory)

LongjmpCall ==
  /\ \/ Has("longjmp") /\ jmp_buf # NoBuf
     \/ Has("bad jmp_buf")
  /\ InFunction
  /\ Len(frames) < MaxFrames
  /\ frames' = Append(frames, [base |-> Height + 1,
                fns |-> <<[sym |-> T_LONGJMP, height |-> Height + 1]>>])
  /\ Keeps
  /\ Executes("CALL", T_LONGJMP, Append(memory, Inside(Here)))

(* Writes SP: in longjmp, or inline in a function called below setjmp's.    *)
RestoreSP ==
  /\ jmp_buf # NoBuf /\ z = NoSymbol
  /\ \/ pc = T_LONGJMP
     \/ Has("builtin") /\ InFunction /\ Len(frames) > jmp_buf.frame
  /\ z' = jmp_buf.to
  /\ UNCHANGED << frames, jmp_buf, sp_set, main_run >>
  /\ Executes("OUT", Inside(Here), SubSeq(memory, 1, jmp_buf.height))

(* The frames above that of setjmp are gone.                                *)
Unwound == Pruned(SubSeq(frames, 1, jmp_buf.frame), jmp_buf.height)

LongjmpJump ==
  /\ graph_id = "OUT" /\ z # NoSymbol
  /\ z' = NoSymbol
  /\ frames' = Unwound
  /\ UNCHANGED << jmp_buf, sp_set, main_run >>
  /\ Executes("IJMP", z, memory)

(* A jmp_buf that was never written: the program is at address 0 again.      *)
LongjmpToReset ==
  /\ Has("bad jmp_buf") /\ pc = T_LONGJMP
  /\ frames' = [SubSeq(frames, 1, 1) EXCEPT ![1].fns = SubSeq(@, 1, 1)]
  /\ Keeps
  /\ Executes("IJMP", Entry("vectors"), << >>)

-----------------------------------------------------------------------------

(* JMP exit, right after main returned to the startup code: exit is taken   *)
(* for called by main.                                                      *)
JumpToExit(id) ==
  /\ main_run = "returned" /\ graph_id = "RET" /\ Has("exit") /\ Len(frames) = 1
  /\ frames' = Append(frames, [base |-> Height,
                fns |-> <<[sym |-> T_MAIN, height |-> 1],
                          [sym |-> Entry("exit"), height |-> Height]>>])
  /\ Keeps
  /\ Executes(id, Entry("exit"), memory)

Work ==
  /\ Has("work") /\ InFunction /\ z = NoSymbol
  /\ UNCHANGED frames /\ Keeps
  /\ Executes("LDI", Inside(Here), memory)

Leave ==
  /\ ~left /\ left' = TRUE
  /\ WriteDot([sp |-> SP(memory, sp_set), glitch |-> glitch > 0, pc |-> pc,
               old |-> pc, now |-> n_cycles])
  /\ UNCHANGED << prof, pc, memory, sp_set, glitch, z, jmp_buf, n_cycles,
                  frames, inclusive, main_run >>

PInit ==
  /\ pc = Entry("vectors") /\ memory = << >> /\ sp_set = FALSE /\ glitch = 0
  /\ z = NoSymbol /\ jmp_buf = NoBuf /\ n_cycles = 0
  /\ frames = <<[base |-> 0, fns |-> <<[sym |-> pc, height |-> 0]>>]>>
  /\ inclusive = [s \in Symbols |-> 0]
  /\ main_run = "" /\ left = FALSE

CONSTANT Programs    \* the programs, each with its bound on instructions

Init == /\ prof \in Programs
        /\ PInit
        /\ GraphInit(prof.opt, pc)

Next ==
  \/ JumpToInit \/ SetSP
  \/ \E f \in Regions :
       \/ FallInto(f)
       \/ \E id \in {"CALL", "ICALL"} : Call(id, f)
       \/ \E id \in {"JMP", "IJMP"} : TailCall(id, f)
       \/ PushTarget(f)
  \/ RetToTarget
  \/ Allocate \/ PushData \/ PopData \/ FreeStack
  \/ \E id \in {"RET", "RETI"} : Ret(id)
  \/ Switch \/ TableJump
  \/ \E k \in {0, 1} : Prologue(k) \/ Epilogue(k)
  \/ SetjmpPop \/ SetjmpReturn \/ LongjmpCall \/ RestoreSP \/ LongjmpJump
  \/ LongjmpToReset
  \/ \E id \in {"JMP", "RJMP"} : JumpToExit(id)
  \/ Work \/ Leave

Spec == Init /\ [][Next]_vars

-----------------------------------------------------------------------------

(* The part of the call stack that was called, outermost first; what comes  *)
(* before is startup code, which has no frame.                              *)
Startup == Min({i \in DOMAIN ystack : ystack[i].depth <= 0} \cup {Len(ystack) + 1})
Called  == Reverse(SubSeq(ystack, 1, Startup - 1))

(* The functions the program is in, with the number of calls above each.    *)
Levels(fr) == LET level(k) == [j \in DOMAIN fr[k].fns |-> <<fr[k].fns[j].sym, k - 1>>]
              IN  FlattenSeq([k \in DOMAIN fr |-> IF k = 1 THEN << >> ELSE level(k)])
CallLevels == Levels(frames)

(* "Track the current call depth for performance metering": the depth that   *)
(* the log and the perf-meters get.                                         *)
CallDepthIsTracked == ~left => Head(ystack).depth = Len(frames) - 1

(* The call stack of the graph is the one of the program: the functions the *)
(* program is in, and the call depth of each of them.                       *)
StackIsThePrograms ==
  ~left => /\ [i \in DOMAIN Called |-> <<Called[i].sym, Called[i].depth>>]
               = CallLevels
           /\ CallDepthIsTracked

(* Every element hangs on the edge from the element below it, also after    *)
(* main was taken back from the free list.                                  *)
PathInGraph ==
  \A i \in 1 .. Len(ystack) - 1 :
    /\ ystack[i].from = ystack[i + 1].sym
    /\ <<ystack[i].from, ystack[i].sym>> \in DOMAIN edges

(* No option and no reserved name hides the function.                       *)
Plain(s) == /\ ~IsReserved(s) /\ ~IsSkip(s)
            /\ options.leaf = {} /\ s # ProgramStop

(* The cycles of an edge are those of the function it leads to; the edges   *)
(* into a function add up to what the function has.                         *)
EdgesAddUp ==
  \A s \in Symbols : ~IsBase(s) =>
    own[s] = FoldFunctionOnSet(+, 0, [e \in DOMAIN edges |-> edges[e].n_cycles],
                               {e \in DOMAIN edges : e[2] = s})

(* No cycle is lost and none is accounted to a function twice, however      *)
(* recursive it is: at the end a function has the cycles spent in it and    *)
(* in what it called, and so have the edges that lead to it.                *)
CostsAreInclusive ==
  /\ EdgesAddUp
  /\ left => /\ \A s \in Symbols : Plain(s) => own[s] + childs[s] = inclusive[s]
             /\ \A b \in options.base : options.base = {b} =>
                   graph_cycles = inclusive[b]

(* However deep a function recurses, it is never charged more cycles than    *)
(* were accounted, nor are more accounted than have passed.                 *)
CostsBounded ==
  /\ \A s \in Symbols : own[s] + childs[s] <= graph_cycles
  /\ graph_cycles <= cycle /\ cycle <= n_cycles

(* -graph-leaf: the costs of all it calls are the function's own.           *)
LeavesTakeAll ==
  left => \A s \in options.leaf :
            options.leaf = {s} /\ ~IsSkip(s) /\ (\E b \in options.base : b # s) =>
              /\ own[s] = inclusive[s] /\ childs[s] = 0

=============================================================================
