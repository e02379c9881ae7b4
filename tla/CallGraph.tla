------------------------------ MODULE CallGraph ------------------------------
(***************************************************************************)
(* graph.c: avrtest_log follows calls, jumps and returns of the target      *)
(* program and distributes its cycles over the functions on a call stack.   *)
(*                                                                         *)
(* The program keeps no such stack: the simulator guesses it from the       *)
(* instructions it sees, the symbols of the ELF file and the stack pointer. *)
(* A code address is <<f, 0>>, the entry of region f of the program, or     *)
(* <<f, 1>>, somewhere inside of it; a symbol is named by its address.      *)
(***************************************************************************)
EXTENDS Integers, Sequences, FiniteSets, SequencesExt, FiniteSetsExt, Functions

CONSTANTS
  Regions,        \* the functions and labels of the program
  Named,          \* those the symbol table of the ELF file knows
  ReservedNames   \* those whose name starts with two underscores

Addresses == Regions \X {0, 1}
Entry(f)  == <<f, 0>>
Inside(f) == <<f, 1>>

EntryPoint  == <<"Entry Point", 0>>
ProgramStop == <<"Program Stop", 0>>
NoSymbol    == <<"", 0>>

Symbols == {Entry(f) : f \in Regions} \cup {ProgramStop}

T_MAIN    == Entry("main")
T_SETJMP  == Entry("setjmp")
T_LONGJMP == Entry("longjmp")
Exits     == {Entry("exit"), Entry("_exit")}
Helpers   == {"__prologue_saves__", "__epilogue_restores__"}

VARIABLES
  options,      \* -graph-base, -graph-leaf, -graph-sub, -graph-skip
  func_sym,     \* the addresses that have a symbol by now
  hidden,       \* those that are of no function, but of a longjmp
  ystack,       \* the call stack, its top first
  yfree,        \* list elements to use again, the last one freed first
  edges,        \* the edges of the graph, by their end points
  own, childs,  \* the cycles accounted to each symbol
  graph_cycles, \* graph.n_cycles, all cycles accounted so far
  graph_id,     \* graph.id, the last instruction
  main_return,  \* how often main was called, and where it returns to
  pro_ep,       \* the helper of libgcc that is running, or ""
  cycle,        \* program cycles when the call stack changed last
  nonglitch_SP  \* the last stack pointer taken for valid

cgvars == << options, func_sym, hidden, ystack, yfree, edges, own, childs,
             graph_cycles, graph_id, main_return, pro_ep, cycle, nonglitch_SP >>

-----------------------------------------------------------------------------
(* Symbols                                                                 *)

IsFunc(s)  == s \in {Entry(f) : f \in Named}
IsBase(s)  == s \in options.base
IsLeaf(s)  == s \in options.leaf
IsSub(s)   == s \in options.sub
IsSkip(s)  == s \in options.skip

(* A location without a name that is called is reserved, and so is the end  *)
(* of the program.  An option that names a symbol overrules the underscores.*)
IsReserved(s) ==
  \/ s = ProgramStop
  \/ s \in func_sym \ hidden /\ ~IsFunc(s) /\ ~IsBase(s)
  \/ /\ s \in {Entry(f) : f \in ReservedNames}
     /\ ~options.reserved
     /\ ~(IsBase(s) \/ IsLeaf(s) \/ IsSub(s))

IsReservedCaller(s) ==
  s = Entry("__utoa_common") /\ ~options.reserved
                             /\ ~(IsBase(s) \/ IsLeaf(s) \/ IsSub(s))

-----------------------------------------------------------------------------
(* The list elements and the edges                                         *)

NewEdge == [n |-> 0, n_call |-> 0, n_tail |-> 0, n_cycles |-> 0, back |-> FALSE]

GetEdge(es, e) == IF e \in DOMAIN es THEN es[e] ELSE NewEdge
PutEdge(es, e, r) ==
  [x \in DOMAIN es \cup {e} |-> IF x = e THEN r ELSE es[x]]

TraverseEdge(es, from, to, delta, back) ==
  LET r == GetEdge(es, <<from, to>>) IN
  PutEdge(es, <<from, to>>,
          [r EXCEPT !.n = @ + 1,
                    !.n_call = IF delta # 0 THEN @ + 1 ELSE @,
                    !.n_tail = IF delta # 0 THEN @ ELSE @ + 1,
                    !.back = @ \/ back \/ T_LONGJMP \in {from, to}])

\* Seeded fault: the base is searched from the top of the stack.
LFindBaseFromTop(stk) ==
  LET at == {i \in DOMAIN stk : IsBase(stk[i].sym)}
  IN  IF at = {} THEN 0 ELSE Min(at)

(* The deepest element whose symbol is the base of the graph, 0 if none.    *)
LFindBase(stk) == Max({0} \cup {i \in DOMAIN stk : IsBase(stk[i].sym)})

-----------------------------------------------------------------------------
(* account_cycles: the cycles since the last change go to one symbol, its   *)
(* callers up to the base get them as cycles of their children.            *)

StopsAt(l, base) ==
  /\ ~l.is_leaf
  /\ ~IsSkip(l.sym)
  /\ \/ l.sym = base.sym \/ IsBase(l.sym) \/ IsLeaf(l.sym)
     \/ l.is_sub \/ IsSub(l.sym)
     \/ ~(IsReserved(l.sym) \/ IsReservedCaller(l.from))

AccountNode(stk, base) ==
  Min({i \in 1 .. base : i = base \/ StopsAt(stk[i], stk[base])})

\* Seeded fault: without cycles.done.
CallersUnmarked(stk, k, base) == {stk[i].sym : i \in k + 1 .. base}

(* cycles.done: a function that is on the stack several times is accounted  *)
(* once.                                                                   *)
Callers(stk, k, base) == {stk[i].sym : i \in k .. base} \ {stk[k].sym}

Account(stk, base, cycles) ==
  LET k       == AccountNode(stk, base)
      me      == stk[k].sym
      parents == Callers(stk, k, base)
  IN /\ own' = [own EXCEPT ![me] = @ + cycles]
     /\ childs' = [s \in Symbols |-> IF s \in parents THEN childs[s] + cycles
                                                      ELSE childs[s]]

(* The edge into the symbol gets the cycles, too, unless it is the base.    *)
AccountEdge(es, stk, base, cycles) ==
  LET k == AccountNode(stk, base)
      e == <<stk[k].from, stk[k].sym>>
  IN IF k = base THEN es
     ELSE PutEdge(es, e, [GetEdge(es, e) EXCEPT !.n_cycles = @ + cycles])

AccountCycles(stk, now) ==
  LET base == LFindBase(stk) IN
  /\ cycle' = now
  /\ IF base = 0 THEN UNCHANGED << own, childs >>
                 ELSE Account(stk, base, now - cycle)

AccountedEdges(stk, now) ==
  LET base == LFindBase(stk) IN
  IF base = 0 THEN edges ELSE AccountEdge(edges, stk, base, now - cycle)

AccountedCycles(stk, now) ==
  IF LFindBase(stk) = 0 THEN graph_cycles ELSE graph_cycles + (now - cycle)

-----------------------------------------------------------------------------
(* update_call_stack                                                       *)

\* Seeded fault: is_leaf is not inherited.
NewNodeNotSticky(stk, sym, delta, sp) ==
  LET l == Head(stk) IN
  [sym |-> sym, from |-> l.sym, depth |-> l.depth + delta, sp |-> sp,
   is_leaf |-> IsLeaf(l.sym),
   is_sub  |-> (l.is_sub \/ IsSub(l.sym)) /\ ~IsLeaf(l.sym)]

NewNode(stk, sym, delta, sp) ==
  LET l == Head(stk) IN
  [sym |-> sym, from |-> l.sym, depth |-> l.depth + delta, sp |-> sp,
   is_leaf |-> l.is_leaf \/ IsLeaf(l.sym),
   is_sub  |-> (l.is_sub \/ IsSub(l.sym)) /\ ~IsLeaf(l.sym)]

\* Seeded fault: a return does not remove the callers of tail calls.
DropNone(stk, sp) == stk

(* What is left when all elements entered with a deeper stack are removed;  *)
(* the bottom element always stays.                                        *)
DropDeeper(stk, sp) ==
  LET k == Min({i \in DOMAIN stk : i = Len(stk) \/ stk[i].sp >= sp})
  IN  SubSeq(stk, k, Len(stk))

(* A return removes one element, and those of functions that ended in a     *)
(* tail call; the elements below main are left alone.                      *)
AfterReturn(stk, sp) ==
  IF Len(stk) = 1 THEN stk
  ELSE IF Head(stk).sym = T_MAIN THEN Tail(stk)
  ELSE DropDeeper(Tail(stk), sp)

(* A longjmp to a symbol removes what is above that symbol.                 *)
Unwind(stk, sym, sp) ==
  LET at == {i \in DOMAIN stk : stk[i].sym = sym}
      to == IF at = {} THEN stk ELSE SubSeq(stk, Min(at), Len(stk))
  IN  DropDeeper(to, sp)

(* A push takes its element from the free list, a pop puts it there.        *)
Replace(stk, new) ==
  /\ ystack' = new
  /\ yfree' = Reverse(SubSeq(stk, 1, Len(stk) - Len(new))) \o yfree

Push(stk, free, l) ==
  /\ ystack' = <<l>> \o stk
  /\ yfree' = IF free = << >> THEN << >> ELSE Tail(free)

(* A jump that leaves frames without the function longjmp is drawn with a   *)
(* symbol of its own, at the address of the jump.                          *)
LongjmpSymbol(from, old_PC) == IF from = T_LONGJMP THEN from ELSE old_PC

LongjmpEdges(es, from, to, old_PC) ==
  LET via == LongjmpSymbol(from, old_PC)
      in  == IF from = T_LONGJMP THEN es
             ELSE TraverseEdge(es, from, via, 0, TRUE)
  IN  TraverseEdge(in, via, to, 0, TRUE)

Delta(stk, sym, delta, longjmp) ==
  IF sym = ProgramStop THEN 0
  ELSE IF longjmp \/ Head(stk).sym = T_SETJMP THEN -1
  ELSE delta

UpdateCallStack(stk, free, sym, d, is_longjmp, sp, pc, old_PC, now) ==
  LET top     == Head(stk)
      longjmp == is_longjmp \/ top.sym = T_LONGJMP
      delta   == Delta(stk, sym, d, longjmp)
      es      == AccountedEdges(stk, now)
      target  == IF sym = NoSymbol THEN pc ELSE sym
      new     == IF longjmp THEN Unwind(stk, sym, sp) ELSE AfterReturn(stk, sp)
      via     == LongjmpSymbol(top.sym, old_PC)
  IN
  /\ AccountCycles(stk, now)
  /\ graph_cycles' = AccountedCycles(stk, now)
  /\ \/ \* a jump to itself
        /\ delta = 0 /\ sym = top.sym /\ sp = top.sp
        /\ edges' = TraverseEdge(es, sym, sym, 0, FALSE)
        /\ ystack' = stk /\ yfree' = free
        /\ UNCHANGED << func_sym, hidden >>
     \/ \* a call or a tail call
        /\ delta >= 0
        /\ ~(delta = 0 /\ sym = top.sym /\ sp = top.sp)
        /\ edges' = TraverseEdge(es, top.sym, target, delta, FALSE)
        /\ Push(stk, free, NewNode(stk, target, delta, sp))
        /\ func_sym' = func_sym \cup ({target} \cap Addresses)
        /\ hidden' = hidden \ {target}
     \/ \* a return
        /\ delta < 0 /\ ~longjmp
        /\ edges' = es
        /\ Replace(stk, new)
        /\ UNCHANGED << func_sym, hidden >>
     \/ \* a longjmp
        /\ delta < 0 /\ longjmp
        /\ edges' = LongjmpEdges(es, top.sym, Head(new).sym, old_PC)
        /\ Replace(stk, new)
        /\ func_sym' = func_sym \cup {via}
        /\ hidden' = IF via \in func_sym THEN hidden ELSE hidden \cup {via}

-----------------------------------------------------------------------------
(* graph_update_call_depth, after each instruction.  i: its id, whether it  *)
(* is a call of the next instruction, its address, the program counter, the *)
(* stack pointer and the program cycles after it.                          *)

Calls == {"RCALL", "CALL", "ICALL", "EICALL"}
Jumps == {"RJMP", "JMP"}
IndirectJumps == {"IJMP", "EIJMP"}

CallOf(i) ==
  CASE i.id = "RCALL"                           -> IF i.next THEN 0 ELSE 1
    [] i.id \in {"CALL", "ICALL", "EICALL"}     -> 1
    [] i.id = "RETI"                            -> -1
    [] i.id = "RET" /\ graph_id # "PUSH"        -> -1
    [] OTHER                                    -> 0

EntersHelper(i) ==
  pro_ep = "" /\ i.id \in Jumps /\ i.pc[1] \in Helpers \cap Named
LeavesHelper(i) ==
  pro_ep # "" /\ i.id \in IndirectJumps \cup {"RET"}

NextProEp(i) == IF EntersHelper(i) THEN i.pc[1]
                ELSE IF LeavesHelper(i) THEN "" ELSE pro_ep

(* The symbol that is entered, if any.                                      *)
Fun(i) ==
  IF i.pc \in func_sym \ hidden /\ ~EntersHelper(i) /\ ~LeavesHelper(i)
  THEN i.pc ELSE NoSymbol

Suspect(i) == i.id \in IndirectJumps \/ (i.id = "RET" /\ graph_id = "PUSH")

MaybeLongjmp(i, sp) ==
  LET cur == Head(ystack) IN
  CASE cur.sym = T_SETJMP  -> i.id = "RET" /\ graph_id = "PUSH"
    [] cur.sym = T_LONGJMP -> i.id \in IndirectJumps
    [] OTHER               -> Suspect(i) /\ sp > cur.sp

Changed(i) ==
  \/ CallOf(i) # 0
  \/ Fun(i) # NoSymbol
  \/ Head(ystack).sym = T_SETJMP /\ i.id \in IndirectJumps

NextMainReturn(i) ==
  IF Fun(i) # T_MAIN THEN main_return
  ELSE [n_call |-> main_return.n_call + 1,
        pc |-> IF CallOf(i) = 1 THEN Inside(i.old[1]) ELSE main_return.pc]

\* Seeded fault: any element of the free list is taken for main's.
MainReturnsStale(i) ==
  /\ Fun(i) \in Exits
  /\ i.id \in Jumps
  /\ yfree # << >>

(* The first instruction after main's return jumps to exit: take it for a   *)
(* call of exit by main.                                                   *)
MainReturns(i) ==
  /\ Fun(i) \in Exits
  /\ graph_id = "RET" /\ i.id \in Jumps
  /\ main_return.n_call = 1 /\ main_return.pc = i.old
  /\ yfree # << >> /\ Head(yfree).sym = T_MAIN
  /\ Head(yfree).from = Head(ystack).sym

(* get_nonglitch_SP: between two writes to SP the last value is used.       *)
NonglitchSP(i) == IF i.glitch THEN nonglitch_SP ELSE i.sp

ReadsSP(i) ==
  LET cur == Head(ystack).sym IN
  \/ Changed(i)
  \/ Suspect(i) /\ cur \notin {T_SETJMP, T_LONGJMP}
  \/ MaybeLongjmp(i, NonglitchSP(i))

UpdateCallDepth(i) ==
  LET sp   == NonglitchSP(i)
      stk  == IF MainReturns(i) THEN <<Head(yfree)>> \o ystack ELSE ystack
      free == IF MainReturns(i) THEN Tail(yfree) ELSE yfree
      long == MaybeLongjmp(i, sp)
  IN
  /\ graph_id' = i.id
  /\ main_return' = NextMainReturn(i)
  /\ pro_ep' = NextProEp(i)
  /\ nonglitch_SP' = IF ReadsSP(i) THEN sp ELSE nonglitch_SP
  /\ UNCHANGED options
  /\ \/ /\ Changed(i) \/ long
        /\ UpdateCallStack(stk, free, Fun(i), CallOf(i), long, sp,
                           i.pc, i.old, i.now)
     \/ /\ ~(Changed(i) \/ long)
        /\ UNCHANGED << ystack, yfree, edges, own, childs, graph_cycles,
                        func_sym, hidden, cycle >>

(* graph_write_dot, when the simulator leaves: the cycles since the last    *)
(* change are accounted, and the end of the program gets a node.            *)
WriteDot(i) ==
  /\ UpdateCallStack(ystack, yfree, ProgramStop, 0, FALSE, NonglitchSP(i),
                     i.pc, i.old, i.now)
  /\ nonglitch_SP' = NonglitchSP(i)
  /\ UNCHANGED << options, graph_id, main_return, pro_ep >>

(* graph_finish_string_table: the call stack holds the entry of the program.*)
(* The graph starts at the function the user asks for; if the program has   *)
(* none of that name at main, and without main at its entry.                *)
BaseOf(asked, entry) ==
  LET named == {Entry(f) : f \in asked \cap Named}
  IN IF named # {} THEN named
     ELSE IF "main" \in Named THEN {T_MAIN} ELSE {entry}

GraphInit(opt, entry) ==
  /\ options = [base |-> BaseOf(opt.base, entry), leaf |-> opt.leaf,
                sub |-> opt.sub, skip |-> opt.skip, reserved |-> opt.reserved]
  /\ func_sym = {Entry(f) : f \in Named}
  /\ hidden = {}
  /\ ystack = <<[sym |-> entry, from |-> EntryPoint, depth |-> 0, sp |-> 0,
                 is_leaf |-> FALSE, is_sub |-> FALSE]>>
  /\ yfree = << >>
  /\ edges = [e \in {<<EntryPoint, entry>>} |-> NewEdge]
  /\ own = [s \in Symbols |-> 0] /\ childs = [s \in Symbols |-> 0]
  /\ graph_cycles = 0 /\ graph_id = "" /\ cycle = 0
  /\ main_return = [n_call |-> 0, pc |-> NoSymbol]
  /\ pro_ep = "" /\ nonglitch_SP = 0

=============================================================================
