--------------------------- MODULE CallGraphProofs ---------------------------
(***************************************************************************)
(* Proofs about the call graph, for every program and every bound on it.    *)
(*                                                                         *)
(* What a step does to the costs depends on the time that passed since the  *)
(* call stack changed last, and on nothing else that the stack holds:       *)
(* whichever element pays and whichever callers it has, no symbol is        *)
(* charged twice.                                                          *)
(***************************************************************************)
EXTENDS TracedProgram, TLAPS, FiniteSetTheorems, SequenceTheorems, NaturalsInduction, WellFoundedInduction

CostTypeOK ==
  /\ own \in [Symbols -> Nat] /\ childs \in [Symbols -> Nat]
  /\ graph_cycles \in Nat /\ cycle \in Nat /\ n_cycles \in Nat

CostInv == CostTypeOK /\ CostsBounded

(* One instruction takes a cycle, and the end of the program takes none: the *)
(* clock of the call graph never runs ahead of the program's.               *)
Accounts(now) ==
  \/ UNCHANGED << own, childs, graph_cycles, cycle >>
  \/ \E stk : AccountCycles(stk, now) /\ graph_cycles' = AccountedCycles(stk, now)

(* update_call_stack accounts the cycles first, whatever it does to the     *)
(* stack then.                                                             *)
LEMMA UpdateAccounts ==
  ASSUME NEW stk, NEW free, NEW sym, NEW d, NEW lj, NEW sp, NEW to, NEW old, NEW now,
         UpdateCallStack(stk, free, sym, d, lj, sp, to, old, now)
  PROVE  Accounts(now)
BY DEF UpdateCallStack, Accounts

(* The symbol that pays is none of the callers that are charged with it.    *)
LEMMA PayerIsNoCaller ==
  ASSUME NEW stk, NEW k, NEW base
  PROVE  stk[k].sym \notin Callers(stk, k, base)
BY DEF Callers

(* account: every symbol is charged at most the cycles that are accounted.  *)
LEMMA AccountCharges ==
  ASSUME NEW stk, NEW base, NEW c \in Nat, CostTypeOK,
         Account(stk, base, c)
  PROVE  /\ own' \in [Symbols -> Nat] /\ childs' \in [Symbols -> Nat]
         /\ \A s \in Symbols : own'[s] + childs'[s] <= own[s] + childs[s] + c
<1> DEFINE k == AccountNode(stk, base)
           me == stk[k].sym
           parents == Callers(stk, k, base)
<1>1. /\ own' = [own EXCEPT ![me] = @ + c]
      /\ childs' = [s \in Symbols |-> IF s \in parents THEN childs[s] + c
                                                       ELSE childs[s]]
  BY DEF Account
<1>2. me \notin parents
  BY PayerIsNoCaller
<1> HIDE DEF k, me, parents
<1>3. own \in [Symbols -> Nat] /\ childs \in [Symbols -> Nat]
  BY DEF CostTypeOK
<1>4. own' \in [Symbols -> Nat]
  <2>1. own' = [s \in Symbols |-> IF s = me THEN own[s] + c ELSE own[s]]
    BY <1>1, <1>3
  <2>2. \A s \in Symbols : own[s] \in Nat /\ own[s] + c \in Nat
    BY <1>3
  <2> QED BY <2>1, <2>2
<1>5. childs' \in [Symbols -> Nat]
  BY <1>1, <1>3
<1>6. ASSUME NEW s \in Symbols
      PROVE  own'[s] + childs'[s] <= own[s] + childs[s] + c
  <2>1. own[s] \in Nat /\ childs[s] \in Nat
    BY <1>3
  <2>2. CASE s = me
    <3>1. own'[s] = own[s] + c
      BY <1>1, <1>3, <2>2
    <3>2. childs'[s] = childs[s]
      BY <1>1, <1>2, <2>2
    <3> QED BY <3>1, <3>2, <2>1
  <2>3. CASE s # me
    <3>1. own'[s] = own[s]
      BY <1>1, <1>3, <2>3
    <3>2. childs'[s] = childs[s] + c \/ childs'[s] = childs[s]
      BY <1>1
    <3> QED BY <3>1, <3>2, <2>1
  <2> QED BY <2>2, <2>3
<1> QED BY <1>4, <1>5, <1>6

(* What is accounted by the time m, when c was the time of the last account. *)
LEMMA AccountedInTime ==
  ASSUME NEW g \in Nat, NEW c \in Nat, NEW n \in Nat, NEW m \in Nat,
         g <= c, c <= n, n <= m
  PROVE  m - c \in Nat /\ g + (m - c) \in Nat /\ g + (m - c) <= m
OBVIOUS

(* account_cycles keeps the costs below the cycles accounted, and those      *)
(* below the program's.                                                    *)
LEMMA AccountsKeepCosts ==
  ASSUME CostInv, Accounts(n_cycles'), n_cycles' \in Nat, n_cycles <= n_cycles'
  PROVE  CostInv'
<1>1. /\ own \in [Symbols -> Nat] /\ childs \in [Symbols -> Nat]
      /\ graph_cycles \in Nat /\ cycle \in Nat
      /\ n_cycles \in Nat /\ n_cycles' \in Nat /\ n_cycles <= n_cycles'
      /\ \A s \in Symbols : own[s] + childs[s] <= graph_cycles
      /\ graph_cycles <= cycle /\ cycle <= n_cycles
  BY DEF CostInv, CostTypeOK, CostsBounded
<1>2. CASE UNCHANGED << own, childs, graph_cycles, cycle >>
  BY <1>1, <1>2 DEF CostInv, CostTypeOK, CostsBounded
<1>3. CASE \E stk : /\ AccountCycles(stk, n_cycles')
                    /\ graph_cycles' = AccountedCycles(stk, n_cycles')
  <2>1. PICK stk : /\ AccountCycles(stk, n_cycles')
                   /\ graph_cycles' = AccountedCycles(stk, n_cycles')
    BY <1>3
  <2> DEFINE base == LFindBase(stk)
             c == n_cycles' - cycle
  <2>2. cycle' = n_cycles' /\ c \in Nat
    <3>1. cycle' = n_cycles'
      BY <2>1 DEF AccountCycles
    <3>2. c \in Nat
      BY <1>1, AccountedInTime
    <3> QED BY <3>1, <3>2
  <2>3. CASE base = 0
    <3>1. UNCHANGED << own, childs, graph_cycles >>
      BY <2>1, <2>3 DEF AccountCycles, AccountedCycles
    <3> QED BY <1>1, <2>2, <3>1 DEF CostInv, CostTypeOK, CostsBounded
  <2>4. CASE base # 0
    <3>1. Account(stk, base, c) /\ graph_cycles' = graph_cycles + c
      BY <2>1, <2>4 DEF AccountCycles, AccountedCycles
    <3>2. /\ own' \in [Symbols -> Nat] /\ childs' \in [Symbols -> Nat]
          /\ \A s \in Symbols : own'[s] + childs'[s] <= own[s] + childs[s] + c
      BY <3>1, <2>2, AccountCharges DEF CostInv
    <3>3. graph_cycles' \in Nat /\ graph_cycles' <= n_cycles'
      <4>1. graph_cycles' = graph_cycles + (n_cycles' - cycle)
        BY <3>1
      <4> QED BY <1>1, <4>1, AccountedInTime
    <3>4. ASSUME NEW s \in Symbols PROVE own'[s] + childs'[s] <= graph_cycles'
      <4>1. own[s] \in Nat /\ childs[s] \in Nat /\ own'[s] \in Nat /\ childs'[s] \in Nat
        BY <1>1, <3>2
      <4>2. own'[s] + childs'[s] <= own[s] + childs[s] + c
        BY <3>2
      <4>3. own[s] + childs[s] <= graph_cycles
        BY <1>1
      <4> HIDE DEF c
      <4> QED BY <1>1, <2>2, <3>1, <4>1, <4>2, <4>3
    <3> QED BY <2>2, <3>2, <3>3, <3>4 DEF CostInv, CostTypeOK, CostsBounded
  <2> QED BY <2>3, <2>4
<1> QED BY <1>2, <1>3 DEF Accounts

(* graph_update_call_depth accounts up to the time it is called at, or not.   *)
LEMMA CallDepthAccounts ==
  ASSUME NEW i, UpdateCallDepth(i)
  PROVE  Accounts(i.now)
<1>1. CASE Changed(i) \/ MaybeLongjmp(i, NonglitchSP(i))
  BY <1>1, UpdateAccounts DEF UpdateCallDepth
<1>2. CASE ~(Changed(i) \/ MaybeLongjmp(i, NonglitchSP(i)))
  BY <1>2 DEF UpdateCallDepth, Accounts
<1> QED BY <1>1, <1>2

(* What takes place in a step of the program: one instruction, or its end.   *)
LEMMA ExecutesAccounts ==
  ASSUME NEW id, NEW to, NEW mem, Executes(id, to, mem), n_cycles \in Nat
  PROVE  Accounts(n_cycles') /\ n_cycles' \in Nat /\ n_cycles <= n_cycles'
<1>1. n_cycles' = n_cycles + 1
  BY DEF Executes
<1>2. PICK i : UpdateCallDepth(i) /\ i.now = n_cycles'
  BY DEF Executes
<1>3. Accounts(n_cycles')
  BY <1>2, CallDepthAccounts
<1> QED BY <1>1, <1>3

LEMMA LeaveAccounts ==
  ASSUME Leave, n_cycles \in Nat
  PROVE  Accounts(n_cycles') /\ n_cycles' = n_cycles
<1>1. n_cycles' = n_cycles
  BY DEF Leave
<1>2. PICK i : WriteDot(i) /\ i.now = n_cycles
  BY DEF Leave
<1>3. Accounts(i.now)
  BY <1>2, UpdateAccounts DEF WriteDot
<1> QED BY <1>1, <1>2, <1>3

(* Every action of the program but its end executes one instruction.        *)
LEMMA NextExecutes ==
  ASSUME Next
  PROVE  Leave \/ \E id, to, mem : Executes(id, to, mem)
<1>1. CASE JumpToInit \/ SetSP
  BY <1>1 DEF JumpToInit, SetSP
<1>2. ASSUME NEW f \in Regions, FallInto(f) \/ PushTarget(f)
      PROVE  \E id, to, mem : Executes(id, to, mem)
  BY <1>2 DEF FallInto, PushTarget
<1>3. ASSUME NEW f \in Regions, NEW id, Call(id, f) \/ TailCall(id, f)
      PROVE  \E i, to, mem : Executes(i, to, mem)
  BY <1>3 DEF Call, TailCall
<1>4. CASE RetToTarget \/ Allocate \/ PushData \/ PopData \/ FreeStack
  BY <1>4 DEF RetToTarget, Allocate, PushData, PopData, FreeStack
<1>5. ASSUME NEW id, Ret(id) \/ JumpToExit(id)
      PROVE  \E i, to, mem : Executes(i, to, mem)
  BY <1>5 DEF Ret, JumpToExit
<1>6. ASSUME NEW k, Prologue(k) \/ Epilogue(k)
      PROVE  \E id, to, mem : Executes(id, to, mem)
  BY <1>6 DEF Prologue, Epilogue
<1>7. CASE Switch \/ TableJump \/ Work
  BY <1>7 DEF Switch, TableJump, Work
<1>8. CASE SetjmpPop \/ SetjmpReturn \/ LongjmpCall \/ RestoreSP
           \/ LongjmpJump \/ LongjmpToReset
  BY <1>8 DEF SetjmpPop, SetjmpReturn, LongjmpCall, RestoreSP, LongjmpJump,
              LongjmpToReset
<1> QED BY <1>1, <1>2, <1>3, <1>4, <1>5, <1>6, <1>7, <1>8 DEF Next

-----------------------------------------------------------------------------

LEMMA CostInit ==
  ASSUME Init
  PROVE  CostInv
<1>1. /\ own = [s \in Symbols |-> 0] /\ childs = [s \in Symbols |-> 0]
      /\ graph_cycles = 0 /\ cycle = 0 /\ n_cycles = 0
  BY Zenon DEF Init, PInit, GraphInit
<1> QED BY <1>1 DEF CostInv, CostTypeOK, CostsBounded

LEMMA CostNext ==
  ASSUME CostInv, [Next]_vars
  PROVE  CostInv'
<1>1. n_cycles \in Nat
  BY DEF CostInv, CostTypeOK
<1>2. CASE Leave
  BY <1>1, <1>2, LeaveAccounts, AccountsKeepCosts
<1>3. ASSUME NEW id, NEW to, NEW mem, Executes(id, to, mem)
      PROVE  CostInv'
  BY <1>1, <1>3, ExecutesAccounts, AccountsKeepCosts
<1>4. CASE UNCHANGED vars
  BY <1>4 DEF vars, cgvars, pvars, CostInv, CostTypeOK, CostsBounded
<1> QED BY <1>2, <1>3, <1>4, NextExecutes

(* For every program, however deep it recurses and whatever the options of   *)
(* the graph are: what a function is charged, for itself and for what it     *)
(* calls, never exceeds the cycles accounted, and these never exceed the     *)
(* cycles of the program.  account of graph.c marks the callers it has been  *)
(* at for this.                                                            *)
THEOREM CostsStayBounded == Spec => []CostsBounded
<1>1. Init => CostInv
  BY CostInit
<1>2. CostInv /\ [Next]_vars => CostInv'
  BY CostNext
<1>3. CostInv => CostsBounded
  BY DEF CostInv
<1> QED BY <1>1, <1>2, <1>3, PTL DEF Spec

-----------------------------------------------------------------------------
(* The call stack is a path of the graph.                                   *)

Linked(stk) == \A i \in 1 .. Len(stk) - 1 : stk[i].from = stk[i + 1].sym

(* Call stacks of elements of T.                                            *)
Stacks(T) == {stk \in Seq(T) : stk # << >> /\ Linked(stk)}

(* The edges of the elements of T, on the stack or free, are in the graph.   *)
PathOf(stk, free, es) ==
  \E T : /\ \A l \in T : <<l.from, l.sym>> \in DOMAIN es
         /\ stk \in Stacks(T) /\ free \in Seq(T)

PathInv == PathOf(ystack, yfree, edges)

(* No edge ever leaves the graph.                                           *)
LEMMA TraverseKeepsEdges ==
  ASSUME NEW es, NEW from, NEW to, NEW d, NEW b
  PROVE  /\ DOMAIN es \subseteq DOMAIN TraverseEdge(es, from, to, d, b)
         /\ <<from, to>> \in DOMAIN TraverseEdge(es, from, to, d, b)
BY DEF TraverseEdge, PutEdge

LEMMA AccountKeepsEdges ==
  ASSUME NEW stk, NEW now
  PROVE  DOMAIN edges \subseteq DOMAIN AccountedEdges(stk, now)
BY DEF AccountedEdges, AccountEdge, PutEdge

LEMMA LongjmpKeepsEdges ==
  ASSUME NEW es, NEW from, NEW to, NEW old
  PROVE  DOMAIN es \subseteq DOMAIN LongjmpEdges(es, from, to, old)
<1> DEFINE via == LongjmpSymbol(from, old)
           in  == IF from = T_LONGJMP THEN es
                  ELSE TraverseEdge(es, from, via, 0, TRUE)
<1>1. DOMAIN es \subseteq DOMAIN in
  BY TraverseKeepsEdges
<1>2. DOMAIN in \subseteq DOMAIN TraverseEdge(in, via, to, 0, TRUE)
  BY TraverseKeepsEdges
<1>3. LongjmpEdges(es, from, to, old) = TraverseEdge(in, via, to, 0, TRUE)
  BY DEF LongjmpEdges
<1> QED BY <1>1, <1>2, <1>3

(* Popping any number of elements, but not all, leaves a path.              *)
LEMMA SuffixIsStack ==
  ASSUME NEW T, NEW stk \in Stacks(T), NEW k \in 1 .. Len(stk)
  PROVE  SubSeq(stk, k, Len(stk)) \in Stacks(T)
<1> DEFINE n == Len(stk)
           s == SubSeq(stk, k, n)
<1>1. stk \in Seq(T) /\ n \in Nat /\ Linked(stk)
  BY DEF Stacks
<1>2. \A i \in k .. n : stk[i] \in T
  BY <1>1, ElementOfSeq
<1>3. /\ s \in Seq(T) /\ Len(s) = n - k + 1
      /\ \A i \in 1 .. n - k + 1 : s[i] = stk[k + i - 1]
  BY <1>1, <1>2, SubSeqProperties
<1>4. ASSUME NEW i \in 1 .. Len(s) - 1
      PROVE  s[i].from = s[i + 1].sym
  <2>1. s[i] = stk[k + i - 1] /\ s[i + 1] = stk[(k + i - 1) + 1]
    BY <1>1, <1>3
  <2>2. k + i - 1 \in 1 .. n - 1
    BY <1>1, <1>3
  <2> HIDE DEF s
  <2> QED BY <1>1, <2>1, <2>2 DEF Linked
<1>5. s # << >>
  <2>1. n - k + 1 # 0
    BY <1>1
  <2> HIDE DEF s, n
  <2> QED BY <1>3, <2>1, EmptySeq
<1> QED BY <1>3, <1>4, <1>5 DEF Stacks, Linked

LEMMA Least ==
  ASSUME NEW S, S \subseteq Nat, S # {}
  PROVE  Min(S) \in S /\ \A x \in S : Min(S) <= x
<1> DEFINE R == {ss \in Nat \X Nat : ss[1] < ss[2]}
<1>1. IsWellFoundedOn(R, Nat)
  BY NatLessThanWellFounded, Zenon DEF OpToRel
<1> HIDE DEF R
<1>2. PICK x \in S : \A y \in S : ~ (<< y, x >> \in R)
  BY <1>1, WFMin
<1>3. ASSUME NEW y \in S PROVE x <= y
  <2>1. x \in Nat /\ y \in Nat
    OBVIOUS
  <2>2. ASSUME y < x PROVE FALSE
    BY <1>2, <2>1, <2>2 DEF R
  <2> QED BY <2>1, <2>2
<1> QED BY <1>3 DEF Min

LEMMA DropDeeperIsStack ==
  ASSUME NEW T, NEW stk \in Stacks(T), NEW sp
  PROVE  DropDeeper(stk, sp) \in Stacks(T)
<1> DEFINE S == {i \in DOMAIN stk : i = Len(stk) \/ stk[i].sp >= sp}
<1>1. stk \in Seq(T) /\ Len(stk) \in Nat \ {0} /\ DOMAIN stk = 1 .. Len(stk)
  BY EmptySeq, LenProperties DEF Stacks
<1>2. Len(stk) \in S /\ S \subseteq Nat
  BY <1>1
<1>3. Min(S) \in 1 .. Len(stk)
  BY <1>1, <1>2, Least
<1> HIDE DEF S
<1>4. SubSeq(stk, Min(S), Len(stk)) \in Stacks(T)
  BY <1>3, SuffixIsStack
<1> QED BY <1>4 DEF DropDeeper, S

LEMMA AfterReturnIsStack ==
  ASSUME NEW T, NEW stk \in Stacks(T), NEW sp
  PROVE  AfterReturn(stk, sp) \in Stacks(T)
<1>1. stk \in Seq(T) /\ stk # << >> /\ Len(stk) \in Nat \ {0}
  BY EmptySeq DEF Stacks
<1>2. CASE Len(stk) = 1
  BY <1>2 DEF AfterReturn
<1>3. CASE Len(stk) # 1
  <2>1. Tail(stk) = SubSeq(stk, 2, Len(stk))
    BY <1>1, TailIsSubSeq
  <2>2. PICK k \in 1 .. Len(stk) : k = 2
    <3>1. \A n \in Nat \ {0} : n # 1 => 2 \in 1 .. n
      OBVIOUS
    <3> QED BY <1>1, <1>3, <3>1
  <2>3. Tail(stk) \in Stacks(T)
    BY <2>1, <2>2, SuffixIsStack
  <2> QED BY <1>3, <2>3, DropDeeperIsStack DEF AfterReturn
<1> QED BY <1>2, <1>3

LEMMA UnwindIsStack ==
  ASSUME NEW T, NEW stk \in Stacks(T), NEW sym, NEW sp
  PROVE  Unwind(stk, sym, sp) \in Stacks(T)
<1> DEFINE at == {i \in DOMAIN stk : stk[i].sym = sym}
           to == IF at = {} THEN stk ELSE SubSeq(stk, Min(at), Len(stk))
<1>1. at \subseteq 1 .. Len(stk) /\ at \subseteq Nat
  BY LenProperties DEF Stacks
<1>2. to \in Stacks(T)
  BY <1>1, Least, SuffixIsStack
<1> HIDE DEF to
<1>3. DropDeeper(to, sp) \in Stacks(T)
  BY <1>2, DropDeeperIsStack
<1> QED BY <1>3 DEF Unwind, to

(* What is pushed hangs on the top of the stack.                            *)
LEMMA PushedIsStack ==
  ASSUME NEW T, NEW stk \in Stacks(T), NEW l \in T, l.from = Head(stk).sym
  PROVE  <<l>> \o stk \in Stacks(T)
<1> DEFINE s == <<l>> \o stk
<1>1. stk \in Seq(T) /\ Len(stk) \in Nat \ {0} /\ Linked(stk) /\ Head(stk) = stk[1]
  BY EmptySeq DEF Stacks
<1>2. <<l>> \in Seq(T) /\ Len(<<l>>) = 1 /\ <<l>>[1] = l
  OBVIOUS
<1>3. s \in Seq(T) /\ Len(s) = 1 + Len(stk)
  BY <1>1, <1>2, ConcatProperties
<1>4. \A i \in 1 .. Len(s) : s[i] = IF i <= 1 THEN <<l>>[i] ELSE stk[i - 1]
  BY <1>1, <1>2, ConcatProperties
<1>5. ASSUME NEW i \in 1 .. Len(s) - 1
      PROVE  s[i].from = s[i + 1].sym
  <2>1. i \in Nat /\ i + 1 \in 1 .. Len(s) /\ i \in 1 .. Len(s) /\ (i + 1) - 1 = i
    BY <1>1, <1>3
  <2>2. s[i + 1] = stk[i]
    BY <1>4, <2>1
  <2>3. CASE i = 1
    BY <1>1, <1>2, <1>4, <2>1, <2>2, <2>3
  <2>4. CASE i # 1
    <3>1. s[i] = stk[i - 1] /\ i - 1 \in 1 .. Len(stk) - 1 /\ (i - 1) + 1 = i
      BY <1>1, <1>3, <1>4, <2>1, <2>4
    <3>2. stk[i - 1].from = stk[(i - 1) + 1].sym
      BY <1>1, <3>1 DEF Linked
    <3> QED BY <2>2, <3>1, <3>2
  <2> QED BY <2>3, <2>4
<1>6. s # << >>
  BY <1>1, <1>3, EmptySeq
<1> QED BY <1>3, <1>5, <1>6 DEF Stacks, Linked

(* update_call_stack: what is popped goes to the free list, what is pushed   *)
(* comes with its edge.                                                    *)
LEMMA ReplaceKeepsPath ==
  ASSUME NEW T, NEW stk \in Stacks(T), NEW new \in Stacks(T), yfree \in Seq(T),
         Replace(stk, new)
  PROVE  ystack' \in Stacks(T) /\ yfree' \in Seq(T)
<1> DEFINE n == Len(stk) - Len(new)
           p == SubSeq(stk, 1, n)
<1>1. Len(stk) \in Nat /\ Len(new) \in Nat /\ stk \in Seq(T)
  BY LenProperties DEF Stacks
<1>2. n \in Int /\ \A i \in 1 .. n : i \in 1 .. Len(stk)
  BY <1>1
<1>3. \A i \in 1 .. n : stk[i] \in T
  BY <1>1, <1>2, ElementOfSeq
<1> HIDE DEF n
<1>4. p \in Seq(T)
  BY <1>2, <1>3, SubSeqProperties
<1> HIDE DEF p
<1>5. Reverse(p) \in Seq(T)
  <2>1. Len(p) \in Nat
    BY <1>4, LenProperties
  <2>2. ASSUME NEW i \in 1 .. Len(p) PROVE p[(Len(p) - i) + 1] \in T
    <3>1. (Len(p) - i) + 1 \in 1 .. Len(p)
      BY <2>1
    <3> QED BY <1>4, <3>1, ElementOfSeq
  <2>3. Reverse(p) \in [1 .. Len(p) -> T]
    BY <2>2 DEF Reverse
  <2> QED BY <2>1, <2>3, SeqDef
<1>6. Reverse(p) \o yfree \in Seq(T)
  BY <1>5, ConcatProperties
<1> QED BY <1>6 DEF Replace, p, n

LEMMA PushKeepsPath ==
  ASSUME NEW T, NEW stk \in Stacks(T), NEW free \in Seq(T),
         NEW l, l.from = Head(stk).sym, Push(stk, free, l)
  PROVE  ystack' \in Stacks(T \cup {l}) /\ yfree' \in Seq(T \cup {l})
<1>1. stk \in Seq(T) /\ stk \in Seq(T \cup {l}) /\ free \in Seq(T \cup {l})
  BY SeqMonotonic DEF Stacks
<1>2. stk \in Stacks(T \cup {l})
  BY <1>1 DEF Stacks
<1>3. <<l>> \o stk \in Stacks(T \cup {l})
  BY <1>2, PushedIsStack
<1>4. free # << >> => Tail(free) \in Seq(T \cup {l})
  BY <1>1, HeadTailProperties
<1>5. << >> \in Seq(T \cup {l})
  BY EmptySeq
<1> QED BY <1>3, <1>4, <1>5 DEF Push

LEMMA UpdateKeepsPath ==
  ASSUME NEW T, \A l \in T : <<l.from, l.sym>> \in DOMAIN edges,
         NEW stk \in Stacks(T), NEW free \in Seq(T), yfree \in Seq(T),
         NEW sym, NEW d, NEW lj, NEW sp, NEW to, NEW old, NEW now,
         UpdateCallStack(stk, free, sym, d, lj, sp, to, old, now)
  PROVE  PathOf(ystack', yfree', edges')
<1> DEFINE top     == Head(stk)
           longjmp == lj \/ top.sym = T_LONGJMP
           delta   == Delta(stk, sym, d, longjmp)
           es      == AccountedEdges(stk, now)
           target  == IF sym = NoSymbol THEN to ELSE sym
           new     == IF longjmp THEN Unwind(stk, sym, sp) ELSE AfterReturn(stk, sp)
<1>1. DOMAIN edges \subseteq DOMAIN es
  BY AccountKeepsEdges
<1>2. new \in Stacks(T)
  BY UnwindIsStack, AfterReturnIsStack
<1>3. CASE edges' = TraverseEdge(es, sym, sym, 0, FALSE) /\ ystack' = stk /\ yfree' = free
  <2>1. DOMAIN es \subseteq DOMAIN edges'
    BY <1>3, TraverseKeepsEdges
  <2> HIDE DEF es
  <2> QED BY <1>1, <1>3, <2>1 DEF PathOf
<1>4. CASE /\ edges' = TraverseEdge(es, top.sym, target, delta, FALSE)
           /\ Push(stk, free, NewNode(stk, target, delta, sp))
  <2> DEFINE l == NewNode(stk, target, delta, sp)
  <2>1. l.from = top.sym /\ l.sym = target
    BY DEF NewNode
  <2>2. DOMAIN es \subseteq DOMAIN edges' /\ <<top.sym, target>> \in DOMAIN edges'
    BY <1>4, TraverseKeepsEdges
  <2> HIDE DEF l, es, target, delta
  <2>3. ystack' \in Stacks(T \cup {l}) /\ yfree' \in Seq(T \cup {l})
    BY <1>4, <2>1, PushKeepsPath DEF l
  <2>4. \A x \in T \cup {l} : <<x.from, x.sym>> \in DOMAIN edges'
    BY <1>1, <2>1, <2>2
  <2> QED BY <2>3, <2>4 DEF PathOf
<1>5. CASE edges' = es /\ Replace(stk, new)
  <2>1. ystack' \in Stacks(T) /\ yfree' \in Seq(T)
    BY <1>2, <1>5, ReplaceKeepsPath
  <2> HIDE DEF es, new
  <2> QED BY <1>1, <1>5, <2>1 DEF PathOf
<1>6. CASE /\ edges' = LongjmpEdges(es, top.sym, Head(new).sym, old)
           /\ Replace(stk, new)
  <2>1. ystack' \in Stacks(T) /\ yfree' \in Seq(T)
    BY <1>2, <1>6, ReplaceKeepsPath
  <2>2. DOMAIN es \subseteq DOMAIN edges'
    BY <1>6, LongjmpKeepsEdges
  <2> HIDE DEF es, new
  <2> QED BY <1>1, <2>1, <2>2 DEF PathOf
<1>7. \/ edges' = TraverseEdge(es, sym, sym, 0, FALSE) /\ ystack' = stk /\ yfree' = free
      \/ /\ edges' = TraverseEdge(es, top.sym, target, delta, FALSE)
         /\ Push(stk, free, NewNode(stk, target, delta, sp))
      \/ edges' = es /\ Replace(stk, new)
      \/ /\ edges' = LongjmpEdges(es, top.sym, Head(new).sym, old)
         /\ Replace(stk, new)
  BY Zenon DEF UpdateCallStack
<1> QED BY <1>3, <1>4, <1>5, <1>6, <1>7

(* When main is taken back from the free list, it hangs on the top again.    *)
LEMMA CallDepthKeepsPath ==
  ASSUME PathInv, NEW i, UpdateCallDepth(i)
  PROVE  PathOf(ystack', yfree', edges')
<1>1. PICK T : /\ \A l \in T : <<l.from, l.sym>> \in DOMAIN edges
               /\ ystack \in Stacks(T) /\ yfree \in Seq(T)
  BY DEF PathInv, PathOf
<1> DEFINE stk  == IF MainReturns(i) THEN <<Head(yfree)>> \o ystack ELSE ystack
           free == IF MainReturns(i) THEN Tail(yfree) ELSE yfree
<1>2. stk \in Stacks(T) /\ free \in Seq(T)
  <2>1. CASE MainReturns(i)
    <3>1. yfree # << >> /\ Head(yfree).from = Head(ystack).sym
      BY <2>1 DEF MainReturns
    <3>2. Head(yfree) \in T /\ Tail(yfree) \in Seq(T)
      BY <1>1, <3>1, HeadTailProperties
    <3>3. <<Head(yfree)>> \o ystack \in Stacks(T)
      BY <1>1, <3>1, <3>2, PushedIsStack
    <3> QED BY <2>1, <3>2, <3>3
  <2>2. CASE ~MainReturns(i)
    BY <1>1, <2>2
  <2> QED BY <2>1, <2>2
<1> HIDE DEF stk, free
<1>3. \/ \E lj, sp : UpdateCallStack(stk, free, Fun(i), CallOf(i), lj, sp,
                                     i.pc, i.old, i.now)
      \/ UNCHANGED << ystack, yfree, edges >>
  BY Zenon DEF UpdateCallDepth, stk, free
<1>4. CASE \E lj, sp : UpdateCallStack(stk, free, Fun(i), CallOf(i), lj, sp,
                                       i.pc, i.old, i.now)
  BY <1>1, <1>2, <1>4, UpdateKeepsPath
<1>5. CASE UNCHANGED << ystack, yfree, edges >>
  BY <1>5 DEF PathInv
<1> QED BY <1>3, <1>4, <1>5

LEMMA WriteDotKeepsPath ==
  ASSUME PathInv, NEW i, WriteDot(i)
  PROVE  PathOf(ystack', yfree', edges')
<1>1. PICK T : /\ \A l \in T : <<l.from, l.sym>> \in DOMAIN edges
               /\ ystack \in Stacks(T) /\ yfree \in Seq(T)
  BY DEF PathInv, PathOf
<1> QED BY <1>1, UpdateKeepsPath DEF WriteDot

LEMMA PathInit ==
  ASSUME Init
  PROVE  PathInv
<1> DEFINE l == [sym |-> pc, from |-> EntryPoint, depth |-> 0, sp |-> 0,
                 is_leaf |-> FALSE, is_sub |-> FALSE]
<1>1. ystack = <<l>> /\ yfree = << >> /\ DOMAIN edges = {<<EntryPoint, pc>>}
  BY DEF Init, GraphInit
<1>2. l.from = EntryPoint /\ l.sym = pc
  OBVIOUS
<1> HIDE DEF l
<1>3. <<l>> \in Seq({l}) /\ << >> \in Seq({l}) /\ Len(<<l>>) = 1 /\ <<l>> # << >>
  OBVIOUS
<1>4. <<l>> \in Stacks({l})
  BY <1>3 DEF Stacks, Linked
<1> QED BY <1>1, <1>2, <1>3, <1>4 DEF PathInv, PathOf

LEMMA PathNext ==
  ASSUME PathInv, [Next]_vars
  PROVE  PathInv'
<1>1. SUFFICES PathOf(ystack', yfree', edges')
  BY DEF PathInv
<1>2. CASE Leave
  BY <1>2, WriteDotKeepsPath DEF Leave
<1>3. ASSUME NEW id, NEW to, NEW mem, Executes(id, to, mem)
      PROVE  PathOf(ystack', yfree', edges')
  BY <1>3, CallDepthKeepsPath DEF Executes
<1>4. CASE UNCHANGED vars
  BY <1>4 DEF vars, cgvars, PathInv
<1> QED BY <1>2, <1>3, <1>4, NextExecutes

LEMMA PathIsInGraph ==
  ASSUME PathInv
  PROVE  PathInGraph
<1>1. PICK T : /\ \A l \in T : <<l.from, l.sym>> \in DOMAIN edges
               /\ ystack \in Stacks(T) /\ yfree \in Seq(T)
  BY DEF PathInv, PathOf
<1>2. ystack \in Seq(T) /\ Len(ystack) \in Nat /\ Linked(ystack)
  BY <1>1, LenProperties DEF Stacks
<1>3. ASSUME NEW i \in 1 .. Len(ystack) - 1
      PROVE  ystack[i] \in T
  <2>1. i \in 1 .. Len(ystack)
    BY <1>2
  <2> QED BY <1>2, <2>1, ElementOfSeq
<1> QED BY <1>1, <1>2, <1>3 DEF PathInGraph, Linked

(* Whatever the program does to its stack - tail calls, longjmp out of any   *)
(* depth, exit after main has returned - each element of the call stack      *)
(* hangs on an edge of the graph that leads to it from the element below.    *)
(* Elements are freed and taken again, so this rests on the free list: the   *)
(* edges of what is on it are in the graph, too.                            *)
THEOREM StackIsAPath == Spec => []PathInGraph
<1>1. Init => PathInv
  BY PathInit
<1>2. PathInv /\ [Next]_vars => PathInv'
  BY PathNext
<1>3. PathInv => PathInGraph
  BY PathIsInGraph
<1> QED BY <1>1, <1>2, <1>3, PTL DEF Spec

-----------------------------------------------------------------------------
(* FlattenSeq                                                              *)

(* What FlattenSeq computes, up to the n-th sequence.                       *)
Flattens(F, ss, n) ==
  F = [i \in 1 .. n |-> IF i = 1 THEN ss[i] ELSE F[i - 1] \o ss[i]]

LEMMA FlattensExists ==
  ASSUME NEW ss, NEW n \in Nat \ {0}
  PROVE  \E F : Flattens(F, ss, n)
<1> DEFINE Bad == {m \in Nat \ {0} : ~ \E F : Flattens(F, ss, m)}
<1> SUFFICES ASSUME Bad # {} PROVE FALSE
  OBVIOUS
<1>1. PICK m \in Bad : \A k \in Bad : m <= k
  <2>1. Bad \subseteq Nat
    OBVIOUS
  <2> HIDE DEF Bad
  <2>2. Min(Bad) \in Bad /\ \A k \in Bad : Min(Bad) <= k
    BY <2>1, Least
  <2> QED BY <2>2
<1>2. m \in Nat \ {0} /\ ~ \E F : Flattens(F, ss, m)
  OBVIOUS
<1>3. CASE m = 1
  <2> DEFINE F == [i \in 1 .. 1 |-> ss[i]]
  <2>1. F = [i \in 1 .. 1 |-> IF i = 1 THEN ss[i] ELSE F[i - 1] \o ss[i]]
    OBVIOUS
  <2> QED BY <1>2, <1>3, <2>1 DEF Flattens
<1>4. CASE m # 1
  <2>1. m - 1 \in Nat \ {0} /\ m - 1 \notin Bad
    BY <1>1, <1>2, <1>4
  <2>2. PICK G : Flattens(G, ss, m - 1)
    BY <2>1
  <2> DEFINE F == [i \in 1 .. m |-> IF i = m THEN G[m - 1] \o ss[m] ELSE G[i]]
             H == [i \in 1 .. m |-> IF i = 1 THEN ss[i] ELSE F[i - 1] \o ss[i]]
  <2>3. \A i \in 1 .. m - 1 : G[i] = IF i = 1 THEN ss[i] ELSE G[i - 1] \o ss[i]
    BY <2>2 DEF Flattens
  <2>4. \A i \in 1 .. m - 1 : F[i] = G[i]
    <3>1. \A i \in 1 .. m - 1 : i \in 1 .. m /\ i # m
      BY <1>2
    <3> QED BY <3>1
  <2>5. F[m] = G[m - 1] \o ss[m]
    <3>1. m \in 1 .. m
      BY <1>2
    <3> QED BY <3>1
  <2> HIDE DEF F
  <2>6. \A i \in 1 .. m : F[i] = IF i = 1 THEN ss[i] ELSE F[i - 1] \o ss[i]
    <3> TAKE i \in 1 .. m
    <3>1. CASE i = m
      <4>1. m - 1 \in 1 .. m - 1
        BY <2>1
      <4> QED BY <1>4, <2>4, <2>5, <3>1, <4>1
    <3>2. CASE i # m /\ i = 1
      <4>1. i \in 1 .. m - 1
        BY <1>2, <3>2
      <4> QED BY <2>3, <2>4, <3>2, <4>1
    <3>3. CASE i # m /\ i # 1
      <4>1. i \in 1 .. m - 1 /\ i - 1 \in 1 .. m - 1
        BY <1>2, <3>3
      <4> QED BY <2>3, <2>4, <3>3, <4>1
    <3> QED BY <3>1, <3>2, <3>3
  <2>7. F = H
    BY <2>6 DEF F
  <2> QED BY <1>2, <2>7 DEF Flattens
<1> QED BY <1>3, <1>4

(* It depends on the first n sequences only.                                *)
LEMMA FlattensAgree ==
  ASSUME NEW ss, NEW tt, NEW n \in Nat, NEW m \in Nat, n <= m,
         \A j \in 1 .. n : ss[j] = tt[j],
         NEW F, NEW G, Flattens(F, ss, n), Flattens(G, tt, m)
  PROVE  \A i \in 1 .. n : F[i] = G[i]
<1> DEFINE Bad == {i \in 1 .. n : F[i] # G[i]}
<1> SUFFICES ASSUME Bad # {} PROVE FALSE
  OBVIOUS
<1>1. PICK i \in Bad : \A k \in Bad : i <= k
  <2>1. Bad \subseteq Nat
    OBVIOUS
  <2> HIDE DEF Bad
  <2>2. Min(Bad) \in Bad /\ \A k \in Bad : Min(Bad) <= k
    BY <2>1, Least
  <2> QED BY <2>2
<1>2. i \in 1 .. n /\ i \in 1 .. m /\ F[i] # G[i] /\ ss[i] = tt[i]
  OBVIOUS
<1>3. F[i] = (IF i = 1 THEN ss[i] ELSE F[i - 1] \o ss[i])
  BY <1>2 DEF Flattens
<1>4. G[i] = (IF i = 1 THEN tt[i] ELSE G[i - 1] \o tt[i])
  BY <1>2 DEF Flattens
<1>5. i # 1 => i - 1 \in 1 .. n /\ i - 1 \notin Bad
  BY <1>1, <1>2
<1> QED BY <1>2, <1>3, <1>4, <1>5

(* FlattenSeq is the last of these sums.                                   *)
LEMMA FlattenIs ==
  ASSUME NEW ss, Len(ss) \in Nat \ {0}
  PROVE  \E F : Flattens(F, ss, Len(ss)) /\ FlattenSeq(ss) = F[Len(ss)]
<1> DEFINE G == CHOOSE F : Flattens(F, ss, Len(ss))
<1>1. Flattens(G, ss, Len(ss))
  BY FlattensExists
<1>2. FlattenSeq(ss) = G[Len(ss)]
  BY DEF FlattenSeq, Flattens
<1> QED BY <1>1, <1>2

(* One sequence, and one sequence more.                                     *)
LEMMA FlattenOne ==
  ASSUME NEW ss, Len(ss) = 1
  PROVE  FlattenSeq(ss) = ss[1]
<1>1. PICK F : Flattens(F, ss, Len(ss)) /\ FlattenSeq(ss) = F[Len(ss)]
  <2>1. Len(ss) \in Nat \ {0}
    OBVIOUS
  <2> QED BY <2>1, FlattenIs, Zenon
<1>2. 1 \in 1 .. 1
  OBVIOUS
<1> QED BY <1>1, <1>2 DEF Flattens

LEMMA FlattenMore ==
  ASSUME NEW n \in Nat \ {0}, NEW ss, NEW tt, Len(ss) = n + 1, Len(tt) = n,
         \A j \in 1 .. n : ss[j] = tt[j]
  PROVE  FlattenSeq(ss) = FlattenSeq(tt) \o ss[n + 1]
<1>1. PICK F : Flattens(F, ss, n + 1) /\ FlattenSeq(ss) = F[n + 1]
  BY FlattenIs
<1>2. PICK G : Flattens(G, tt, n) /\ FlattenSeq(tt) = G[n]
  BY FlattenIs
<1>3. G[n] = F[n]
  <2>1. \A j \in 1 .. n : tt[j] = ss[j]
    OBVIOUS
  <2> QED BY <1>1, <1>2, <2>1, FlattensAgree
<1>4. n + 1 \in 1 .. n + 1 /\ n + 1 # 1 /\ (n + 1) - 1 = n
  OBVIOUS
<1>5. F[n + 1] = F[(n + 1) - 1] \o ss[n + 1]
  BY <1>1, <1>4 DEF Flattens
<1> QED BY <1>1, <1>2, <1>3, <1>4, <1>5

LEMMA FlattenType ==
  ASSUME NEW S, NEW n \in Nat \ {0}, NEW ss, Len(ss) = n, \A j \in 1 .. n : ss[j] \in Seq(S)
  PROVE  FlattenSeq(ss) \in Seq(S)
<1>1. PICK F : Flattens(F, ss, n) /\ FlattenSeq(ss) = F[n]
  BY FlattenIs
<1> DEFINE Bad == {i \in 1 .. n : F[i] \notin Seq(S)}
<1> SUFFICES ASSUME Bad # {} PROVE FALSE
  BY <1>1
<1>2. PICK i \in Bad : \A k \in Bad : i <= k
  <2>1. Bad \subseteq Nat
    OBVIOUS
  <2> HIDE DEF Bad
  <2>2. Min(Bad) \in Bad /\ \A k \in Bad : Min(Bad) <= k
    BY <2>1, Least
  <2> QED BY <2>2
<1>3. i \in 1 .. n /\ F[i] \notin Seq(S) /\ ss[i] \in Seq(S)
  OBVIOUS
<1>4. F[i] = (IF i = 1 THEN ss[i] ELSE F[i - 1] \o ss[i])
  BY <1>1, <1>3 DEF Flattens
<1>5. i # 1 => i - 1 \in 1 .. n /\ i - 1 \notin Bad
  BY <1>2, <1>3
<1>6. i # 1 => F[i - 1] \in Seq(S)
  BY <1>5
<1> QED BY <1>3, <1>4, <1>6, ConcatProperties

-----------------------------------------------------------------------------
(* Programs of calls, jumps and returns                                     *)

(* A plain program calls, returns, jumps to the entry of other functions and *)
(* falls into them; it uses the stack, and interrupts return.  It has no     *)
(* setjmp, longjmp, switch helper or prologue helper and does not jump to    *)
(* main or exit; startup code only calls.                                   *)
Simple == {"CALL", "ICALL", "RET", "RETI", "JMP", "IJMP", "push", "pushret", "alloc",
           "work", "fall"}
Ordinary == Regions \ ({"vectors", "init", "setjmp", "longjmp", "__tablejump2__"} \cup Helpers)

PlainProgram(p) ==
  /\ p.kinds \subseteq Simple
  /\ \A e \in p.calls : e[2] \in Ordinary
  /\ \A e \in p.tails \cup p.follows : /\ e[1] \notin {"vectors", "init"}
                                       /\ e[2] \in (Ordinary \cap Named) \ {"main"}
  /\ \A e \in p.tails : e[2] \notin {"exit", "_exit"}

Places == Ordinary \cup {"vectors", "init"}
Syms   == {Entry(p) : p \in Places}
Spots  == Places \X {0, 1}

FrameType == [base : Nat, fns : Seq([sym : Syms, height : Nat])]

-----------------------------------------------------------------------------
(* The levels of frames                                                     *)

LevelAt(fns, k) == [j \in DOMAIN fns |-> <<fns[j].sym, k - 1>>]
LevelSeq(fr) == [k \in DOMAIN fr |-> IF k = 1 THEN << >> ELSE LevelAt(fr[k].fns, k)]

LEMMA FrameFields ==
  ASSUME NEW fr \in Seq(FrameType), NEW k \in 1 .. Len(fr)
  PROVE  /\ fr[k] \in FrameType /\ fr[k].base \in Nat
         /\ fr[k].fns \in Seq([sym : Syms, height : Nat])
         /\ Len(fr[k].fns) \in Nat /\ DOMAIN fr[k].fns = 1 .. Len(fr[k].fns)
         /\ \A j \in 1 .. Len(fr[k].fns) : fr[k].fns[j].sym \in Syms
<1>1. fr[k] \in FrameType
  BY ElementOfSeq
<1>2. fr[k].base \in Nat /\ fr[k].fns \in Seq([sym : Syms, height : Nat])
  BY <1>1 DEF FrameType
<1> DEFINE fns == fr[k].fns
           S == [sym : Syms, height : Nat]
<1>3. fns \in Seq(S)
  BY <1>2
<1> HIDE DEF fns, S
<1>4. Len(fns) \in Nat /\ DOMAIN fns = 1 .. Len(fns) /\ \A j \in 1 .. Len(fns) : fns[j] \in S
  BY <1>3, LenProperties, ElementOfSeq
<1>5. \A x \in S : x.sym \in Syms
  BY DEF S
<1> QED BY <1>1, <1>2, <1>4, <1>5 DEF fns

LEMMA LevelType ==
  ASSUME NEW fr \in Seq(FrameType), NEW k \in 1 .. Len(fr), k # 1
  PROVE  /\ LevelAt(fr[k].fns, k) \in Seq(Syms \X (1 .. Len(fr) - 1))
         /\ Len(LevelAt(fr[k].fns, k)) = Len(fr[k].fns)
         /\ \A j \in 1 .. Len(fr[k].fns) : LevelAt(fr[k].fns, k)[j] = <<fr[k].fns[j].sym, k - 1>>
<1> DEFINE fns == fr[k].fns
           S == Syms \X (1 .. Len(fr) - 1)
           l == [j \in 1 .. Len(fns) |-> <<fns[j].sym, k - 1>>]
<1>1. /\ Len(fns) \in Nat /\ DOMAIN fns = 1 .. Len(fns)
      /\ \A j \in 1 .. Len(fns) : fns[j].sym \in Syms
  BY FrameFields
<1>2. Len(fr) \in Nat /\ k - 1 \in 1 .. Len(fr) - 1
  BY LenProperties
<1>3. LevelAt(fns, k) = l
  BY <1>1 DEF LevelAt
<1>4. \A j \in 1 .. Len(fns) : <<fns[j].sym, k - 1>> \in S
  BY <1>1, <1>2
<1> HIDE DEF S, fns
<1>5. l \in [1 .. Len(fns) -> S]
  BY <1>4
<1> DEFINE n == Len(fns)
<1>6. n \in Nat /\ l \in [1 .. n -> S]
  BY <1>1, <1>5
<1>7. \A j \in 1 .. n : l[j] = <<fns[j].sym, k - 1>>
  OBVIOUS
<1>8. LevelAt(fns, k) = l /\ n = Len(fns)
  BY <1>3
<1> HIDE DEF n, l
<1>9. l \in Seq(S)
  BY <1>6, SeqDef
<1>10. Len(l) = n
  <2>1. DOMAIN l = 1 .. n /\ DOMAIN l = 1 .. Len(l) /\ Len(l) \in Nat
    BY <1>6, <1>9, LenProperties
  <2> QED BY <1>6, <2>1
<1>11. /\ LevelAt(fns, k) \in Seq(S) /\ Len(LevelAt(fns, k)) = Len(fns)
       /\ \A j \in 1 .. Len(fns) : LevelAt(fns, k)[j] = <<fns[j].sym, k - 1>>
  BY <1>7, <1>8, <1>9, <1>10
<1> QED BY <1>11 DEF fns, S

LEMMA LevelSeqIs ==
  ASSUME NEW fr \in Seq(FrameType), Len(fr) # 0
  PROVE  /\ Levels(fr) = FlattenSeq(LevelSeq(fr))
         /\ Len(fr) \in Nat \ {0} /\ Len(LevelSeq(fr)) = Len(fr)
         /\ \A k \in 1 .. Len(fr) :
              /\ LevelSeq(fr)[k] = IF k = 1 THEN << >> ELSE LevelAt(fr[k].fns, k)
              /\ LevelSeq(fr)[k] \in Seq(Syms \X (1 .. Len(fr) - 1))
<1> DEFINE S == Syms \X (1 .. Len(fr) - 1)
           l == [k \in 1 .. Len(fr) |-> IF k = 1 THEN << >> ELSE LevelAt(fr[k].fns, k)]
<1>1. Len(fr) \in Nat \ {0} /\ DOMAIN fr = 1 .. Len(fr)
  BY LenProperties
<1>2. LevelSeq(fr) = l
  BY <1>1 DEF LevelSeq
<1>3. Levels(fr) = FlattenSeq(LevelSeq(fr))
  BY DEF Levels, LevelSeq, LevelAt
<1>4. \A k \in 1 .. Len(fr) : (IF k = 1 THEN << >> ELSE LevelAt(fr[k].fns, k)) \in Seq(S)
  BY LevelType, EmptySeq
<1> HIDE DEF S
<1>5. l \in [1 .. Len(fr) -> Seq(S)]
  BY <1>4
<1>6. l \in Seq(Seq(S))
  BY <1>1, <1>5, SeqDef
<1>7. Len(l) = Len(fr)
  BY <1>1, <1>6, LenProperties
<1> QED BY <1>1, <1>2, <1>3, <1>4, <1>7 DEF S

LEMMA LevelsType ==
  ASSUME NEW fr \in Seq(FrameType), Len(fr) # 0
  PROVE  Levels(fr) \in Seq(Syms \X (1 .. Len(fr) - 1))
<1> DEFINE S == Syms \X (1 .. Len(fr) - 1)
           ls == LevelSeq(fr)
<1>1. /\ Levels(fr) = FlattenSeq(ls) /\ Len(fr) \in Nat \ {0} /\ Len(ls) = Len(fr)
      /\ \A k \in 1 .. Len(fr) : ls[k] \in Seq(S)
  BY LevelSeqIs
<1> HIDE DEF S, ls
<1>2. FlattenSeq(ls) \in Seq(S)
  BY <1>1, FlattenType
<1> QED BY <1>1, <1>2 DEF S

(* Startup code has no level, and each frame adds its own.                  *)
LEMMA LevelsOfOne ==
  ASSUME NEW fr \in Seq(FrameType), Len(fr) = 1
  PROVE  Levels(fr) = << >>
<1>0. Len(fr) # 0 /\ 1 \in 1 .. Len(fr)
  OBVIOUS
<1>1. /\ Levels(fr) = FlattenSeq(LevelSeq(fr)) /\ Len(LevelSeq(fr)) = Len(fr)
      /\ LevelSeq(fr)[1] = << >>
  <2>1. /\ Levels(fr) = FlattenSeq(LevelSeq(fr)) /\ Len(LevelSeq(fr)) = Len(fr)
        /\ \A k \in 1 .. Len(fr) :
             LevelSeq(fr)[k] = IF k = 1 THEN << >> ELSE LevelAt(fr[k].fns, k)
    BY <1>0, LevelSeqIs, Zenon
  <2> QED BY <1>0, <2>1, Zenon
<1> QED BY <1>1, FlattenOne

LEMMA LevelsOfMore ==
  ASSUME NEW n \in Nat \ {0}, NEW fr \in Seq(FrameType), NEW fs \in Seq(FrameType),
         Len(fr) = n + 1, Len(fs) = n, \A k \in 1 .. n : fr[k].fns = fs[k].fns
  PROVE  Levels(fr) = Levels(fs) \o LevelAt(fr[n + 1].fns, n + 1)
<1>0. Len(fr) # 0 /\ Len(fs) # 0
  OBVIOUS
<1>1. /\ Levels(fr) = FlattenSeq(LevelSeq(fr)) /\ Len(LevelSeq(fr)) = n + 1
      /\ \A k \in 1 .. n + 1 : LevelSeq(fr)[k] = IF k = 1 THEN << >> ELSE LevelAt(fr[k].fns, k)
  <2>1. /\ Levels(fr) = FlattenSeq(LevelSeq(fr)) /\ Len(LevelSeq(fr)) = Len(fr)
        /\ \A k \in 1 .. Len(fr) :
             LevelSeq(fr)[k] = IF k = 1 THEN << >> ELSE LevelAt(fr[k].fns, k)
    BY <1>0, LevelSeqIs, Zenon
  <2> QED BY <2>1, Zenon
<1>2. /\ Levels(fs) = FlattenSeq(LevelSeq(fs)) /\ Len(LevelSeq(fs)) = n
      /\ \A k \in 1 .. n : LevelSeq(fs)[k] = IF k = 1 THEN << >> ELSE LevelAt(fs[k].fns, k)
  <2>1. /\ Levels(fs) = FlattenSeq(LevelSeq(fs)) /\ Len(LevelSeq(fs)) = Len(fs)
        /\ \A k \in 1 .. Len(fs) :
             LevelSeq(fs)[k] = IF k = 1 THEN << >> ELSE LevelAt(fs[k].fns, k)
    BY <1>0, LevelSeqIs, Zenon
  <2> QED BY <2>1, Zenon
<1>3. \A k \in 1 .. n : LevelSeq(fr)[k] = LevelSeq(fs)[k]
  <2>1. \A k \in 1 .. n : k \in 1 .. n + 1
    OBVIOUS
  <2> QED BY <1>1, <1>2, <2>1
<1>4. LevelSeq(fr)[n + 1] = LevelAt(fr[n + 1].fns, n + 1)
  <2>1. n + 1 \in 1 .. n + 1 /\ n + 1 # 1
    OBVIOUS
  <2> QED BY <1>1, <2>1
<1>5. FlattenSeq(LevelSeq(fr)) = FlattenSeq(LevelSeq(fs)) \o LevelSeq(fr)[n + 1]
  BY <1>1, <1>2, <1>3, FlattenMore
<1> QED BY <1>1, <1>2, <1>4, <1>5

(* The levels of frames one by one: those of the frames below, and those of *)
(* the last one.                                                           *)
Splits(n, fr, fs) ==
  /\ Len(Levels(fs)) \in Nat /\ Len(fr[n + 1].fns) \in Nat
  /\ Len(Levels(fr)) = Len(Levels(fs)) + Len(fr[n + 1].fns)
  /\ \A i \in 1 .. Len(Levels(fs)) : Levels(fr)[i] = Levels(fs)[i]
  /\ \A j \in 1 .. Len(fr[n + 1].fns) :
       Levels(fr)[Len(Levels(fs)) + j] = <<fr[n + 1].fns[j].sym, n>>

LEMMA LevelsSplit ==
  ASSUME NEW n \in Nat \ {0}, NEW fr \in Seq(FrameType), NEW fs \in Seq(FrameType),
         Len(fr) = n + 1, Len(fs) = n, \A k \in 1 .. n : fr[k].fns = fs[k].fns
  PROVE  Splits(n, fr, fs)
<1> DEFINE S == Syms \X (1 .. n)
           lo == Levels(fs)
           at == LevelAt(fr[n + 1].fns, n + 1)
           m  == Len(fr[n + 1].fns)
<1>1. n + 1 \in 1 .. Len(fr) /\ n + 1 # 1 /\ Len(fr) - 1 = n /\ Len(fs) # 0 /\ (n + 1) - 1 = n
  OBVIOUS
<1>2. at \in Seq(S) /\ Len(at) = m
      /\ \A j \in 1 .. m : at[j] = <<fr[n + 1].fns[j].sym, n>>
  <2>1. /\ at \in Seq(Syms \X (1 .. Len(fr) - 1)) /\ Len(at) = m
        /\ \A j \in 1 .. m : at[j] = <<fr[n + 1].fns[j].sym, (n + 1) - 1>>
    BY <1>1, LevelType, Zenon
  <2> QED BY <1>1, <2>1, Zenon
<1>3. lo \in Seq(S)
  <2>1. lo \in Seq(Syms \X (1 .. Len(fs) - 1))
    BY <1>1, LevelsType, Zenon
  <2>2. Syms \X (1 .. Len(fs) - 1) \subseteq S
    OBVIOUS
  <2> QED BY <2>1, <2>2, SeqMonotonic
<1>4. Levels(fr) = lo \o at
  BY LevelsOfMore
<1> HIDE DEF S, lo, at, m
<1>5. /\ Len(lo \o at) = Len(lo) + Len(at)
      /\ \A i \in 1 .. Len(lo) + Len(at) :
           (lo \o at)[i] = IF i <= Len(lo) THEN lo[i] ELSE at[i - Len(lo)]
  BY <1>2, <1>3, ConcatProperties
<1>6. Len(lo) \in Nat /\ Len(at) \in Nat
  BY <1>2, <1>3, LenProperties
<1>7. \A i \in 1 .. Len(lo) : (lo \o at)[i] = lo[i]
  BY <1>5, <1>6
<1>8. \A j \in 1 .. m : (lo \o at)[Len(lo) + j] = at[j]
  <2> TAKE j \in 1 .. m
  <2>1. Len(lo) + j \in 1 .. Len(lo) + Len(at) /\ ~(Len(lo) + j <= Len(lo))
        /\ (Len(lo) + j) - Len(lo) = j
    BY <1>2, <1>6
  <2> QED BY <1>5, <2>1
<1>9. /\ Len(lo) \in Nat /\ m \in Nat /\ Len(Levels(fr)) = Len(lo) + m
      /\ \A i \in 1 .. Len(lo) : Levels(fr)[i] = lo[i]
      /\ \A j \in 1 .. m : Levels(fr)[Len(lo) + j] = <<fr[n + 1].fns[j].sym, n>>
  BY <1>2, <1>4, <1>5, <1>6, <1>7, <1>8
<1> QED BY <1>9 DEF lo, m, Splits

-----------------------------------------------------------------------------

Sequence(s) == \E T : s \in Seq(T)

(* Element by element: the top of the call stack is what is called, each    *)
(* element with the symbol and the depth it has in the program and with the *)
(* stack pointer of its frame.  The rest is startup code.                   *)
Matches(stk, fr) ==
  LET lev == Levels(fr) IN
  /\ Sequence(stk)
  /\ Len(lev) < Len(stk)
  /\ \A i \in 1 .. Len(stk) : stk[i].sym \in Syms
  /\ \A i \in 1 .. Len(lev) :
       LET e == stk[Len(lev) + 1 - i]
       IN  <<e.sym, e.depth>> = lev[i] /\ e.sp = Top - fr[e.depth + 1].base
  /\ \A i \in Len(lev) + 1 .. Len(stk) : stk[i].depth = 0

(* Every level is that of a frame above startup code.                      *)
LEMMA LevelsBound ==
  ASSUME NEW fr \in Seq(FrameType), Len(fr) # 0
  PROVE  /\ Len(fr) \in Nat /\ Len(Levels(fr)) \in Nat
         /\ \A i \in 1 .. Len(Levels(fr)) : /\ Levels(fr)[i] \in Syms \X (1 .. Len(fr) - 1)
                                            /\ Levels(fr)[i][2] + 1 \in 1 .. Len(fr)
<1> DEFINE S == Syms \X (1 .. Len(fr) - 1)
           lev == Levels(fr)
<1>1. lev \in Seq(S)
  BY LevelsType
<1>2. \A x \in S : x[2] + 1 \in 1 .. Len(fr)
  BY LenProperties
<1> HIDE DEF S, lev
<1>3. Len(lev) \in Nat /\ \A i \in 1 .. Len(lev) : lev[i] \in S
  BY <1>1, LenProperties, ElementOfSeq
<1>4. Len(fr) \in Nat
  BY LenProperties
<1> QED BY <1>2, <1>3, <1>4 DEF S, lev

(* What <<l>> \o stk holds.                                                 *)
LEMMA PushedOn ==
  ASSUME NEW T, NEW stk \in Seq(T), NEW l
  PROVE  /\ Sequence(<<l>> \o stk)
         /\ Len(stk) \in Nat /\ Len(<<l>> \o stk) = Len(stk) + 1
         /\ (<<l>> \o stk)[1] = l
         /\ \A i \in 2 .. Len(stk) + 1 : (<<l>> \o stk)[i] = stk[i - 1]
<1> DEFINE U == T \cup {l}
<1>1. stk \in Seq(U) /\ <<l>> \in Seq(U) /\ Len(<<l>>) = 1 /\ <<l>>[1] = l
  BY SeqMonotonic
<1> HIDE DEF U
<1>2. /\ <<l>> \o stk \in Seq(U) /\ Len(<<l>> \o stk) = 1 + Len(stk)
      /\ \A i \in 1 .. 1 + Len(stk) : (<<l>> \o stk)[i] = IF i <= 1 THEN <<l>>[i] ELSE stk[i - 1]
  <2> DEFINE s == <<l>>
  <2>1. s \in Seq(U) /\ Len(s) = 1
    BY <1>1
  <2> HIDE DEF s
  <2>2. /\ s \o stk \in Seq(U) /\ Len(s \o stk) = Len(s) + Len(stk)
        /\ \A i \in 1 .. Len(s) + Len(stk) : (s \o stk)[i] = IF i <= Len(s) THEN s[i] ELSE stk[i - Len(s)]
    BY <1>1, <2>1, ConcatProperties
  <2> QED BY <2>1, <2>2 DEF s
<1>3. Len(stk) \in Nat
  BY <1>1, LenProperties
<1> DEFINE p == <<l>> \o stk
<1> HIDE DEF p
<1>4. Len(p) = Len(stk) + 1
  BY <1>2, <1>3 DEF p
<1>5. p[1] = l
  <2>1. 1 \in 1 .. 1 + Len(stk)
    BY <1>3
  <2> QED BY <1>1, <1>2, <2>1 DEF p
<1>6. \A i \in 2 .. Len(stk) + 1 : p[i] = stk[i - 1]
  <2>1. \A i \in 2 .. Len(stk) + 1 : i \in 1 .. 1 + Len(stk) /\ ~(i <= 1)
    BY <1>3
  <2> QED BY <1>2, <2>1 DEF p
<1> QED BY <1>2, <1>3, <1>4, <1>5, <1>6 DEF p, Sequence

(* A function is entered: an element on top.                                *)
LEMMA EnterMatches ==
  ASSUME NEW stk, NEW fr \in Seq(FrameType), NEW fr2, NEW l,
         Len(fr) # 0, Matches(stk, fr), l.sym \in Syms,
         Len(Levels(fr2)) = Len(Levels(fr)) + 1,
         \A i \in 1 .. Len(Levels(fr)) : Levels(fr2)[i] = Levels(fr)[i],
         Levels(fr2)[Len(Levels(fr)) + 1] = <<l.sym, l.depth>>,
         l.sp = Top - fr2[l.depth + 1].base,
         \A k \in 1 .. Len(fr) : fr2[k].base = fr[k].base
  PROVE  Matches(<<l>> \o stk, fr2)
<1> DEFINE n == Len(Levels(fr))
           new == <<l>> \o stk
<1>1. PICK T : stk \in Seq(T)
  BY DEF Matches, Sequence
<1>2. /\ Sequence(new)
      /\ Len(stk) \in Nat /\ Len(new) = Len(stk) + 1 /\ new[1] = l
      /\ \A i \in 2 .. Len(stk) + 1 : new[i] = stk[i - 1]
  BY <1>1, PushedOn
<1> HIDE DEF new
<1>3. n \in Nat /\ n < Len(stk) /\ Len(Levels(fr2)) = n + 1
  BY LevelsBound DEF Matches
<1>4. ASSUME NEW i \in 1 .. Len(new) PROVE new[i].sym \in Syms
  <2>1. CASE i = 1
    BY <1>2, <2>1
  <2>2. CASE i # 1
    <3>1. i \in 2 .. Len(stk) + 1 /\ i - 1 \in 1 .. Len(stk)
      BY <1>2, <2>2
    <3>2. \A x \in 1 .. Len(stk) : stk[x].sym \in Syms
      BY DEF Matches
    <3> QED BY <1>2, <3>1, <3>2
  <2> QED BY <2>1, <2>2
<1>5. ASSUME NEW i \in 1 .. n + 1
      PROVE  LET e == new[(n + 1) + 1 - i]
             IN  <<e.sym, e.depth>> = Levels(fr2)[i] /\ e.sp = Top - fr2[e.depth + 1].base
  <2>1. CASE i = n + 1
    <3>1. (n + 1) + 1 - i = 1
      BY <1>3, <2>1
    <3> QED BY <1>2, <2>1, <3>1
  <2>2. CASE i # n + 1
    <3>1. i \in 1 .. n /\ (n + 1) + 1 - i \in 2 .. Len(stk) + 1
          /\ ((n + 1) + 1 - i) - 1 = n + 1 - i
      BY <1>3, <2>2
    <3>2. new[(n + 1) + 1 - i] = stk[n + 1 - i]
      BY <1>2, <3>1
    <3> DEFINE e == stk[n + 1 - i]
    <3>3. <<e.sym, e.depth>> = Levels(fr)[i] /\ e.sp = Top - fr[e.depth + 1].base
      BY <3>1 DEF Matches
    <3>4. Levels(fr)[i][2] + 1 \in 1 .. Len(fr) /\ Levels(fr2)[i] = Levels(fr)[i]
      BY <3>1, LevelsBound
    <3> HIDE DEF e
    <3>5. Levels(fr)[i][2] = e.depth
      BY <3>3
    <3>6. <<e.sym, e.depth>> = Levels(fr2)[i] /\ e.sp = Top - fr2[e.depth + 1].base
      BY <3>3, <3>4, <3>5
    <3> QED BY <3>2, <3>6 DEF e
  <2> QED BY <2>1, <2>2
<1>6. ASSUME NEW i \in (n + 1) + 1 .. Len(new) PROVE new[i].depth = 0
  <2>1. i \in 2 .. Len(stk) + 1 /\ i - 1 \in n + 1 .. Len(stk)
    BY <1>2, <1>3
  <2>2. stk[i - 1].depth = 0
    BY <2>1 DEF Matches
  <2> QED BY <1>2, <2>1, <2>2
<1>7. n + 1 < Len(new)
  BY <1>2, <1>3
<1> HIDE DEF n
<1>8. Matches(new, fr2)
  BY <1>2, <1>3, <1>4, <1>5, <1>6, <1>7 DEF Matches
<1> QED BY <1>8 DEF new

(* Startup code is entered.                                                 *)
LEMMA StartMatches ==
  ASSUME NEW stk, NEW fr, NEW fr2, NEW l, Matches(stk, fr), l.sym \in Syms, l.depth = 0,
         Levels(fr) = << >>, Levels(fr2) = << >>
  PROVE  Matches(<<l>> \o stk, fr2)
<1> DEFINE new == <<l>> \o stk
<1>1. PICK T : stk \in Seq(T)
  BY DEF Matches, Sequence
<1>2. /\ Sequence(new)
      /\ Len(stk) \in Nat /\ Len(new) = Len(stk) + 1 /\ new[1] = l
      /\ \A i \in 2 .. Len(stk) + 1 : new[i] = stk[i - 1]
  BY <1>1, PushedOn
<1> HIDE DEF new
<1>3. /\ \A x \in 1 .. Len(stk) : stk[x].sym \in Syms
      /\ \A x \in 1 .. Len(stk) : stk[x].depth = 0
  <2>1. Len(<< >>) = 0 /\ 0 + 1 = 1
    OBVIOUS
  <2> QED BY <2>1 DEF Matches
<1>4. ASSUME NEW i \in 1 .. Len(new) PROVE new[i].sym \in Syms /\ new[i].depth = 0
  <2>1. CASE i = 1
    BY <1>2, <2>1
  <2>2. CASE i # 1
    <3>1. i \in 2 .. Len(stk) + 1 /\ i - 1 \in 1 .. Len(stk)
      BY <1>2, <2>2
    <3> QED BY <1>2, <1>3, <3>1
  <2> QED BY <2>1, <2>2
<1>5. Len(Levels(fr2)) = 0 /\ 0 < Len(new) /\ 1 .. 0 = {} /\ 0 + 1 = 1
  BY <1>2
<1>6. Matches(new, fr2)
  BY <1>2, <1>4, <1>5 DEF Matches
<1> QED BY <1>6 DEF new

(* A frame is left: the elements of its functions go.  Of the startup code  *)
(* any number may go, but not all of it.                                    *)
LEMMA LeaveMatches ==
  ASSUME NEW stk, NEW fr \in Seq(FrameType), NEW fr2 \in Seq(FrameType), NEW m \in Nat, NEW c \in Nat,
         Len(fr) # 0, Len(fr2) # 0, Matches(stk, fr), m <= c, c < Len(stk),
         Len(Levels(fr)) = Len(Levels(fr2)) + m,
         \A i \in 1 .. Len(Levels(fr2)) : Levels(fr2)[i] = Levels(fr)[i],
         c = m \/ Len(Levels(fr2)) = 0,
         \A k \in 1 .. Len(fr2) : fr2[k].base = fr[k].base
  PROVE  Matches(SubSeq(stk, c + 1, Len(stk)), fr2)
<1> DEFINE n == Len(Levels(fr2))
           new == SubSeq(stk, c + 1, Len(stk))
<1>1. PICK T : stk \in Seq(T)
  BY DEF Matches, Sequence
<1>2. Len(stk) \in Nat
  BY <1>1, LenProperties
<1>3. n \in Nat /\ n + m < Len(stk)
  BY LevelsBound DEF Matches
<1>4. /\ new \in Seq(T) /\ Len(new) = Len(stk) - c
      /\ \A i \in 1 .. Len(stk) - c : new[i] = stk[c + i]
  <2>1. \A i \in c + 1 .. Len(stk) : stk[i] \in T
    <3>1. \A i \in c + 1 .. Len(stk) : i \in 1 .. Len(stk)
      BY <1>2
    <3> QED BY <1>1, <3>1, ElementOfSeq
  <2>2. /\ new \in Seq(T) /\ Len(new) = IF c + 1 <= Len(stk) THEN Len(stk) - (c + 1) + 1 ELSE 0
        /\ \A i \in 1 .. Len(stk) - (c + 1) + 1 : new[i] = stk[(c + 1) + i - 1]
    <3> DEFINE a == c + 1
               b == Len(stk)
    <3>1. a \in Int /\ b \in Int /\ \A i \in a .. b : stk[i] \in T
      BY <1>2, <2>1
    <3> HIDE DEF a, b
    <3>2. /\ SubSeq(stk, a, b) \in Seq(T)
          /\ Len(SubSeq(stk, a, b)) = IF a <= b THEN b - a + 1 ELSE 0
          /\ \A i \in 1 .. b - a + 1 : SubSeq(stk, a, b)[i] = stk[a + i - 1]
      BY <3>1, SubSeqProperties
    <3> QED BY <3>2 DEF a, b
  <2> HIDE DEF new
  <2>3. Len(stk) - (c + 1) + 1 = Len(stk) - c /\ c + 1 <= Len(stk)
    BY <1>2
  <2>4. \A i \in 1 .. Len(stk) - c : (c + 1) + i - 1 = c + i
    OBVIOUS
  <2> QED BY <2>2, <2>3, <2>4
<1> HIDE DEF new
<1>5. n < Len(new)
  BY <1>2, <1>3, <1>4
<1>6. ASSUME NEW i \in 1 .. Len(new) PROVE new[i].sym \in Syms
  <2>1. i \in 1 .. Len(stk) - c /\ c + i \in 1 .. Len(stk)
    BY <1>2, <1>4
  <2>2. stk[c + i].sym \in Syms
    BY <2>1 DEF Matches
  <2> QED BY <1>4, <2>1, <2>2
<1>7. ASSUME NEW i \in 1 .. n
      PROVE  LET e == new[n + 1 - i]
             IN  <<e.sym, e.depth>> = Levels(fr2)[i] /\ e.sp = Top - fr2[e.depth + 1].base
  <2>1. c = m
    BY <1>3
  <2>2. /\ n + 1 - i \in 1 .. Len(stk) - c /\ c + (n + 1 - i) = (n + m) + 1 - i
        /\ i \in 1 .. n + m
    BY <1>2, <1>3, <2>1
  <2> DEFINE e == stk[(n + m) + 1 - i]
  <2>3. new[n + 1 - i] = e
    BY <1>4, <2>2
  <2>4. <<e.sym, e.depth>> = Levels(fr)[i] /\ e.sp = Top - fr[e.depth + 1].base
    BY <2>2 DEF Matches
  <2>5. Levels(fr2)[i][2] + 1 \in 1 .. Len(fr2) /\ Levels(fr2)[i] = Levels(fr)[i]
    BY LevelsBound
  <2> HIDE DEF e
  <2>6. Levels(fr)[i][2] = e.depth
    BY <2>4
  <2>7. <<e.sym, e.depth>> = Levels(fr2)[i] /\ e.sp = Top - fr2[e.depth + 1].base
    BY <2>4, <2>5, <2>6
  <2> QED BY <2>3, <2>7
<1>8. ASSUME NEW i \in n + 1 .. Len(new) PROVE new[i].depth = 0
  <2>1. i \in 1 .. Len(stk) - c /\ c + i \in (n + m) + 1 .. Len(stk)
    BY <1>2, <1>3, <1>4
  <2>2. stk[c + i].depth = 0
    BY <2>1 DEF Matches
  <2> QED BY <1>4, <2>1, <2>2
<1> HIDE DEF n
<1>9. Matches(new, fr2)
  BY <1>4, <1>5, <1>6, <1>7, <1>8 DEF Matches, Sequence, n
<1> QED BY <1>9 DEF new

FnType == [sym : Syms, height : Nat]

EnteredIn(fr, f) == [fr EXCEPT ![Len(fr)].fns = Append(@, f)]
CalledIn(fr, b, f) == Append(fr, [base |-> b, fns |-> <<f>>])

(* The frame of a tail call.                                                *)
LEMMA EnteredFrames ==
  ASSUME NEW fr \in Seq(FrameType), NEW n \in Nat \ {0}, Len(fr) = n, NEW f \in FnType
  PROVE  /\ EnteredIn(fr, f) \in Seq(FrameType) /\ Len(EnteredIn(fr, f)) = n
         /\ \A k \in 1 .. n : k # n => EnteredIn(fr, f)[k] = fr[k]
         /\ EnteredIn(fr, f)[n].base = fr[n].base
         /\ EnteredIn(fr, f)[n].fns = Append(fr[n].fns, f)
<1> DEFINE fr2 == EnteredIn(fr, f)
           e == [fr[n] EXCEPT !.fns = Append(@, f)]
<1>1. n \in 1 .. Len(fr) /\ DOMAIN fr = 1 .. n /\ fr[n] \in FrameType
  <2>1. n \in 1 .. Len(fr)
    OBVIOUS
  <2> QED BY <2>1, LenProperties, ElementOfSeq
<1>2. /\ fr[n].base \in Nat /\ fr[n].fns \in Seq(FnType)
      /\ e = [base |-> fr[n].base, fns |-> Append(fr[n].fns, f)]
  <2>1. \A F : \A x \in [base : Nat, fns : F] : \A y :
          /\ x.base \in Nat /\ x.fns \in F
          /\ [x EXCEPT !.fns = y] = [base |-> x.base, fns |-> y]
    BY SMT
  <2>2. fr[n] \in [base : Nat, fns : Seq(FnType)]
    BY <1>1 DEF FrameType, FnType
  <2> QED BY <2>1, <2>2, Zenon
<1>3. Append(fr[n].fns, f) \in Seq(FnType)
  BY <1>2, AppendProperties
<1>4. e \in FrameType
  <2> DEFINE a == Append(fr[n].fns, f)
  <2> HIDE DEF a
  <2>1. \A b \in Nat, s \in Seq(FnType) : [base |-> b, fns |-> s] \in FrameType
    BY DEF FrameType, FnType
  <2>2. a \in Seq(FnType) /\ e = [base |-> fr[n].base, fns |-> a]
    BY <1>2, <1>3 DEF a
  <2> HIDE DEF e
  <2> QED BY <1>2, <2>1, <2>2
<1>5. fr2 = [fr EXCEPT ![n] = e]
  BY <1>1 DEF EnteredIn
<1>6. e.base = fr[n].base /\ e.fns = Append(fr[n].fns, f)
  BY <1>2
<1> HIDE DEF e
<1>7. /\ [fr EXCEPT ![n] = e] \in Seq(FrameType) /\ Len([fr EXCEPT ![n] = e]) = Len(fr)
      /\ \A j \in 1 .. Len(fr) : [fr EXCEPT ![n] = e][j] = IF j = n THEN e ELSE fr[j]
  BY <1>1, <1>4, ExceptSeq
<1> HIDE DEF fr2
<1>8. fr2[n] = e /\ \A k \in 1 .. n : k # n => fr2[k] = fr[k]
  BY <1>1, <1>5, <1>7
<1> QED BY <1>5, <1>6, <1>7, <1>8 DEF fr2

LEMMA EnteredLevels ==
  ASSUME NEW fr \in Seq(FrameType), NEW n \in Nat \ {0}, Len(fr) = n, n # 1, NEW f \in FnType
  PROVE  /\ Len(Levels(EnteredIn(fr, f))) = Len(Levels(fr)) + 1
         /\ \A i \in 1 .. Len(Levels(fr)) : Levels(EnteredIn(fr, f))[i] = Levels(fr)[i]
         /\ Levels(EnteredIn(fr, f))[Len(Levels(fr)) + 1] = <<f.sym, n - 1>>
<1> DEFINE fr2 == EnteredIn(fr, f)
           p  == n - 1
           fs == SubSeq(fr, 1, p)
           s  == fr[n].fns
<1>1. /\ fr2 \in Seq(FrameType) /\ Len(fr2) = n
      /\ \A k \in 1 .. n : k # n => fr2[k] = fr[k]
      /\ fr2[n].fns = Append(s, f)
  BY EnteredFrames
<1> HIDE DEF fr2
<1>2. p \in Nat \ {0} /\ n = p + 1
  OBVIOUS
<1>3. fs \in Seq(FrameType) /\ Len(fs) = p /\ \A k \in 1 .. p : fs[k] = fr[k]
  <2>1. \A i \in 1 .. p : fr[i] \in FrameType
    <3>1. \A i \in 1 .. p : i \in 1 .. Len(fr)
      OBVIOUS
    <3> QED BY <3>1, ElementOfSeq
  <2>2. 1 <= p /\ p \in Int /\ 1 \in Int /\ p - 1 + 1 = p /\ \A i \in 1 .. p : 1 + i - 1 = i
    BY <1>2
  <2> HIDE DEF p
  <2>3. /\ fs \in Seq(FrameType) /\ Len(fs) = IF 1 <= p THEN p - 1 + 1 ELSE 0
        /\ \A i \in 1 .. p - 1 + 1 : fs[i] = fr[1 + i - 1]
    BY <2>1, <2>2, SubSeqProperties
  <2> HIDE DEF fs
  <2> QED BY <2>2, <2>3
<1> HIDE DEF fs
<1>4. \A k \in 1 .. p : fr[k].fns = fs[k].fns /\ fr2[k].fns = fs[k].fns
  <2>1. \A k \in 1 .. p : k \in 1 .. n /\ k # n
    OBVIOUS
  <2> QED BY <1>1, <1>3, <2>1
<1>5. s \in Seq(FnType)
  <2>1. n \in 1 .. Len(fr)
    OBVIOUS
  <2>2. fr[n] \in FrameType
    BY <2>1, ElementOfSeq
  <2> QED BY <2>2 DEF FrameType, FnType
<1> HIDE DEF s
<1>6. /\ Len(Append(s, f)) = Len(s) + 1 /\ Len(s) \in Nat
      /\ \A j \in 1 .. Len(s) : Append(s, f)[j] = s[j]
      /\ Append(s, f)[Len(s) + 1] = f
  BY <1>5, AppendProperties, LenProperties
<1> DEFINE a == Append(s, f)
<1> HIDE DEF p, a
<1>7. /\ Len(Levels(fs)) \in Nat
      /\ Len(Levels(fr)) = Len(Levels(fs)) + Len(s)
      /\ \A i \in 1 .. Len(Levels(fs)) : Levels(fr)[i] = Levels(fs)[i]
      /\ \A j \in 1 .. Len(s) : Levels(fr)[Len(Levels(fs)) + j] = <<s[j].sym, p>>
  <2>1. Len(fr) = p + 1 /\ \A k \in 1 .. p : fr[k].fns = fs[k].fns
    BY <1>2, <1>4
  <2>2. /\ Len(Levels(fs)) \in Nat
        /\ Len(Levels(fr)) = Len(Levels(fs)) + Len(fr[p + 1].fns)
        /\ \A i \in 1 .. Len(Levels(fs)) : Levels(fr)[i] = Levels(fs)[i]
        /\ \A j \in 1 .. Len(fr[p + 1].fns) :
             Levels(fr)[Len(Levels(fs)) + j] = <<fr[p + 1].fns[j].sym, p>>
    <3>1. Splits(p, fr, fs)
      BY <1>2, <1>3, <2>1, LevelsSplit
    <3> QED BY <3>1 DEF Splits
  <2>3. fr[p + 1].fns = s
    BY <1>2 DEF s
  <2> HIDE DEF s
  <2> QED BY <2>2, <2>3
<1>8. /\ Len(Levels(fr2)) = Len(Levels(fs)) + Len(a)
      /\ \A i \in 1 .. Len(Levels(fs)) : Levels(fr2)[i] = Levels(fs)[i]
      /\ \A j \in 1 .. Len(a) : Levels(fr2)[Len(Levels(fs)) + j] = <<a[j].sym, p>>
  <2>1. Len(fr2) = p + 1 /\ \A k \in 1 .. p : fr2[k].fns = fs[k].fns
    BY <1>1, <1>2, <1>4
  <2>2. /\ Len(Levels(fr2)) = Len(Levels(fs)) + Len(fr2[p + 1].fns)
        /\ \A i \in 1 .. Len(Levels(fs)) : Levels(fr2)[i] = Levels(fs)[i]
        /\ \A j \in 1 .. Len(fr2[p + 1].fns) :
             Levels(fr2)[Len(Levels(fs)) + j] = <<fr2[p + 1].fns[j].sym, p>>
    <3>1. Splits(p, fr2, fs)
      BY <1>1, <1>2, <1>3, <2>1, LevelsSplit
    <3> QED BY <3>1 DEF Splits
  <2>3. fr2[p + 1].fns = a
    BY <1>1, <1>2 DEF a
  <2> QED BY <2>2, <2>3
<1> DEFINE lo == Len(Levels(fs))
           m  == Len(s)
<1>9. lo \in Nat /\ m \in Nat /\ Len(a) = m + 1
  BY <1>6, <1>7 DEF a
<1>10. Len(Levels(fr)) = lo + m /\ Len(Levels(fr2)) = (lo + m) + 1
  BY <1>7, <1>8, <1>9
<1>11. Levels(fr2)[(lo + m) + 1] = <<f.sym, p>>
  <2>1. m + 1 \in 1 .. Len(a) /\ lo + (m + 1) = (lo + m) + 1
    BY <1>9
  <2>2. a[m + 1] = f
    BY <1>6 DEF a
  <2> QED BY <1>8, <2>1, <2>2
<1>12. ASSUME NEW i \in 1 .. lo + m PROVE Levels(fr2)[i] = Levels(fr)[i]
  <2>1. CASE i <= lo
    <3>1. i \in 1 .. lo
      BY <1>9, <2>1
    <3> QED BY <1>7, <1>8, <3>1
  <2>2. CASE ~(i <= lo)
    <3> DEFINE j == i - lo
    <3>1. j \in 1 .. m /\ j \in 1 .. Len(a) /\ i = lo + j
      BY <1>9, <2>2
    <3> HIDE DEF j
    <3>2. a[j] = s[j]
      BY <1>6, <3>1 DEF a
    <3>3. Levels(fr)[lo + j] = <<s[j].sym, p>> /\ Levels(fr2)[lo + j] = <<a[j].sym, p>>
      BY <1>7, <1>8, <3>1
    <3> QED BY <3>1, <3>2, <3>3
  <2> QED BY <2>1, <2>2
<1> QED BY <1>10, <1>11, <1>12 DEF p, fr2

(* The frame of a call.                                                     *)
LEMMA CalledLevels ==
  ASSUME NEW fr \in Seq(FrameType), NEW n \in Nat \ {0}, Len(fr) = n, NEW b \in Nat, NEW f \in FnType,
         NEW fr2, fr2 = CalledIn(fr, b, f)
  PROVE  /\ fr2 \in Seq(FrameType) /\ Len(fr2) = n + 1
         /\ \A k \in 1 .. n : fr2[k] = fr[k]
         /\ fr2[n + 1] = [base |-> b, fns |-> <<f>>]
         /\ Len(Levels(fr2)) = Len(Levels(fr)) + 1
         /\ \A i \in 1 .. Len(Levels(fr)) : Levels(fr2)[i] = Levels(fr)[i]
         /\ Levels(fr2)[Len(Levels(fr)) + 1] = <<f.sym, n>>
<1> DEFINE e == [base |-> b, fns |-> <<f>>]
<1>1. e \in FrameType
  <2>1. <<f>> \in Seq(FnType)
    OBVIOUS
  <2> QED BY <2>1 DEF FrameType, FnType
<1>2. e.fns = <<f>> /\ Len(<<f>>) = 1 /\ <<f>>[1] = f /\ fr2 = Append(fr, e)
  BY DEF CalledIn
<1> HIDE DEF e
<1>3. /\ fr2 \in Seq(FrameType) /\ Len(fr2) = n + 1
      /\ \A k \in 1 .. n : fr2[k] = fr[k]
      /\ fr2[n + 1] = e
  BY <1>1, <1>2, AppendProperties
<1>4. /\ Len(Levels(fr)) \in Nat
      /\ Len(Levels(fr2)) = Len(Levels(fr)) + Len(fr2[n + 1].fns)
      /\ \A i \in 1 .. Len(Levels(fr)) : Levels(fr2)[i] = Levels(fr)[i]
      /\ \A j \in 1 .. Len(fr2[n + 1].fns) :
           Levels(fr2)[Len(Levels(fr)) + j] = <<fr2[n + 1].fns[j].sym, n>>
  <2>1. \A k \in 1 .. n : fr2[k].fns = fr[k].fns
    BY <1>3
  <2>2. Splits(n, fr2, fr)
    BY <1>3, <2>1, LevelsSplit
  <2> QED BY <2>2 DEF Splits
<1>5. fr2[n + 1].fns = <<f>> /\ 1 \in 1 .. 1
  BY <1>2, <1>3
<1>6. /\ Len(Levels(fr2)) = Len(Levels(fr)) + 1
      /\ Levels(fr2)[Len(Levels(fr)) + 1] = <<f.sym, n>>
  <2>1. Len(fr2[n + 1].fns) = 1 /\ fr2[n + 1].fns[1] = f
    BY <1>2, <1>5
  <2> QED BY <1>4, <1>5, <2>1
<1> QED BY <1>3, <1>4, <1>6 DEF e

(* What a return leaves.                                                    *)
Returned(n, fr) ==
  /\ Front(fr) \in Seq(FrameType) /\ Len(Front(fr)) = n
  /\ \A k \in 1 .. n : Front(fr)[k] = fr[k]
  /\ Len(Levels(Front(fr))) \in Nat /\ Len(fr[n + 1].fns) \in Nat
  /\ Len(Levels(fr)) = Len(Levels(Front(fr))) + Len(fr[n + 1].fns)
  /\ \A i \in 1 .. Len(Levels(Front(fr))) : Levels(fr)[i] = Levels(Front(fr))[i]
  /\ \A j \in 1 .. Len(fr[n + 1].fns) :
       Levels(fr)[Len(Levels(Front(fr))) + j] = <<fr[n + 1].fns[j].sym, n>>

LEMMA ReturnedLevels ==
  ASSUME NEW fr \in Seq(FrameType), NEW n \in Nat \ {0}, Len(fr) = n + 1
  PROVE  Returned(n, fr)
<1> DEFINE fs == SubSeq(fr, 1, n)
<1>1. Front(fr) = fs
  <2>1. Len(fr) - 1 = n
    OBVIOUS
  <2> QED BY <2>1 DEF Front
<1>2. fs \in Seq(FrameType) /\ Len(fs) = n /\ \A k \in 1 .. n : fs[k] = fr[k]
  <2>1. \A i \in 1 .. n : fr[i] \in FrameType
    <3>1. \A i \in 1 .. n : i \in 1 .. Len(fr)
      OBVIOUS
    <3> QED BY <3>1, ElementOfSeq
  <2>2. 1 <= n /\ n \in Int /\ 1 \in Int /\ n - 1 + 1 = n /\ \A i \in 1 .. n : 1 + i - 1 = i
    OBVIOUS
  <2>3. /\ fs \in Seq(FrameType) /\ Len(fs) = IF 1 <= n THEN n - 1 + 1 ELSE 0
        /\ \A i \in 1 .. n - 1 + 1 : fs[i] = fr[1 + i - 1]
    BY <2>1, <2>2, SubSeqProperties
  <2> HIDE DEF fs
  <2> QED BY <2>2, <2>3
<1> HIDE DEF fs
<1>3. /\ Len(Levels(fs)) \in Nat /\ Len(fr[n + 1].fns) \in Nat
      /\ Len(Levels(fr)) = Len(Levels(fs)) + Len(fr[n + 1].fns)
      /\ \A i \in 1 .. Len(Levels(fs)) : Levels(fr)[i] = Levels(fs)[i]
      /\ \A j \in 1 .. Len(fr[n + 1].fns) :
           Levels(fr)[Len(Levels(fs)) + j] = <<fr[n + 1].fns[j].sym, n>>
  <2>1. \A k \in 1 .. n : fr[k].fns = fs[k].fns
    BY <1>2
  <2>2. Splits(n, fr, fs)
    BY <1>2, <2>1, LevelsSplit
  <2> QED BY <2>2 DEF Splits
<1> QED BY <1>1, <1>2, <1>3 DEF Returned

-----------------------------------------------------------------------------
(* graph_update_call_depth in a plain program                               *)

LEMMA NoSymbolStops ==
  NoSymbol # ProgramStop
BY DEF NoSymbol, ProgramStop

LEMMA PlacesAreRegions ==
  Places \subseteq Regions /\ Spots \subseteq Addresses
BY RegionsAssumption DEF Places, Spots, Ordinary, Addresses

(* What is named.                                                           *)
LEMMA PlainSymbols ==
  ASSUME NEW s \in Syms
  PROVE  s # T_SETJMP /\ s # T_LONGJMP
BY DEF Syms, Places, Ordinary, T_SETJMP, T_LONGJMP, Entry

Unhelped == pro_ep = ""

GraphOK ==
  /\ Unhelped /\ hidden = {}
  /\ func_sym \subseteq {Entry(f) : f \in Regions \cup Named}
  /\ {Entry(f) : f \in Named} \subseteq func_sym

(* No jump of a plain program is taken for a longjmp or for main's return.   *)
PlainStep(i) ==
  /\ UpdateCallDepth(i) /\ i.pc \in Spots
  /\ ~(Suspect(i) /\ NonglitchSP(i) > Head(ystack).sp)
  /\ i.pc \in Exits => i.id \notin Jumps

(* No helper of libgcc runs, so an instruction enters the function whose   *)
(* entry it leads to.                                                      *)
LEMMA PlainFun ==
  ASSUME GraphOK, NEW i, PlainStep(i), Head(ystack).sym \in Syms
  PROVE  /\ Unhelped'
         /\ Fun(i) = IF i.pc \in func_sym THEN i.pc ELSE NoSymbol
         /\ Fun(i) # ProgramStop
         /\ ~MaybeLongjmp(i, NonglitchSP(i)) /\ ~MainReturns(i)
         /\ Changed(i) = (CallOf(i) # 0 \/ i.pc \in func_sym)
<1>1. i.pc[1] \notin Helpers
  BY DEF PlainStep, Spots, Places, Ordinary, Helpers
<1>2. ~EntersHelper(i)
  BY <1>1 DEF EntersHelper
<1>3. ~LeavesHelper(i)
  BY Zenon DEF LeavesHelper, GraphOK, Unhelped
<1>4. Unhelped'
  <2>1. NextProEp(i) = ""
    BY <1>2, <1>3, Zenon DEF NextProEp, GraphOK, Unhelped
  <2> QED BY <2>1, Zenon DEF PlainStep, UpdateCallDepth, Unhelped
<1>5. Fun(i) = IF i.pc \in func_sym THEN i.pc ELSE NoSymbol
  BY <1>2, <1>3 DEF Fun, GraphOK
<1>6. i.pc # ProgramStop /\ i.pc # NoSymbol
  BY PlacesAreRegions, RegionsAssumption DEF PlainStep
<1>7. Fun(i) # ProgramStop
  BY <1>5, <1>6, NoSymbolStops
<1>8. Head(ystack).sym # T_SETJMP /\ Head(ystack).sym # T_LONGJMP
  BY PlainSymbols
<1>9. ~MaybeLongjmp(i, NonglitchSP(i))
  BY <1>8 DEF MaybeLongjmp, PlainStep
<1>10. ~MainReturns(i)
  <2>1. NoSymbol \notin Exits
    BY DEF Exits, Entry, NoSymbol
  <2> QED BY <1>5, <2>1 DEF MainReturns, PlainStep
<1>11. Changed(i) = (CallOf(i) # 0 \/ i.pc \in func_sym)
  BY <1>5, <1>6, <1>8 DEF Changed
<1> QED BY <1>4, <1>5, <1>7, <1>9, <1>10, <1>11

(* Its case for the call stack.                                             *)
Updates(i) == UpdateCallStack(ystack, yfree, Fun(i), CallOf(i), FALSE, NonglitchSP(i),
                              i.pc, i.old, i.now)

LEMMA PlainUpdate ==
  ASSUME GraphOK, NEW i, PlainStep(i), Head(ystack).sym \in Syms
  PROVE  /\ Unhelped' /\ graph_id' = i.id
         /\ CallOf(i) = 0 /\ i.pc \notin func_sym => UNCHANGED << ystack, func_sym, hidden >>
         /\ CallOf(i) # 0 \/ i.pc \in func_sym => Updates(i)
<1>1. /\ Unhelped' /\ ~MaybeLongjmp(i, NonglitchSP(i)) /\ ~MainReturns(i)
      /\ Changed(i) = (CallOf(i) # 0 \/ i.pc \in func_sym)
  BY PlainFun
<1> DEFINE lj == MaybeLongjmp(i, NonglitchSP(i))
<1>2. /\ graph_id' = i.id
      /\ \/ /\ Changed(i)
            /\ UpdateCallStack(ystack, yfree, Fun(i), CallOf(i), lj,
                               NonglitchSP(i), i.pc, i.old, i.now)
         \/ ~Changed(i) /\ UNCHANGED << ystack, func_sym, hidden >>
  BY <1>1, Zenon DEF PlainStep, UpdateCallDepth
<1>3. lj = FALSE
  BY <1>1 DEF MaybeLongjmp
<1> HIDE DEF lj
<1>4. Changed(i) => Updates(i)
  BY <1>2, <1>3 DEF Updates
<1> QED BY <1>1, <1>2, <1>4

(* What update_call_stack does for a jump, a call and a return.             *)
Shape(sym, d, sp, to) ==
  \/ /\ d = 0 /\ sym = Head(ystack).sym /\ sp = Head(ystack).sp
     /\ UNCHANGED << ystack, func_sym, hidden >>
  \/ /\ d >= 0 /\ ~(d = 0 /\ sym = Head(ystack).sym /\ sp = Head(ystack).sp)
     /\ ystack' = <<NewNode(ystack, to, d, sp)>> \o ystack
     /\ func_sym' = func_sym \cup ({to} \cap Addresses) /\ hidden' = hidden \ {to}
  \/ /\ d < 0
     /\ ystack' = AfterReturn(ystack, sp)
     /\ UNCHANGED << func_sym, hidden >>

LEMMA UpdateShape ==
  ASSUME NEW i, Updates(i), Fun(i) # ProgramStop,
         Head(ystack).sym # T_SETJMP, Head(ystack).sym # T_LONGJMP
  PROVE  Shape(Fun(i), CallOf(i), NonglitchSP(i), IF Fun(i) = NoSymbol THEN i.pc ELSE Fun(i))
<1> DEFINE sym == Fun(i)
           d   == CallOf(i)
           sp  == NonglitchSP(i)
           lj == FALSE \/ Head(ystack).sym = T_LONGJMP
           delta == Delta(ystack, sym, d, lj)
           to == IF sym = NoSymbol THEN i.pc ELSE sym
<1>1. ~lj
  OBVIOUS
<1>2. delta = d
  BY <1>1, Zenon DEF Delta
<1>3. \/ /\ delta = 0 /\ sym = Head(ystack).sym /\ sp = Head(ystack).sp
         /\ UNCHANGED << ystack, func_sym, hidden >>
      \/ /\ delta >= 0 /\ ~(delta = 0 /\ sym = Head(ystack).sym /\ sp = Head(ystack).sp)
         /\ ystack' = <<NewNode(ystack, to, delta, sp)>> \o ystack
         /\ func_sym' = func_sym \cup ({to} \cap Addresses) /\ hidden' = hidden \ {to}
      \/ /\ delta < 0
         /\ ystack' = AfterReturn(ystack, sp)
         /\ UNCHANGED << func_sym, hidden >>
  BY <1>1, Zenon DEF Updates, UpdateCallStack, Push, Replace
<1> HIDE DEF delta, lj, to
<1>4. Shape(sym, d, sp, to)
  BY <1>2, <1>3, Zenon DEF Shape
<1> QED BY <1>4 DEF to

(* An instruction that enters nothing, one that enters a function, a call  *)
(* and a return.                                                           *)
LEMMA PlainQuiet ==
  ASSUME GraphOK, NEW i, PlainStep(i), Head(ystack).sym \in Syms,
         CallOf(i) = 0, i.pc \notin func_sym
  PROVE  GraphOK' /\ graph_id' = i.id /\ ystack' = ystack
BY PlainUpdate DEF GraphOK

LEMMA PlainEnters ==
  ASSUME GraphOK, NEW i, PlainStep(i), Head(ystack).sym \in Syms,
         CallOf(i) = 0, i.pc \in func_sym
  PROVE  /\ GraphOK' /\ graph_id' = i.id
         /\ ystack' = IF i.pc = Head(ystack).sym /\ NonglitchSP(i) = Head(ystack).sp THEN ystack
                      ELSE <<NewNode(ystack, i.pc, 0, NonglitchSP(i))>> \o ystack
<1>1. Unhelped' /\ graph_id' = i.id /\ Updates(i)
  BY PlainUpdate
<1>2. Fun(i) = i.pc /\ Fun(i) # ProgramStop /\ i.pc # NoSymbol
  <2>1. i.pc # NoSymbol
    BY PlacesAreRegions, RegionsAssumption DEF PlainStep
  <2> QED BY <2>1, PlainFun
<1>3. Head(ystack).sym # T_SETJMP /\ Head(ystack).sym # T_LONGJMP
  BY PlainSymbols
<1> DEFINE loops == i.pc = Head(ystack).sym /\ NonglitchSP(i) = Head(ystack).sp
<1>5. \/ loops /\ ystack' = ystack /\ UNCHANGED << func_sym, hidden >>
      \/ /\ ~loops
         /\ ystack' = <<NewNode(ystack, i.pc, 0, NonglitchSP(i))>> \o ystack
         /\ func_sym' = func_sym \cup ({i.pc} \cap Addresses) /\ hidden' = hidden \ {i.pc}
  BY <1>1, <1>2, <1>3, UpdateShape DEF Shape
<1>6. GraphOK'
  BY <1>1, <1>5 DEF GraphOK
<1> QED BY <1>1, <1>5, <1>6

LEMMA PlainCall ==
  ASSUME GraphOK, NEW i, PlainStep(i), Head(ystack).sym \in Syms,
         CallOf(i) = 1, i.pc \in {Entry(f) : f \in Regions}
  PROVE  /\ GraphOK' /\ graph_id' = i.id
         /\ ystack' = <<NewNode(ystack, i.pc, 1, NonglitchSP(i))>> \o ystack
<1>1. Unhelped' /\ graph_id' = i.id /\ Updates(i)
  BY PlainUpdate
<1>2. Fun(i) # ProgramStop /\ Fun(i) = IF i.pc \in func_sym THEN i.pc ELSE NoSymbol
  BY PlainFun
<1>3. Head(ystack).sym # T_SETJMP /\ Head(ystack).sym # T_LONGJMP
  BY PlainSymbols
<1>5. (IF Fun(i) = NoSymbol THEN i.pc ELSE Fun(i)) = i.pc
  BY <1>2
<1>6. /\ ystack' = <<NewNode(ystack, i.pc, 1, NonglitchSP(i))>> \o ystack
      /\ func_sym' = func_sym \cup ({i.pc} \cap Addresses) /\ hidden' = hidden \ {i.pc}
  BY <1>1, <1>2, <1>3, <1>5, UpdateShape DEF Shape
<1>7. GraphOK'
  BY <1>1, <1>6 DEF GraphOK
<1> QED BY <1>1, <1>6, <1>7

LEMMA PlainReturn ==
  ASSUME GraphOK, NEW i, PlainStep(i), Head(ystack).sym \in Syms, CallOf(i) = -1
  PROVE  /\ GraphOK' /\ graph_id' = i.id
         /\ ystack' = AfterReturn(ystack, NonglitchSP(i))
<1>1. Unhelped' /\ graph_id' = i.id /\ Updates(i)
  BY PlainUpdate
<1>2. Fun(i) # ProgramStop
  BY PlainFun
<1>3. Head(ystack).sym # T_SETJMP /\ Head(ystack).sym # T_LONGJMP
  BY PlainSymbols
<1>5. ystack' = AfterReturn(ystack, NonglitchSP(i)) /\ UNCHANGED << func_sym, hidden >>
  <2>1. Shape(Fun(i), -1, NonglitchSP(i), IF Fun(i) = NoSymbol THEN i.pc ELSE Fun(i))
    BY <1>1, <1>2, <1>3, UpdateShape, Zenon
  <2>2. -1 # 0 /\ ~(-1 >= 0)
    OBVIOUS
  <2> QED BY <2>1, <2>2, Zenon DEF Shape
<1>6. GraphOK'
  BY <1>1, <1>5 DEF GraphOK
<1> QED BY <1>1, <1>5, <1>6

-----------------------------------------------------------------------------
(* The elements of the last frame are on top.                               *)

OnTop(stk, fr, p) ==
  LET m  == Len(fr[p + 1].fns)
      lo == Len(Levels(Front(fr)))
  IN
  /\ m \in Nat /\ lo \in Nat /\ Len(stk) \in Nat /\ m + lo < Len(stk)
  /\ \A i \in 1 .. m : /\ stk[i].sym = fr[p + 1].fns[m + 1 - i].sym
                       /\ stk[i].depth = p /\ stk[i].sp = Top - fr[p + 1].base
  /\ \A i \in 1 .. lo : LET e == stk[(m + lo) + 1 - i]
                        IN  /\ e.depth = Levels(Front(fr))[i][2]
                            /\ e.sp = Top - fr[e.depth + 1].base

LEMMA TopFrame ==
  ASSUME NEW stk, NEW fr \in Seq(FrameType), NEW p \in Nat \ {0}, Len(fr) = p + 1,
         Matches(stk, fr)
  PROVE  OnTop(stk, fr, p)
<1> DEFINE m  == Len(fr[p + 1].fns)
           lo == Len(Levels(Front(fr)))
<1>1. /\ lo \in Nat /\ m \in Nat /\ Len(Levels(fr)) = lo + m
      /\ \A i \in 1 .. lo : Levels(fr)[i] = Levels(Front(fr))[i]
      /\ \A j \in 1 .. m : Levels(fr)[lo + j] = <<fr[p + 1].fns[j].sym, p>>
  BY ReturnedLevels DEF Returned
<1> HIDE DEF m, lo
<1>2. Len(stk) \in Nat
  <2>1. PICK T : stk \in Seq(T)
    BY DEF Matches, Sequence
  <2> QED BY <2>1, LenProperties
<1>3. /\ lo + m < Len(stk)
      /\ \A i \in 1 .. lo + m :
           LET e == stk[(lo + m) + 1 - i]
           IN  <<e.sym, e.depth>> = Levels(fr)[i] /\ e.sp = Top - fr[e.depth + 1].base
  <2>1. Matches(stk, fr)
    OBVIOUS
  <2> QED BY <1>1, <2>1 DEF Matches
<1>4. ASSUME NEW i \in 1 .. m
      PROVE  /\ stk[i].sym = fr[p + 1].fns[m + 1 - i].sym
             /\ stk[i].depth = p /\ stk[i].sp = Top - fr[p + 1].base
  <2> DEFINE j == m + 1 - i
  <2>1. j \in 1 .. m /\ lo + j \in 1 .. lo + m /\ (lo + m) + 1 - (lo + j) = i
    BY <1>1
  <2> HIDE DEF j
  <2>2. /\ <<stk[i].sym, stk[i].depth>> = Levels(fr)[lo + j]
        /\ stk[i].sp = Top - fr[stk[i].depth + 1].base
    BY <1>3, <2>1
  <2>3. Levels(fr)[lo + j] = <<fr[p + 1].fns[j].sym, p>>
    BY <1>1, <2>1
  <2>4. stk[i].sym = fr[p + 1].fns[j].sym /\ stk[i].depth = p
    BY <2>2, <2>3
  <2> QED BY <2>2, <2>4 DEF j
<1>5. ASSUME NEW i \in 1 .. lo
      PROVE  LET e == stk[(m + lo) + 1 - i]
             IN  /\ e.depth = Levels(Front(fr))[i][2]
                 /\ e.sp = Top - fr[e.depth + 1].base
  <2>1. i \in 1 .. lo + m /\ (lo + m) + 1 - i = (m + lo) + 1 - i
    BY <1>1
  <2> DEFINE e == stk[(m + lo) + 1 - i]
  <2>2. <<e.sym, e.depth>> = Levels(fr)[i] /\ e.sp = Top - fr[e.depth + 1].base
    BY <1>3, <2>1
  <2>3. Levels(fr)[i] = Levels(Front(fr))[i]
    BY <1>1
  <2> HIDE DEF e
  <2>4. e.depth = Levels(fr)[i][2]
    BY <2>2
  <2> QED BY <2>2, <2>3, <2>4 DEF e
<1>6. m + lo < Len(stk)
  BY <1>1, <1>2, <1>3
<1> QED BY <1>1, <1>2, <1>4, <1>5, <1>6 DEF m, lo, OnTop

(* Below them is the last function of the caller, unless that is startup     *)
(* code.                                                                   *)
LEMMA BelowFrame ==
  ASSUME NEW stk, NEW fr \in Seq(FrameType), NEW p \in Nat \ {0}, Len(fr) = p + 1, p # 1,
         Matches(stk, fr), Len(fr[p].fns) # 0
  PROVE  stk[Len(fr[p + 1].fns) + 1].sp = Top - fr[p].base
<1> DEFINE m  == Len(fr[p + 1].fns)
           fs == Front(fr)
           lo == Len(Levels(fs))
           q  == p - 1
<1>1. /\ m \in Nat /\ lo \in Nat
      /\ \A i \in 1 .. lo : LET e == stk[(m + lo) + 1 - i]
                            IN  /\ e.depth = Levels(fs)[i][2]
                                /\ e.sp = Top - fr[e.depth + 1].base
  <2>1. OnTop(stk, fr, p)
    BY TopFrame
  <2> QED BY <2>1 DEF OnTop
<1>2. fs \in Seq(FrameType) /\ Len(fs) = p /\ \A k \in 1 .. p : fs[k] = fr[k]
  BY ReturnedLevels DEF Returned
<1>3. q \in Nat \ {0} /\ p = q + 1 /\ p \in 1 .. p
  OBVIOUS
<1> HIDE DEF fs, q, m
<1> DEFINE l2 == Len(Levels(Front(fs)))
           m2 == Len(fs[q + 1].fns)
<1>4. /\ l2 \in Nat /\ m2 \in Nat /\ lo = l2 + m2
      /\ \A j \in 1 .. m2 : Levels(fs)[l2 + j] = <<fs[q + 1].fns[j].sym, q>>
  <2>1. Returned(q, fs)
    BY <1>2, <1>3, ReturnedLevels
  <2> QED BY <2>1 DEF Returned
<1>5. m2 # 0
  BY <1>2, <1>3
<1> HIDE DEF l2, m2, lo
<1>6. m2 \in 1 .. m2 /\ lo \in 1 .. lo /\ (m + lo) + 1 - lo = m + 1
  BY <1>1, <1>4, <1>5
<1>7. Levels(fs)[lo][2] = q
  <2>1. Levels(fs)[l2 + m2] = <<fs[q + 1].fns[m2].sym, q>>
    BY <1>4, <1>6, Zenon
  <2>2. lo = l2 + m2
    BY <1>4
  <2> HIDE DEF l2, m2
  <2>3. Levels(fs)[lo] = <<fs[q + 1].fns[m2].sym, q>>
    BY <2>1, <2>2, Zenon
  <2> QED BY <2>3
<1>8. stk[m + 1].depth = q /\ stk[m + 1].sp = Top - fr[stk[m + 1].depth + 1].base
  BY <1>1, <1>6, <1>7
<1> QED BY <1>3, <1>8 DEF m

(* A return takes the frame from the call stack, and a frame whose functions *)
(* came by tail calls with all of them.                                    *)
LEMMA ReturnMatches ==
  ASSUME NEW stk, NEW fr \in Seq(FrameType), NEW p \in Nat \ {0}, Len(fr) = p + 1,
         Matches(stk, fr), Len(fr[p].fns) # 0, Len(fr[p + 1].fns) # 0,
         fr[p].base < fr[p + 1].base,
         \A j \in 2 .. Len(fr[p + 1].fns) : fr[p + 1].fns[j].sym # T_MAIN,
         NEW sp, sp = Top - (fr[p + 1].base - 1)
  PROVE  Matches(AfterReturn(stk, sp), Front(fr))
<1> DEFINE m  == Len(fr[p + 1].fns)
           lo == Len(Levels(Front(fr)))
           n  == Len(stk)
<1>1. /\ m \in Nat /\ lo \in Nat /\ n \in Nat /\ m + lo < n
      /\ \A i \in 1 .. m : /\ stk[i].sym = fr[p + 1].fns[m + 1 - i].sym
                           /\ stk[i].sp = Top - fr[p + 1].base
  <2>1. OnTop(stk, fr, p)
    BY TopFrame
  <2> QED BY <2>1 DEF OnTop
<1>2. fr[p].base \in Nat /\ fr[p + 1].base \in Nat /\ Top \in Nat
  <2>1. p \in 1 .. Len(fr) /\ p + 1 \in 1 .. Len(fr)
    OBVIOUS
  <2> QED BY <2>1, FrameFields, RegionsAssumption
<1>3. m # 0
  OBVIOUS
<1>4. ASSUME NEW c \in Nat, m <= c, c < n, c = m \/ lo = 0
      PROVE  Matches(SubSeq(stk, c + 1, n), Front(fr))
  <2>1. /\ Front(fr) \in Seq(FrameType) /\ Len(Front(fr)) = p
        /\ \A k \in 1 .. p : Front(fr)[k] = fr[k]
        /\ Len(Levels(fr)) = lo + m
        /\ \A i \in 1 .. lo : Levels(fr)[i] = Levels(Front(fr))[i]
    BY ReturnedLevels DEF Returned
  <2> DEFINE fs == Front(fr)
  <2> HIDE DEF fs, m
  <2>2. /\ Len(fr) # 0 /\ Len(fs) # 0
        /\ \A i \in 1 .. Len(Levels(fs)) : Levels(fs)[i] = Levels(fr)[i]
        /\ \A k \in 1 .. Len(fs) : fs[k].base = fr[k].base
        /\ Len(Levels(fr)) = Len(Levels(fs)) + m
        /\ c = m \/ Len(Levels(fs)) = 0
    BY <1>4, <2>1 DEF fs
  <2>3. Matches(SubSeq(stk, c + 1, Len(stk)), fs)
    BY <1>1, <1>4, <2>1, <2>2, LeaveMatches DEF fs
  <2> QED BY <2>3 DEF fs
<1>5. PICK T : stk \in Seq(T)
  BY DEF Matches, Sequence
<1>6. stk # << >> /\ n # 1 /\ n # 0
  <2>1. Len(<< >>) = 0
    OBVIOUS
  <2> HIDE DEF m, lo, n
  <2>2. n # 1 /\ n # 0
    BY <1>1, <1>3
  <2> USE DEF n
  <2> QED BY <2>1, <2>2
<1>7. Tail(stk) = SubSeq(stk, 2, n) /\ Head(stk) = stk[1]
  BY <1>5, <1>6, TailIsSubSeq
<1> HIDE DEF m, lo, n
<1>8. CASE Head(stk).sym = T_MAIN
  <2>1. m = 1
    <3>1. stk[1].sym = fr[p + 1].fns[m].sym
      <4>1. 1 \in 1 .. m /\ m + 1 - 1 = m
        BY <1>1, <1>3
      <4> QED BY <1>1, <4>1
    <3>2. m \in 2 .. m => fr[p + 1].fns[m].sym # T_MAIN
      BY DEF m
    <3> QED BY <1>1, <1>3, <1>7, <1>8, <3>1, <3>2
  <2>2. AfterReturn(stk, sp) = SubSeq(stk, 1 + 1, n)
    BY <1>6, <1>7, <1>8 DEF AfterReturn, n
  <2>3. 1 < n
    BY <1>1, <1>6
  <2>4. 1 \in Nat /\ m <= 1
    BY <2>1
  <2>5. Matches(SubSeq(stk, 1 + 1, n), Front(fr))
    BY <1>4, <2>1, <2>3, <2>4
  <2> QED BY <2>2, <2>5
<1>9. CASE Head(stk).sym # T_MAIN
  <2> DEFINE t == Tail(stk)
             S == {i \in DOMAIN t : i = Len(t) \/ t[i].sp >= sp}
             k == Min(S)
  <2>1. /\ t \in Seq(T) /\ Len(t) = n - 1 /\ DOMAIN t = 1 .. n - 1
        /\ \A i \in 1 .. n - 1 : t[i] = stk[i + 1]
    BY <1>5, <1>6, HeadTailProperties, LenProperties DEF n
  <2> HIDE DEF t
  <2>2. S \subseteq 1 .. n - 1 /\ n - 1 \in S /\ S \subseteq Nat
    BY <1>1, <1>6, <2>1
  <2>3. k \in S /\ \A x \in S : k <= x
    <3> HIDE DEF S
    <3> QED BY <2>2, Least
  <2>4. k \in 1 .. n - 1
    BY <2>2, <2>3
  <2>5. m <= k
    <3>1. SUFFICES ASSUME k < m PROVE FALSE
      BY <1>1, <2>4
    <3>2. k + 1 \in 1 .. m /\ k # n - 1
      BY <1>1, <2>4, <3>1
    <3>3. t[k].sp >= sp
      BY <2>1, <2>3, <3>2
    <3>4. t[k].sp = Top - fr[p + 1].base
      BY <1>1, <2>1, <2>4, <3>2
    <3> HIDE DEF k
    <3> QED BY <1>2, <3>3, <3>4
  <2>6. k = m \/ lo = 0
    <3>1. CASE p = 1
      <4>1. Front(fr) \in Seq(FrameType) /\ Len(Front(fr)) = 1
        BY <3>1, ReturnedLevels DEF Returned
      <4>2. Levels(Front(fr)) = << >>
        BY <4>1, LevelsOfOne
      <4> QED BY <4>2 DEF lo
    <3>2. CASE p # 1
      <4>1. stk[m + 1].sp = Top - fr[p].base
        BY <3>2, BelowFrame DEF m
      <4>2. m \in 1 .. n - 1
        BY <1>1, <1>3
      <4>3. t[m].sp >= sp
        BY <1>2, <2>1, <4>1, <4>2, SMTT(30)
      <4>4. m \in S
        BY <2>1, <4>2, <4>3
      <4>5. k <= m
        BY <2>3, <4>4
      <4> QED BY <1>1, <2>4, <2>5, <4>5
    <3> QED BY <3>1, <3>2
  <2>7. AfterReturn(stk, sp) = SubSeq(t, k, Len(t))
    BY <1>6, <1>9 DEF AfterReturn, DropDeeper, n, t
  <2> HIDE DEF k, S
  <2>8. SubSeq(t, k, Len(t)) = SubSeq(stk, k + 1, n)
    <3> DEFINE i == 2
               o == n - 1
    <3>1. t = SubSeq(stk, i, n) /\ Len(t) = o /\ Len(stk) = n
      BY <1>7, <2>1 DEF t, n
    <3>2. i \in 1 .. Len(stk) /\ n \in 1 .. Len(stk) /\ k \in 1 .. n - i + 1 /\ o \in 1 .. n - i + 1
      BY <1>1, <1>6, <2>4, <3>1
    <3>3. i + k - 1 = k + 1 /\ i + o - 1 = n
      BY <1>1, <2>4
    <3> HIDE DEF i, o
    <3>4. SubSeq(SubSeq(stk, i, n), k, o) = SubSeq(stk, i + k - 1, i + o - 1)
      BY <1>5, <3>2, SubSeqOfSubSeq
    <3> QED BY <3>1, <3>3, <3>4
  <2>9. k \in Nat /\ k < n
    BY <1>1, <2>4
  <2>10. Matches(SubSeq(stk, k + 1, n), Front(fr))
    BY <1>4, <2>5, <2>6, <2>9
  <2> QED BY <2>7, <2>8, <2>10
<1> QED BY <1>8, <1>9

-----------------------------------------------------------------------------
(* What holds while a plain program runs                                    *)

FramesOK ==
  /\ frames \in Seq(FrameType) /\ Len(frames) # 0 /\ frames[1].base = 0
  /\ \A k \in 1 .. Len(frames) :
       /\ Len(frames[k].fns) # 0
       /\ frames[k].base <= Len(memory)
       /\ \A j \in 1 .. Len(frames[k].fns) : frames[k].fns[j].height = frames[k].base
       /\ k # 1 => \A j \in 2 .. Len(frames[k].fns) : frames[k].fns[j].sym # T_MAIN
  /\ \A k, l \in 1 .. Len(frames) : k < l => frames[k].base < frames[l].base

ReturnsOK ==
  \A k \in 2 .. Len(frames) :
    /\ memory[frames[k].base] \in {Inside(p) : p \in Places}
    /\ k = 2 <=> memory[frames[k].base][1] \in {"vectors", "init"}

MachineOK ==
  /\ prof \in Programs
  /\ pc \in Spots /\ memory \in Seq(Spots \cup {Data})
  /\ z = NoSymbol /\ jmp_buf = NoBuf
  /\ sp_set \in BOOLEAN /\ glitch \in Nat
  /\ Len(frames) = 1 <=> Here \in {"vectors", "init"}
  /\ Len(frames) # 1 => sp_set /\ glitch = 0

Targets == {Entry(f) : f \in (Ordinary \cap Named) \ {"main"}}

PushOK ==
  graph_id = "PUSH" =>
    /\ memory # << >>
    /\ Last(memory) # Data => /\ Len(frames) # 1 /\ Len(memory) = Frame.base + 1
                              /\ Last(memory) \in Targets

StackOK == Matches(ystack, frames)

-----------------------------------------------------------------------------

(* Types, and the last frame has the highest base.                         *)
LEMMA FrameFacts ==
  ASSUME FramesOK, memory \in Seq(Spots \cup {Data})
  PROVE  /\ Len(frames) \in Nat \ {0} /\ Len(frames) \in 1 .. Len(frames)
         /\ Len(memory) \in Nat /\ Frame.base <= Len(memory)
         /\ \A k \in 1 .. Len(frames) : /\ frames[k].base \in Nat /\ frames[k].base <= Frame.base
                                        /\ frames[k].fns \in Seq(FnType)
                                        /\ Len(frames[k].fns) \in Nat \ {0}
<1>1. frames \in Seq(FrameType) /\ Len(frames) \in Nat \ {0} /\ Len(memory) \in Nat
  BY LenProperties DEF FramesOK
<1>2. Len(frames) \in 1 .. Len(frames)
  BY <1>1
<1>3. Frame.base <= Len(memory)
  BY <1>2 DEF FramesOK, Frame
<1>4. ASSUME NEW k \in 1 .. Len(frames)
      PROVE  /\ frames[k].base \in Nat /\ frames[k].base <= Frame.base
             /\ frames[k].fns \in Seq(FnType) /\ Len(frames[k].fns) \in Nat \ {0}
  <2>1. /\ frames[k].base \in Nat /\ frames[k].fns \in Seq(FnType)
        /\ Len(frames[k].fns) \in Nat
    BY <1>1, FrameFields DEF FnType
  <2>2. Frame.base \in Nat
    BY <1>1, <1>2, FrameFields DEF Frame
  <2>3. CASE k = Len(frames)
    BY <2>1, <2>2, <2>3 DEF FramesOK, Frame
  <2>4. CASE k # Len(frames)
    <3>1. k < Len(frames)
      BY <1>1, <2>4
    <3>2. frames[k].base < frames[Len(frames)].base
      BY <1>2, <3>1 DEF FramesOK
    <3> QED BY <2>1, <2>2, <3>2 DEF FramesOK, Frame
  <2> QED BY <2>3, <2>4
<1> QED BY <1>1, <1>2, <1>3, <1>4

(* The stack may change above the last call.                                *)
KeepsBelow(b) == b <= Len(memory') /\ \A h \in 1 .. b : memory'[h] = memory[h]

LEMMA SameFrames ==
  ASSUME FramesOK, ReturnsOK, memory \in Seq(Spots \cup {Data}), Len(memory') \in Nat,
         UNCHANGED frames, KeepsBelow(Frame.base)
  PROVE  FramesOK' /\ ReturnsOK'
<1>1. /\ Len(frames) \in Nat \ {0}
      /\ \A k \in 1 .. Len(frames) : frames[k].base \in Nat /\ frames[k].base <= Frame.base
      /\ Len(frames) \in 1 .. Len(frames)
  BY FrameFacts
<1>2. Frame.base \in Nat
  BY <1>1 DEF Frame
<1>3. \A k \in 1 .. Len(frames) : frames[k].base <= Len(memory')
  <2> TAKE k \in 1 .. Len(frames)
  <2>1. frames[k].base \in Nat /\ frames[k].base <= Frame.base
    BY <1>1
  <2>2. Frame.base <= Len(memory')
    BY DEF KeepsBelow
  <2> HIDE DEF Frame
  <2> QED BY <1>2, <2>1, <2>2
<1>4. FramesOK'
  BY <1>3 DEF FramesOK
<1>5. ASSUME NEW k \in 2 .. Len(frames)
      PROVE  memory'[frames[k].base] = memory[frames[k].base]
  <2>1. k \in 1 .. Len(frames) /\ 1 \in 1 .. Len(frames) /\ 1 < k
    BY <1>1
  <2>2. frames[k].base # 0
    BY <1>1, <2>1 DEF FramesOK
  <2>3. frames[k].base \in 1 .. Frame.base
    BY <1>1, <1>2, <2>1, <2>2
  <2> QED BY <2>3 DEF KeepsBelow
<1>6. ReturnsOK'
  BY <1>5 DEF ReturnsOK
<1> QED BY <1>4, <1>6

(* The last frame gets one more function.                                  *)
LEMMA EnteredFrame ==
  ASSUME FramesOK, ReturnsOK, memory \in Seq(Spots \cup {Data}), Len(memory') \in Nat,
         NEW f, Entry(f) \in Syms, f # "main" \/ Len(frames) = 1,
         frames' = Entered(f, Frame.base), KeepsBelow(Frame.base)
  PROVE  /\ FramesOK' /\ ReturnsOK'
         /\ Len(frames') = Len(frames)
         /\ \A k \in 1 .. Len(frames) : frames'[k].base = frames[k].base
<1> DEFINE n == Len(frames)
           new == [sym |-> Entry(f), height |-> Frame.base]
           e == EnteredIn(frames, new)
<1>1. /\ n \in Nat \ {0} /\ n \in 1 .. n /\ frames \in Seq(FrameType)
      /\ Frame.base \in Nat
      /\ \A k \in 1 .. n : /\ frames[k].base \in Nat /\ frames[k].base <= Frame.base
                           /\ frames[k].fns \in Seq(FnType)
                           /\ Len(frames[k].fns) \in Nat \ {0}
  BY FrameFacts DEF FramesOK, Frame
<1>2. CASE frames' = frames
  BY <1>2, SameFrames
<1>3. CASE frames' = e
  <2>1. new \in FnType /\ new.sym = Entry(f) /\ new.height = Frame.base
    BY <1>1 DEF FnType
  <2> DEFINE fns == frames[n].fns
  <2> HIDE DEF new
  <2>2. /\ e \in Seq(FrameType) /\ Len(e) = n
        /\ \A k \in 1 .. n : k # n => e[k] = frames[k]
        /\ e[n].base = frames[n].base /\ e[n].fns = Append(fns, new)
    BY <1>1, <2>1, EnteredFrames
  <2> HIDE DEF e
  <2>3. /\ Len(Append(fns, new)) = Len(fns) + 1 /\ Len(fns) \in Nat \ {0}
        /\ \A j \in 1 .. Len(fns) : Append(fns, new)[j] = fns[j]
        /\ Append(fns, new)[Len(fns) + 1] = new
    BY <1>1, <2>1, AppendProperties
  <2> DEFINE a == Append(fns, new)
  <2> HIDE DEF a
  <2>4. \A k \in 1 .. n : e[k].base = frames[k].base
    BY <2>2
  <2>5. \A k \in 1 .. n : frames[k].base <= Len(memory')
    <3> TAKE k \in 1 .. n
    <3>1. frames[k].base \in Nat /\ frames[k].base <= Frame.base /\ Frame.base <= Len(memory')
      BY <1>1 DEF KeepsBelow
    <3> HIDE DEF Frame
    <3> QED BY <1>1, <3>1
  <2>6. Len(a) # 0 /\ (\A j \in 1 .. Len(a) : a[j].height = frames[n].base)
        /\ (n # 1 => \A j \in 2 .. Len(a) : a[j].sym # T_MAIN)
    <3>1. \A j \in 1 .. Len(a) : j = Len(fns) + 1 \/ j \in 1 .. Len(fns)
      BY <2>3, SMTT(30) DEF a
    <3>2. /\ \A j \in 1 .. Len(fns) : fns[j].height = frames[n].base
          /\ n # 1 => \A j \in 2 .. Len(fns) : fns[j].sym # T_MAIN
      BY <1>1 DEF FramesOK
    <3>3. new.height = frames[n].base /\ (n # 1 => new.sym # T_MAIN)
      BY <2>1 DEF Frame, Entry, T_MAIN
    <3>4. Len(a) # 0
      BY <2>3 DEF a
    <3>5. ASSUME NEW j \in 1 .. Len(a) PROVE a[j].height = frames[n].base
      <4>1. CASE j = Len(fns) + 1
        BY <2>3, <3>3, <4>1 DEF a
      <4>2. CASE j \in 1 .. Len(fns)
        BY <2>3, <3>2, <4>2 DEF a
      <4> QED BY <3>1, <4>1, <4>2
    <3>6. ASSUME n # 1, NEW j \in 2 .. Len(a) PROVE a[j].sym # T_MAIN
      <4>1. CASE j = Len(fns) + 1
        BY <2>3, <3>3, <3>6, <4>1 DEF a
      <4>2. CASE j # Len(fns) + 1
        <5>1. j \in 1 .. Len(fns) /\ j \in 2 .. Len(fns)
          BY <2>3, <4>2 DEF a
        <5> QED BY <2>3, <3>2, <3>6, <5>1 DEF a
      <4> QED BY <4>1, <4>2
    <3> QED BY <3>4, <3>5, <3>6
  <2>7. ASSUME NEW k \in 1 .. n
        PROVE  /\ Len(e[k].fns) # 0
               /\ \A j \in 1 .. Len(e[k].fns) : e[k].fns[j].height = e[k].base
               /\ k # 1 => \A j \in 2 .. Len(e[k].fns) : e[k].fns[j].sym # T_MAIN
    <3>1. CASE k = n
      <4>1. e[k].fns = a /\ e[k].base = frames[n].base
        BY <2>2, <3>1 DEF a
      <4> QED BY <2>6, <3>1, <4>1
    <3>2. CASE k # n
      <4>1. e[k] = frames[k]
        BY <2>2, <3>2
      <4> QED BY <4>1 DEF FramesOK
    <3> QED BY <3>1, <3>2
  <2>8. frames[1].base = 0 /\ (\A k, l \in 1 .. n : k < l => frames[k].base < frames[l].base)
        /\ 1 \in 1 .. n
    BY <1>1 DEF FramesOK
  <2>9. /\ \A k, l \in 1 .. n : k < l => e[k].base < e[l].base
        /\ e[1].base = 0 /\ \A k \in 1 .. n : e[k].base <= Len(memory')
    BY <2>4, <2>5, <2>8
  <2>10. FramesOK'
    <3>1. frames' = e /\ Len(e) = n /\ n # 0 /\ e \in Seq(FrameType)
      BY <1>1, <1>3, <2>2
    <3> HIDE DEF n
    <3> QED BY <2>7, <2>9, <3>1 DEF FramesOK
  <2>11. ASSUME NEW k \in 2 .. n
        PROVE  memory'[e[k].base] = memory[frames[k].base]
    <3>1. k \in 1 .. n /\ 1 < k
      BY <1>1
    <3>2. frames[k].base # 0
      BY <1>1, <2>8, <3>1
    <3>3. frames[k].base \in 1 .. Frame.base
      BY <1>1, <3>1, <3>2
    <3> QED BY <2>4, <3>1, <3>3 DEF KeepsBelow
  <2>12. ReturnsOK'
    <3>1. frames' = e /\ Len(e) = n
      BY <1>3, <2>2
    <3> QED BY <2>11, <3>1 DEF ReturnsOK
  <2> QED BY <1>3, <2>2, <2>4, <2>10, <2>12
<1>4. frames' = frames \/ frames' = e
  BY DEF Entered, EnteredIn
<1> QED BY <1>2, <1>3, <1>4

-----------------------------------------------------------------------------
(* The call stack and the frames change together                            *)

(* The top of the call stack is the function entered last.                 *)
LEMMA StackTop ==
  ASSUME FramesOK, memory \in Seq(Spots \cup {Data}), StackOK
  PROVE  /\ Head(ystack) = ystack[1] /\ Head(ystack).sym \in Syms
         /\ Head(ystack).depth = Len(frames) - 1
         /\ Len(frames) = 1 => Levels(frames) = << >>
         /\ Len(frames) # 1 => /\ Head(ystack).sp = Top - Frame.base
                               /\ Head(ystack).sym = Frame.fns[Len(Frame.fns)].sym
<1>1. frames \in Seq(FrameType) /\ Len(frames) \in Nat \ {0}
      /\ Len(Frame.fns) \in Nat \ {0}
  BY FrameFacts DEF FramesOK, Frame
<1>2. PICK T : ystack \in Seq(T)
  BY DEF StackOK, Matches, Sequence
<1>3. Len(ystack) \in Nat \ {0}
  <2>1. Len(Levels(frames)) \in Nat /\ Len(Levels(frames)) < Len(ystack)
    BY <1>1, LevelsBound DEF StackOK, Matches
  <2> QED BY <1>2, <2>1, LenProperties
<1>4. Head(ystack) = ystack[1] /\ 1 \in 1 .. Len(ystack)
  BY <1>2, <1>3
<1>5. Head(ystack).sym \in Syms
  BY <1>4 DEF StackOK, Matches
<1>6. CASE Len(frames) = 1
  <2>1. Levels(frames) = << >>
    BY <1>1, <1>6, LevelsOfOne
  <2>2. ystack[1].depth = 0
    <3>1. Len(<< >>) = 0 /\ 0 + 1 = 1
      OBVIOUS
    <3> QED BY <1>4, <2>1, <3>1 DEF StackOK, Matches
  <2> QED BY <1>4, <1>5, <1>6, <2>1, <2>2
<1>7. CASE Len(frames) # 1
  <2> DEFINE p == Len(frames) - 1
             m == Len(Frame.fns)
  <2>1. p \in Nat \ {0} /\ Len(frames) = p + 1
    BY <1>1, <1>7
  <2> HIDE DEF p
  <2>2. OnTop(ystack, frames, p)
    BY <1>1, <2>1, TopFrame DEF StackOK
  <2>3. \A i \in 1 .. m : /\ ystack[i].sym = Frame.fns[m + 1 - i].sym
                          /\ ystack[i].depth = p /\ ystack[i].sp = Top - Frame.base
    BY <2>1, <2>2 DEF OnTop, Frame
  <2> HIDE DEF m
  <2>4. 1 \in 1 .. m /\ m + 1 - 1 = m
    BY <1>1 DEF m
  <2>5. /\ ystack[1].sym = Frame.fns[m].sym
        /\ ystack[1].depth = p /\ ystack[1].sp = Top - Frame.base
    BY <2>3, <2>4
  <2> QED BY <1>4, <1>5, <1>7, <2>1, <2>5 DEF m, p
<1> QED BY <1>6, <1>7

LEMMA NodeFields ==
  ASSUME NEW sym, NEW d, NEW sp
  PROVE  LET l == NewNode(ystack, sym, d, sp)
         IN  l.sym = sym /\ l.depth = Head(ystack).depth + d /\ l.sp = sp
BY DEF NewNode

(* A tail call, a jump or falling through.                                  *)
LEMMA EnterStack ==
  ASSUME FramesOK, memory \in Seq(Spots \cup {Data}), StackOK, Len(frames) # 1,
         NEW f, Entry(f) \in Syms, frames' = Entered(f, Frame.base),
         NEW sp, sp = Top - Frame.base,
         ystack' = IF Entry(f) = Head(ystack).sym /\ sp = Head(ystack).sp THEN ystack
                   ELSE <<NewNode(ystack, Entry(f), 0, sp)>> \o ystack
  PROVE  StackOK'
<1> DEFINE n == Len(frames)
           fns == Frame.fns
           new == [sym |-> Entry(f), height |-> Frame.base]
           l == NewNode(ystack, Entry(f), 0, sp)
<1>1. /\ frames \in Seq(FrameType) /\ n \in Nat \ {0} /\ n \in 1 .. n
      /\ Frame.base \in Nat /\ fns \in Seq(FnType) /\ Len(fns) \in Nat \ {0}
  BY FrameFacts DEF FramesOK, Frame
<1>2. /\ Head(ystack).depth = n - 1
      /\ Head(ystack).sp = Top - Frame.base /\ Head(ystack).sym = fns[Len(fns)].sym
  BY StackTop
<1>3. Len(fns) \in 1 .. Len(fns) /\ fns[Len(fns)] \in FnType /\ fns[Len(fns)].height = Frame.base
  <2>1. Len(fns) \in 1 .. Len(fns)
    BY <1>1
  <2>2. fns[Len(fns)] \in FnType
    BY <1>1, <2>1, ElementOfSeq
  <2> QED BY <1>1, <2>1, <2>2 DEF FramesOK, Frame
<1>4. fns[Len(fns)] = new <=> Entry(f) = Head(ystack).sym
  <2>1. \A x \in FnType : x = [sym |-> x.sym, height |-> x.height]
    BY DEF FnType
  <2> QED BY <1>2, <1>3, <2>1
<1>5. CASE Entry(f) = Head(ystack).sym
  <2>1. frames' = frames
    BY <1>4, <1>5 DEF Entered
  <2>2. ystack' = ystack
    BY <1>2, <1>5
  <2> QED BY <2>1, <2>2 DEF StackOK
<1>6. CASE Entry(f) # Head(ystack).sym
  <2>1. frames' = EnteredIn(frames, new)
    BY <1>4, <1>6 DEF Entered, EnteredIn
  <2>2. new \in FnType /\ new.sym = Entry(f)
    BY <1>1 DEF FnType
  <2> HIDE DEF new
  <2> DEFINE e == EnteredIn(frames, new)
  <2>3. /\ e \in Seq(FrameType) /\ Len(e) = n
        /\ \A k \in 1 .. n : e[k].base = frames[k].base
    BY <1>1, <2>2, EnteredFrames, SMTT(30)
  <2>4. /\ Len(Levels(e)) = Len(Levels(frames)) + 1
        /\ \A i \in 1 .. Len(Levels(frames)) : Levels(e)[i] = Levels(frames)[i]
        /\ Levels(e)[Len(Levels(frames)) + 1] = <<Entry(f), n - 1>>
    <3>1. /\ Len(Levels(e)) = Len(Levels(frames)) + 1
          /\ \A i \in 1 .. Len(Levels(frames)) : Levels(e)[i] = Levels(frames)[i]
          /\ Levels(e)[Len(Levels(frames)) + 1] = <<new.sym, n - 1>>
      BY <1>1, <2>2, EnteredLevels
    <3> QED BY <2>2, <3>1
  <2> HIDE DEF e
  <2>5. l.sym = Entry(f) /\ l.depth = n - 1 /\ l.sp = sp
    BY <1>1, <1>2, NodeFields
  <2> HIDE DEF l
  <2>6. l.depth + 1 = n /\ e[n].base = Frame.base /\ Len(frames) # 0
    BY <1>1, <2>3, <2>5 DEF Frame
  <2>7. Levels(e)[Len(Levels(frames)) + 1] = <<l.sym, l.depth>> /\ l.sym \in Syms
        /\ l.sp = Top - e[l.depth + 1].base
    BY <2>4, <2>5, <2>6
  <2>8. Matches(<<l>> \o ystack, e)
    <3>1. Matches(ystack, frames)
      BY DEF StackOK
    <3>2. \A k \in 1 .. Len(frames) : e[k].base = frames[k].base
      BY <2>3
    <3> HIDE DEF n, fns
    <3> QED BY <1>1, <2>4, <2>6, <2>7, <3>1, <3>2, EnterMatches
  <2>9. ystack' = <<l>> \o ystack
    BY <1>6 DEF l
  <2> QED BY <2>1, <2>8, <2>9 DEF StackOK, e
<1> QED BY <1>5, <1>6

(* A call.                                                                  *)
LEMMA CallStack ==
  ASSUME FramesOK, memory \in Seq(Spots \cup {Data}), StackOK,
         NEW f, Entry(f) \in Syms, NEW b \in Nat,
         frames' = CalledIn(frames, b, [sym |-> Entry(f), height |-> b]),
         ystack' = <<NewNode(ystack, Entry(f), 1, Top - b)>> \o ystack
  PROVE  StackOK'
<1> DEFINE n == Len(frames)
           new == [sym |-> Entry(f), height |-> b]
           l == NewNode(ystack, Entry(f), 1, Top - b)
           e == CalledIn(frames, b, new)
<1>1. frames \in Seq(FrameType) /\ n \in Nat \ {0}
  BY FrameFacts DEF FramesOK
<1>2. new \in FnType /\ new.sym = Entry(f)
  BY DEF FnType
<1> HIDE DEF new
<1>3. /\ \A k \in 1 .. n : e[k] = frames[k]
      /\ e[n + 1].base = b
      /\ Len(Levels(e)) = Len(Levels(frames)) + 1
      /\ \A i \in 1 .. Len(Levels(frames)) : Levels(e)[i] = Levels(frames)[i]
      /\ Levels(e)[Len(Levels(frames)) + 1] = <<Entry(f), n>>
  <2>1. e = CalledIn(frames, b, new)
    OBVIOUS
  <2> HIDE DEF e
  <2>2. /\ \A k \in 1 .. n : e[k] = frames[k]
        /\ e[n + 1] = [base |-> b, fns |-> <<new>>]
        /\ Len(Levels(e)) = Len(Levels(frames)) + 1
        /\ \A i \in 1 .. Len(Levels(frames)) : Levels(e)[i] = Levels(frames)[i]
        /\ Levels(e)[Len(Levels(frames)) + 1] = <<new.sym, n>>
    BY <1>1, <1>2, <2>1, CalledLevels, SMTT(30)
  <2> QED BY <1>2, <2>2
<1> HIDE DEF e
<1>4. l.sym = Entry(f) /\ l.depth = n /\ l.sp = Top - b
  <2>1. Head(ystack).depth = n - 1
    BY StackTop
  <2>2. l.sym = Entry(f) /\ l.depth = Head(ystack).depth + 1 /\ l.sp = Top - b
    BY NodeFields
  <2> QED BY <1>1, <2>1, <2>2
<1> HIDE DEF l
<1>5. Levels(e)[Len(Levels(frames)) + 1] = <<l.sym, l.depth>> /\ l.sym \in Syms
      /\ l.sp = Top - e[l.depth + 1].base
  BY <1>3, <1>4
<1>6. Matches(<<l>> \o ystack, e)
  <2>1. Matches(ystack, frames) /\ Len(frames) # 0
    BY <1>1 DEF StackOK
  <2>2. \A k \in 1 .. Len(frames) : e[k].base = frames[k].base
    BY <1>3
  <2> HIDE DEF n
  <2> QED BY <1>1, <1>3, <1>5, <2>1, <2>2, EnterMatches
<1> QED BY <1>6 DEF StackOK, e, l, new

(* A return.                                                                *)
LEMMA ReturnStack ==
  ASSUME FramesOK, memory \in Seq(Spots \cup {Data}), StackOK, Len(frames) # 1,
         frames' = Front(frames), NEW sp, sp = Top - (Frame.base - 1),
         ystack' = AfterReturn(ystack, sp)
  PROVE  StackOK'
<1> DEFINE p == Len(frames) - 1
<1>1. frames \in Seq(FrameType) /\ p \in Nat \ {0} /\ Len(frames) = p + 1
  BY FrameFacts DEF FramesOK
<1> HIDE DEF p
<1>2. p \in 1 .. Len(frames) /\ p + 1 \in 1 .. Len(frames) /\ p < p + 1 /\ p + 1 # 1
  BY <1>1
<1>3. /\ Len(frames[p].fns) # 0 /\ Len(frames[p + 1].fns) # 0
      /\ frames[p].base < frames[p + 1].base
      /\ \A j \in 2 .. Len(frames[p + 1].fns) : frames[p + 1].fns[j].sym # T_MAIN
  BY <1>2 DEF FramesOK
<1>4. sp = Top - (frames[p + 1].base - 1)
  BY <1>1 DEF Frame
<1>5. Matches(ystack, frames)
  BY DEF StackOK
<1>6. Matches(AfterReturn(ystack, sp), Front(frames))
  BY <1>1, <1>3, <1>4, <1>5, ReturnMatches
<1> QED BY <1>6 DEF StackOK

(* Startup code.                                                            *)
LEMMA StartStack ==
  ASSUME FramesOK, StackOK, memory \in Seq(Spots \cup {Data}), Len(frames) = 1,
         FramesOK', Len(frames') = 1,
         NEW f, Entry(f) \in Syms, NEW sp,
         \/ ystack' = ystack
         \/ ystack' = <<NewNode(ystack, Entry(f), 0, sp)>> \o ystack
  PROVE  StackOK'
<1> DEFINE l == NewNode(ystack, Entry(f), 0, sp)
<1>1. Levels(frames) = << >> /\ Levels(frames') = << >>
  BY LevelsOfOne DEF FramesOK
<1>2. l.sym \in Syms /\ l.depth = 0
  <2>1. Head(ystack).depth = 0
    BY StackTop
  <2> QED BY <2>1, NodeFields
<1> HIDE DEF l
<1>3. Matches(ystack, frames)
  BY DEF StackOK
<1>4. CASE ystack' = ystack
  <2>1. Len(<< >>) = 0 /\ 1 .. 0 = {}
    OBVIOUS
  <2>2. Matches(ystack, frames')
    BY <1>1, <1>3, <2>1 DEF Matches
  <2> QED BY <1>4, <2>2 DEF StackOK
<1>5. CASE ystack' = <<l>> \o ystack
  <2>1. Matches(<<l>> \o ystack, frames')
    BY <1>1, <1>2, <1>3, StartMatches
  <2> QED BY <1>5, <2>1 DEF StackOK
<1> QED BY <1>4, <1>5 DEF l

-----------------------------------------------------------------------------
(* The frames of a call and a return                                        *)

(* A push and a pop.                                                        *)
LEMMA Pushed ==
  ASSUME NEW S, NEW m \in Seq(S), NEW v \in S
  PROVE  /\ Append(m, v) \in Seq(S) /\ Len(Append(m, v)) = Len(m) + 1 /\ Len(m) \in Nat
         /\ \A h \in 1 .. Len(m) : Append(m, v)[h] = m[h]
         /\ Last(Append(m, v)) = v /\ Append(m, v) # << >>
<1>1. /\ Append(m, v) \in Seq(S) /\ Len(Append(m, v)) = Len(m) + 1 /\ Append(m, v) # << >>
      /\ \A h \in 1 .. Len(m) : Append(m, v)[h] = m[h]
      /\ Append(m, v)[Len(m) + 1] = v
  BY AppendProperties
<1> QED BY <1>1, LenProperties DEF Last

LEMMA Popped ==
  ASSUME NEW S, NEW m \in Seq(S), Len(m) # 0
  PROVE  /\ Front(m) \in Seq(S) /\ Len(Front(m)) = Len(m) - 1 /\ Len(m) \in Nat
         /\ \A h \in 1 .. Len(m) - 1 : Front(m)[h] = m[h]
<1> DEFINE n == Len(m) - 1
           s == SubSeq(m, 1, n)
<1>1. n \in Nat /\ Len(m) \in Nat /\ n + 1 = Len(m)
  BY LenProperties
<1> HIDE DEF n
<1>2. \A i \in 1 .. n : m[i] \in S
  <2>1. \A i \in 1 .. n : i \in 1 .. Len(m)
    BY <1>1
  <2> QED BY <2>1, ElementOfSeq
<1>3. n \in Int /\ 1 \in Int /\ n - 1 + 1 = n /\ \A i \in 1 .. n : 1 + i - 1 = i
  BY <1>1
<1>4. /\ s \in Seq(S) /\ Len(s) = IF 1 <= n THEN n - 1 + 1 ELSE 0
      /\ \A i \in 1 .. n - 1 + 1 : s[i] = m[1 + i - 1]
  BY <1>2, <1>3, SubSeqProperties
<1> HIDE DEF s
<1>5. s \in Seq(S) /\ Len(s) = n /\ \A i \in 1 .. n : s[i] = m[i]
  BY <1>1, <1>3, <1>4
<1>6. Front(m) = s
  BY DEF Front, s, n
<1> QED BY <1>1, <1>5, <1>6 DEF n

LEMMA CalledFrame ==
  ASSUME FramesOK, ReturnsOK, memory \in Seq(Spots \cup {Data}),
         NEW p \in Places, NEW f, Entry(f) \in Syms,
         Len(frames) = 1 <=> p \in {"vectors", "init"},
         frames' = CalledIn(frames, Height + 1, [sym |-> Entry(f), height |-> Height + 1]),
         memory' = Append(memory, Inside(p))
  PROVE  /\ FramesOK' /\ ReturnsOK'
         /\ Len(frames') = Len(frames) + 1 /\ Len(memory') = Height + 1
         /\ memory' \in Seq(Spots \cup {Data})
<1> DEFINE n == Len(frames)
           b == Len(memory) + 1
           new == [sym |-> Entry(f), height |-> b]
           S == Spots \cup {Data}
<1>1. /\ n \in Nat \ {0} /\ frames \in Seq(FrameType) /\ Len(memory) \in Nat
      /\ \A k \in 1 .. n : frames[k].base \in Nat /\ frames[k].base <= Frame.base
      /\ Frame.base <= Len(memory) /\ Frame.base \in Nat
  BY FrameFacts DEF FramesOK, Frame
<1>2. b \in Nat /\ new \in FnType /\ new.height = b
  BY <1>1 DEF FnType
<1>3. Inside(p) \in S
  BY DEF Spots, Inside
<1>4. /\ memory' \in Seq(S) /\ Len(memory') = b
      /\ \A h \in 1 .. Len(memory) : memory'[h] = memory[h]
      /\ Last(memory') = Inside(p)
  <2> HIDE DEF S
  <2>1. /\ Append(memory, Inside(p)) \in Seq(S) /\ Len(Append(memory, Inside(p))) = Len(memory) + 1
        /\ \A h \in 1 .. Len(memory) : Append(memory, Inside(p))[h] = memory[h]
        /\ Last(Append(memory, Inside(p))) = Inside(p)
    BY <1>3, Pushed DEF S
  <2> QED BY <2>1
<1>5. memory'[b] = Inside(p)
  BY <1>4 DEF Last
<1>6. frames' = CalledIn(frames, b, new)
  BY DEF Height
<1> HIDE DEF new, b, S
<1>7. /\ frames' \in Seq(FrameType) /\ Len(frames') = n + 1
      /\ \A k \in 1 .. n : frames'[k] = frames[k]
      /\ frames'[n + 1] = [base |-> b, fns |-> <<new>>]
  BY <1>1, <1>2, <1>6, CalledLevels
<1>8. frames'[n + 1].base = b /\ frames'[n + 1].fns = <<new>>
  BY <1>7
<1> HIDE DEF n
<1>9. \A k \in 1 .. n + 1 : k \in 1 .. n \/ k = n + 1
  BY <1>1
<1>10. \A k \in 1 .. n : frames[k].base < b /\ frames[k].base <= b
  <2> HIDE DEF Frame
  <2> QED BY <1>1 DEF b
<1>11. /\ 1 \in 1 .. n /\ n + 1 # 0
       /\ frames[1].base = 0
       /\ \A k \in 1 .. n :
            /\ Len(frames[k].fns) # 0
            /\ \A j \in 1 .. Len(frames[k].fns) : frames[k].fns[j].height = frames[k].base
            /\ k # 1 => \A j \in 2 .. Len(frames[k].fns) : frames[k].fns[j].sym # T_MAIN
       /\ \A k, l \in 1 .. n : k < l => frames[k].base < frames[l].base
  <2>1. 1 \in 1 .. n /\ n + 1 # 0
    BY <1>1
  <2> QED BY <2>1 DEF FramesOK, n
<1>12. ASSUME NEW k \in 1 .. n + 1
       PROVE  /\ Len(frames'[k].fns) # 0
              /\ frames'[k].base <= Len(memory')
              /\ \A j \in 1 .. Len(frames'[k].fns) : frames'[k].fns[j].height = frames'[k].base
              /\ k # 1 => \A j \in 2 .. Len(frames'[k].fns) : frames'[k].fns[j].sym # T_MAIN
  <2>1. CASE k \in 1 .. n
    <3>1. frames'[k] = frames[k]
      BY <1>7, <2>1
    <3>2. frames[k].base <= Len(memory')
      BY <1>4, <1>10, <2>1
    <3> QED BY <1>11, <2>1, <3>1, <3>2
  <2>2. CASE k = n + 1
    <3>1. Len(<<new>>) = 1 /\ <<new>>[1] = new /\ 1 .. 1 = {1} /\ 2 .. 1 = {}
      OBVIOUS
    <3>2. b <= b
      BY <1>2
    <3> QED BY <1>2, <1>4, <1>8, <2>2, <3>1, <3>2
  <2> QED BY <1>9, <2>1, <2>2
<1>13. ASSUME NEW k \in 1 .. n + 1, NEW l \in 1 .. n + 1, k < l
       PROVE  frames'[k].base < frames'[l].base
  <2>1. k \in 1 .. n
    BY <1>1, <1>13
  <2>2. CASE l \in 1 .. n
    BY <1>7, <1>11, <1>13, <2>1, <2>2
  <2>3. CASE l = n + 1
    BY <1>7, <1>8, <1>10, <2>1, <2>3
  <2> QED BY <1>9, <2>2, <2>3
<1>14. FramesOK'
  BY <1>7, <1>11, <1>12, <1>13 DEF FramesOK
<1>15. ASSUME NEW k \in 2 .. n + 1
       PROVE  /\ memory'[frames'[k].base] \in {Inside(q) : q \in Places}
              /\ k = 2 <=> memory'[frames'[k].base][1] \in {"vectors", "init"}
  <2>1. CASE k = n + 1
    <3>1. memory'[frames'[k].base] = Inside(p)
      BY <1>5, <1>8, <2>1
    <3>2. k = 2 <=> p \in {"vectors", "init"}
      <4>1. n \in Nat
        BY <1>1 DEF n
      <4>2. k = 2 <=> n = 1
        BY <2>1, <4>1
      <4> QED BY <4>2 DEF n
    <3> DEFINE v == memory'[frames'[k].base]
    <3>3. v = Inside(p)
      BY <3>1
    <3> HIDE DEF v
    <3>4. v \in {Inside(q) : q \in Places} /\ (k = 2 <=> v[1] \in {"vectors", "init"})
      BY <3>2, <3>3 DEF Inside
    <3> QED BY <3>4 DEF v
  <2>2. CASE k # n + 1
    <3>1. k \in 1 .. n /\ k \in 2 .. n /\ 1 < k
      BY <1>1, <2>2
    <3>2. frames[k].base # 0 /\ frames[k].base \in Nat /\ frames[k].base <= Len(memory)
      <4>1. frames[1].base < frames[k].base /\ frames[1].base = 0
        BY <1>11, <3>1
      <4>2. frames[k].base <= Frame.base /\ frames[k].base \in Nat
        BY <1>1, <3>1 DEF n
      <4> HIDE DEF Frame
      <4> QED BY <1>1, <4>1, <4>2
    <3>3. frames[k].base \in 1 .. Len(memory)
      BY <1>1, <3>2
    <3>4. memory'[frames'[k].base] = memory[frames[k].base]
      BY <1>4, <1>7, <3>1, <3>3
    <3> QED BY <3>1, <3>4 DEF ReturnsOK, n
  <2> QED BY <2>1, <2>2
<1>16. ReturnsOK'
  BY <1>7, <1>15 DEF ReturnsOK
<1> QED BY <1>4, <1>7, <1>14, <1>16 DEF n, b, S, Height

(* No helper of a switch is left to cut off.                                *)
LEMMA NothingPruned ==
  ASSUME NEW fr \in Seq(FrameType), Len(fr) # 0, NEW h \in Nat,
         LET k == Len(fr)
         IN  /\ Len(fr[k].fns) # 0
             /\ \A j \in 1 .. Len(fr[k].fns) : fr[k].fns[j].height <= h
  PROVE  Pruned(fr, h) = fr
<1> DEFINE n == Len(fr)
           fns == fr[n].fns
           m == Len(fns)
           I == {i \in DOMAIN fns : i = 1 \/ fns[i].height <= h}
           top == Max(I)
<1>1. n \in Nat \ {0} /\ n \in 1 .. n /\ n \in DOMAIN fr /\ DOMAIN fr = 1 .. n
  <2>1. n \in Nat
    BY LenProperties
  <2>2. n \in 1 .. Len(fr)
    BY <2>1
  <2> QED BY <2>1, <2>2, LenProperties
<1>2. fns \in Seq(FnType) /\ DOMAIN fns = 1 .. m /\ m \in Nat \ {0} /\ fr[n] \in FrameType
  <2>1. /\ fr[n] \in FrameType /\ fns \in Seq([sym : Syms, height : Nat])
        /\ m \in Nat /\ DOMAIN fns = 1 .. m
    BY <1>1, FrameFields
  <2> QED BY <2>1 DEF FnType
<1>3. I = 1 .. m
  <2>1. \A j \in 1 .. m : fns[j].height <= h
    OBVIOUS
  <2> HIDE DEF m, fns
  <2> QED BY <1>2, <2>1
<1>4. top = m
  <2>1. m \in 1 .. m /\ \A y \in 1 .. m : m >= y
    BY <1>2
  <2>2. \A x \in 1 .. m : (\A y \in 1 .. m : x >= y) => x = m
    <3> TAKE x \in 1 .. m
    <3> HAVE \A y \in 1 .. m : x >= y
    <3>1. x >= m
      BY <2>1
    <3> HIDE DEF m
    <3> QED BY <1>2, <3>1
  <2> HIDE DEF m, I
  <2> QED BY <1>3, <2>1, <2>2 DEF Max
<1>5. SubSeq(fns, 1, m) = fns
  <2>1. \A i \in 1 .. m : fns[i] \in FnType
    BY <1>2, ElementOfSeq
  <2> HIDE DEF fns
  <2>2. m \in Int /\ 1 \in Int /\ 1 <= m /\ m - 1 + 1 = m /\ \A i \in 1 .. m : 1 + i - 1 = i
    BY <1>2
  <2> DEFINE s == SubSeq(fns, 1, m)
  <2>3. /\ s \in Seq(FnType) /\ Len(s) = IF 1 <= m THEN m - 1 + 1 ELSE 0
        /\ \A i \in 1 .. m - 1 + 1 : s[i] = fns[1 + i - 1]
    <3> HIDE DEF m
    <3> QED BY <2>1, <2>2, SubSeqProperties
  <2> HIDE DEF s
  <2>4. Len(s) = Len(fns) /\ \A i \in 1 .. Len(s) : s[i] = fns[i]
    BY <2>2, <2>3
  <2>5. s = fns
    BY <1>2, <2>3, <2>4, SeqEqual
  <2> QED BY <2>5 DEF s
<1> HIDE DEF I, top, m
<1>6. Pruned(fr, h) = [fr EXCEPT ![n].fns = SubSeq(fns, 1, top)]
  BY DEF Pruned, top, I
<1>7. [fr EXCEPT ![n].fns = fns] = fr
  <2>1. [fr[n] EXCEPT !.fns = fns] = fr[n]
    BY <1>2 DEF FrameType
  <2>2. [fr EXCEPT ![n].fns = fns] = [fr EXCEPT ![n] = [fr[n] EXCEPT !.fns = fns]]
    BY <1>1
  <2>3. [fr EXCEPT ![n] = fr[n]] = fr
    <3>1. fr = [i \in 1 .. n |-> fr[i]]
      BY <1>1
    <3> QED BY <1>1, <3>1
  <2> QED BY <2>1, <2>2, <2>3
<1> QED BY <1>4, <1>5, <1>6, <1>7

(* A return removes the last frame, and no function of the one below.      *)
LEMMA ReturnedFrame ==
  ASSUME FramesOK, ReturnsOK, memory \in Seq(Spots \cup {Data}), Len(frames) # 1,
         Height = Frame.base,
         frames' = Pruned(Front(frames), Height - 1), memory' = Front(memory)
  PROVE  /\ FramesOK' /\ ReturnsOK' /\ frames' = Front(frames)
         /\ Len(frames') = Len(frames) - 1 /\ Len(memory') = Frame.base - 1
         /\ memory' \in Seq(Spots \cup {Data}) /\ Len(memory) # 0
<1> DEFINE p == Len(frames) - 1
           b == Frame.base
           S == Spots \cup {Data}
<1>1. /\ frames \in Seq(FrameType) /\ p \in Nat \ {0} /\ Len(frames) = p + 1
      /\ b \in Nat /\ b = Len(memory)
      /\ \A k \in 1 .. p + 1 : frames[k].base \in Nat
  BY FrameFacts DEF FramesOK, Frame, Height
<1>2. /\ Front(frames) \in Seq(FrameType) /\ Len(Front(frames)) = p
      /\ \A k \in 1 .. p : Front(frames)[k] = frames[k]
  <2> HIDE DEF p
  <2> QED BY <1>1, ReturnedLevels DEF Returned
<1> HIDE DEF p
<1>3. \A k \in 1 .. p : /\ frames[k].base \in Nat /\ frames[k].base <= b - 1
                        /\ k \in 1 .. p + 1 /\ k \in 1 .. Len(frames)
  <2> TAKE k \in 1 .. p
  <2>1. k \in 1 .. Len(frames) /\ p + 1 \in 1 .. Len(frames) /\ k < p + 1
    BY <1>1
  <2>2. frames[k].base < frames[p + 1].base
    BY <2>1 DEF FramesOK
  <2>3. frames[p + 1].base = b /\ frames[k].base \in Nat
    BY <1>1, <2>1 DEF Frame
  <2> HIDE DEF b
  <2> QED BY <1>1, <2>1, <2>2, <2>3
<1>4. b - 1 \in Nat
  <2>1. 1 \in 1 .. p
    BY <1>1
  <2> HIDE DEF b
  <2> QED BY <1>1, <1>3, <2>1
<1>5. frames' = Front(frames)
  <2>1. p \in 1 .. p /\ p \in 1 .. Len(frames)
    BY <1>1
  <2>2. /\ Len(frames[p].fns) # 0
        /\ \A j \in 1 .. Len(frames[p].fns) : frames[p].fns[j].height = frames[p].base
    BY <2>1 DEF FramesOK
  <2>3. \A j \in 1 .. Len(frames[p].fns) : frames[p].fns[j].height <= b - 1
    BY <1>3, <2>1, <2>2
  <2> DEFINE fr == Front(frames)
  <2>4. fr \in Seq(FrameType) /\ Len(fr) = p /\ fr[p] = frames[p] /\ p # 0
    BY <1>1, <1>2, <2>1
  <2>5. frames' = Pruned(fr, b - 1)
    BY DEF Height
  <2> HIDE DEF fr, b
  <2>6. Pruned(fr, b - 1) = fr
    BY <1>4, <2>2, <2>3, <2>4, NothingPruned
  <2> QED BY <2>5, <2>6 DEF fr
<1>6. /\ memory' \in Seq(S) /\ Len(memory') = b - 1
      /\ \A h \in 1 .. b - 1 : memory'[h] = memory[h]
  <2> HIDE DEF S
  <2>1. memory \in Seq(S) /\ Len(memory) # 0
    BY <1>1, <1>4 DEF S
  <2>2. /\ Front(memory) \in Seq(S) /\ Len(Front(memory)) = Len(memory) - 1
        /\ \A h \in 1 .. Len(memory) - 1 : Front(memory)[h] = memory[h]
    BY <2>1, Popped
  <2> QED BY <1>1, <2>2
<1> HIDE DEF b, S
<1>7. /\ frames' \in Seq(FrameType) /\ Len(frames') = p
      /\ \A k \in 1 .. p : frames'[k] = frames[k]
  BY <1>2, <1>5
<1>8. FramesOK'
  <2>1. 1 \in 1 .. p /\ p # 0
    BY <1>1
  <2>2. \A k \in 1 .. p :
          /\ Len(frames[k].fns) # 0
          /\ \A j \in 1 .. Len(frames[k].fns) : frames[k].fns[j].height = frames[k].base
          /\ k # 1 => \A j \in 2 .. Len(frames[k].fns) : frames[k].fns[j].sym # T_MAIN
    BY <1>3 DEF FramesOK
  <2>3. \A k, l \in 1 .. p : k < l => frames[k].base < frames[l].base
    BY <1>3 DEF FramesOK
  <2>4. frames[1].base = 0
    BY DEF FramesOK
  <2>5. ASSUME NEW k \in 1 .. p
        PROVE  /\ Len(frames'[k].fns) # 0
               /\ frames'[k].base <= Len(memory')
               /\ \A j \in 1 .. Len(frames'[k].fns) : frames'[k].fns[j].height = frames'[k].base
               /\ k # 1 => \A j \in 2 .. Len(frames'[k].fns) : frames'[k].fns[j].sym # T_MAIN
    <3>1. frames'[k] = frames[k]
      BY <1>7
    <3>2. frames[k].base <= Len(memory')
      BY <1>3, <1>6
    <3> QED BY <2>2, <3>1, <3>2
  <2>6. \A k, l \in 1 .. p : k < l => frames'[k].base < frames'[l].base
    BY <1>7, <2>3
  <2>7. frames'[1].base = 0
    BY <1>7, <2>1, <2>4
  <2> QED BY <1>7, <2>1, <2>5, <2>6, <2>7 DEF FramesOK
<1>9. ASSUME NEW k \in 2 .. p
      PROVE  memory'[frames'[k].base] = memory[frames[k].base] /\ k \in 2 .. Len(frames)
  <2>1. k \in 1 .. p /\ 1 \in 1 .. p /\ 1 < k /\ k \in 2 .. Len(frames)
    BY <1>1
  <2>2. frames[1].base < frames[k].base /\ frames[1].base = 0
    BY <1>3, <2>1 DEF FramesOK
  <2>3. frames[k].base \in 1 .. b - 1
    BY <1>3, <1>4, <2>1, <2>2
  <2>4. frames'[k] = frames[k]
    BY <1>7, <2>1
  <2>5. memory'[frames[k].base] = memory[frames[k].base]
    BY <1>6, <2>3
  <2> QED BY <2>1, <2>4, <2>5
<1>10. ReturnsOK'
  BY <1>7, <1>9 DEF ReturnsOK
<1>11. Len(memory) # 0
  BY <1>1, <1>4
<1>12. Len(frames') = Len(frames) - 1 /\ Len(memory') = Frame.base - 1
  BY <1>6, <1>7 DEF p, b
<1>13. memory' \in Seq(Spots \cup {Data})
  BY <1>6 DEF S
<1> QED BY <1>5, <1>8, <1>10, <1>11, <1>12, <1>13

-----------------------------------------------------------------------------
(* One instruction of a plain program                                       *)

PlainOK == GraphOK /\ FramesOK /\ ReturnsOK /\ MachineOK /\ PushOK /\ StackOK

(* What the call graph is told.                                             *)
Told(i, id, to, mem) ==
  /\ i.id = id /\ i.pc = to
  /\ i.next = (id = "RCALL" /\ to = Inside(Here))
  /\ i.sp = SP(mem, sp_set') /\ i.glitch = (glitch' > 0)

LEMMA Execution ==
  ASSUME NEW id, NEW to, NEW mem, Executes(id, to, mem)
  PROVE  \E i : UpdateCallDepth(i) /\ Told(i, id, to, mem)
<1> DEFINE i == [id |-> id, old |-> pc, pc |-> to,
                 next |-> id = "RCALL" /\ to = Inside(Here),
                 sp |-> SP(mem, sp_set'), glitch |-> glitch' > 0, now |-> n_cycles']
<1>1. UpdateCallDepth(i)
  BY DEF Executes
<1>2. Told(i, id, to, mem)
  BY Zenon DEF Told
<1> HIDE DEF i
<1> QED BY <1>1, <1>2, Zenon

LEMMA Executed ==
  ASSUME NEW id, NEW to, NEW mem, Executes(id, to, mem)
  PROVE  ~left /\ pc' = to /\ memory' = mem /\ glitch' = NextGlitch(id)
         /\ UNCHANGED << prof, left >>
BY DEF Executes

(* The kinds of instructions.                                               *)
LEMMA CallKinds ==
  ASSUME NEW i, NEW id, NEW to, NEW mem, Told(i, id, to, mem)
  PROVE  /\ id \in {"OUT", "LDI", "PUSH", "POP", "JMP", "IJMP"} => CallOf(i) = 0
         /\ id = "RCALL" /\ to = Inside(Here) => CallOf(i) = 0
         /\ id \in {"CALL", "ICALL"} => CallOf(i) = 1
         /\ id = "RETI" \/ (id = "RET" /\ graph_id # "PUSH") => CallOf(i) = -1
         /\ id = "RET" /\ graph_id = "PUSH" => CallOf(i) = 0
<1>1. i.id = id
  BY DEF Told
<1>2. ASSUME id = "RCALL", to = Inside(Here) PROVE CallOf(i) = 0
  <2>1. i.next
    BY <1>2 DEF Told
  <2> QED BY <1>1, <1>2, <2>1 DEF CallOf
<1>3. id \in {"OUT", "LDI", "PUSH", "POP", "JMP", "IJMP"} => CallOf(i) = 0
  BY <1>1 DEF CallOf
<1>4. id \in {"CALL", "ICALL"} => CallOf(i) = 1
  BY <1>1 DEF CallOf
<1>5. id = "RETI" \/ (id = "RET" /\ graph_id # "PUSH") => CallOf(i) = -1
  BY <1>1 DEF CallOf
<1>6. id = "RET" /\ graph_id = "PUSH" => CallOf(i) = 0
  BY <1>1 DEF CallOf
<1> QED BY <1>2, <1>3, <1>4, <1>5, <1>6

(* The stack pointer is known in every call.                                *)
LEMMA SteadySP ==
  ASSUME NEW i, NEW id, NEW to, NEW mem, Executes(id, to, mem), Told(i, id, to, mem),
         sp_set', glitch = 0 \/ id \in Enders, id # "OUT"
  PROVE  NonglitchSP(i) = Top - Len(mem) /\ glitch' = 0
<1>1. glitch' = 0
  BY Executed DEF NextGlitch
<1>2. ~(0 > 0)
  OBVIOUS
<1>3. ~i.glitch
  <2>1. i.glitch = (0 > 0)
    BY <1>1, Zenon DEF Told
  <2> QED BY <1>2, <2>1, Zenon
<1>4. i.sp = Top - Len(mem)
  BY DEF Told, SP
<1> QED BY <1>1, <1>3, <1>4 DEF NonglitchSP

LEMMA GlitchCounts ==
  ASSUME NEW id, glitch \in Nat
  PROVE  NextGlitch(id) \in Nat
BY DEF NextGlitch

(* Inside a function nothing is entered.                                    *)
LEMMA QuietStep ==
  ASSUME PlainOK, NEW id, NEW to, NEW mem, Executes(id, to, mem),
         to \in {Inside(p) : p \in Places},
         id \in {"OUT", "LDI", "PUSH", "POP", "RCALL"}, id = "RCALL" => to = Inside(Here)
  PROVE  GraphOK' /\ graph_id' = id /\ ystack' = ystack
<1>1. PICK i : UpdateCallDepth(i) /\ Told(i, id, to, mem)
  BY Execution
<1>2. i.id = id /\ i.pc = to
  BY <1>1 DEF Told
<1>3. CallOf(i) = 0
  BY <1>1, CallKinds
<1>4. i.pc \notin func_sym
  <2>1. i.pc[2] = 1
    BY <1>2 DEF Inside
  <2>2. \A s \in func_sym : s[2] = 0
    BY DEF PlainOK, GraphOK, Entry
  <2> QED BY <2>1, <2>2
<1>5. ~Suspect(i)
  BY <1>2 DEF Suspect, IndirectJumps
<1>6. i.pc \in Spots /\ i.pc \notin Exits
  <2>1. i.pc \in Spots
    BY <1>2 DEF Inside, Spots
  <2>2. i.pc[2] = 1
    BY <1>2 DEF Inside
  <2> QED BY <2>1, <2>2 DEF Exits, Entry
<1>7. PlainStep(i)
  BY <1>1, <1>5, <1>6 DEF PlainStep
<1>8. GraphOK /\ Head(ystack).sym \in Syms
  BY StackTop DEF PlainOK, MachineOK
<1> QED BY <1>2, <1>3, <1>4, <1>7, <1>8, PlainQuiet

(* A tail call, a jump to another function, or falling through into it.     *)
LEMMA EnterStep ==
  ASSUME PlainOK, NEW id, NEW f \in Named, NEW mem, Executes(id, Entry(f), mem),
         f \in Ordinary,
         id \in {"LDI", "JMP", "IJMP"} \/ (id = "RET" /\ graph_id = "PUSH"),
         id = "JMP" => Entry(f) \notin Exits,
         sp_set', Len(frames) # 1, Len(mem) = Frame.base
  PROVE  /\ GraphOK' /\ graph_id' = id
         /\ ystack' = IF Entry(f) = Head(ystack).sym /\ Top - Frame.base = Head(ystack).sp
                      THEN ystack
                      ELSE <<NewNode(ystack, Entry(f), 0, Top - Frame.base)>> \o ystack
<1>1. PICK i : UpdateCallDepth(i) /\ Told(i, id, Entry(f), mem)
  BY Execution
<1>2. i.id = id /\ i.pc = Entry(f)
  BY <1>1 DEF Told
<1>3. CallOf(i) = 0
  BY <1>1, CallKinds
<1>4. NonglitchSP(i) = Top - Frame.base
  <2>1. glitch = 0
    BY DEF PlainOK, MachineOK
  <2> QED BY <1>1, <2>1, SteadySP
<1>5. GraphOK /\ Head(ystack).sym \in Syms /\ Head(ystack).sp = Top - Frame.base
  BY StackTop DEF PlainOK, MachineOK
<1>6. i.pc \in func_sym
  BY <1>2, <1>5 DEF GraphOK
<1>7. Frame.base \in Nat
  BY FrameFacts DEF PlainOK, MachineOK, Frame
<1>8. ~(NonglitchSP(i) > Head(ystack).sp)
  <2>1. Top - Frame.base \in Int
    BY <1>7, RegionsAssumption
  <2> DEFINE x == Top - Frame.base
  <2> HIDE DEF x
  <2> QED BY <1>4, <1>5, <2>1 DEF x
<1>9. i.pc \in Spots
  BY <1>2 DEF Spots, Places, Entry
<1>10. i.pc \in Exits => i.id \notin Jumps
  BY <1>2 DEF Jumps
<1>11. PlainStep(i)
  BY <1>1, <1>8, <1>9, <1>10 DEF PlainStep
<1> QED BY <1>2, <1>3, <1>4, <1>5, <1>6, <1>11, PlainEnters

-----------------------------------------------------------------------------
(* Steps that keep the frames                                               *)

(* Whatever changes the stack above the base of the last frame and stays   *)
(* in the function keeps the invariant.                                    *)
LEMMA StaysPlain ==
  ASSUME PlainOK, NEW id, NEW p \in Places, NEW mem \in Seq(Spots \cup {Data}),
         Executes(id, Inside(p), mem),
         id \in {"OUT", "LDI", "PUSH", "POP", "RCALL"}, id = "RCALL" => p = Here,
         UNCHANGED << frames, z, jmp_buf >>,
         Frame.base <= Len(mem), \A h \in 1 .. Frame.base : mem[h] = memory[h],
         sp_set' \in BOOLEAN, Len(frames) = 1 <=> p \in {"vectors", "init"},
         Len(frames) # 1 => sp_set' /\ id # "OUT",
         id = "PUSH" => /\ mem # << >>
                        /\ Last(mem) # Data => /\ Len(frames) # 1 /\ Len(mem) = Frame.base + 1
                                               /\ Last(mem) \in Targets
  PROVE  PlainOK'
<1>1. ~left /\ pc' = Inside(p) /\ memory' = mem /\ glitch' = NextGlitch(id) /\ prof' = prof
  BY Executed
<1>2. GraphOK' /\ graph_id' = id /\ ystack' = ystack
  BY QuietStep
<1>3. FramesOK' /\ ReturnsOK'
  <2>1. memory \in Seq(Spots \cup {Data})
    BY DEF PlainOK, MachineOK
  <2>2. KeepsBelow(Frame.base)
    BY <1>1 DEF KeepsBelow
  <2>3. Len(memory') \in Nat
    BY <1>1, LenProperties
  <2> QED BY <2>1, <2>2, <2>3, SameFrames DEF PlainOK
<1>4. MachineOK'
  <2>1. pc' \in Spots /\ pc'[1] = p
    BY <1>1 DEF Inside, Spots
  <2>2. glitch' \in Nat /\ (Len(frames) # 1 => glitch' = 0)
    <3>1. glitch' \in Nat
      BY <1>1, GlitchCounts DEF PlainOK, MachineOK
    <3>2. Len(frames) # 1 => glitch' = 0
      BY <1>1 DEF PlainOK, MachineOK, NextGlitch
    <3> QED BY <3>1, <3>2
  <2> QED BY <1>1, <2>1, <2>2 DEF MachineOK, PlainOK, Here
<1>5. PushOK'
  <2>1. graph_id' = "PUSH" => id = "PUSH"
    BY <1>2
  <2> QED BY <1>1, <2>1 DEF PushOK, Frame
<1>6. StackOK'
  BY <1>2 DEF StackOK, PlainOK
<1> QED BY <1>2, <1>3, <1>4, <1>5, <1>6 DEF PlainOK

(* A jump into another function, to its entry.                              *)
LEMMA EntersPlain ==
  ASSUME PlainOK, NEW id, NEW f \in Named, f \in Ordinary, f # "main",
         NEW mem \in Seq(Spots \cup {Data}), Executes(id, Entry(f), mem),
         id \in {"LDI", "JMP", "IJMP"} \/ (id = "RET" /\ graph_id = "PUSH"),
         id = "JMP" => Entry(f) \notin Exits,
         frames' = Entered(f, Frame.base), z' = NoSymbol, jmp_buf' = NoBuf,
         sp_set' = sp_set, Len(frames) # 1,
         Len(mem) = Frame.base, \A h \in 1 .. Frame.base : mem[h] = memory[h]
  PROVE  PlainOK'
<1>1. ~left /\ pc' = Entry(f) /\ memory' = mem /\ glitch' = NextGlitch(id) /\ prof' = prof
  BY Executed
<1>2. sp_set' /\ glitch = 0 /\ sp_set' \in BOOLEAN
  BY DEF PlainOK, MachineOK
<1>3. /\ GraphOK' /\ graph_id' = id
      /\ ystack' = IF Entry(f) = Head(ystack).sym /\ Top - Frame.base = Head(ystack).sp
                   THEN ystack
                   ELSE <<NewNode(ystack, Entry(f), 0, Top - Frame.base)>> \o ystack
  BY <1>2, EnterStep
<1>4. Entry(f) \in Syms
  BY DEF Syms, Places
<1>5. memory \in Seq(Spots \cup {Data})
  BY DEF PlainOK, MachineOK
<1>6. /\ FramesOK' /\ ReturnsOK' /\ Len(frames') = Len(frames)
  <2>1. KeepsBelow(Frame.base)
    <3>1. Frame.base \in Nat
      BY <1>5, FrameFacts DEF PlainOK, Frame
    <3>2. Frame.base <= Len(mem)
      <4> HIDE DEF Frame
      <4> QED BY <3>1
    <3> QED BY <1>1, <3>2 DEF KeepsBelow
  <2>2. Len(memory') \in Nat
    BY <1>1, LenProperties
  <2> QED BY <1>4, <1>5, <2>1, <2>2, EnteredFrame DEF PlainOK
<1>7. MachineOK'
  <2>1. pc' \in Spots
    BY <1>1 DEF Entry, Spots, Places
  <2>2. glitch' = 0 /\ glitch' \in Nat
    <3>1. glitch' = 0
      BY <1>1, <1>2 DEF NextGlitch
    <3> QED BY <3>1
  <2>3. pc'[1] \notin {"vectors", "init"}
    BY <1>1 DEF Entry, Ordinary
  <2> QED BY <1>1, <1>2, <1>6, <2>1, <2>2, <2>3 DEF MachineOK, PlainOK, Here
<1>8. PushOK'
  <2>1. graph_id' # "PUSH"
    BY <1>3
  <2> QED BY <2>1 DEF PushOK
<1>9. StackOK'
  BY <1>3, <1>4, <1>5, EnterStack DEF PlainOK
<1> QED BY <1>3, <1>6, <1>7, <1>8, <1>9 DEF PlainOK

(* A call.                                                                  *)
LEMMA CallsPlain ==
  ASSUME PlainOK, NEW id \in {"CALL", "ICALL"}, NEW f \in Ordinary,
         Executes(id, Entry(f), Append(memory, Inside(Here))),
         frames' = Append(frames, [base |-> Height + 1,
                                   fns |-> <<[sym |-> Entry(f), height |-> Height + 1]>>]),
         z' = NoSymbol, jmp_buf' = NoBuf, sp_set' = TRUE, NextGlitch(id) = 0
  PROVE  PlainOK'
<1> DEFINE mem == Append(memory, Inside(Here))
<1>1. ~left /\ pc' = Entry(f) /\ memory' = mem /\ glitch' = 0 /\ prof' = prof
  BY Executed
<1>2. memory \in Seq(Spots \cup {Data}) /\ Here \in Places
      /\ (Len(frames) = 1 <=> Here \in {"vectors", "init"})
  BY DEF PlainOK, MachineOK, Spots, Here
<1>3. Entry(f) \in Syms /\ Entry(f) \in Spots
  BY DEF Syms, Places, Entry, Spots
<1>4. frames' = CalledIn(frames, Height + 1, [sym |-> Entry(f), height |-> Height + 1])
  BY DEF CalledIn
<1>5. /\ FramesOK' /\ ReturnsOK'
      /\ Len(frames') = Len(frames) + 1 /\ Len(memory') = Height + 1
      /\ memory' \in Seq(Spots \cup {Data})
  BY <1>1, <1>2, <1>3, <1>4, CalledFrame DEF PlainOK
<1>6. PICK i : UpdateCallDepth(i) /\ Told(i, id, Entry(f), mem)
  BY Execution
<1>7. i.id = id /\ i.pc = Entry(f)
  BY <1>6 DEF Told
<1>8. CallOf(i) = 1
  BY <1>6, CallKinds
<1>9. NonglitchSP(i) = Top - (Height + 1)
  <2>1. i.glitch = (glitch' > 0) /\ i.sp = SP(mem, sp_set')
    BY <1>6 DEF Told
  <2>2. ~(0 > 0)
    OBVIOUS
  <2>3. ~i.glitch
    <3>1. i.glitch = (0 > 0)
      BY <1>1, <2>1, Zenon
    <3> QED BY <2>2, <3>1, Zenon
  <2>4. i.sp = Top - Len(mem)
    BY <2>1 DEF SP
  <2> QED BY <1>1, <1>5, <2>3, <2>4 DEF NonglitchSP
<1>10. PlainStep(i)
  <2>1. ~Suspect(i)
    BY <1>7 DEF Suspect, IndirectJumps
  <2>2. i.id \notin Jumps
    BY <1>7 DEF Jumps
  <2> QED BY <1>3, <1>6, <1>7, <2>1, <2>2 DEF PlainStep
<1>11. GraphOK /\ Head(ystack).sym \in Syms
  BY <1>2, StackTop DEF PlainOK
<1>12. i.pc \in {Entry(g) : g \in Regions}
  BY <1>7 DEF Ordinary
<1>13. /\ GraphOK' /\ graph_id' = id
       /\ ystack' = <<NewNode(ystack, Entry(f), 1, Top - (Height + 1))>> \o ystack
  BY <1>7, <1>8, <1>9, <1>10, <1>11, <1>12, PlainCall
<1>14. StackOK'
  <2>1. Height + 1 \in Nat
    BY <1>2, LenProperties DEF Height
  <2> QED BY <1>2, <1>3, <1>4, <1>13, <2>1, CallStack DEF PlainOK
<1>15. MachineOK'
  <2>1. Len(frames') # 1
    <3>1. Len(frames) \in Nat \ {0}
      BY <1>2, FrameFacts DEF PlainOK
    <3> QED BY <1>5, <3>1
  <2>2. pc'[1] \notin {"vectors", "init"}
    BY <1>1 DEF Entry, Ordinary
  <2> QED BY <1>1, <1>3, <1>5, <2>1, <2>2 DEF MachineOK, PlainOK, Here
<1>16. PushOK'
  <2>1. graph_id' # "PUSH"
    BY <1>13
  <2> QED BY <2>1 DEF PushOK
<1> QED BY <1>5, <1>13, <1>14, <1>15, <1>16 DEF PlainOK

(* A return.                                                                *)
LEMMA ReturnsPlain ==
  ASSUME PlainOK, NEW id \in {"RET", "RETI"}, graph_id # "PUSH",
         Executes(id, Last(memory), Front(memory)),
         Len(frames) # 1, Height = Frame.base,
         frames' = Pruned(Front(frames), Height - 1),
         z' = NoSymbol, jmp_buf' = NoBuf, sp_set' = sp_set
  PROVE  PlainOK'
<1> DEFINE to  == Last(memory)
           mem == Front(memory)
<1>1. ~left /\ pc' = to /\ memory' = mem /\ glitch' = NextGlitch(id) /\ prof' = prof
  BY Executed
<1>2. memory \in Seq(Spots \cup {Data}) /\ sp_set' /\ sp_set' \in BOOLEAN /\ glitch = 0
  BY DEF PlainOK, MachineOK
<1>3. /\ FramesOK' /\ ReturnsOK' /\ frames' = Front(frames)
      /\ Len(frames') = Len(frames) - 1 /\ Len(memory') = Frame.base - 1
      /\ memory' \in Seq(Spots \cup {Data}) /\ Len(memory) # 0
  BY <1>1, <1>2, ReturnedFrame DEF PlainOK
<1>4. Len(frames) \in Nat \ {0} /\ Len(frames) \in 2 .. Len(frames)
  <2>1. Len(frames) \in Nat \ {0}
    BY <1>2, FrameFacts DEF PlainOK
  <2> QED BY <2>1
<1>5. /\ to \in {Inside(p) : p \in Places}
      /\ Len(frames) = 2 <=> to[1] \in {"vectors", "init"}
  <2>1. to = memory[frames[Len(frames)].base]
    BY DEF Last, Height, Frame
  <2> HIDE DEF to
  <2> QED BY <1>4, <2>1 DEF PlainOK, ReturnsOK
<1>6. to \in Spots /\ to \notin Exits
  <2>1. PICK p \in Places : to = Inside(p)
    BY <1>5
  <2> HIDE DEF to
  <2> QED BY <2>1 DEF Inside, Spots, Exits, Entry
<1> HIDE DEF to
<1>7. PICK i : UpdateCallDepth(i) /\ Told(i, id, to, mem)
  BY Execution DEF to
<1>8. i.id = id /\ i.pc = to
  BY <1>7 DEF Told
<1>9. CallOf(i) = -1
  BY <1>7, CallKinds
<1>10. NonglitchSP(i) = Top - (Frame.base - 1) /\ glitch' = 0
  <2>1. NonglitchSP(i) = Top - Len(mem) /\ glitch' = 0
    BY <1>2, <1>7, SteadySP DEF to
  <2> QED BY <1>1, <1>3, <2>1
<1>11. PlainStep(i)
  <2>1. ~Suspect(i)
    BY <1>8 DEF Suspect, IndirectJumps
  <2> QED BY <1>6, <1>7, <1>8, <2>1 DEF PlainStep
<1>12. GraphOK /\ Head(ystack).sym \in Syms
  BY <1>2, StackTop DEF PlainOK
<1>13. /\ GraphOK' /\ graph_id' = id
       /\ ystack' = AfterReturn(ystack, Top - (Frame.base - 1))
  BY <1>8, <1>9, <1>10, <1>11, <1>12, PlainReturn
<1>14. StackOK'
  BY <1>2, <1>3, <1>13, ReturnStack DEF PlainOK
<1>15. MachineOK'
  <2>1. Len(frames') = 1 <=> pc'[1] \in {"vectors", "init"}
    <3>1. Len(frames') = 1 <=> Len(frames) = 2
      <4>1. \A n \in Nat : \A l : l = n - 1 => (l = 1 <=> n = 2)
        OBVIOUS
      <4>2. Len(frames) \in Nat /\ Len(frames') = Len(frames) - 1
        BY <1>3, <1>4
      <4> QED BY <4>1, <4>2, Zenon
    <3> QED BY <1>1, <1>5, <3>1
  <2> QED BY <1>1, <1>2, <1>3, <1>6, <1>10, <2>1 DEF MachineOK, PlainOK, Here
<1>16. PushOK'
  <2>1. graph_id' # "PUSH"
    BY <1>13
  <2> QED BY <2>1 DEF PushOK
<1> QED BY <1>3, <1>13, <1>14, <1>15, <1>16 DEF PlainOK

(* Startup code.                                                            *)
LEMMA StartsPlain ==
  ASSUME PlainOK, JumpToInit
  PROVE  PlainOK'
<1>1. /\ ~left /\ pc' = Entry("init") /\ memory' = memory /\ glitch' = NextGlitch("JMP")
      /\ prof' = prof
  BY Executed DEF JumpToInit
<1>2. memory \in Seq(Spots \cup {Data}) /\ Len(frames) = 1
  BY DEF PlainOK, MachineOK, JumpToInit
<1>3. Entry("init") \in Syms /\ Entry("init") \in Spots
  BY DEF Syms, Places, Entry, Spots
<1>4. Frame.base = 0
  BY <1>2 DEF PlainOK, FramesOK, Frame
<1>5. frames' = Entered("init", Frame.base)
  BY <1>4 DEF JumpToInit
<1>6. FramesOK' /\ ReturnsOK' /\ Len(frames') = 1
  <2>1. KeepsBelow(Frame.base)
    <3>1. Frame.base <= Len(memory)
      BY <1>2, FrameFacts DEF PlainOK
    <3> QED BY <1>1, <3>1 DEF KeepsBelow
  <2>2. Len(memory') \in Nat
    BY <1>1, <1>2, LenProperties
  <2> QED BY <1>2, <1>3, <1>5, <2>1, <2>2, EnteredFrame DEF PlainOK
<1>7. PICK i : UpdateCallDepth(i) /\ Told(i, "JMP", Entry("init"), memory)
  BY Execution DEF JumpToInit
<1>8. i.id = "JMP" /\ i.pc = Entry("init")
  BY <1>7 DEF Told
<1>9. CallOf(i) = 0
  BY <1>7, CallKinds
<1>10. PlainStep(i)
  <2>1. ~Suspect(i)
    BY <1>8 DEF Suspect, IndirectJumps
  <2>2. i.pc \notin Exits
    BY <1>8 DEF Exits, Entry
  <2> QED BY <1>3, <1>7, <1>8, <2>1, <2>2 DEF PlainStep
<1>11. GraphOK /\ Head(ystack).sym \in Syms
  BY <1>2, StackTop DEF PlainOK
<1>12. /\ GraphOK' /\ graph_id' = "JMP"
       /\ \/ ystack' = ystack
          \/ ystack' = <<NewNode(ystack, Entry("init"), 0, NonglitchSP(i))>> \o ystack
  <2>1. CASE i.pc \in func_sym
    <3>1. /\ GraphOK' /\ graph_id' = i.id
          /\ ystack' = IF i.pc = Head(ystack).sym /\ NonglitchSP(i) = Head(ystack).sp THEN ystack
                       ELSE <<NewNode(ystack, i.pc, 0, NonglitchSP(i))>> \o ystack
      BY <1>9, <1>10, <1>11, <2>1, PlainEnters
    <3> QED BY <1>8, <3>1
  <2>2. CASE i.pc \notin func_sym
    BY <1>8, <1>9, <1>10, <1>11, <2>2, PlainQuiet
  <2> QED BY <2>1, <2>2
<1>13. StackOK'
  BY <1>2, <1>3, <1>6, <1>12, StartStack DEF PlainOK
<1>14. MachineOK'
  <2>1. glitch' \in Nat
    BY <1>1, GlitchCounts DEF PlainOK, MachineOK
  <2>2. pc'[1] = "init"
    BY <1>1 DEF Entry
  <2>3. UNCHANGED << z, jmp_buf, sp_set >>
    BY DEF JumpToInit, Keeps
  <2> QED BY <1>1, <1>3, <1>6, <2>1, <2>2, <2>3 DEF MachineOK, PlainOK, Here
<1>15. PushOK'
  <2>1. graph_id' # "PUSH"
    BY <1>12
  <2> QED BY <2>1 DEF PushOK
<1> QED BY <1>6, <1>12, <1>13, <1>14, <1>15 DEF PlainOK

-----------------------------------------------------------------------------
(* Every step of a plain program                                            *)

LEMMA PlainHas ==
  ASSUME PlainProgram(prof), NEW kind, Has(kind)
  PROVE  kind \in Simple
BY DEF PlainProgram, Has

(* The machine, in the terms its actions use.                              *)
LEMMA PlainMachine ==
  ASSUME PlainOK
  PROVE  /\ memory \in Seq(Spots \cup {Data}) /\ Here \in Places /\ sp_set \in BOOLEAN
         /\ pc \in Spots /\ z = NoSymbol /\ jmp_buf = NoBuf
         /\ Len(memory) \in Nat /\ Frame.base \in Nat /\ Frame.base <= Len(memory)
         /\ Len(frames) \in Nat \ {0}
         /\ Len(frames) = 1 <=> Here \in {"vectors", "init"}
         /\ Len(frames) # 1 => sp_set
         /\ graph_id = "PUSH" =>
              /\ memory # << >>
              /\ Last(memory) # Data => /\ Len(frames) # 1 /\ Len(memory) = Frame.base + 1
                                        /\ Last(memory) \in Targets
<1>1. /\ memory \in Seq(Spots \cup {Data}) /\ pc \in Spots /\ z = NoSymbol /\ jmp_buf = NoBuf
      /\ sp_set \in BOOLEAN /\ (Len(frames) = 1 <=> Here \in {"vectors", "init"})
      /\ (Len(frames) # 1 => sp_set)
  BY DEF PlainOK, MachineOK
<1>2. Here \in Places
  BY <1>1 DEF Spots, Here
<1>3. /\ Len(memory) \in Nat /\ Frame.base \in Nat /\ Frame.base <= Len(memory)
      /\ Len(frames) \in Nat \ {0}
  BY <1>1, FrameFacts DEF PlainOK, Frame
<1> QED BY <1>1, <1>2, <1>3 DEF PlainOK, PushOK

(* What a plain program never does.                                         *)
NeverDone ==
  \/ FreeStack \/ Switch \/ TableJump \/ SetjmpPop \/ SetjmpReturn
  \/ LongjmpCall \/ RestoreSP \/ LongjmpJump \/ LongjmpToReset
  \/ (\E k \in {0, 1} : Prologue(k) \/ Epilogue(k))
  \/ (\E id \in {"JMP", "RJMP"} : JumpToExit(id))

LEMMA NeverPlain ==
  ASSUME PlainOK, PlainProgram(prof)
  PROVE  ~NeverDone
<1>1. /\ ~Has("args") /\ ~Has("switch") /\ ~Has("prologue") /\ ~Has("longjmp") /\ ~Has("exit")
      /\ ~Has("builtin")
  BY PlainHas DEF Simple
<1>2. ~Has("bad jmp_buf")
  <2>1. "bad jmp_buf" \notin Simple
    BY Zenon DEF Simple
  <2>2. ASSUME Has("bad jmp_buf") PROVE FALSE
    BY PlainHas, <2>1, <2>2, Zenon
  <2> QED BY <2>2, Zenon
<1>3. Here \in Places /\ z = NoSymbol /\ jmp_buf = NoBuf
  BY PlainMachine
<1>4. Here \notin {"setjmp", "longjmp", "__tablejump2__", "__prologue_saves__"}
  BY <1>3 DEF Places, Ordinary, Helpers
<1>5. ~FreeStack /\ ~Switch /\ \A k : ~Prologue(k) /\ ~Epilogue(k)
  BY <1>1, Zenon DEF FreeStack, Switch, Prologue, Epilogue
<1>6. ~TableJump /\ ~SetjmpPop /\ ~SetjmpReturn
  BY <1>4, Zenon DEF TableJump, SetjmpPop, SetjmpReturn
<1>7. ~LongjmpCall /\ ~LongjmpToReset
  BY <1>1, <1>2, Zenon DEF LongjmpCall, LongjmpToReset
<1>8. ~RestoreSP /\ ~LongjmpJump
  BY <1>3, Zenon DEF RestoreSP, LongjmpJump
<1>9. \A id : ~JumpToExit(id)
  BY <1>1, Zenon DEF JumpToExit
<1> QED BY <1>5, <1>6, <1>7, <1>8, <1>9, Zenon DEF NeverDone

LEMMA PlainSetSP ==
  ASSUME PlainOK, SetSP
  PROVE  PlainOK'
<1>1. /\ Executes("OUT", Inside("init"), memory) /\ UNCHANGED << frames, z, jmp_buf >>
      /\ sp_set' \in BOOLEAN /\ ~sp_set
  BY DEF SetSP
<1>2. "init" \in Places
  BY DEF Places
<1>3. Len(frames) = 1
  BY <1>1, PlainMachine
<1> QED BY <1>1, <1>2, <1>3, PlainMachine, StaysPlain

LEMMA PlainWork ==
  ASSUME PlainOK, Work
  PROVE  PlainOK'
<1>1. /\ Executes("LDI", Inside(Here), memory) /\ UNCHANGED << frames, z, jmp_buf, sp_set >>
  BY DEF Work, Keeps
<1> QED BY <1>1, PlainMachine, StaysPlain

(* PUSH, and RCALL of the next instruction.                                *)
LEMMA PlainPushes ==
  ASSUME PlainOK, NEW id \in {"PUSH", "RCALL"}, NEW v \in Spots \cup {Data},
         Executes(id, Inside(Here), Append(memory, v)),
         UNCHANGED << frames, z, jmp_buf, sp_set >>,
         id = "PUSH" /\ v # Data => /\ Len(frames) # 1 /\ Len(memory) = Frame.base /\ v \in Targets
  PROVE  PlainOK'
<1> DEFINE S == Spots \cup {Data}
           mem == Append(memory, v)
<1>1. memory \in Seq(S) /\ v \in S
  BY PlainMachine
<1> HIDE DEF S
<1>2. /\ mem \in Seq(S) /\ Len(mem) = Len(memory) + 1
      /\ \A h \in 1 .. Len(memory) : mem[h] = memory[h]
      /\ Last(mem) = v /\ mem # << >>
  BY <1>1, Pushed
<1> HIDE DEF mem
<1>3. Frame.base \in Nat /\ Len(memory) \in Nat /\ Frame.base <= Len(memory)
  BY PlainMachine
<1>4. Frame.base <= Len(mem) /\ \A h \in 1 .. Frame.base : mem[h] = memory[h]
  <2> DEFINE b == Frame.base
  <2>1. b <= Len(mem) /\ \A h \in 1 .. b : h \in 1 .. Len(memory)
    <3>1. b \in Nat /\ Len(memory) \in Nat /\ b <= Len(memory)
      BY <1>3
    <3> HIDE DEF b
    <3> QED BY <1>2, <3>1
  <2> QED BY <1>2, <2>1
<1>5. Executes(id, Inside(Here), mem) /\ mem \in Seq(Spots \cup {Data})
  BY <1>2 DEF mem, S
<1>6. id = "PUSH" => /\ mem # << >>
                     /\ Last(mem) # Data => /\ Len(frames) # 1 /\ Len(mem) = Frame.base + 1
                                            /\ Last(mem) \in Targets
  BY <1>2
<1> QED BY <1>4, <1>5, <1>6, PlainMachine, StaysPlain

LEMMA PlainAllocate ==
  ASSUME PlainOK, Allocate
  PROVE  PlainOK'
<1>1. /\ Executes("RCALL", Inside(Here), Append(memory, Inside(Here)))
      /\ UNCHANGED << frames, z, jmp_buf, sp_set >>
  BY DEF Allocate, Keeps
<1>2. Inside(Here) \in Spots \cup {Data}
  BY PlainMachine DEF Inside, Spots
<1> QED BY <1>1, <1>2, PlainPushes

LEMMA PlainPushData ==
  ASSUME PlainOK, PushData
  PROVE  PlainOK'
<1>1. /\ Executes("PUSH", Inside(Here), Append(memory, Data))
      /\ UNCHANGED << frames, z, jmp_buf, sp_set >>
  BY DEF PushData, Keeps
<1> QED BY <1>1, PlainPushes

LEMMA PlainPopData ==
  ASSUME PlainOK, PopData
  PROVE  PlainOK'
<1> DEFINE S == Spots \cup {Data}
           mem == Front(memory)
<1>1. /\ Executes("POP", Inside(Here), mem)
      /\ UNCHANGED << frames, z, jmp_buf, sp_set >>
      /\ Len(memory) > Frame.base
  BY DEF PopData, Keeps, Height
<1>2. memory \in Seq(S) /\ Frame.base \in Nat /\ Len(memory) \in Nat
  BY PlainMachine
<1> HIDE DEF S
<1>3. Len(memory) # 0
  <2> HIDE DEF Frame
  <2> QED BY <1>1, <1>2
<1>4. /\ mem \in Seq(S) /\ Len(mem) = Len(memory) - 1
      /\ \A h \in 1 .. Len(memory) - 1 : mem[h] = memory[h]
  BY <1>2, <1>3, Popped
<1> HIDE DEF mem
<1>5. Frame.base <= Len(mem) /\ \A h \in 1 .. Frame.base : mem[h] = memory[h]
  <2> DEFINE b == Frame.base
  <2>1. b <= Len(mem) /\ \A h \in 1 .. b : h \in 1 .. Len(memory) - 1
    <3>1. b \in Nat /\ Len(memory) \in Nat /\ b < Len(memory)
      BY <1>1, <1>2
    <3> HIDE DEF b
    <3> QED BY <1>4, <3>1
  <2> QED BY <1>4, <2>1
<1>6. mem \in Seq(Spots \cup {Data})
  BY <1>4 DEF S
<1> QED BY <1>1, <1>5, <1>6, PlainMachine, StaysPlain

(* The functions tails and follows lead to.                                 *)
LEMMA PlainTarget ==
  ASSUME PlainOK, PlainProgram(prof), NEW f, <<Here, f>> \in prof.tails \cup prof.follows
  PROVE  /\ f \in Ordinary /\ f \in Named /\ f # "main" /\ Len(frames) # 1
         /\ Entry(f) \in Targets /\ Entry(f) \in Spots \cup {Data}
         /\ <<Here, f>> \in prof.tails => Entry(f) \notin Exits
<1> DEFINE e == <<Here, f>>
<1>1. e[1] = Here /\ e[2] = f
  OBVIOUS
<1>2. e \in prof.tails \cup prof.follows
  OBVIOUS
<1> HIDE DEF e
<1>3. /\ e[1] \notin {"vectors", "init"} /\ e[2] \in (Ordinary \cap Named) \ {"main"}
      /\ e \in prof.tails => e[2] \notin {"exit", "_exit"}
  BY <1>2 DEF PlainProgram
<1>4. Len(frames) # 1
  BY <1>1, <1>3, PlainMachine
<1>5. /\ f \in Ordinary /\ f \in Named /\ f # "main"
      /\ e \in prof.tails => f \notin {"exit", "_exit"}
  BY <1>1, <1>3
<1>6. Entry(f) \in Targets /\ Entry(f) \in Spots \cup {Data}
  BY <1>5 DEF Targets, Spots, Entry, Places
<1>7. e \in prof.tails => Entry(f) \notin Exits
  BY <1>5 DEF Exits, Entry
<1> QED BY <1>4, <1>5, <1>6, <1>7 DEF e

LEMMA PlainPushTarget ==
  ASSUME PlainOK, PlainProgram(prof), NEW f, PushTarget(f)
  PROVE  PlainOK'
<1>1. /\ Executes("PUSH", Inside(Here), Append(memory, Entry(f)))
      /\ UNCHANGED << frames, z, jmp_buf, sp_set >>
      /\ Len(memory) = Frame.base /\ <<Here, f>> \in prof.tails
  BY DEF PushTarget, Keeps, Atop, Height
<1>2. /\ Len(frames) # 1 /\ Entry(f) \in Targets /\ Entry(f) \in Spots \cup {Data}
  BY <1>1, PlainTarget
<1> QED BY <1>1, <1>2, PlainPushes

(* Falling through, and the tail calls JMP and IJMP.                       *)
LEMMA PlainJumps ==
  ASSUME PlainOK, PlainProgram(prof), NEW f, NEW id \in {"LDI", "JMP", "IJMP"},
         <<Here, f>> \in IF id = "LDI" THEN prof.follows ELSE prof.tails,
         Atop, frames' = Entered(f, Height), z' = NoSymbol, jmp_buf' = NoBuf, sp_set' = sp_set,
         Executes(id, Entry(f), memory)
  PROVE  PlainOK'
<1>1. /\ f \in Ordinary /\ f \in Named /\ f # "main" /\ Len(frames) # 1
      /\ id = "JMP" => Entry(f) \notin Exits
  BY PlainTarget
<1>2. memory \in Seq(Spots \cup {Data}) /\ Len(memory) = Frame.base /\ Height = Frame.base
  BY PlainMachine DEF Atop, Height
<1> QED BY <1>1, <1>2, EntersPlain

LEMMA PlainFalls ==
  ASSUME PlainOK, PlainProgram(prof), NEW f, FallInto(f)
  PROVE  PlainOK'
<1>1. /\ <<Here, f>> \in prof.follows /\ Atop /\ frames' = Entered(f, Height)
      /\ UNCHANGED << z, jmp_buf, sp_set >> /\ Executes("LDI", Entry(f), memory)
  BY DEF FallInto, Keeps
<1> QED BY <1>1, PlainMachine, PlainJumps

LEMMA PlainTailCall ==
  ASSUME PlainOK, PlainProgram(prof), NEW f, NEW id \in {"JMP", "IJMP"}, TailCall(id, f)
  PROVE  PlainOK'
<1>1. /\ <<Here, f>> \in prof.tails /\ Atop /\ frames' = Entered(f, Height)
      /\ UNCHANGED << z, sp_set >> /\ Executes(id, Entry(f), memory)
      /\ jmp_buf' = IF jmp_buf.frame >= Len(frames) THEN NoBuf ELSE jmp_buf
  BY DEF TailCall
<1>2. jmp_buf = NoBuf /\ z = NoSymbol
  BY PlainMachine
<1>3. jmp_buf' = NoBuf
  BY <1>1, <1>2
<1> QED BY <1>1, <1>2, <1>3, PlainJumps

LEMMA PlainRetToTarget ==
  ASSUME PlainOK, RetToTarget
  PROVE  PlainOK'
<1> DEFINE S == Spots \cup {Data}
           mem == Front(memory)
<1>1. /\ graph_id = "PUSH" /\ Last(memory) \in Addresses
      /\ frames' = Entered(Last(memory)[1], Height - 1)
      /\ UNCHANGED << z, jmp_buf, sp_set >> /\ Executes("RET", Last(memory), mem)
  BY DEF RetToTarget, Keeps
<1>2. Last(memory) # Data
  BY <1>1, RegionsAssumption
<1>3. /\ memory \in Seq(S) /\ Len(frames) # 1 /\ Len(memory) = Frame.base + 1
      /\ Last(memory) \in Targets /\ Frame.base \in Nat /\ z = NoSymbol /\ jmp_buf = NoBuf
  BY <1>1, <1>2, PlainMachine
<1>4. PICK f : f \in Ordinary /\ f \in Named /\ f # "main" /\ Last(memory) = Entry(f)
  BY <1>3 DEF Targets
<1>5. Last(memory)[1] = f
  BY <1>4 DEF Entry
<1> DEFINE b == Frame.base
<1>6. b \in Nat /\ Len(memory) = b + 1
  BY <1>3
<1> HIDE DEF S, b
<1>7. Len(memory) # 0 /\ Len(memory) - 1 = b
  BY <1>6
<1>8. mem \in Seq(S) /\ Len(mem) = b /\ \A h \in 1 .. b : mem[h] = memory[h]
  BY <1>3, <1>7, Popped
<1> HIDE DEF mem
<1>9. frames' = Entered(f, Frame.base)
  BY <1>1, <1>5, <1>7 DEF b, Height
<1>10. mem \in Seq(Spots \cup {Data}) /\ Len(mem) = Frame.base
       /\ \A h \in 1 .. Frame.base : mem[h] = memory[h]
  BY <1>8 DEF S, b
<1>11. /\ Executes("RET", Entry(f), mem) /\ z' = NoSymbol /\ jmp_buf' = NoBuf /\ sp_set' = sp_set
  BY <1>1, <1>3, <1>4
<1> QED BY <1>1, <1>3, <1>4, <1>9, <1>10, <1>11, EntersPlain

LEMMA PlainCalls ==
  ASSUME PlainOK, PlainProgram(prof), NEW f, NEW id \in {"CALL", "ICALL"}, Call(id, f)
  PROVE  PlainOK'
<1>1. /\ <<Here, f>> \in prof.calls /\ Started
      /\ Executes(id, Entry(f), Append(memory, Inside(Here)))
      /\ frames' = Append(frames, [base |-> Height + 1,
                                   fns |-> <<[sym |-> Entry(f), height |-> Height + 1]>>])
      /\ UNCHANGED << z, jmp_buf, sp_set >>
      /\ id = "ICALL" => NextGlitch(id) = 0 \/ Has("glitchcall")
  BY DEF Call
<1>2. f \in Ordinary
  <2> DEFINE e == <<Here, f>>
  <2>1. e[2] = f /\ e \in prof.calls
    BY <1>1
  <2> HIDE DEF e
  <2> QED BY <2>1 DEF PlainProgram
<1>3. ~Has("glitchcall")
  BY PlainHas DEF Simple
<1>4. NextGlitch(id) = 0
  <2>1. CASE id = "CALL"
    BY <2>1 DEF NextGlitch, Enders
  <2> QED BY <1>1, <1>3, <2>1
<1>5. z' = NoSymbol /\ jmp_buf' = NoBuf /\ sp_set' = TRUE
  BY <1>1, PlainMachine DEF Started
<1> QED BY <1>1, <1>2, <1>4, <1>5, CallsPlain

LEMMA PlainRets ==
  ASSUME PlainOK, NEW id \in {"RET", "RETI"}, Ret(id)
  PROVE  PlainOK'
<1>1. /\ Len(frames) > 1 /\ Atop /\ graph_id # "PUSH"
      /\ frames' = Pruned(Front(frames), Height - 1)
      /\ jmp_buf' = IF jmp_buf.frame >= Len(frames) THEN NoBuf ELSE jmp_buf
      /\ UNCHANGED << z, sp_set >> /\ Executes(id, Last(memory), Front(memory))
  BY DEF Ret
<1>2. jmp_buf = NoBuf /\ z = NoSymbol /\ Len(frames) \in Nat \ {0}
  BY PlainMachine
<1>3. jmp_buf' = NoBuf
  BY <1>1, <1>2
<1>4. Len(frames) # 1
  <2>1. \A n \in Nat : n > 1 => n # 1
    OBVIOUS
  <2> QED BY <1>1, <1>2, <2>1, Zenon
<1>5. Height = Frame.base
  BY <1>1 DEF Atop
<1> QED BY <1>1, <1>2, <1>3, <1>4, <1>5, ReturnsPlain

(* For programs of calls, tail calls, jumps and returns: the elements of the *)
(* call stack, from its top, are the functions entered in the frames that    *)
(* have not returned, with their depths and with the stack pointer they      *)
(* were entered with, which is what a return compares; every return address  *)
(* on the stack leads into its caller.                                       *)
PlainInv == PlainProgram(prof) /\ ~left => PlainOK

LEMMA PlainDone ==
  ASSUME NEW id, NEW to, NEW mem, Executes(id, to, mem)
  PROVE  ~left /\ UNCHANGED << prof, left >>
BY Executed

(* Nothing happens after the simulator left, and the program stays the same. *)
LEMMA StillRuns ==
  ASSUME Next
  PROVE  ~left /\ UNCHANGED prof /\ (left' \/ ~Leave)
<1>1. ASSUME Leave PROVE ~left /\ UNCHANGED prof /\ left'
  BY <1>1 DEF Leave
<1>2. ASSUME JumpToInit \/ SetSP PROVE ~left /\ UNCHANGED prof
  BY <1>2, PlainDone, Zenon DEF JumpToInit, SetSP
<1>3. ASSUME NEW f, FallInto(f) \/ PushTarget(f) PROVE ~left /\ UNCHANGED prof
  BY <1>3, PlainDone, Zenon DEF FallInto, PushTarget
<1>4. ASSUME NEW f, NEW id, Call(id, f) \/ TailCall(id, f) PROVE ~left /\ UNCHANGED prof
  BY <1>4, PlainDone, Zenon DEF Call, TailCall
<1>5. ASSUME RetToTarget \/ Allocate \/ PushData \/ PopData \/ Work PROVE ~left /\ UNCHANGED prof
  BY <1>5, PlainDone, Zenon DEF RetToTarget, Allocate, PushData, PopData, Work
<1>6. ASSUME NEW id, Ret(id) \/ JumpToExit(id) PROVE ~left /\ UNCHANGED prof
  BY <1>6, PlainDone, Zenon DEF Ret, JumpToExit
<1>7. ASSUME FreeStack \/ Switch \/ TableJump PROVE ~left /\ UNCHANGED prof
  BY <1>7, PlainDone, Zenon DEF FreeStack, Switch, TableJump
<1>8. ASSUME NEW k, Prologue(k) \/ Epilogue(k) PROVE ~left /\ UNCHANGED prof
  BY <1>8, PlainDone, Zenon DEF Prologue, Epilogue
<1>9. ASSUME SetjmpPop \/ SetjmpReturn \/ LongjmpCall PROVE ~left /\ UNCHANGED prof
  BY <1>9, PlainDone, Zenon DEF SetjmpPop, SetjmpReturn, LongjmpCall
<1>10. ASSUME RestoreSP \/ LongjmpJump \/ LongjmpToReset PROVE ~left /\ UNCHANGED prof
  BY <1>10, PlainDone, Zenon DEF RestoreSP, LongjmpJump, LongjmpToReset
<1> QED BY <1>1, <1>2, <1>3, <1>4, <1>5, <1>6, <1>7, <1>8, <1>9, <1>10, Zenon DEF Next

(* Every step keeps what holds of a plain program.                         *)
LEMMA PlainSteps ==
  ASSUME PlainOK, PlainProgram(prof), Next, ~left'
  PROVE  PlainOK'
<1>1. ~Leave /\ ~NeverDone
  BY NeverPlain, StillRuns DEF Leave
<1>2. CASE JumpToInit
  BY <1>2, StartsPlain
<1>3. CASE SetSP
  BY <1>3, PlainSetSP
<1>4. ASSUME NEW f, FallInto(f) PROVE PlainOK'
  BY <1>4, PlainFalls
<1>5. ASSUME NEW f, NEW id \in {"CALL", "ICALL"}, Call(id, f) PROVE PlainOK'
  BY <1>5, PlainCalls
<1>6. ASSUME NEW f, NEW id \in {"JMP", "IJMP"}, TailCall(id, f) PROVE PlainOK'
  BY <1>6, PlainTailCall
<1>7. ASSUME NEW f, PushTarget(f) PROVE PlainOK'
  BY <1>7, PlainPushTarget
<1>8. CASE RetToTarget
  BY <1>8, PlainRetToTarget
<1>9. CASE Allocate
  BY <1>9, PlainAllocate
<1>10. CASE PushData
  BY <1>10, PlainPushData
<1>11. CASE PopData
  BY <1>11, PlainPopData
<1>12. ASSUME NEW id \in {"RET", "RETI"}, Ret(id) PROVE PlainOK'
  BY <1>12, PlainRets
<1>13. CASE Work
  BY <1>13, PlainWork
<1> QED BY <1>1, <1>2, <1>3, <1>4, <1>5, <1>6, <1>7, <1>8, <1>9, <1>10, <1>11, <1>12, <1>13,
           Zenon DEF Next, NeverDone

LEMMA PlainStays ==
  ASSUME PlainInv, [Next]_vars
  PROVE  PlainInv'
<1>1. CASE Next
  <2>1. ~left /\ prof' = prof
    BY <1>1, StillRuns
  <2>2. ASSUME PlainProgram(prof)', ~left' PROVE PlainOK'
    <3>1. PlainProgram(prof)
      BY <2>1, <2>2 DEF PlainProgram
    <3> QED BY <1>1, <2>1, <2>2, <3>1, PlainSteps DEF PlainInv
  <2> QED BY <2>2 DEF PlainInv
<1>2. CASE UNCHANGED vars
  <2>1. /\ UNCHANGED << ystack, func_sym, hidden, pro_ep, graph_id, frames, memory, pc, prof >>
        /\ UNCHANGED << z, jmp_buf, sp_set, glitch, left >>
    BY <1>2 DEF vars, cgvars, pvars
  <2>2. /\ GraphOK' = GraphOK /\ FramesOK' = FramesOK /\ ReturnsOK' = ReturnsOK
        /\ StackOK' = StackOK
    BY <2>1 DEF GraphOK, Unhelped, FramesOK, ReturnsOK, StackOK
  <2>3. MachineOK' = MachineOK /\ PushOK' = PushOK
    BY <2>1 DEF MachineOK, PushOK, Here, Frame
  <2>4. PlainProgram(prof)' = PlainProgram(prof)
    BY <2>1 DEF PlainProgram
  <2> QED BY <2>1, <2>2, <2>3, <2>4 DEF PlainInv, PlainOK
<1> QED BY <1>1, <1>2

LEMMA PlainStart ==
  ASSUME Init
  PROVE  PlainInv
<1> DEFINE node == [sym |-> Entry("vectors"), from |-> EntryPoint, depth |-> 0, sp |-> 0,
                    is_leaf |-> FALSE, is_sub |-> FALSE]
           fn == [sym |-> Entry("vectors"), height |-> 0]
           frame == [base |-> 0, fns |-> <<fn>>]
<1>1. /\ prof \in Programs /\ pc = Entry("vectors") /\ memory = << >> /\ sp_set = FALSE
      /\ glitch = 0 /\ z = NoSymbol /\ jmp_buf = NoBuf /\ frames = <<frame>>
  BY DEF Init, PInit
<1>2. /\ func_sym = {Entry(f) : f \in Named} /\ hidden = {} /\ ystack = <<node>>
  BY <1>1 DEF Init, GraphInit
<1>3. Unhelped
  BY Zenon DEF Init, GraphInit, Unhelped
<1>4. graph_id # "PUSH"
  <2>1. graph_id = ""
    BY Zenon DEF Init, GraphInit
  <2> QED BY <2>1, Zenon
<1>5. Entry("vectors") \in Syms /\ Entry("vectors") \in Spots
  BY DEF Syms, Places, Entry, Spots
<1>6. node.sym \in Syms /\ node.depth = 0
  BY <1>5
<1>7. frame.base = 0 /\ frame.fns = <<fn>> /\ fn.height = 0 /\ fn \in FnType
  BY <1>5 DEF FnType
<1> HIDE DEF node, fn
<1>8. frame \in FrameType
  <2>1. <<fn>> \in Seq(FnType)
    BY <1>7
  <2> QED BY <2>1 DEF FrameType, FnType
<1> HIDE DEF frame
<1>9. /\ frames \in Seq(FrameType) /\ Len(frames) = 1 /\ frames[1] = frame
      /\ Len(<<fn>>) = 1 /\ <<fn>>[1] = fn
  BY <1>1, <1>8
<1>10. FramesOK
  <2>1. Len(memory) = 0 /\ 1 .. 1 = {1} /\ 0 <= 0
    BY <1>1
  <2>2. frames[1].base = 0 /\ frames[1].fns = <<fn>>
    BY <1>7, <1>9
  <2>3. ASSUME NEW k \in 1 .. Len(frames)
        PROVE  /\ Len(frames[k].fns) # 0 /\ frames[k].base <= Len(memory)
               /\ \A j \in 1 .. Len(frames[k].fns) : frames[k].fns[j].height = frames[k].base
               /\ k = 1
    <3>1. k = 1
      BY <1>9, <2>1
    <3> DEFINE g == frames[k]
    <3>2. g.base = 0 /\ g.fns = <<fn>>
      BY <2>2, <3>1
    <3> HIDE DEF g
    <3>3. Len(g.fns) = 1 /\ g.fns[1] = fn
      BY <1>9, <3>2
    <3>4. Len(g.fns) # 0 /\ g.base <= Len(memory)
      BY <2>1, <3>2, <3>3
    <3>5. \A j \in 1 .. Len(g.fns) : g.fns[j].height = g.base
      <4>1. \A j \in 1 .. Len(g.fns) : j = 1
        BY <2>1, <3>3
      <4> QED BY <1>7, <3>2, <3>3, <4>1
    <3> QED BY <3>1, <3>4, <3>5 DEF g
  <2>4. ~(1 < 1)
    OBVIOUS
  <2>5. \A k, l \in 1 .. Len(frames) : ~(k < l)
    BY <2>3, <2>4
  <2> QED BY <1>9, <2>2, <2>3, <2>5 DEF FramesOK
<1>11. ReturnsOK
  <2>1. 2 .. 1 = {}
    OBVIOUS
  <2> QED BY <1>9, <2>1 DEF ReturnsOK
<1>12. StackOK
  <2>1. Levels(frames) = << >> /\ Len(<< >>) = 0
    BY <1>9, LevelsOfOne
  <2>2. /\ Sequence(ystack) /\ Len(ystack) = 1 /\ ystack[1] = node
        /\ 1 .. 0 = {} /\ 0 + 1 .. 1 = {1} /\ 1 .. 1 = {1} /\ 0 < 1
    <3>1. <<node>> \in Seq({node})
      OBVIOUS
    <3>2. Sequence(ystack)
      BY <1>2, <3>1 DEF Sequence
    <3> QED BY <1>2, <3>2
  <2> QED BY <1>6, <2>1, <2>2 DEF StackOK, Matches
<1>13. MachineOK
  <2>1. Here = "vectors"
    BY <1>1 DEF Here, Entry
  <2>2. memory \in Seq(Spots \cup {Data})
    BY <1>1
  <2> QED BY <1>1, <1>5, <1>9, <2>1, <2>2 DEF MachineOK
<1>14. GraphOK
  BY <1>2, <1>3 DEF GraphOK
<1>15. PushOK
  BY <1>4 DEF PushOK
<1> QED BY <1>10, <1>11, <1>12, <1>13, <1>14, <1>15 DEF PlainOK, PlainInv

-----------------------------------------------------------------------------
(* What follows for the call stack                                          *)

(* Startup code begins below the last element of a positive depth.         *)
LEMMA StartupIs ==
  ASSUME NEW N \in Nat, Sequence(ystack), N < Len(ystack),
         \A i \in 1 .. N : ystack[i].depth \in Nat \ {0},
         ystack[N + 1].depth = 0
  PROVE  Startup = N + 1
<1> DEFINE I == {i \in DOMAIN ystack : ystack[i].depth <= 0} \cup {Len(ystack) + 1}
<1>1. Len(ystack) \in Nat /\ DOMAIN ystack = 1 .. Len(ystack)
  BY LenProperties DEF Sequence
<1>2. I \subseteq Nat
  BY <1>1
<1>3. N + 1 \in I
  BY <1>1
<1>4. \A x \in I : N + 1 <= x
  <2> TAKE x \in I
  <2>1. CASE x = Len(ystack) + 1
    BY <1>1, <2>1
  <2>2. CASE x # Len(ystack) + 1
    <3>1. x \in 1 .. Len(ystack) /\ ystack[x].depth <= 0
      BY <1>1, <2>2
    <3>2. x \notin 1 .. N
      <4>1. ASSUME x \in 1 .. N PROVE FALSE
        <5>1. ystack[x].depth \in Nat \ {0}
          BY <4>1
        <5> QED BY <3>1, <5>1
      <4> QED BY <4>1
    <3> QED BY <3>1, <3>2
  <2> QED BY <2>1, <2>2
<1> HIDE DEF I
<1>5. Min(I) \in I /\ \A x \in I : Min(I) <= x
  BY <1>2, <1>3, Least
<1>6. Min(I) = N + 1
  <2>1. Min(I) \in Nat /\ Min(I) <= N + 1 /\ N + 1 <= Min(I)
    BY <1>2, <1>3, <1>4, <1>5
  <2> QED BY <2>1
<1> QED BY <1>6 DEF Startup, I

LEMMA CalledIs ==
  ASSUME NEW N \in Nat, Sequence(ystack), N < Len(ystack), Startup = N + 1
  PROVE  DOMAIN Called = 1 .. N /\ \A i \in 1 .. N : Called[i] = ystack[N + 1 - i]
<1> DEFINE s == SubSeq(ystack, 1, N)
<1>1. PICK T : ystack \in Seq(T)
  BY DEF Sequence
<1>2. Len(ystack) \in Nat
  BY <1>1, LenProperties
<1>3. \A i \in 1 .. N : ystack[i] \in T
  <2>1. \A i \in 1 .. N : i \in 1 .. Len(ystack)
    BY <1>2
  <2> QED BY <1>1, <2>1, ElementOfSeq
<1>4. 1 \in Int /\ N \in Int /\ N - 1 + 1 = N /\ (N + 1) - 1 = N /\ \A i \in 1 .. N : 1 + i - 1 = i
  OBVIOUS
<1>5. /\ s \in Seq(T) /\ Len(s) = IF 1 <= N THEN N - 1 + 1 ELSE 0
      /\ \A i \in 1 .. N - 1 + 1 : s[i] = ystack[1 + i - 1]
  BY <1>3, <1>4, SubSeqProperties
<1>6. Called = Reverse(s)
  BY <1>4 DEF Called
<1> HIDE DEF s
<1>7. Len(s) = N /\ \A i \in 1 .. N : s[i] = ystack[i]
  BY <1>4, <1>5
<1>8. Called = [i \in 1 .. N |-> s[(N - i) + 1]]
  BY <1>6, <1>7 DEF Reverse
<1>9. \A i \in 1 .. N : /\ Called[i] = s[(N - i) + 1] /\ (N - i) + 1 \in 1 .. N
                        /\ (N - i) + 1 = N + 1 - i
  BY <1>8
<1> QED BY <1>7, <1>8, <1>9

(* The call stack read from its bottom is the program.                     *)
LEMMA PlainIsTheProgram ==
  ASSUME PlainOK
  PROVE  /\ [i \in DOMAIN Called |-> <<Called[i].sym, Called[i].depth>>] = CallLevels
         /\ CallDepthIsTracked
<1> DEFINE N == Len(Levels(frames))
           lev == Levels(frames)
<1>1. frames \in Seq(FrameType) /\ Len(frames) \in Nat \ {0}
  BY PlainMachine DEF PlainOK, FramesOK
<1>2. /\ N \in Nat
      /\ \A i \in 1 .. N : /\ lev[i][2] + 1 \in 1 .. Len(frames)
                           /\ lev[i] \in Syms \X (1 .. Len(frames) - 1)
  BY <1>1, LevelsBound
<1>3. /\ Sequence(ystack) /\ N < Len(ystack)
      /\ \A i \in 1 .. N : <<ystack[N + 1 - i].sym, ystack[N + 1 - i].depth>> = lev[i]
      /\ \A i \in N + 1 .. Len(ystack) : ystack[i].depth = 0
  BY DEF PlainOK, StackOK, Matches
<1>4. lev \in Seq(Syms \X (1 .. Len(frames) - 1))
  BY <1>1, LevelsType
<1>5. DOMAIN lev = 1 .. N /\ lev = [i \in 1 .. N |-> lev[i]]
  BY <1>4
<1> HIDE DEF N, lev
<1>6. \A i \in 1 .. N : ystack[i].depth \in Nat \ {0}
  <2> TAKE i \in 1 .. N
  <2> DEFINE j == N + 1 - i
  <2>1. j \in 1 .. N /\ N + 1 - j = i
    BY <1>2
  <2> HIDE DEF j
  <2>2. <<ystack[i].sym, ystack[i].depth>> = lev[j] /\ lev[j] \in Syms \X (1 .. Len(frames) - 1)
    BY <1>2, <1>3, <2>1
  <2>3. ystack[i].depth \in 1 .. Len(frames) - 1
    BY <2>2
  <2> QED BY <1>1, <2>3
<1>7. ystack[N + 1].depth = 0
  <2>1. N + 1 \in N + 1 .. Len(ystack)
    <3>1. Len(ystack) \in Nat
      BY <1>3, LenProperties DEF Sequence
    <3> QED BY <1>2, <1>3, <3>1
  <2> QED BY <1>3, <2>1
<1>8. Startup = N + 1
  BY <1>2, <1>3, <1>6, <1>7, StartupIs
<1>9. DOMAIN Called = 1 .. N /\ \A i \in 1 .. N : Called[i] = ystack[N + 1 - i]
  BY <1>2, <1>3, <1>8, CalledIs
<1>10. [i \in DOMAIN Called |-> <<Called[i].sym, Called[i].depth>>] = lev
  <2>1. \A i \in 1 .. N : <<Called[i].sym, Called[i].depth>> = lev[i]
    BY <1>3, <1>9
  <2> QED BY <1>5, <1>9, <2>1
<1>11. CallDepthIsTracked
  BY StackTop, PlainMachine DEF PlainOK, CallDepthIsTracked
<1> QED BY <1>10, <1>11 DEF lev, CallLevels

(* Whatever a program of calls, recursion, tail calls and jumps of every     *)
(* kind, PUSH and RET, falling through and returns does, in any order and to *)
(* any depth, the call stack update_call_stack keeps from instructions,      *)
(* symbols and the stack pointer is the one of the program, function by      *)
(* function, and the call depth of the log and the perf-meters is right.     *)
THEOREM PlainStack ==
  Spec => [](PlainProgram(prof) => StackIsThePrograms)
<1>1. PlainInv => (PlainProgram(prof) => StackIsThePrograms)
  BY PlainIsTheProgram DEF PlainInv, StackIsThePrograms
<1> QED BY <1>1, PlainStart, PlainStays, PTL DEF Spec

-----------------------------------------------------------------------------
(* Sums over finite sets                                                    *)

FirstOf(s) == CHOOSE x \in s : TRUE
Total(f, S) == FoldFunctionOnSet(+, 0, f, S)

(* What the fold computes, for every subset of S.                           *)
Sums(F, f, S) ==
  F = [s \in SUBSET S |-> IF s = {} THEN 0 ELSE f[FirstOf(s)] + F[s \ {FirstOf(s)}]]

LEMMA FirstIsIn ==
  ASSUME NEW s, s # {}
  PROVE  FirstOf(s) \in s
BY DEF FirstOf

(* The smallest of finite sets.                                             *)
LEMMA SmallestSet ==
  ASSUME NEW B, B # {}, \A s \in B : IsFiniteSet(s)
  PROVE  \E s \in B : \A t \in B : Cardinality(s) <= Cardinality(t)
<1> DEFINE N == {Cardinality(s) : s \in B}
<1>1. N \subseteq Nat
  BY FS_CardinalityType
<1>2. N # {}
  OBVIOUS
<1> HIDE DEF N
<1>3. Min(N) \in N /\ \A n \in N : Min(N) <= n
  BY <1>1, <1>2, Least
<1>4. PICK s \in B : Cardinality(s) = Min(N)
  BY <1>3 DEF N
<1>5. \A t \in B : Cardinality(s) <= Cardinality(t)
  BY <1>3, <1>4 DEF N
<1> QED BY <1>5

LEMMA TakenOut ==
  ASSUME NEW S, IsFiniteSet(S), NEW y \in S
  PROVE  /\ IsFiniteSet(S \ {y}) /\ S \ {y} \subseteq S
         /\ ~(Cardinality(S) <= Cardinality(S \ {y}))
<1>1. Cardinality(S) \in Nat
  BY FS_CardinalityType
<1>2. IsFiniteSet(S \ {y}) /\ Cardinality(S \ {y}) = Cardinality(S) - 1
  BY FS_RemoveElement
<1> QED BY <1>1, <1>2

(* The sums of two functions are the same where the functions are.           *)
SameOn(f, g, C) == \A x \in C : f[x] = g[x]

LEMMA SumsAgree ==
  ASSUME NEW f, NEW g, NEW A, NEW B, NEW C, IsFiniteSet(C), C \in SUBSET A, C \in SUBSET B,
         SameOn(f, g, C),
         NEW F, NEW G, Sums(F, f, A), Sums(G, g, B)
  PROVE  F[C] = G[C]
<1> DEFINE Bad == {s \in SUBSET C : F[s] # G[s]}
<1> SUFFICES ASSUME Bad # {} PROVE FALSE
  OBVIOUS
<1>1. \A s \in Bad : IsFiniteSet(s)
  BY FS_Subset
<1> HIDE DEF Bad
<1>2. PICK s \in Bad : \A t \in Bad : Cardinality(s) <= Cardinality(t)
  BY <1>1, SmallestSet
<1>3. s \subseteq C /\ F[s] # G[s] /\ s \in SUBSET A /\ s \in SUBSET B
  BY DEF Bad
<1> DEFINE p == FirstOf(s)
<1>4. F[s] = IF s = {} THEN 0 ELSE f[p] + F[s \ {p}]
  BY <1>3 DEF Sums
<1>5. G[s] = IF s = {} THEN 0 ELSE g[p] + G[s \ {p}]
  BY <1>3 DEF Sums
<1>6. s # {}
  BY <1>3, <1>4, <1>5
<1>7. p \in s
  BY <1>6, FirstIsIn
<1> HIDE DEF p
<1>8. s \ {p} \notin Bad
  BY <1>1, <1>2, <1>7, TakenOut
<1>9. F[s \ {p}] = G[s \ {p}] /\ f[p] = g[p]
  BY <1>3, <1>7, <1>8 DEF Bad, SameOn
<1> QED BY <1>3, <1>4, <1>5, <1>9

(* There are such sums: a set needs those of smaller sets.                  *)
Partial(f, s) == CHOOSE F : Sums(F, f, s)
Built(f, s) == IF s = {} THEN 0
               ELSE f[FirstOf(s)] + Partial(f, s \ {FirstOf(s)})[s \ {FirstOf(s)}]

LEMMA BuiltSums ==
  ASSUME NEW f, NEW t,
         \A s : (\E y \in t : s \subseteq t \ {y}) => Sums(Partial(f, s), f, s) /\ IsFiniteSet(s)
  PROVE  \E F : Sums(F, f, t)
<1> DEFINE F == [s \in SUBSET t |-> Built(f, s)]
<1>1. ASSUME NEW s \in SUBSET t, s # {}
      PROVE  F[s \ {FirstOf(s)}] = Partial(f, s \ {FirstOf(s)})[s \ {FirstOf(s)}]
  <2> DEFINE y == FirstOf(s)
             u == s \ {y}
             x == FirstOf(u)
             v == u \ {x}
  <2>1. y \in t /\ u \subseteq t \ {y} /\ v \subseteq t \ {y} /\ v \subseteq u /\ v \subseteq v
    BY <1>1, FirstIsIn
  <2>2. u \in SUBSET t /\ u \in SUBSET u
    OBVIOUS
  <2>3. F[u] = IF u = {} THEN 0 ELSE f[x] + Partial(f, v)[v]
    BY <2>2 DEF Built
  <2> HIDE DEF F, x, y, u, v
  <2>4. Sums(Partial(f, u), f, u) /\ Sums(Partial(f, v), f, v) /\ IsFiniteSet(v)
    BY <2>1
  <2>5. Partial(f, u)[v] = Partial(f, v)[v]
    <3> DEFINE P == Partial(f, u)
               Q == Partial(f, v)
    <3> HIDE DEF P, Q
    <3>1. Sums(P, f, u) /\ Sums(Q, f, v)
      BY <2>4 DEF P, Q
    <3>2. SameOn(f, f, v) /\ v \in SUBSET u /\ v \in SUBSET v
      BY <2>1 DEF SameOn
    <3>3. P[v] = Q[v]
      BY <2>1, <2>4, <3>1, <3>2, SumsAgree
    <3> QED BY <3>3 DEF P, Q
  <2>6. Partial(f, u)[u] = IF u = {} THEN 0 ELSE f[x] + Partial(f, u)[v]
    BY <2>2, <2>4 DEF Sums, x, v
  <2>7. F[u] = Partial(f, u)[u]
    BY <2>3, <2>5, <2>6
  <2> QED BY <2>7 DEF u, y
<1>2. \A s \in SUBSET t : Built(f, s) = IF s = {} THEN 0 ELSE f[FirstOf(s)] + F[s \ {FirstOf(s)}]
  <2> TAKE s \in SUBSET t
  <2>1. CASE s = {}
    BY <2>1 DEF Built
  <2>2. CASE s # {}
    <3> HIDE DEF F
    <3>1. F[s \ {FirstOf(s)}] = Partial(f, s \ {FirstOf(s)})[s \ {FirstOf(s)}]
      BY <1>1, <2>2
    <3> QED BY <2>2, <3>1 DEF Built
  <2> QED BY <2>1, <2>2
<1>3. \A s \in SUBSET t : F[s] = Built(f, s)
  OBVIOUS
<1>4. F = [s \in SUBSET t |-> F[s]]
  OBVIOUS
<1> HIDE DEF F
<1>5. \A s \in SUBSET t : F[s] = IF s = {} THEN 0 ELSE f[FirstOf(s)] + F[s \ {FirstOf(s)}]
  BY <1>2, <1>3
<1>6. F = [s \in SUBSET t |-> IF s = {} THEN 0 ELSE f[FirstOf(s)] + F[s \ {FirstOf(s)}]]
  BY <1>4, <1>5
<1> QED BY <1>6 DEF Sums

LEMMA SumsExist ==
  ASSUME NEW f, NEW S, IsFiniteSet(S)
  PROVE  \E F : Sums(F, f, S)
<1> DEFINE Bad == {s \in SUBSET S : ~ \E F : Sums(F, f, s)}
<1> SUFFICES ASSUME Bad # {} PROVE FALSE
  BY Zenon
<1>1. \A s \in Bad : IsFiniteSet(s)
  BY FS_Subset
<1>2. PICK t \in Bad : \A u \in Bad : Cardinality(t) <= Cardinality(u)
  <2> HIDE DEF Bad
  <2> QED BY <1>1, SmallestSet
<1>3. t \subseteq S /\ ~ \E F : Sums(F, f, t)
  OBVIOUS
<1>4. ASSUME NEW s, NEW y \in t, s \subseteq t \ {y}
      PROVE  Sums(Partial(f, s), f, s) /\ IsFiniteSet(s)
  <2>1. IsFiniteSet(t) /\ IsFiniteSet(t \ {y}) /\ ~(Cardinality(t) <= Cardinality(t \ {y}))
    BY <1>1, TakenOut
  <2>2. s \in SUBSET (t \ {y})
    BY <1>4
  <2>3. IsFiniteSet(s) /\ Cardinality(s) <= Cardinality(t \ {y})
    BY <2>1, <2>2, FS_Subset
  <2>4. Cardinality(s) \in Nat /\ Cardinality(t) \in Nat /\ Cardinality(t \ {y}) \in Nat
    BY <2>1, <2>3, FS_CardinalityType
  <2>5. ~(Cardinality(t) <= Cardinality(s))
    BY <2>1, <2>3, <2>4
  <2>6. s \in SUBSET S /\ s \notin Bad
    BY <1>2, <1>3, <2>2, <2>5
  <2>7. \E G : Sums(G, f, s)
    BY <2>6, Zenon
  <2> QED BY <2>3, <2>7, Zenon DEF Partial
<1>5. \E F : Sums(F, f, t)
  BY <1>4, BuiltSums, Zenon
<1> QED BY <1>3, <1>5, Zenon

LEMMA TotalIs ==
  ASSUME NEW f, NEW S, IsFiniteSet(S)
  PROVE  \E F : Sums(F, f, S) /\ Total(f, S) = F[S]
<1> DEFINE G == CHOOSE F : Sums(F, f, S)
<1>1. Sums(G, f, S)
  BY SumsExist, Zenon
<1>2. Total(f, S) = G[S]
  BY DEF Total, FoldFunctionOnSet, MapThenFoldSet, Sums, FirstOf
<1> QED BY <1>1, <1>2

(* Nothing, and one element first.                                          *)
LEMMA TotalOfNone ==
  ASSUME NEW f
  PROVE  Total(f, {}) = 0
<1>1. PICK F : Sums(F, f, {}) /\ Total(f, {}) = F[{}]
  BY TotalIs, FS_EmptySet
<1>2. {} \in SUBSET {}
  OBVIOUS
<1> QED BY <1>1, <1>2 DEF Sums

LEMMA TotalOfFirst ==
  ASSUME NEW f, NEW S, IsFiniteSet(S), S # {}
  PROVE  Total(f, S) = f[FirstOf(S)] + Total(f, S \ {FirstOf(S)})
<1> DEFINE p == FirstOf(S)
           T == S \ {p}
<1>1. p \in S /\ IsFiniteSet(T) /\ T \subseteq S /\ T \subseteq T
  BY FirstIsIn, TakenOut
<1>2. PICK F : Sums(F, f, S) /\ Total(f, S) = F[S]
  BY TotalIs
<1>3. PICK G : Sums(G, f, T) /\ Total(f, T) = G[T]
  BY <1>1, TotalIs
<1>4. F[T] = G[T]
  <2>1. T \in SUBSET S /\ T \in SUBSET T /\ SameOn(f, f, T)
    BY DEF SameOn
  <2> HIDE DEF T
  <2> QED BY <1>1, <1>2, <1>3, <2>1, SumsAgree
<1>5. S \in SUBSET S
  OBVIOUS
<1>6. F[S] = f[p] + F[T]
  BY <1>2, <1>5 DEF Sums
<1> QED BY <1>2, <1>3, <1>4, <1>6

LEMMA TotalSame ==
  ASSUME NEW f, NEW g, NEW S, IsFiniteSet(S), \A x \in S : f[x] = g[x]
  PROVE  Total(f, S) = Total(g, S)
<1>1. PICK F : Sums(F, f, S) /\ Total(f, S) = F[S]
  BY TotalIs
<1>2. PICK G : Sums(G, g, S) /\ Total(g, S) = G[S]
  BY TotalIs
<1>3. S \in SUBSET S /\ SameOn(f, g, S)
  BY DEF SameOn
<1>4. F[S] = G[S]
  BY <1>1, <1>2, <1>3, SumsAgree
<1> QED BY <1>1, <1>2, <1>4

LEMMA TotalType ==
  ASSUME NEW f, NEW S, IsFiniteSet(S), \A x \in S : f[x] \in Nat
  PROVE  Total(f, S) \in Nat
<1> DEFINE Bad == {s \in SUBSET S : Total(f, s) \notin Nat}
<1> SUFFICES ASSUME Bad # {} PROVE FALSE
  OBVIOUS
<1>1. \A s \in Bad : IsFiniteSet(s)
  BY FS_Subset
<1> HIDE DEF Bad
<1>2. PICK s \in Bad : \A t \in Bad : Cardinality(s) <= Cardinality(t)
  BY <1>1, SmallestSet
<1>3. s \subseteq S /\ Total(f, s) \notin Nat /\ IsFiniteSet(s)
  BY <1>1 DEF Bad
<1>4. s # {}
  <2>1. 0 \in Nat
    OBVIOUS
  <2> QED BY <1>3, <2>1, TotalOfNone
<1> DEFINE p == FirstOf(s)
<1>5. p \in s /\ Total(f, s) = f[p] + Total(f, s \ {p})
  BY <1>3, <1>4, FirstIsIn, TotalOfFirst
<1> HIDE DEF p
<1>6. s \ {p} \notin Bad
  BY <1>1, <1>2, <1>5, TakenOut
<1>7. Total(f, s \ {p}) \in Nat /\ f[p] \in Nat
  BY <1>3, <1>5, <1>6 DEF Bad
<1> QED BY <1>3, <1>5, <1>7

(* Any element may be taken out.                                            *)
LEMMA TotalOfAny ==
  ASSUME NEW f, NEW S, IsFiniteSet(S), \A x \in S : f[x] \in Nat, NEW y \in S
  PROVE  Total(f, S) = f[y] + Total(f, S \ {y})
<1> DEFINE Bad == {s \in SUBSET S : \E x \in s : Total(f, s) # f[x] + Total(f, s \ {x})}
<1> SUFFICES ASSUME Bad # {} PROVE FALSE
  OBVIOUS
<1>1. \A s \in Bad : IsFiniteSet(s)
  BY FS_Subset
<1>2. PICK s \in Bad : \A t \in Bad : Cardinality(s) <= Cardinality(t)
  <2> HIDE DEF Bad
  <2> QED BY <1>1, SmallestSet
<1>3. s \subseteq S /\ IsFiniteSet(s)
  BY <1>1
<1>4. PICK x \in s : Total(f, s) # f[x] + Total(f, s \ {x})
  OBVIOUS
<1> DEFINE p == FirstOf(s)
           r == s \ {p}
           q == s \ {x}
<1>5. p \in s /\ Total(f, s) = f[p] + Total(f, r)
  BY <1>3, <1>4, FirstIsIn, TotalOfFirst
<1> HIDE DEF p
<1>6. r \notin Bad /\ q \notin Bad /\ IsFiniteSet(r) /\ IsFiniteSet(q)
  <2> HIDE DEF Bad
  <2> QED BY <1>2, <1>3, <1>5, TakenOut
<1>7. x # p
  BY <1>4, <1>5
<1>8. x \in r /\ p \in q /\ r \in SUBSET S /\ q \in SUBSET S
  BY <1>3, <1>5, <1>7
<1>9. Total(f, r) = f[x] + Total(f, r \ {x}) /\ Total(f, q) = f[p] + Total(f, q \ {p})
  BY <1>6, <1>8
<1>10. r \ {x} = q \ {p}
  OBVIOUS
<1>11. /\ f[x] \in Nat /\ f[p] \in Nat /\ Total(f, r \ {x}) \in Nat
  <2>1. IsFiniteSet(r \ {x}) /\ r \ {x} \subseteq S
    BY <1>3, <1>6, <1>8, TakenOut
  <2> QED BY <1>3, <1>5, <2>1, TotalType
<1> HIDE DEF q, r
<1> QED BY <1>4, <1>5, <1>9, <1>10, <1>11 DEF q

-----------------------------------------------------------------------------
(* The edges into a symbol                                                  *)

EdgeFields == {"n", "n_call", "n_tail", "n_cycles", "back"}
EdgeOK(r)  == DOMAIN r = EdgeFields /\ r.n_cycles \in Nat
EdgesOK(es) == IsFiniteSet(DOMAIN es) /\ \A e \in DOMAIN es : EdgeOK(es[e])

Weights(es)  == [e \in DOMAIN es |-> es[e].n_cycles]
InTo(es, s)  == {e \in DOMAIN es : e[2] = s}
Into(es, s)  == Total(Weights(es), InTo(es, s))

LEMMA NewEdgeOK ==
  EdgeOK(NewEdge) /\ NewEdge.n_cycles = 0
BY DEF EdgeOK, EdgeFields, NewEdge

LEMMA GetEdgeOK ==
  ASSUME NEW es, EdgesOK(es), NEW e
  PROVE  EdgeOK(GetEdge(es, e)) /\ GetEdge(es, e).n_cycles \in Nat
BY NewEdgeOK DEF EdgesOK, GetEdge, EdgeOK

LEMMA WeightsOK ==
  ASSUME NEW es, EdgesOK(es), NEW s
  PROVE  IsFiniteSet(InTo(es, s)) /\ \A e \in InTo(es, s) : Weights(es)[e] \in Nat
<1>1. InTo(es, s) \in SUBSET (DOMAIN es)
  BY DEF InTo
<1>2. IsFiniteSet(InTo(es, s))
  BY <1>1, FS_Subset DEF EdgesOK
<1>3. \A e \in InTo(es, s) : Weights(es)[e] \in Nat
  BY DEF InTo, Weights, EdgesOK, EdgeOK
<1> QED BY <1>2, <1>3

(* An edge that changes, or a new one, changes the sum by what it gets.     *)
LEMMA PutEdgeAdds ==
  ASSUME NEW es, EdgesOK(es), NEW e, NEW r, EdgeOK(r), NEW c \in Nat,
         r.n_cycles = GetEdge(es, e).n_cycles + c, NEW s
  PROVE  /\ EdgesOK(PutEdge(es, e, r))
         /\ Into(PutEdge(es, e, r), s) = Into(es, s) + (IF e[2] = s THEN c ELSE 0)
<1> DEFINE ns == PutEdge(es, e, r)
           In == InTo(ns, s)
           Rest == In \ {e}
           old == GetEdge(es, e).n_cycles
<1>1. /\ DOMAIN ns = DOMAIN es \cup {e} /\ ns[e] = r
      /\ \A x \in DOMAIN es : x # e => ns[x] = es[x]
  BY DEF PutEdge
<1> HIDE DEF ns
<1>2. EdgesOK(ns)
  <2>1. IsFiniteSet(DOMAIN ns)
    BY <1>1, FS_AddElement DEF EdgesOK
  <2> QED BY <1>1, <2>1 DEF EdgesOK
<1>3. IsFiniteSet(In) /\ (\A x \in In : Weights(ns)[x] \in Nat) /\ IsFiniteSet(Rest) /\ Rest \subseteq In
  <2>1. IsFiniteSet(In) /\ \A x \in In : Weights(ns)[x] \in Nat
    BY <1>2, WeightsOK
  <2> HIDE DEF In
  <2>2. IsFiniteSet(Rest)
    BY <2>1, FS_RemoveElement
  <2> QED BY <2>1, <2>2
<1>4. IsFiniteSet(InTo(es, s)) /\ \A x \in InTo(es, s) : Weights(es)[x] \in Nat
  BY WeightsOK
<1>5. old \in Nat
  BY GetEdgeOK
<1>6. Rest = InTo(es, s) \ {e}
  BY <1>1 DEF InTo
<1>7. Total(Weights(ns), Rest) = Total(Weights(es), Rest)
  <2>1. \A x \in Rest : Weights(ns)[x] = Weights(es)[x]
    BY <1>1, <1>6 DEF Weights, InTo
  <2> HIDE DEF Rest
  <2> QED BY <1>3, <2>1, TotalSame
<1>8. Total(Weights(ns), Rest) \in Nat
  <2>1. \A x \in Rest : Weights(ns)[x] \in Nat
    BY <1>3
  <2> HIDE DEF Rest
  <2> QED BY <1>3, <2>1, TotalType
<1>9. CASE e[2] = s
  <2>1. e \in In /\ Weights(ns)[e] = old + c
    BY <1>1, <1>9 DEF InTo, Weights
  <2>2. Into(ns, s) = (old + c) + Total(Weights(ns), Rest)
    <3> HIDE DEF In
    <3> QED BY <1>3, <2>1, TotalOfAny DEF Into, In
  <2>3. Into(es, s) = old + Total(Weights(es), Rest)
    <3>1. CASE e \in DOMAIN es
      <4>1. e \in InTo(es, s) /\ Weights(es)[e] = old
        BY <1>9, <3>1 DEF InTo, Weights, GetEdge
      <4> QED BY <1>4, <1>6, <4>1, TotalOfAny DEF Into
    <3>2. CASE e \notin DOMAIN es
      <4>1. InTo(es, s) = Rest /\ old = 0
        BY <1>6, <3>2, NewEdgeOK DEF InTo, GetEdge
      <4> QED BY <1>7, <1>8, <4>1 DEF Into
    <3> QED BY <3>1, <3>2
  <2> HIDE DEF old, Rest
  <2>4. Into(ns, s) = Into(es, s) + c
    BY <1>5, <1>7, <1>8, <2>2, <2>3
  <2> QED BY <1>2, <1>9, <2>4 DEF ns
<1>10. CASE e[2] # s
  <2>1. Rest = In /\ Rest = InTo(es, s)
    BY <1>6, <1>10 DEF InTo
  <2>2. Into(ns, s) = Into(es, s) + 0
    <3> HIDE DEF Rest, In
    <3> QED BY <1>7, <1>8, <2>1 DEF Into, In
  <2> QED BY <1>2, <1>10, <2>2 DEF ns
<1> QED BY <1>9, <1>10

(* Counting a traversal does not touch the cycles.                          *)
SameCosts(es, ns) == EdgesOK(ns) /\ \A s : Into(ns, s) = Into(es, s)

LEMMA TraverseAdds ==
  ASSUME NEW es, EdgesOK(es), NEW from, NEW to, NEW d, NEW b
  PROVE  SameCosts(es, TraverseEdge(es, from, to, d, b))
<1> DEFINE e == <<from, to>>
           g == GetEdge(es, e)
           r == [g EXCEPT !.n = @ + 1,
                    !.n_call = IF d # 0 THEN @ + 1 ELSE @,
                    !.n_tail = IF d # 0 THEN @ ELSE @ + 1,
                    !.back = @ \/ b \/ T_LONGJMP \in {from, to}]
<1>1. EdgeOK(g) /\ g.n_cycles \in Nat
  BY GetEdgeOK
<1>2. TraverseEdge(es, from, to, d, b) = PutEdge(es, e, r)
  BY Zenon DEF TraverseEdge
<1> HIDE DEF g
<1>3. EdgeOK(r) /\ r.n_cycles = g.n_cycles
  BY <1>1 DEF EdgeOK, EdgeFields
<1> HIDE DEF r, e
<1>4. r.n_cycles = g.n_cycles + 0
  BY <1>1, <1>3
<1>5. ASSUME NEW s
      PROVE  EdgesOK(PutEdge(es, e, r)) /\ Into(PutEdge(es, e, r), s) = Into(es, s)
  <2>1. /\ EdgesOK(PutEdge(es, e, r))
        /\ Into(PutEdge(es, e, r), s) = Into(es, s) + (IF e[2] = s THEN 0 ELSE 0)
    <3>1. 0 \in Nat
      OBVIOUS
    <3> QED BY <1>3, <1>4, <3>1, PutEdgeAdds DEF g
  <2>2. Into(es, s) \in Nat
    BY WeightsOK, TotalType DEF Into
  <2> QED BY <2>1, <2>2
<1>6. SameCosts(es, PutEdge(es, e, r))
  BY <1>5 DEF SameCosts
<1> QED BY <1>2, <1>6, Zenon

LEMMA LongjmpAdds ==
  ASSUME NEW es, EdgesOK(es), NEW from, NEW to, NEW old
  PROVE  SameCosts(es, LongjmpEdges(es, from, to, old))
<1> DEFINE via == LongjmpSymbol(from, old)
           in  == IF from = T_LONGJMP THEN es
                  ELSE TraverseEdge(es, from, via, 0, TRUE)
           out == TraverseEdge(in, via, to, 0, TRUE)
<1>1. SameCosts(es, in)
  <2>1. CASE from = T_LONGJMP
    <3>1. in = es
      BY <2>1, Zenon
    <3>2. SameCosts(es, es)
      BY DEF SameCosts
    <3> QED BY <3>1, <3>2, Zenon
  <2>2. CASE from # T_LONGJMP
    <3>1. in = TraverseEdge(es, from, via, 0, TRUE)
      BY <2>2, Zenon
    <3> QED BY <3>1, TraverseAdds, Zenon
  <2> QED BY <2>1, <2>2, Zenon
<1>2. LongjmpEdges(es, from, to, old) = out
  BY Zenon DEF LongjmpEdges
<1> HIDE DEF in
<1>3. EdgesOK(in)
  BY <1>1 DEF SameCosts
<1>4. SameCosts(in, out)
  BY <1>3, TraverseAdds, Zenon
<1> HIDE DEF out
<1>5. SameCosts(es, out)
  BY <1>1, <1>4 DEF SameCosts
<1> QED BY <1>2, <1>5

(* The base of the graph is on the stack.                                   *)
LEMMA Greatest ==
  ASSUME NEW S, NEW n \in Nat, S \subseteq 0 .. n, S # {}
  PROVE  Max(S) \in S /\ \A x \in S : x <= Max(S)
<1> DEFINE R == {n - x : x \in S}
<1>1. R \subseteq Nat /\ R # {}
  OBVIOUS
<1> HIDE DEF R
<1>2. Min(R) \in R /\ \A y \in R : Min(R) <= y
  BY <1>1, Least
<1>3. PICK m \in S : Min(R) = n - m
  BY <1>2 DEF R
<1>4. ASSUME NEW x \in S PROVE m >= x /\ x <= m
  <2>1. n - m <= n - x /\ x \in Int /\ m \in Int
    BY <1>2, <1>3 DEF R
  <2> QED BY <2>1
<1>5. \E y \in S : \A x \in S : y >= x
  BY <1>4
<1>6. Max(S) \in S /\ \A x \in S : Max(S) >= x
  BY <1>5, Zenon DEF Max
<1>7. ASSUME NEW x \in S PROVE x <= Max(S)
  <2>1. \A y \in S : y \in Int
    OBVIOUS
  <2>2. x \in Int /\ Max(S) \in Int /\ Max(S) >= x
    BY <1>6, <2>1, Zenon
  <2> QED BY <2>2
<1> QED BY <1>6, <1>7

LEMMA BaseIsBase ==
  ASSUME NEW stk, Sequence(stk)
  PROVE  /\ LFindBase(stk) \in 0 .. Len(stk) /\ Len(stk) \in Nat
         /\ LFindBase(stk) # 0 => IsBase(stk[LFindBase(stk)].sym)
         /\ \A i \in 1 .. Len(stk) : IsBase(stk[i].sym) => i <= LFindBase(stk)
<1> DEFINE S == {0} \cup {i \in DOMAIN stk : IsBase(stk[i].sym)}
<1>1. Len(stk) \in Nat /\ DOMAIN stk = 1 .. Len(stk)
  BY LenProperties DEF Sequence
<1>2. S \subseteq 0 .. Len(stk) /\ S # {}
  BY <1>1
<1>3. LFindBase(stk) = Max(S)
  BY DEF LFindBase
<1>4. /\ \A x \in S : x = 0 \/ IsBase(stk[x].sym)
      /\ \A i \in 1 .. Len(stk) : IsBase(stk[i].sym) => i \in S
  BY <1>1
<1> HIDE DEF S
<1>5. Max(S) \in S /\ \A x \in S : x <= Max(S)
  BY <1>1, <1>2, Greatest
<1> QED BY <1>1, <1>2, <1>3, <1>4, <1>5

(* What account_cycles does: the cycles go to one symbol, and to the edge   *)
(* of its element unless it is the base.                                    *)
AddedUp(es, cost) == \A s \in Symbols : ~IsBase(s) => cost[s] = Into(es, s)

LEMMA AccountAdds ==
  ASSUME EdgesOK(edges), AddedUp(edges, own), CostInv, NEW stk, Sequence(stk),
         NEW now \in Nat, n_cycles <= now, AccountCycles(stk, now)
  PROVE  EdgesOK(AccountedEdges(stk, now)) /\ AddedUp(AccountedEdges(stk, now), own')
<1> DEFINE base == LFindBase(stk)
           c == now - cycle
           k == AccountNode(stk, base)
           me == stk[k].sym
           e == <<stk[k].from, me>>
           g == GetEdge(edges, e)
           r == [g EXCEPT !.n_cycles = @ + c]
<1>1. c \in Nat /\ own \in [Symbols -> Nat]
  BY AccountedInTime DEF CostInv, CostTypeOK, CostsBounded
<1>2. CASE base = 0
  <2>1. own' = own /\ AccountedEdges(stk, now) = edges
    BY <1>2 DEF AccountCycles, AccountedEdges
  <2> QED BY <2>1 DEF AddedUp
<1>3. CASE base # 0
  <2>1. own' = [own EXCEPT ![me] = @ + c]
    BY <1>3 DEF AccountCycles, Account
  <2>2. AccountedEdges(stk, now) = IF k = base THEN edges ELSE PutEdge(edges, e, r)
    BY <1>3 DEF AccountedEdges, AccountEdge
  <2> HIDE DEF c
  <2>3. \A s \in Symbols : own'[s] = IF s = me THEN own[s] + c ELSE own[s]
    BY <1>1, <2>1
  <2>4. CASE k = base
    <3>1. IsBase(me)
      BY <1>3, <2>4, BaseIsBase
    <3> QED BY <2>2, <2>3, <2>4, <3>1 DEF AddedUp
  <2>5. CASE k # base
    <3>1. EdgeOK(g) /\ g.n_cycles \in Nat
      BY GetEdgeOK
    <3> HIDE DEF g
    <3>2. EdgeOK(r) /\ r.n_cycles = g.n_cycles + c
      BY <1>1, <3>1 DEF EdgeOK, EdgeFields
    <3> HIDE DEF r
    <3>3. ASSUME NEW s
          PROVE  /\ EdgesOK(PutEdge(edges, e, r))
                 /\ Into(PutEdge(edges, e, r), s) = Into(edges, s) + (IF s = me THEN c ELSE 0)
      <4>1. e[2] = me
        OBVIOUS
      <4> HIDE DEF e, me
      <4>2. /\ EdgesOK(PutEdge(edges, e, r))
            /\ Into(PutEdge(edges, e, r), s) = Into(edges, s) + (IF e[2] = s THEN c ELSE 0)
        BY <1>1, <3>2, PutEdgeAdds DEF g
      <4> QED BY <4>1, <4>2
    <3> DEFINE ns == AccountedEdges(stk, now)
    <3>4. ns = PutEdge(edges, e, r)
      BY <2>2, <2>5
    <3> HIDE DEF ns, e, me, k
    <3>5. ASSUME NEW s \in Symbols, ~IsBase(s) PROVE own'[s] = Into(ns, s)
      <4>1. own[s] = Into(edges, s) /\ own[s] \in Nat
        BY <1>1, <3>5 DEF AddedUp
      <4>2. Into(ns, s) = Into(edges, s) + (IF s = me THEN c ELSE 0)
        BY <3>3, <3>4
      <4> QED BY <1>1, <2>3, <4>1, <4>2
    <3>6. EdgesOK(ns)
      BY <3>3, <3>4
    <3> QED BY <3>5, <3>6 DEF AddedUp, ns
  <2> QED BY <2>4, <2>5
<1> QED BY <1>2, <1>3

LEMMA UpdateAdds ==
  ASSUME EdgesOK(edges), AddedUp(edges, own), CostInv,
         NEW stk, Sequence(stk), NEW free, NEW sym, NEW d, NEW lj, NEW sp, NEW to, NEW old,
         NEW now \in Nat, n_cycles <= now,
         UpdateCallStack(stk, free, sym, d, lj, sp, to, old, now)
  PROVE  EdgesOK(edges') /\ AddedUp(edges', own')
<1> DEFINE top     == Head(stk)
           longjmp == lj \/ top.sym = T_LONGJMP
           delta   == Delta(stk, sym, d, longjmp)
           es      == AccountedEdges(stk, now)
           target  == IF sym = NoSymbol THEN to ELSE sym
           new     == IF longjmp THEN Unwind(stk, sym, sp) ELSE AfterReturn(stk, sp)
<1>1. EdgesOK(es) /\ AddedUp(es, own')
  BY AccountAdds DEF UpdateCallStack
<1>2. \/ edges' = TraverseEdge(es, sym, sym, 0, FALSE)
      \/ edges' = TraverseEdge(es, top.sym, target, delta, FALSE)
      \/ edges' = es
      \/ edges' = LongjmpEdges(es, top.sym, Head(new).sym, old)
  BY Zenon DEF UpdateCallStack
<1> HIDE DEF es, top, target, delta, new
<1>3. SameCosts(es, edges')
  <2>1. CASE edges' = TraverseEdge(es, sym, sym, 0, FALSE)
    BY <1>1, <2>1, TraverseAdds, Zenon
  <2>2. CASE edges' = TraverseEdge(es, top.sym, target, delta, FALSE)
    BY <1>1, <2>2, TraverseAdds, Zenon
  <2>3. CASE edges' = es
    BY <1>1, <2>3 DEF SameCosts
  <2>4. CASE edges' = LongjmpEdges(es, top.sym, Head(new).sym, old)
    BY <1>1, <2>4, LongjmpAdds, Zenon
  <2> QED BY <1>2, <2>1, <2>2, <2>3, <2>4
<1> QED BY <1>1, <1>3 DEF AddedUp, SameCosts

LEMMA CallDepthAdds ==
  ASSUME PathInv, EdgesOK(edges), AddedUp(edges, own), CostInv,
         NEW i, UpdateCallDepth(i), i.now \in Nat, n_cycles <= i.now
  PROVE  EdgesOK(edges') /\ AddedUp(edges', own')
<1>1. PICK T : ystack \in Stacks(T) /\ yfree \in Seq(T)
  BY DEF PathInv, PathOf
<1> DEFINE stk  == IF MainReturns(i) THEN <<Head(yfree)>> \o ystack ELSE ystack
           free == IF MainReturns(i) THEN Tail(yfree) ELSE yfree
<1>2. Sequence(stk)
  <2>1. CASE MainReturns(i)
    <3>1. yfree # << >>
      BY <2>1 DEF MainReturns
    <3>2. Head(yfree) \in T /\ ystack \in Seq(T)
      BY <1>1, <3>1, HeadTailProperties DEF Stacks
    <3>3. <<Head(yfree)>> \in Seq(T)
      BY <3>2
    <3>4. <<Head(yfree)>> \o ystack \in Seq(T)
      BY <3>2, <3>3, ConcatProperties
    <3> QED BY <2>1, <3>4 DEF Sequence
  <2>2. CASE ~MainReturns(i)
    BY <1>1, <2>2 DEF Sequence, Stacks
  <2> QED BY <2>1, <2>2
<1> HIDE DEF stk, free
<1>3. \/ \E lj, sp : UpdateCallStack(stk, free, Fun(i), CallOf(i), lj, sp,
                                     i.pc, i.old, i.now)
      \/ UNCHANGED << options, own, edges >>
  BY Zenon DEF UpdateCallDepth, stk, free
<1>4. options' = options
  BY DEF UpdateCallDepth
<1>5. CASE \E lj, sp : UpdateCallStack(stk, free, Fun(i), CallOf(i), lj, sp,
                                       i.pc, i.old, i.now)
  BY <1>2, <1>5, UpdateAdds
<1>6. CASE UNCHANGED << options, own, edges >>
  BY <1>6 DEF AddedUp
<1> QED BY <1>3, <1>5, <1>6

LEMMA WriteDotAdds ==
  ASSUME PathInv, EdgesOK(edges), AddedUp(edges, own), CostInv,
         NEW i, WriteDot(i), i.now \in Nat, n_cycles <= i.now
  PROVE  EdgesOK(edges') /\ AddedUp(edges', own')
<1>1. Sequence(ystack)
  BY DEF PathInv, PathOf, Stacks, Sequence
<1> QED BY <1>1, UpdateAdds, Zenon DEF WriteDot

EdgesInv == EdgesOK(edges) /\ AddedUp(edges, own)

LEMMA EdgesInit ==
  ASSUME Init
  PROVE  EdgesInv
<1> DEFINE e == <<EntryPoint, pc>>
<1>1. edges = [x \in {e} |-> NewEdge] /\ own = [s \in Symbols |-> 0]
  BY Zenon DEF Init, GraphInit
<1> HIDE DEF e
<1>2. EdgesOK(edges)
  <2>1. IsFiniteSet({e})
    BY FS_Singleton
  <2> QED BY <1>1, <2>1, NewEdgeOK DEF EdgesOK
<1>3. ASSUME NEW s PROVE Into(edges, s) = 0
  <2> DEFINE S == InTo(edges, s)
             w == Weights(edges)
  <2>1. IsFiniteSet(S) /\ S \in SUBSET {e}
    BY <1>1, <1>2, WeightsOK DEF InTo
  <2>2. \A x \in {e} : w[x] = 0
    BY <1>1, NewEdgeOK DEF Weights
  <2> HIDE DEF S, w
  <2>3. Total(w, S) = 0
    <3>1. CASE S = {}
      BY <3>1, TotalOfNone
    <3>2. CASE S = {e}
      <4>1. e \in S /\ w[e] = 0 /\ S \ {e} = {} /\ \A x \in S : w[x] \in Nat
        BY <2>2, <3>2
      <4>2. Total(w, S) = w[e] + Total(w, S \ {e})
        BY <2>1, <4>1, TotalOfAny
      <4>3. Total(w, S) = 0 + 0
        BY <4>1, <4>2, TotalOfNone
      <4> QED BY <4>3
    <3> QED BY <2>1, <3>1, <3>2
  <2> QED BY <2>3 DEF Into, S, w
<1>4. AddedUp(edges, own)
  BY <1>1, <1>3 DEF AddedUp
<1> QED BY <1>2, <1>4 DEF EdgesInv

LEMMA EdgesNext ==
  ASSUME PathInv, CostInv, EdgesInv, [Next]_vars
  PROVE  EdgesInv'
<1>1. n_cycles \in Nat
  BY DEF CostInv, CostTypeOK
<1>2. CASE Leave
  <2>1. PICK i : WriteDot(i) /\ i.now = n_cycles
    BY <1>2 DEF Leave
  <2>2. n_cycles <= n_cycles /\ options' = options
    BY <1>1, <2>1 DEF WriteDot
  <2>3. EdgesOK(edges') /\ AddedUp(edges', own')
    BY <1>1, <2>1, <2>2, WriteDotAdds DEF EdgesInv
  <2> QED BY <2>2, <2>3 DEF EdgesInv, AddedUp, IsBase
<1>3. ASSUME NEW id, NEW to, NEW mem, Executes(id, to, mem)
      PROVE  EdgesInv'
  <2>1. PICK i : UpdateCallDepth(i) /\ i.now = n_cycles'
    BY <1>3 DEF Executes
  <2>2. n_cycles' \in Nat /\ n_cycles <= n_cycles' /\ options' = options
    BY <1>1, <1>3, <2>1, ExecutesAccounts DEF UpdateCallDepth
  <2>3. EdgesOK(edges') /\ AddedUp(edges', own')
    BY <2>1, <2>2, CallDepthAdds DEF EdgesInv
  <2> QED BY <2>2, <2>3 DEF EdgesInv, AddedUp, IsBase
<1>4. CASE UNCHANGED vars
  BY <1>4 DEF vars, cgvars, EdgesInv, AddedUp, IsBase
<1> QED BY <1>2, <1>3, <1>4, NextExecutes

LEMMA EdgesAreAdded ==
  ASSUME EdgesInv
  PROVE  EdgesAddUp
BY DEF EdgesInv, AddedUp, EdgesAddUp, Into, Total, Weights, InTo

(* For every program and all options: what the graph shows on the edges that *)
(* lead to a function adds up to what the function itself is charged, at     *)
(* every moment.  Edges are followed when the call stack changes, cycles     *)
(* are accounted when it changes next, and then to the edge of the element   *)
(* that pays, wherever longjmp, exit or a tail call have led in between.     *)
THEOREM EdgesSumUp == Spec => []EdgesAddUp
<1>1. Init => PathInv /\ CostInv /\ EdgesInv
  BY PathInit, CostInit, EdgesInit
<1>2. PathInv /\ CostInv /\ EdgesInv /\ [Next]_vars => PathInv' /\ CostInv' /\ EdgesInv'
  BY PathNext, CostNext, EdgesNext
<1>3. EdgesInv => EdgesAddUp
  BY EdgesAreAdded
<1> QED BY <1>1, <1>2, <1>3, PTL DEF Spec

-----------------------------------------------------------------------------
(* What a function of a plain program costs                                 *)

(* The code before main.                                                    *)
StartCode == {"vectors", "init"}
StartSyms == {Entry(f) : f \in StartCode}

(* A plain program whose vectors only jump; the graph starts in main or in  *)
(* functions the user asks for, and no function of avr-libc is taken for a  *)
(* reserved caller.                                                        *)
CostedProgram ==
  /\ PlainProgram(prof) /\ \A e \in prof.calls : e[1] # "vectors"
  /\ options.base \cap StartSyms = {} /\ "__utoa_common" \notin Regions

(* The functions from the base of the graph to the top of the call stack,    *)
(* and the cycles they have not been charged yet.                           *)
OnStack(stk) == {stk[i].sym : i \in 1 .. LFindBase(stk)}
Due(s)       == IF s \in OnStack(ystack) THEN n_cycles - cycle ELSE 0

(* Without an option -graph-leaf there are no leaves; startup code has no   *)
(* call depth.                                                             *)
ElementsOK(stk) ==
  \A i \in 1 .. Len(stk) : /\ options.leaf = {} => ~stk[i].is_leaf
                           /\ stk[i].depth = 0 => stk[i].sym \in StartSyms

(* One pop, or one push.                                                    *)
Shorter(new, stk) ==
  /\ Sequence(new) /\ Len(new) \in 1 .. Len(stk)
  /\ \A i \in 1 .. Len(new) : new[i] = stk[i + (Len(stk) - Len(new))]

LEMMA SuffixIsShorter ==
  ASSUME NEW stk, Sequence(stk), NEW k \in 1 .. Len(stk)
  PROVE  Shorter(SubSeq(stk, k, Len(stk)), stk)
<1> DEFINE n == Len(stk)
           s == SubSeq(stk, k, n)
<1>1. PICK T : stk \in Seq(T)
  BY DEF Sequence
<1>2. n \in Nat /\ \A i \in k .. n : stk[i] \in T
  BY <1>1, LenProperties, ElementOfSeq
<1>3. /\ s \in Seq(T) /\ Len(s) = n - k + 1
      /\ \A i \in 1 .. n - k + 1 : s[i] = stk[k + i - 1]
  BY <1>1, <1>2, SubSeqProperties
<1> HIDE DEF s, n
<1>4. Len(s) \in 1 .. n
  BY <1>2, <1>3 DEF n
<1>5. ASSUME NEW i \in 1 .. Len(s) PROVE s[i] = stk[i + (n - Len(s))]
  <2>1. k + i - 1 = i + (n - Len(s))
    BY <1>2, <1>3 DEF n
  <2> QED BY <1>3, <2>1
<1> QED BY <1>3, <1>4, <1>5 DEF Shorter, Sequence, s, n

LEMMA ShorterTwice ==
  ASSUME NEW a, NEW b, NEW c, Sequence(c), Shorter(b, c), Shorter(a, b)
  PROVE  Shorter(a, c)
<1>1. /\ Len(c) \in Nat /\ Len(b) \in 1 .. Len(c) /\ Len(a) \in 1 .. Len(b)
      /\ Len(a) \in 1 .. Len(c)
  BY LenProperties DEF Shorter, Sequence
<1>2. ASSUME NEW i \in 1 .. Len(a) PROVE a[i] = c[i + (Len(c) - Len(a))]
  <2> DEFINE j == i + (Len(b) - Len(a))
  <2>1. j \in 1 .. Len(b) /\ j + (Len(c) - Len(b)) = i + (Len(c) - Len(a))
    BY <1>1
  <2>2. a[i] = b[j]
    BY DEF Shorter
  <2> HIDE DEF j
  <2>3. b[j] = c[j + (Len(c) - Len(b))]
    BY <2>1 DEF Shorter
  <2> QED BY <2>1, <2>2, <2>3
<1> QED BY <1>1, <1>2 DEF Shorter

LEMMA ShorterItself ==
  ASSUME NEW stk, Sequence(stk), Len(stk) # 0
  PROVE  Shorter(stk, stk)
<1>1. Len(stk) \in Nat \ {0} /\ \A i \in 1 .. Len(stk) : i + (Len(stk) - Len(stk)) = i
  BY LenProperties DEF Sequence
<1> QED BY <1>1 DEF Shorter

LEMMA DropIsShorter ==
  ASSUME NEW stk, Sequence(stk), Len(stk) # 0, NEW sp
  PROVE  Shorter(DropDeeper(stk, sp), stk)
<1> DEFINE S == {i \in DOMAIN stk : i = Len(stk) \/ stk[i].sp >= sp}
<1>1. Len(stk) \in Nat \ {0} /\ DOMAIN stk = 1 .. Len(stk)
  BY LenProperties DEF Sequence
<1>2. Len(stk) \in S /\ S \subseteq 1 .. Len(stk) /\ S \subseteq Nat
  BY <1>1
<1> HIDE DEF S
<1>3. Min(S) \in 1 .. Len(stk)
  BY <1>2, Least
<1> QED BY <1>3, SuffixIsShorter DEF DropDeeper, S

LEMMA PopsAreShorter ==
  ASSUME NEW stk, Sequence(stk), Len(stk) # 0, NEW sym, NEW sp
  PROVE  Shorter(AfterReturn(stk, sp), stk) /\ Shorter(Unwind(stk, sym, sp), stk)
<1>1. Len(stk) \in Nat \ {0} /\ DOMAIN stk = 1 .. Len(stk)
  BY LenProperties DEF Sequence
<1>2. Shorter(AfterReturn(stk, sp), stk)
  <2>1. CASE Len(stk) = 1
    BY <2>1, ShorterItself DEF AfterReturn
  <2>2. CASE Len(stk) # 1
    <3> DEFINE t == Tail(stk)
    <3>1. PICK T : stk \in Seq(T)
      BY DEF Sequence
    <3>2. t = SubSeq(stk, 2, Len(stk))
      <4>1. stk # << >>
        BY <3>1, EmptySeq
      <4> QED BY <3>1, <4>1, TailIsSubSeq
    <3>3. PICK k \in 1 .. Len(stk) : k = 2
      <4>1. \A n \in Nat \ {0} : n # 1 => 2 \in 1 .. n
        OBVIOUS
      <4> QED BY <1>1, <2>2, <4>1
    <3> HIDE DEF t
    <3>4. Shorter(t, stk)
      BY <3>2, <3>3, SuffixIsShorter
    <3>5. Sequence(t) /\ Len(t) # 0
      BY <1>1, <3>4 DEF Shorter
    <3>6. Shorter(DropDeeper(t, sp), stk)
      BY <3>4, <3>5, DropIsShorter, ShorterTwice
    <3> QED BY <2>2, <3>4, <3>6 DEF AfterReturn, t
  <2> QED BY <2>1, <2>2
<1>3. Shorter(Unwind(stk, sym, sp), stk)
  <2> DEFINE at == {i \in DOMAIN stk : stk[i].sym = sym}
             to == IF at = {} THEN stk ELSE SubSeq(stk, Min(at), Len(stk))
  <2>1. at \subseteq 1 .. Len(stk) /\ at \subseteq Nat
    BY <1>1
  <2>2. Shorter(to, stk)
    <3> HIDE DEF at
    <3>1. CASE at = {}
      BY <3>1, ShorterItself
    <3>2. CASE at # {}
      <4>1. Min(at) \in 1 .. Len(stk)
        BY <2>1, <3>2, Least
      <4> QED BY <3>2, <4>1, SuffixIsShorter
    <3> QED BY <3>1, <3>2
  <2> HIDE DEF to
  <2>3. Sequence(to) /\ Len(to) # 0
    BY <1>1, <2>2 DEF Shorter
  <2>4. Shorter(DropDeeper(to, sp), stk)
    BY <2>2, <2>3, DropIsShorter, ShorterTwice
  <2> QED BY <2>4 DEF Unwind, to
<1> QED BY <1>2, <1>3

(* update_call_stack: the cycles are accounted on the stack as it was, then  *)
(* the stack grows by one element or gets shorter.                          *)
Grows(stk, sym, pcs) ==
  \E target \in {sym, pcs} : \E delta, sp : ystack' = <<NewNode(stk, target, delta, sp)>> \o stk

Moves(now, sym, pcs) ==
  /\ AccountCycles(ystack, now) /\ graph_cycles' = AccountedCycles(ystack, now)
  /\ func_sym \subseteq func_sym'
  /\ ystack' = ystack \/ Grows(ystack, sym, pcs) \/ Shorter(ystack', ystack)

LEMMA UpdateMoves ==
  ASSUME Sequence(ystack), Len(ystack) # 0,
         NEW free, NEW sym, NEW d, NEW lj, NEW sp, NEW to, NEW old, NEW now,
         UpdateCallStack(ystack, free, sym, d, lj, sp, to, old, now)
  PROVE  Moves(now, sym, to)
<1> DEFINE top     == Head(ystack)
           longjmp == lj \/ top.sym = T_LONGJMP
           delta   == Delta(ystack, sym, d, longjmp)
           target  == IF sym = NoSymbol THEN to ELSE sym
           new     == IF longjmp THEN Unwind(ystack, sym, sp) ELSE AfterReturn(ystack, sp)
           via     == LongjmpSymbol(top.sym, old)
<1>1. AccountCycles(ystack, now) /\ graph_cycles' = AccountedCycles(ystack, now)
  BY Zenon DEF UpdateCallStack
<1>2. \/ ystack' = ystack /\ func_sym' = func_sym
      \/ /\ ystack' = <<NewNode(ystack, target, delta, sp)>> \o ystack
         /\ func_sym' = func_sym \cup ({target} \cap Addresses)
      \/ ystack' = new /\ func_sym' = func_sym
      \/ ystack' = new /\ func_sym' = func_sym \cup {via}
  BY Zenon DEF UpdateCallStack, Push, Replace
<1>3. func_sym \subseteq func_sym'
  BY <1>2
<1>4. Shorter(new, ystack)
  BY PopsAreShorter
<1>5. target \in {sym, to}
  OBVIOUS
<1> HIDE DEF target, delta, new
<1>6. ystack' = ystack \/ Grows(ystack, sym, to) \/ Shorter(ystack', ystack)
  BY <1>2, <1>4, <1>5 DEF Grows
<1> QED BY <1>1, <1>3, <1>6 DEF Moves

(* The elements above the one that pays are of no function: what a plain     *)
(* function is charged are the cycles, if it is on the stack.               *)
LEMMA PlainAccount ==
  ASSUME CostTypeOK, Sequence(ystack), ElementsOK(ystack),
         \A i \in 1 .. Len(ystack) - 1 : ~IsReservedCaller(ystack[i].from),
         NEW now \in Nat, now - cycle \in Nat, AccountCycles(ystack, now),
         NEW s \in Symbols, Plain(s)
  PROVE  /\ own'[s] \in Nat /\ childs'[s] \in Nat
         /\ own'[s] + childs'[s] = own[s] + childs[s]
                                   + (IF s \in OnStack(ystack) THEN now - cycle ELSE 0)
<1> DEFINE base == LFindBase(ystack)
           c == now - cycle
           k == AccountNode(ystack, base)
           me == ystack[k].sym
           parents == Callers(ystack, k, base)
<1>1. /\ own \in [Symbols -> Nat] /\ childs \in [Symbols -> Nat]
      /\ own[s] \in Nat /\ childs[s] \in Nat /\ c \in Nat
  BY DEF CostTypeOK
<1>2. base \in 0 .. Len(ystack) /\ Len(ystack) \in Nat
  BY BaseIsBase
<1>3. CASE base = 0
  <2>1. own' = own /\ childs' = childs
    BY <1>3 DEF AccountCycles
  <2>2. 1 .. 0 = {}
    OBVIOUS
  <2>3. s \notin OnStack(ystack)
    BY <1>3, <2>2 DEF OnStack
  <2> HIDE DEF c
  <2>4. own[s] + childs[s] = own[s] + childs[s] + 0
    BY <1>1
  <2> QED BY <1>1, <2>1, <2>3, <2>4
<1>4. CASE base # 0
  <2>1. own' = [own EXCEPT ![me] = @ + c]
    BY <1>4, Zenon DEF AccountCycles, Account
  <2>2. childs' = [x \in Symbols |-> IF x \in parents THEN childs[x] + c ELSE childs[x]]
    BY <1>4, Zenon DEF AccountCycles, Account
  <2>3. me \notin parents
    BY PayerIsNoCaller
  <2> DEFINE K == {i \in 1 .. base : i = base \/ StopsAt(ystack[i], ystack[base])}
  <2>4. base \in K /\ K \subseteq 1 .. base /\ K \subseteq Nat
    BY <1>2, <1>4
  <2>5. k = Min(K)
    BY DEF AccountNode
  <2>6. k \in 1 .. base /\ \A i \in K : k <= i
    <3> HIDE DEF K, k
    <3> QED BY <2>4, <2>5, Least
  <2>7. s \in OnStack(ystack) => s = me \/ s \in parents
    <3> SUFFICES ASSUME NEW i \in 1 .. base, s = ystack[i].sym
                 PROVE  i \in k .. base
      BY DEF OnStack, Callers
    <3>1. CASE i = base
      BY <1>2, <1>4, <2>6, <3>1
    <3>2. CASE i # base
      <4>1. i \in 1 .. Len(ystack) - 1 /\ i \in 1 .. Len(ystack)
        BY <1>2, <3>2
      <4>2. ~IsReservedCaller(ystack[i].from)
        BY <4>1
      <4>3. ~ystack[i].is_leaf
        BY <4>1 DEF ElementsOK, Plain
      <4>4. StopsAt(ystack[i], ystack[base])
        BY <4>2, <4>3, Zenon DEF StopsAt, Plain
      <4>5. i \in K
        BY <4>4
      <4> HIDE DEF K, k
      <4> QED BY <1>2, <2>6, <4>5
    <3> QED BY <3>1, <3>2
  <2>8. s = me \/ s \in parents => s \in OnStack(ystack)
    <3>1. \A i \in k .. base : i \in 1 .. base
      BY <1>2, <2>6
    <3>2. ystack[k].sym \in OnStack(ystack)
      BY <2>6 DEF OnStack
    <3> HIDE DEF k
    <3> QED BY <3>1, <3>2 DEF OnStack, Callers
  <2> HIDE DEF c, me, parents, k
  <2>9. /\ own'[s] = IF s = me THEN own[s] + c ELSE own[s]
        /\ childs'[s] = IF s \in parents THEN childs[s] + c ELSE childs[s]
    BY <1>1, <2>1, <2>2
  <2>10. CASE s = me
    BY <1>1, <2>3, <2>8, <2>9, <2>10 DEF c
  <2>11. CASE s \in parents
    BY <1>1, <2>3, <2>8, <2>9, <2>11 DEF c
  <2>12. CASE s # me /\ s \notin parents
    BY <1>1, <2>7, <2>9, <2>12
  <2> QED BY <2>10, <2>11, <2>12
<1> QED BY <1>3, <1>4

-----------------------------------------------------------------------------
(* The functions the program is in, one by one                              *)

(* One sequence is another one after some start.                            *)
Beside(T, S, a, b, s) ==
  /\ a \in Seq(T) /\ b \in Seq(S) /\ Len(a) = Len(s) + Len(b)
  /\ \A j \in 1 .. Len(s) : a[j] = s[j]
  /\ \A i \in 1 .. Len(b) : a[Len(s) + i] = b[i][1]

Firsts(c, d) == Len(c) = Len(d) /\ \A j \in 1 .. Len(d) : c[j] = d[j][1]

LEMMA Joined ==
  ASSUME NEW T, NEW a \in Seq(T), NEW c \in Seq(T)
  PROVE  /\ a \o c \in Seq(T) /\ Len(a \o c) = Len(a) + Len(c)
         /\ \A i \in 1 .. Len(a) + Len(c) : (a \o c)[i] = IF i <= Len(a) THEN a[i] ELSE c[i - Len(a)]
BY ConcatProperties

LEMMA BesideGrows ==
  ASSUME NEW T, NEW S, NEW s \in Seq(T), NEW a, NEW b, Beside(T, S, a, b, s),
         NEW c \in Seq(T), NEW d \in Seq(S), Firsts(c, d)
  PROVE  Beside(T, S, a \o c, b \o d, s)
<1> DEFINE x == a \o c
           y == b \o d
<1>1. a \in Seq(T) /\ b \in Seq(S) /\ Len(a) = Len(s) + Len(b)
  BY DEF Beside
<1>2. Len(a) \in Nat /\ Len(b) \in Nat /\ Len(c) \in Nat /\ Len(d) \in Nat /\ Len(s) \in Nat
      /\ Len(c) = Len(d)
  BY <1>1, LenProperties DEF Firsts
<1>3. /\ x \in Seq(T) /\ Len(x) = Len(a) + Len(c)
      /\ \A i \in 1 .. Len(a) + Len(c) : x[i] = IF i <= Len(a) THEN a[i] ELSE c[i - Len(a)]
  <2>1. x \in Seq(T)
    BY <1>1, Joined
  <2>2. Len(x) = Len(a) + Len(c)
    BY <1>1, Joined
  <2>3. \A i \in 1 .. Len(a) + Len(c) : x[i] = IF i <= Len(a) THEN a[i] ELSE c[i - Len(a)]
    BY <1>1, Joined
  <2> QED BY <2>1, <2>2, <2>3
<1>4. /\ y \in Seq(S) /\ Len(y) = Len(b) + Len(d)
      /\ \A i \in 1 .. Len(b) + Len(d) : y[i] = IF i <= Len(b) THEN b[i] ELSE d[i - Len(b)]
  BY <1>1, Joined
<1> HIDE DEF x, y
<1>5. Len(x) = Len(s) + Len(y)
  BY <1>1, <1>2, <1>3, <1>4
<1>6. ASSUME NEW j \in 1 .. Len(s) PROVE x[j] = s[j]
  <2>1. j \in 1 .. Len(a) + Len(c) /\ j <= Len(a)
    BY <1>1, <1>2
  <2> QED BY <1>3, <2>1 DEF Beside
<1>7. ASSUME NEW i \in 1 .. Len(y) PROVE x[Len(s) + i] = y[i][1]
  <2> DEFINE k == Len(s) + i
  <2>1. i \in 1 .. Len(b) + Len(d) /\ k \in 1 .. Len(a) + Len(c)
    BY <1>1, <1>2, <1>4
  <2>2. CASE i <= Len(b)
    <3>1. k <= Len(a) /\ i \in 1 .. Len(b)
      BY <1>1, <1>2, <2>1, <2>2
    <3>2. a[k] = b[i][1]
      BY <3>1 DEF Beside
    <3> HIDE DEF k
    <3>3. x[k] = a[k] /\ y[i] = b[i]
      BY <1>3, <1>4, <2>1, <2>2, <3>1
    <3> QED BY <3>2, <3>3 DEF k
  <2>3. CASE ~(i <= Len(b))
    <3>1. ~(k <= Len(a)) /\ k - Len(a) = i - Len(b) /\ i - Len(b) \in 1 .. Len(d)
      BY <1>1, <1>2, <2>1, <2>3
    <3>2. c[i - Len(b)] = d[i - Len(b)][1]
      BY <3>1 DEF Firsts
    <3> HIDE DEF k
    <3>3. x[k] = c[i - Len(b)] /\ y[i] = d[i - Len(b)]
      BY <1>3, <1>4, <2>1, <2>3, <3>1
    <3> QED BY <3>2, <3>3 DEF k
  <2> QED BY <2>2, <2>3
<1>8. Beside(T, S, x, y, s)
  BY <1>3, <1>4, <1>5, <1>6, <1>7 DEF Beside
<1> QED BY <1>8 DEF x, y

(* The functions of a frame.                                               *)
FrameSyms(fns) == [j \in DOMAIN fns |-> fns[j].sym]
SymSeq(fr)     == [k \in DOMAIN fr |-> FrameSyms(fr[k].fns)]

LEMMA FrameSymsAre ==
  ASSUME NEW fr \in Seq(FrameType), NEW k \in 1 .. Len(fr)
  PROVE  /\ FrameSyms(fr[k].fns) \in Seq(Syms)
         /\ Len(FrameSyms(fr[k].fns)) = Len(fr[k].fns)
         /\ \A j \in 1 .. Len(fr[k].fns) : FrameSyms(fr[k].fns)[j] = fr[k].fns[j].sym
<1> DEFINE fns == fr[k].fns
           n == Len(fns)
           l == [j \in 1 .. n |-> fns[j].sym]
<1>1. /\ n \in Nat /\ DOMAIN fns = 1 .. n
      /\ \A j \in 1 .. n : fns[j].sym \in Syms
  BY FrameFields
<1>2. FrameSyms(fns) = l
  BY <1>1 DEF FrameSyms
<1> HIDE DEF fns, n
<1>3. l \in [1 .. n -> Syms] /\ \A j \in 1 .. n : l[j] = fns[j].sym
  BY <1>1
<1> HIDE DEF l
<1>4. l \in Seq(Syms)
  BY <1>1, <1>3, SeqDef
<1>5. Len(l) = n
  <2>1. DOMAIN l = 1 .. n /\ DOMAIN l = 1 .. Len(l) /\ Len(l) \in Nat
    BY <1>3, <1>4, LenProperties
  <2> QED BY <1>1, <2>1
<1> QED BY <1>2, <1>3, <1>4, <1>5 DEF n, fns

(* The chain of functions is the startup code, then the levels.             *)
LEMMA ChainIs ==
  ASSUME frames \in Seq(FrameType), Len(frames) # 0
  PROVE  Beside(Syms, Syms \X (1 .. Len(frames) - 1), Chain, CallLevels, FrameSyms(frames[1].fns))
<1> DEFINE n == Len(frames)
           S == Syms \X (1 .. n - 1)
           ss == SymSeq(frames)
           ls == LevelSeq(frames)
           s == FrameSyms(frames[1].fns)
<1>1. n \in Nat \ {0} /\ DOMAIN frames = 1 .. n /\ 1 \in 1 .. n
  BY LenProperties
<1>2. Chain = FlattenSeq(ss)
  BY DEF Chain, SymSeq, FrameSyms
<1>3. \A k \in 1 .. n : ss[k] = FrameSyms(frames[k].fns) /\ ss[k] \in Seq(Syms)
  BY <1>1, FrameSymsAre DEF SymSeq
<1>4. Len(ss) = n
  <2>1. ss \in [1 .. n -> Seq(Syms)]
    BY <1>1, <1>3 DEF SymSeq
  <2>2. ss \in Seq(Seq(Syms))
    BY <1>1, <2>1, SeqDef
  <2> HIDE DEF ss, n
  <2> QED BY <1>1, <2>1, <2>2, LenProperties
<1>5. /\ CallLevels = FlattenSeq(ls) /\ Len(ls) = n
      /\ \A k \in 1 .. n : /\ ls[k] = IF k = 1 THEN << >> ELSE LevelAt(frames[k].fns, k)
                           /\ ls[k] \in Seq(S)
  BY LevelSeqIs DEF CallLevels
<1>6. s \in Seq(Syms)
  BY <1>1, FrameSymsAre
<1>7. ASSUME NEW k \in 1 .. n, k # 1
      PROVE  Firsts(ss[k], ls[k])
  <2> DEFINE fns == frames[k].fns
  <2>0. ls[k] = LevelAt(fns, k)
    BY <1>5, <1>7
  <2>1. /\ Len(LevelAt(fns, k)) = Len(fns)
        /\ \A j \in 1 .. Len(fns) : LevelAt(fns, k)[j] = <<fns[j].sym, k - 1>>
    BY <1>7, LevelType
  <2>2. Len(ss[k]) = Len(fns) /\ \A j \in 1 .. Len(fns) : ss[k][j] = fns[j].sym
    BY <1>3, FrameSymsAre
  <2> HIDE DEF fns, ss, ls, n
  <2>3. \A a, b : <<a, b>>[1] = a
    OBVIOUS
  <2> QED BY <2>0, <2>1, <2>2, <2>3 DEF Firsts
<1> HIDE DEF ss, ls, s, S
<1>8. PICK F : Flattens(F, ss, n) /\ FlattenSeq(ss) = F[n]
  BY <1>1, <1>4, FlattenIs
<1>9. PICK G : Flattens(G, ls, n) /\ FlattenSeq(ls) = G[n]
  BY <1>1, <1>5, FlattenIs
<1> HIDE DEF n
<1> DEFINE Bad == {i \in 1 .. n : ~Beside(Syms, S, F[i], G[i], s)}
<1>10. Bad = {}
  <2> SUFFICES ASSUME Bad # {} PROVE FALSE
    OBVIOUS
  <2>1. PICK i \in Bad : \A k \in Bad : i <= k
    <3>1. Bad \subseteq Nat
      OBVIOUS
    <3> HIDE DEF Bad
    <3>2. Min(Bad) \in Bad /\ \A k \in Bad : Min(Bad) <= k
      BY <3>1, Least
    <3> QED BY <3>2
  <2>2. i \in 1 .. n /\ ~Beside(Syms, S, F[i], G[i], s)
    OBVIOUS
  <2>3. F[i] = IF i = 1 THEN ss[i] ELSE F[i - 1] \o ss[i]
    BY <1>8, <2>2 DEF Flattens
  <2>4. G[i] = IF i = 1 THEN ls[i] ELSE G[i - 1] \o ls[i]
    BY <1>9, <2>2 DEF Flattens
  <2>5. CASE i = 1
    <3>1. F[i] = s /\ G[i] = << >>
      BY <1>3, <1>5, <2>2, <2>3, <2>4, <2>5 DEF s
    <3>2. Len(s) \in Nat /\ << >> \in Seq(S) /\ Len(<< >>) = 0 /\ 1 .. 0 = {}
      BY <1>6, LenProperties
    <3>3. Beside(Syms, S, s, << >>, s)
      BY <1>6, <3>2 DEF Beside
    <3> QED BY <2>2, <3>1, <3>3
  <2>6. CASE i # 1
    <3> DEFINE p == i - 1
    <3>1. p \in 1 .. n /\ p \notin Bad
      BY <1>1, <2>1, <2>2, <2>6
    <3>2. Beside(Syms, S, F[p], G[p], s)
      BY <3>1
    <3>3. F[i] = F[p] \o ss[i] /\ G[i] = G[p] \o ls[i]
      BY <2>3, <2>4, <2>6
    <3>4. ss[i] \in Seq(Syms) /\ ls[i] \in Seq(S)
      BY <1>3, <1>5, <2>2
    <3>5. Firsts(ss[i], ls[i])
      BY <1>7, <2>2, <2>6
    <3> HIDE DEF p, Bad
    <3>6. Beside(Syms, S, F[p] \o ss[i], G[p] \o ls[i], s)
      BY <1>6, <3>2, <3>4, <3>5, BesideGrows
    <3> QED BY <2>2, <3>3, <3>6
  <2> QED BY <2>5, <2>6
<1>11. Beside(Syms, S, F[n], G[n], s)
  <2>1. n \in 1 .. n
    BY <1>1
  <2> QED BY <1>10, <2>1
<1> QED BY <1>2, <1>5, <1>8, <1>9, <1>11 DEF S, n, s

(* Startup code falls, jumps and calls, and does so once.                   *)
StartFrame ==
  /\ \A j \in 1 .. Len(frames[1].fns) : frames[1].fns[j].sym \in StartSyms
  /\ main_run = "returned" => Len(frames) = 1

(* The functions that are charged for the next cycle are those on the call   *)
(* stack from its base on.                                                 *)
LEMMA ChargedIsOnStack ==
  ASSUME PlainOK, StartFrame, ElementsOK(ystack), options.base \cap StartSyms = {}
  PROVE  Charged(Chain) = OnStack(ystack)
<1> DEFINE lev == CallLevels
           N == Len(lev)
           s == FrameSyms(frames[1].fns)
           m == Len(s)
           ch == Chain
           base == LFindBase(ystack)
           S == Syms \X (1 .. Len(frames) - 1)
<1>1. frames \in Seq(FrameType) /\ Len(frames) \in Nat \ {0} /\ Len(frames) # 0
      /\ 1 \in 1 .. Len(frames)
  BY PlainMachine DEF PlainOK, FramesOK
<1>2. Beside(Syms, S, ch, lev, s)
  BY <1>1, ChainIs
<1>3. s \in Seq(Syms) /\ \A j \in 1 .. m : s[j] \in StartSyms
  <2>1. /\ s \in Seq(Syms) /\ m = Len(frames[1].fns)
        /\ \A j \in 1 .. Len(frames[1].fns) : s[j] = frames[1].fns[j].sym
    BY <1>1, FrameSymsAre
  <2> QED BY <2>1 DEF StartFrame
<1>4. /\ Sequence(ystack) /\ N < Len(ystack)
      /\ \A i \in 1 .. N : <<ystack[N + 1 - i].sym, ystack[N + 1 - i].depth>> = lev[i]
      /\ \A i \in N + 1 .. Len(ystack) : ystack[i].depth = 0
  BY DEF PlainOK, StackOK, Matches, CallLevels
<1> HIDE DEF S, ch, lev, s
<1>5. /\ ch \in Seq(Syms) /\ N \in Nat /\ m \in Nat /\ Len(ch) = m + N /\ DOMAIN ch = 1 .. m + N
      /\ \A j \in 1 .. m : ch[j] = s[j]
      /\ \A i \in 1 .. N : ch[m + i] = lev[i][1]
  BY <1>2, <1>3, LenProperties DEF Beside
<1>6. \A i \in 1 .. N : ch[m + i] = ystack[N + 1 - i].sym
  <2>1. TAKE i \in 1 .. N
  <2> DEFINE a == ystack[N + 1 - i].sym
             b == ystack[N + 1 - i].depth
  <2>2. ch[m + i] = lev[i][1]
    BY <1>5
  <2>3. lev[i] = <<a, b>>
    BY <1>4, Zenon
  <2> HIDE DEF a, b
  <2>4. ch[m + i] = a
    BY <2>2, <2>3
  <2> QED BY <2>4 DEF a
<1> HIDE DEF N, m
<1>7. \A x \in StartSyms : ~IsBase(x)
  BY DEF IsBase
<1>8. \A j \in 1 .. m : ~IsBase(ch[j])
  BY <1>3, <1>5, <1>7
<1>9. /\ base \in 0 .. Len(ystack) /\ Len(ystack) \in Nat
      /\ base # 0 => IsBase(ystack[base].sym)
      /\ \A i \in 1 .. Len(ystack) : IsBase(ystack[i].sym) => i <= base
  BY <1>4, BaseIsBase
<1> HIDE DEF base
<1>10. base \in 0 .. N
  <2>1. CASE base \in N + 1 .. Len(ystack)
    <3>1. ystack[base].depth = 0 /\ base \in 1 .. Len(ystack) /\ base # 0
      BY <1>4, <1>5, <2>1
    <3>2. ystack[base].sym \in StartSyms
      BY <3>1 DEF ElementsOK
    <3> QED BY <1>7, <1>9, <3>1, <3>2
  <2>2. CASE base \notin N + 1 .. Len(ystack)
    BY <1>5, <1>9, <2>2
  <2> QED BY <2>1, <2>2
<1> DEFINE on == {ystack[i].sym : i \in 1 .. base}
<1>11. ASSUME NEW j \in 1 .. m + N, NEW b \in 1 .. j, IsBase(ch[b])
       PROVE  ch[j] \in on
  <2> DEFINE i == j - m
             c == b - m
  <2>1. b \notin 1 .. m
    BY <1>8, <1>11
  <2>2. i \in 1 .. N /\ c \in 1 .. N /\ c <= i /\ m + i = j /\ m + c = b
    BY <1>5, <2>1
  <2> HIDE DEF i, c
  <2>3. ch[j] = ystack[N + 1 - i].sym /\ IsBase(ystack[N + 1 - c].sym)
    BY <1>6, <1>11, <2>2
  <2>4. N + 1 - c \in 1 .. Len(ystack) /\ N + 1 - i <= N + 1 - c
    BY <1>4, <1>5, <1>9, <2>2
  <2>5. N + 1 - c <= base
    BY <1>9, <2>3, <2>4
  <2>6. N + 1 - i \in 1 .. base
    BY <1>5, <1>10, <2>2, <2>4, <2>5
  <2> QED BY <2>3, <2>6
<1>12. ASSUME NEW k \in 1 .. base
       PROVE  \E j \in 1 .. m + N : ch[j] = ystack[k].sym /\ \E b \in 1 .. j : IsBase(ch[b])
  <2> DEFINE j == m + (N + 1 - k)
             b == m + (N + 1 - base)
  <2>1. /\ j \in 1 .. m + N /\ b \in 1 .. j /\ N + 1 - k \in 1 .. N /\ N + 1 - base \in 1 .. N
        /\ N + 1 - (N + 1 - k) = k /\ N + 1 - (N + 1 - base) = base /\ base # 0
    BY <1>5, <1>10
  <2>2. ch[j] = ystack[k].sym /\ ch[b] = ystack[base].sym
    BY <1>6, <2>1
  <2>3. IsBase(ch[b])
    BY <1>9, <2>1, <2>2
  <2> HIDE DEF j, b
  <2> QED BY <2>1, <2>2, <2>3
<1>13. Charged(ch) = {ch[j] : j \in {i \in 1 .. m + N : \E b \in 1 .. i : IsBase(ch[b])}}
  BY <1>5 DEF Charged
<1>14. Charged(ch) = on
  <2>1. \A x \in Charged(ch) : x \in on
    BY <1>11, <1>13
  <2>2. \A x \in on : x \in Charged(ch)
    BY <1>12, <1>13
  <2> QED BY <2>1, <2>2
<1> QED BY <1>14 DEF ch, base, OnStack

(* An instruction that is no jump to exit after main returned.              *)
Steps(id, to, mem) ==
  /\ Executes(id, to, mem) /\ StartFrame'
  /\ to \in Exits => id \notin Jumps /\ main_run # "returned"

LEMMA NoExitInside ==
  ASSUME NEW p
  PROVE  Inside(p) \notin Exits
BY DEF Inside, Exits, Entry

LEMMA SameStart ==
  ASSUME StartFrame, UNCHANGED << frames, main_run >>
  PROVE  StartFrame'
BY DEF StartFrame

LEMMA EntersHigher ==
  ASSUME PlainOK, StartFrame, Len(frames) # 1, NEW f, Entry(f) \in Syms, NEW h \in Nat,
         frames' = Entered(f, h), main_run' = main_run
  PROVE  StartFrame' /\ main_run # "returned"
<1> DEFINE n == Len(frames)
           new == [sym |-> Entry(f), height |-> h]
<1>1. frames \in Seq(FrameType) /\ n \in Nat \ {0} /\ n # 1 /\ 1 \in 1 .. n /\ Len(frames) = n
  BY PlainMachine DEF PlainOK, FramesOK
<1>2. new \in FnType
  BY DEF FnType
<1>3. frames' = frames \/ frames' = EnteredIn(frames, new)
  BY DEF Entered, EnteredIn
<1> HIDE DEF new, n
<1>4. Len(frames') = n /\ frames'[1] = frames[1]
  <2>1. /\ Len(EnteredIn(frames, new)) = n
        /\ \A k \in 1 .. n : k # n => EnteredIn(frames, new)[k] = frames[k]
    BY <1>1, <1>2, EnteredFrames
  <2> QED BY <1>1, <1>3, <2>1
<1>5. main_run # "returned"
  BY DEF StartFrame
<1>6. StartFrame'
  BY <1>4, <1>5 DEF StartFrame
<1> QED BY <1>5, <1>6

LEMMA InitSteps ==
  ASSUME PlainOK, StartFrame, JumpToInit
  PROVE  Steps("JMP", Entry("init"), memory)
<1> DEFINE new == [sym |-> Entry("init"), height |-> 0]
           fns == frames[1].fns
<1>1. /\ Executes("JMP", Entry("init"), memory) /\ frames' = Entered("init", 0)
      /\ main_run' = main_run /\ ~sp_set
  BY DEF JumpToInit, Keeps
<1>2. Len(frames) = 1
  BY <1>1, PlainMachine
<1>3. frames \in Seq(FrameType)
  BY DEF PlainOK, FramesOK
<1>4. new \in FnType /\ new.sym \in StartSyms
  BY DEF FnType, Syms, Places, StartSyms, StartCode
<1>5. frames' = frames \/ frames' = EnteredIn(frames, new)
  BY <1>1 DEF Entered, EnteredIn
<1>6. 1 \in 1 .. Len(frames) /\ 1 \in Nat \ {0}
  BY <1>2
<1> HIDE DEF new, fns
<1>7. Len(frames') = 1 /\ (frames'[1].fns = fns \/ frames'[1].fns = Append(fns, new))
  BY <1>2, <1>3, <1>4, <1>5, <1>6, EnteredFrames DEF fns
<1>8. fns \in Seq(FnType) /\ \A j \in 1 .. Len(fns) : fns[j].sym \in StartSyms
  <2>1. fns \in Seq(FnType)
    BY <1>3, <1>6, FrameFields DEF fns, FnType
  <2> QED BY <2>1 DEF StartFrame, fns
<1> DEFINE new2 == frames'[1].fns
<1>9. \A j \in 1 .. Len(new2) : new2[j].sym \in StartSyms
  <2>1. CASE new2 = fns
    BY <1>8, <2>1
  <2>2. CASE new2 = Append(fns, new)
    <3> HIDE DEF new2
    <3>1. /\ Len(new2) = Len(fns) + 1 /\ new2[Len(fns) + 1] = new /\ Len(fns) \in Nat
          /\ \A j \in 1 .. Len(fns) : new2[j] = fns[j]
      BY <1>4, <1>8, <2>2, AppendProperties
    <3> TAKE j \in 1 .. Len(new2)
    <3>2. j \in 1 .. Len(fns) \/ j = Len(fns) + 1
      BY <3>1
    <3> QED BY <1>4, <1>8, <3>1, <3>2
  <2> QED BY <1>7, <2>1, <2>2
<1>10. StartFrame'
  BY <1>7, <1>9 DEF StartFrame
<1>11. Entry("init") \notin Exits
  BY DEF Entry, Exits
<1> QED BY <1>1, <1>10, <1>11 DEF Steps

LEMMA QuietSteps ==
  ASSUME StartFrame, NEW id, NEW p, NEW mem, Executes(id, Inside(p), mem),
         UNCHANGED << frames, main_run >>
  PROVE  \E i, to, m : Steps(i, to, m)
<1>1. Steps(id, Inside(p), mem)
  BY SameStart, NoExitInside DEF Steps
<1> QED BY <1>1

LEMMA JumpSteps ==
  ASSUME PlainOK, PlainProgram(prof), StartFrame, NEW f, NEW id, NEW mem, NEW h \in Nat,
         Entry(f) \in Targets, Len(frames) # 1, id \in Jumps => Entry(f) \notin Exits,
         frames' = Entered(f, h), main_run' = main_run, Executes(id, Entry(f), mem)
  PROVE  \E i, to, m : Steps(i, to, m)
<1>1. Entry(f) \in Syms
  BY DEF Targets, Syms, Places
<1>2. Steps(id, Entry(f), mem)
  BY <1>1, EntersHigher DEF Steps
<1> QED BY <1>2

LEMMA CallSteps ==
  ASSUME PlainOK, CostedProgram, StartFrame, NEW f, NEW id \in {"CALL", "ICALL"}, Call(id, f)
  PROVE  \E i, to, m : Steps(i, to, m)
<1> DEFINE fr == [base |-> Height + 1,
                  fns |-> <<[sym |-> Entry(f), height |-> Height + 1]>>]
<1>1. /\ <<Here, f>> \in prof.calls /\ Executes(id, Entry(f), Append(memory, Inside(Here)))
      /\ frames' = Append(frames, fr)
      /\ main_run' = IF f = "main" THEN "called" ELSE main_run
  BY Zenon DEF Call
<1>2. Here = "init" => main_run = ""
  BY Zenon DEF Call
<1>3. Here # "vectors"
  BY <1>1 DEF CostedProgram
<1>4. frames \in Seq(FrameType) /\ Len(frames) \in Nat \ {0}
  BY PlainMachine DEF PlainOK, FramesOK
<1>5. main_run # "returned"
  <2>1. CASE Len(frames) = 1
    <3>1. Here = "init"
      BY <1>3, <2>1, PlainMachine
    <3> QED BY <1>2, <3>1, Zenon
  <2>2. CASE Len(frames) # 1
    BY <2>2 DEF StartFrame
  <2> QED BY <2>1, <2>2
<1> HIDE DEF fr
<1>6. frames'[1] = frames[1] /\ main_run' # "returned"
  BY <1>1, <1>4, <1>5
<1>7. StartFrame'
  BY <1>6 DEF StartFrame
<1>8. id \notin Jumps
  BY DEF Jumps
<1>9. Steps(id, Entry(f), Append(memory, Inside(Here)))
  BY <1>1, <1>5, <1>7, <1>8 DEF Steps
<1> QED BY <1>9

LEMMA RetSteps ==
  ASSUME PlainOK, StartFrame, NEW id \in {"RET", "RETI"}, Ret(id)
  PROVE  \E i, to, m : Steps(i, to, m)
<1>1. /\ Executes(id, Last(memory), Front(memory)) /\ Len(frames) > 1 /\ Atop
      /\ frames' = Pruned(Front(frames), Height - 1)
      /\ main_run' = "returned" => main_run = "returned" \/ ~(Len(frames) > 2)
  BY DEF Ret
<1>2. Len(frames) \in Nat /\ Len(frames) # 1 /\ Height = Frame.base
  <2>1. \A n \in Nat : n > 1 => n # 1
    OBVIOUS
  <2>2. Len(frames) \in Nat
    BY PlainMachine
  <2> QED BY <1>1, <2>1, <2>2, Zenon DEF Atop
<1>3. FramesOK /\ ReturnsOK /\ memory \in Seq(Spots \cup {Data}) /\ memory' = Front(memory)
  BY <1>1, Executed DEF PlainOK, MachineOK
<1>4. frames' = Front(frames) /\ Len(frames') = Len(frames) - 1
  BY <1>1, <1>2, <1>3, ReturnedFrame
<1>5. main_run # "returned"
  BY <1>2 DEF StartFrame
<1>6. main_run' = "returned" => Len(frames') = 1
  <2>1. \A n \in Nat : n > 1 /\ ~(n > 2) => n - 1 = 1
    OBVIOUS
  <2>2. ~(Len(frames) > 2) => Len(frames) - 1 = 1
    BY <1>1, <1>2, <2>1, Zenon
  <2> QED BY <1>1, <1>4, <1>5, <2>2, Zenon
<1>7. frames'[1] = frames[1]
  <2> DEFINE p == Len(frames) - 1
  <2>1. p \in Nat \ {0} /\ Len(frames) = p + 1 /\ 1 \in 1 .. p
    BY <1>1, <1>2
  <2>2. frames \in Seq(FrameType)
    BY <1>3 DEF FramesOK
  <2> HIDE DEF p
  <2>3. \A k \in 1 .. p : Front(frames)[k] = frames[k]
    BY <2>1, <2>2, ReturnedLevels DEF Returned
  <2> QED BY <1>4, <2>1, <2>3
<1>8. StartFrame'
  BY <1>6, <1>7 DEF StartFrame
<1>9. Last(memory) \in {Inside(p) : p \in Places}
  <2>1. Len(frames) \in 2 .. Len(frames)
    BY <1>1, <1>2
  <2>2. Last(memory) = memory[frames[Len(frames)].base]
    BY <1>2 DEF Last, Height, Frame
  <2> QED BY <1>3, <2>1, <2>2 DEF ReturnsOK
<1>10. Last(memory) \notin Exits
  BY <1>9, NoExitInside
<1>11. Steps(id, Last(memory), Front(memory))
  BY <1>1, <1>8, <1>10 DEF Steps
<1> QED BY <1>11

LEMMA RetToSteps ==
  ASSUME PlainOK, PlainProgram(prof), StartFrame, RetToTarget
  PROVE  \E i, to, m : Steps(i, to, m)
<1>1. /\ graph_id = "PUSH" /\ Last(memory) \in Addresses
      /\ frames' = Entered(Last(memory)[1], Height - 1)
      /\ main_run' = main_run /\ Executes("RET", Last(memory), Front(memory))
  BY DEF RetToTarget, Keeps
<1>2. Last(memory) # Data
  BY <1>1, RegionsAssumption
<1>3. /\ Len(frames) # 1 /\ Len(memory) = Frame.base + 1
      /\ Last(memory) \in Targets /\ Frame.base \in Nat
  BY <1>1, <1>2, PlainMachine
<1>4. PICK f : Last(memory) = Entry(f)
  BY <1>3 DEF Targets
<1>5. Last(memory)[1] = f
  BY <1>4 DEF Entry
<1>6. Height - 1 \in Nat
  BY <1>3 DEF Height
<1>7. "RET" \notin Jumps
  BY DEF Jumps
<1> QED BY <1>1, <1>3, <1>4, <1>5, <1>6, <1>7, JumpSteps

(* Every step of the program but its end is such an instruction.            *)
LEMMA NextSteps ==
  ASSUME PlainOK, CostedProgram, StartFrame, Next, ~left'
  PROVE  \E id, to, mem : Steps(id, to, mem)
<1>0. PlainProgram(prof) /\ Height \in Nat
  BY PlainMachine DEF CostedProgram, Height
<1>1. ~Leave /\ ~NeverDone
  BY <1>0, NeverPlain, StillRuns DEF Leave
<1>2. CASE JumpToInit
  BY <1>2, InitSteps
<1>3. CASE SetSP \/ Work \/ Allocate \/ PushData \/ PopData
  BY <1>3, QuietSteps, Zenon DEF SetSP, Work, Allocate, PushData, PopData, Keeps
<1>4. ASSUME NEW f, PushTarget(f) PROVE \E id, to, mem : Steps(id, to, mem)
  BY <1>4, QuietSteps, Zenon DEF PushTarget, Keeps
<1>5. ASSUME NEW f, FallInto(f) PROVE \E id, to, mem : Steps(id, to, mem)
  <2>1. /\ <<Here, f>> \in prof.follows /\ frames' = Entered(f, Height)
        /\ main_run' = main_run /\ Executes("LDI", Entry(f), memory)
    BY <1>5 DEF FallInto, Keeps
  <2>2. Entry(f) \in Targets /\ Len(frames) # 1
    BY <1>0, <2>1, PlainTarget
  <2>3. "LDI" \notin Jumps
    BY DEF Jumps
  <2> QED BY <1>0, <2>1, <2>2, <2>3, JumpSteps
<1>6. ASSUME NEW f, NEW id \in {"CALL", "ICALL"}, Call(id, f)
      PROVE \E i, to, mem : Steps(i, to, mem)
  BY <1>6, CallSteps
<1>7. ASSUME NEW f, NEW id \in {"JMP", "IJMP"}, TailCall(id, f)
      PROVE \E i, to, mem : Steps(i, to, mem)
  <2>1. /\ <<Here, f>> \in prof.tails /\ frames' = Entered(f, Height)
        /\ main_run' = main_run /\ Executes(id, Entry(f), memory)
    BY <1>7 DEF TailCall
  <2>2. Entry(f) \in Targets /\ Len(frames) # 1 /\ Entry(f) \notin Exits
    BY <1>0, <2>1, PlainTarget
  <2> QED BY <1>0, <2>1, <2>2, JumpSteps
<1>8. CASE RetToTarget
  BY <1>0, <1>8, RetToSteps
<1>9. ASSUME NEW id \in {"RET", "RETI"}, Ret(id) PROVE \E i, to, mem : Steps(i, to, mem)
  BY <1>9, RetSteps
<1> QED BY <1>1, <1>2, <1>3, <1>4, <1>5, <1>6, <1>7, <1>8, <1>9, Zenon DEF Next, NeverDone

(* What the call graph does in such an instruction.                         *)
Kept == UNCHANGED << ystack, own, childs, graph_cycles, func_sym, cycle >>

StepDone(to) ==
  /\ ~left /\ UNCHANGED << options, prof, left >> /\ n_cycles' = n_cycles + 1 /\ pc' = to
  /\ inclusive' = [s \in Symbols |-> IF s \in Charged(Chain) THEN inclusive[s] + 1
                                                             ELSE inclusive[s]]
  /\ Kept \/ \E sym \in {NoSymbol, to} : Moves(n_cycles', sym, to)

LEMMA StepMoves ==
  ASSUME Sequence(ystack), Len(ystack) # 0, NEW id, NEW to, NEW mem, Steps(id, to, mem)
  PROVE  StepDone(to)
<1> DEFINE i == [id |-> id, old |-> pc, pc |-> to,
                 next |-> id = "RCALL" /\ to = Inside(Here),
                 sp |-> SP(mem, sp_set'), glitch |-> glitch' > 0, now |-> n_cycles']
<1>1. /\ UpdateCallDepth(i) /\ ~left /\ UNCHANGED << prof, left >> /\ n_cycles' = n_cycles + 1
      /\ pc' = to
      /\ inclusive' = [s \in Symbols |-> IF s \in Charged(ChainOf(to)) THEN inclusive[s] + 1
                                                                       ELSE inclusive[s]]
  BY Zenon DEF Steps, Executes
<1>2. i.id = id /\ i.pc = to /\ i.now = n_cycles'
  BY Zenon
<1> HIDE DEF i
<1>3. to \in Exits => id \notin Jumps /\ main_run # "returned"
  BY DEF Steps
<1>4. ChainOf(to) = Chain
  BY <1>3 DEF ChainOf
<1>5. Fun(i) \in {NoSymbol, to}
  BY <1>2 DEF Fun
<1>6. ~MainReturns(i)
  <2>1. NoSymbol \notin Exits
    BY DEF Exits, Entry, NoSymbol
  <2> QED BY <1>2, <1>3, <1>5, <2>1 DEF MainReturns
<1>7. options' = options
  BY <1>1 DEF UpdateCallDepth
<1> DEFINE lj == MaybeLongjmp(i, NonglitchSP(i))
<1>8. \/ UpdateCallStack(ystack, yfree, Fun(i), CallOf(i), lj, NonglitchSP(i),
                         i.pc, i.old, i.now)
      \/ Kept
  BY <1>1, <1>6, Zenon DEF UpdateCallDepth, Kept
<1> HIDE DEF lj
<1>9. CASE Kept
  BY <1>1, <1>4, <1>7, <1>9 DEF StepDone
<1>10. CASE UpdateCallStack(ystack, yfree, Fun(i), CallOf(i), lj, NonglitchSP(i),
                            i.pc, i.old, i.now)
  <2>1. Moves(i.now, Fun(i), i.pc)
    BY <1>10, UpdateMoves
  <2>2. \E sym \in {NoSymbol, to} : Moves(n_cycles', sym, to)
    BY <1>2, <1>5, <2>1
  <2> QED BY <1>1, <1>4, <1>7, <2>2 DEF StepDone
<1> QED BY <1>8, <1>9, <1>10

(* Startup code only is on the call stack without a call depth.             *)
LEMMA TopOfStartup ==
  ASSUME NEW fr \in Seq(FrameType), Len(fr) # 0, \A k \in 1 .. Len(fr) : Len(fr[k].fns) # 0,
         NEW stk, Matches(stk, fr), stk[1].depth = 0,
         NEW to, Len(fr) = 1 => to[1] \in {"vectors", "init"}, stk[1].sym \in {NoSymbol, to}
  PROVE  stk[1].sym \in StartSyms
<1> DEFINE lev == Levels(fr)
           N == Len(lev)
<1>1. /\ Len(fr) \in Nat \ {0} /\ N \in Nat
      /\ \A i \in 1 .. N : lev[i] \in Syms \X (1 .. Len(fr) - 1)
  BY LevelsBound, LenProperties
<1>2. /\ N < Len(stk) /\ Len(stk) \in Nat
      /\ \A i \in 1 .. Len(stk) : stk[i].sym \in Syms
      /\ \A i \in 1 .. N : <<stk[N + 1 - i].sym, stk[N + 1 - i].depth>> = lev[i]
  BY LenProperties DEF Matches, Sequence
<1> HIDE DEF lev, N
<1>3. Len(fr) = 1
  <2> SUFFICES ASSUME Len(fr) # 1 PROVE FALSE
    OBVIOUS
  <2> DEFINE p == Len(fr) - 1
  <2>1. p \in Nat \ {0} /\ Len(fr) = p + 1 /\ p + 1 \in 1 .. Len(fr)
    BY <1>1
  <2> HIDE DEF p
  <2>2. Returned(p, fr)
    BY <2>1, ReturnedLevels
  <2>3. /\ Len(Levels(Front(fr))) \in Nat /\ Len(fr[p + 1].fns) \in Nat
        /\ N = Len(Levels(Front(fr))) + Len(fr[p + 1].fns)
    BY <2>2 DEF Returned, N, lev
  <2>4. Len(fr[p + 1].fns) # 0
    BY <2>1
  <2>5. N \in 1 .. N /\ N + 1 - N = 1
    BY <1>1, <2>3, <2>4
  <2>6. <<stk[1].sym, stk[1].depth>> = lev[N] /\ lev[N] \in Syms \X (1 .. Len(fr) - 1)
    BY <1>1, <1>2, <2>5
  <2>7. stk[1].depth \in 1 .. Len(fr) - 1
    BY <2>6
  <2> QED BY <2>7
<1>4. stk[1].sym \in Syms
  <2>1. 1 \in 1 .. Len(stk)
    BY <1>1, <1>2
  <2> QED BY <1>2, <2>1
<1>5. PICK p \in Places : stk[1].sym = Entry(p)
  BY <1>4 DEF Syms
<1>6. stk[1].sym # NoSymbol
  BY <1>4, PlacesAreRegions, RegionsAssumption DEF Syms, Addresses, Entry
<1>7. p \in StartCode
  BY <1>3, <1>5, <1>6 DEF Entry, StartCode
<1> QED BY <1>5, <1>7 DEF StartSyms

LEMMA ElementsStay ==
  ASSUME Sequence(ystack), Len(ystack) # 0, ElementsOK(ystack), PlainOK', NEW to, StepDone(to)
  PROVE  ElementsOK(ystack)'
<1>1. options' = options /\ pc' = to
  BY DEF StepDone
<1> SUFFICES ASSUME NEW i \in 1 .. Len(ystack')
             PROVE  /\ options.leaf = {} => ~ystack'[i].is_leaf
                    /\ ystack'[i].depth = 0 => ystack'[i].sym \in StartSyms
  BY <1>1 DEF ElementsOK
<1>2. CASE ystack' = ystack
  BY <1>2 DEF ElementsOK
<1>3. CASE Shorter(ystack', ystack)
  <2> DEFINE j == i + (Len(ystack) - Len(ystack'))
  <2>1. Len(ystack) \in Nat /\ Len(ystack') \in 1 .. Len(ystack)
    BY <1>3, LenProperties DEF Sequence, Shorter
  <2>2. j \in 1 .. Len(ystack)
    BY <2>1
  <2>3. ystack'[i] = ystack[j]
    BY <1>3 DEF Shorter
  <2> HIDE DEF j
  <2> QED BY <2>2, <2>3 DEF ElementsOK
<1>4. ASSUME NEW target \in {NoSymbol, to}, NEW delta, NEW sp,
             ystack' = <<NewNode(ystack, target, delta, sp)>> \o ystack
      PROVE  /\ options.leaf = {} => ~ystack'[i].is_leaf
             /\ ystack'[i].depth = 0 => ystack'[i].sym \in StartSyms
  <2> DEFINE l == NewNode(ystack, target, delta, sp)
  <2>1. PICK T : ystack \in Seq(T)
    BY DEF Sequence
  <2>2. l.sym = target /\ l.is_leaf = (Head(ystack).is_leaf \/ IsLeaf(Head(ystack).sym))
    BY Zenon DEF NewNode
  <2> HIDE DEF l
  <2>3. ystack' = <<l>> \o ystack
    BY <1>4 DEF l
  <2> DEFINE new == ystack'
  <2>4. /\ Len(ystack) \in Nat \ {0} /\ Len(new) = Len(ystack) + 1 /\ new[1] = l
        /\ \A k \in 2 .. Len(ystack) + 1 : new[k] = ystack[k - 1]
    BY <2>1, <2>3, PushedOn
  <2>5. /\ frames' \in Seq(FrameType) /\ Len(frames') # 0 /\ Matches(new, frames')
        /\ \A k \in 1 .. Len(frames') : Len(frames'[k].fns) # 0
        /\ Len(frames') = 1 => to[1] \in {"vectors", "init"}
    BY <1>1 DEF PlainOK, FramesOK, StackOK, MachineOK, Here
  <2>6. CASE i = 1
    <3>1. Head(ystack) = ystack[1] /\ 1 \in 1 .. Len(ystack)
      BY <2>1, <2>4, EmptySeq
    <3>2. options.leaf = {} => ~ystack[1].is_leaf /\ ~IsLeaf(ystack[1].sym)
      BY <3>1 DEF ElementsOK, IsLeaf
    <3>3. options.leaf = {} => ~l.is_leaf
      BY <2>2, <3>1, <3>2, Zenon
    <3>4. new[1].depth = 0 => new[1].sym \in StartSyms
      <4>1. new[1].sym \in {NoSymbol, to}
        BY <2>2, <2>4
      <4> HIDE DEF new
      <4> QED BY <2>5, <4>1, TopOfStartup
    <3> QED BY <2>4, <2>6, <3>3, <3>4
  <2>7. CASE i # 1
    <3>1. i \in 2 .. Len(ystack) + 1 /\ i - 1 \in 1 .. Len(ystack)
      BY <2>4, <2>7
    <3>2. ystack'[i] = ystack[i - 1]
      BY <2>4, <3>1
    <3> QED BY <3>1, <3>2 DEF ElementsOK
  <2> QED BY <2>6, <2>7
<1> QED BY <1>2, <1>3, <1>4 DEF StepDone, Kept, Moves, Grows

(* What a function was charged and what it is due are the cycles spent in   *)
(* it; nothing is due when the simulator has left.                          *)
GraphDue == IF LFindBase(ystack) = 0 THEN 0 ELSE n_cycles - cycle

Balanced ==
  /\ \A s \in Symbols : Plain(s) => own[s] + childs[s] + Due(s) = inclusive[s]
  /\ \A b : options.base = {b} => graph_cycles + GraphDue = inclusive[b]

Settled ==
  /\ \A s \in Symbols : Plain(s) => own[s] + childs[s] = inclusive[s]
  /\ \A b : options.base = {b} => graph_cycles = inclusive[b]

InclusiveOK == inclusive \in [Symbols -> Nat] /\ options.base \in SUBSET Symbols

CostedOK == InclusiveOK /\ StartFrame /\ ElementsOK(ystack) /\ Balanced

LEMMA StillPlain ==
  ASSUME func_sym \subseteq func_sym', hidden = {}, hidden' = {}, options' = options,
         NEW s, Plain(s)'
  PROVE  Plain(s)
BY DEF Plain, IsReserved, IsSkip, IsBase, IsLeaf, IsSub

LEMMA PlainElements ==
  ASSUME PathInv, PlainOK, "__utoa_common" \notin Regions
  PROVE  /\ Sequence(ystack) /\ Len(ystack) \in Nat \ {0}
         /\ \A i \in 1 .. Len(ystack) - 1 : ~IsReservedCaller(ystack[i].from)
<1>1. Sequence(ystack) /\ Len(ystack) \in Nat \ {0}
  <2>1. Len(Levels(frames)) \in Nat
    BY LevelsBound DEF PlainOK, FramesOK
  <2> QED BY <2>1, LenProperties DEF PlainOK, StackOK, Matches, Sequence
<1>2. ASSUME NEW i \in 1 .. Len(ystack) - 1, IsReservedCaller(ystack[i].from)
      PROVE  FALSE
  <2>1. i + 1 \in 1 .. Len(ystack)
    BY <1>1
  <2>2. ystack[i].from = ystack[i + 1].sym
    BY PathIsInGraph DEF PathInGraph
  <2>3. ystack[i].from \in Syms
    BY <2>1, <2>2 DEF PlainOK, StackOK, Matches
  <2>4. ystack[i].from = Entry("__utoa_common")
    BY <1>2 DEF IsReservedCaller
  <2> QED BY <2>3, <2>4, PlacesAreRegions DEF Syms, Entry
<1> QED BY <1>1, <1>2

(* The cycles up to now are accounted.                                     *)
LEMMA PlainCharges ==
  ASSUME PathInv, CostInv, PlainOK, CostedProgram, CostedOK, NEW now \in Nat, now >= n_cycles,
         AccountCycles(ystack, now), graph_cycles' = AccountedCycles(ystack, now),
         options' = options
  PROVE  /\ cycle' = now /\ now - cycle \in Nat
         /\ \A s \in Symbols : Plain(s) =>
              /\ own'[s] \in Nat /\ childs'[s] \in Nat
              /\ own'[s] + childs'[s] = own[s] + childs[s]
                                        + (IF s \in OnStack(ystack) THEN now - cycle ELSE 0)
         /\ graph_cycles' = graph_cycles + (IF LFindBase(ystack) = 0 THEN 0 ELSE now - cycle)
<1>1. cycle \in Nat /\ graph_cycles \in Nat /\ n_cycles \in Nat /\ cycle <= n_cycles /\ CostTypeOK
  BY DEF CostInv, CostTypeOK, CostsBounded
<1>2. cycle' = now /\ now - cycle \in Nat
  BY <1>1 DEF AccountCycles
<1>3. graph_cycles' = graph_cycles + (IF LFindBase(ystack) = 0 THEN 0 ELSE now - cycle)
  BY <1>1, <1>2 DEF AccountedCycles
<1>4. /\ Sequence(ystack) /\ ElementsOK(ystack)
      /\ \A i \in 1 .. Len(ystack) - 1 : ~IsReservedCaller(ystack[i].from)
  BY PlainElements DEF CostedProgram, CostedOK
<1>5. ASSUME NEW s \in Symbols, Plain(s)
      PROVE  /\ own'[s] \in Nat /\ childs'[s] \in Nat
             /\ own'[s] + childs'[s] = own[s] + childs[s]
                                       + (IF s \in OnStack(ystack) THEN now - cycle ELSE 0)
  BY <1>1, <1>2, <1>4, <1>5, PlainAccount
<1> QED BY <1>2, <1>3, <1>5

(* The base of the graph is charged as long as it is on the stack.          *)
LEMMA BaseIsCharged ==
  ASSUME NEW b, options.base = {b}, Sequence(ystack)
  PROVE  b \in OnStack(ystack) <=> LFindBase(ystack) # 0
<1> DEFINE base == LFindBase(ystack)
<1>1. /\ base \in 0 .. Len(ystack) /\ Len(ystack) \in Nat
      /\ base # 0 => ystack[base].sym = b
  BY BaseIsBase DEF IsBase
<1> HIDE DEF base
<1>2. CASE base = 0
  <2>1. 1 .. 0 = {}
    OBVIOUS
  <2> QED BY <1>2, <2>1 DEF OnStack, base
<1>3. CASE base # 0
  <2>1. base \in 1 .. base
    BY <1>1, <1>3
  <2> QED BY <1>1, <1>3, <2>1 DEF OnStack, base
<1> QED BY <1>2, <1>3

LEMMA BalanceSteps ==
  ASSUME PathInv, CostInv, PlainOK, PlainOK', CostedProgram, CostedOK, NEW to, StepDone(to)
  PROVE  InclusiveOK' /\ Balanced'
<1>1. /\ UNCHANGED options /\ n_cycles' = n_cycles + 1 /\ Charged(Chain) = OnStack(ystack)
      /\ inclusive' = [s \in Symbols |-> IF s \in Charged(Chain) THEN inclusive[s] + 1
                                                                 ELSE inclusive[s]]
  <2>1. Charged(Chain) = OnStack(ystack)
    BY ChargedIsOnStack DEF CostedOK, CostedProgram
  <2> QED BY <2>1 DEF StepDone
<1> DEFINE on == OnStack(ystack)
           d == n_cycles - cycle
<1>2. /\ inclusive \in [Symbols -> Nat] /\ options.base \in SUBSET Symbols
      /\ n_cycles \in Nat /\ cycle \in Nat /\ graph_cycles \in Nat
      /\ own \in [Symbols -> Nat] /\ childs \in [Symbols -> Nat] /\ cycle <= n_cycles
      /\ d \in Nat /\ (n_cycles + 1) - cycle = d + 1
      /\ Sequence(ystack)
  BY PlainElements DEF CostedOK, InclusiveOK, CostInv, CostTypeOK, CostsBounded, CostedProgram
<1>3. \A s \in Symbols : inclusive'[s] = IF s \in on THEN inclusive[s] + 1 ELSE inclusive[s]
  BY <1>1
<1>4. InclusiveOK'
  <2>1. \A s \in Symbols : (IF s \in on THEN inclusive[s] + 1 ELSE inclusive[s]) \in Nat
    BY <1>2
  <2>2. inclusive' \in [Symbols -> Nat]
    BY <1>1, <2>1
  <2> QED BY <1>1, <1>2, <2>2 DEF InclusiveOK
<1>5. \A b : options.base = {b} => b \in Symbols /\ (b \in on <=> LFindBase(ystack) # 0)
  BY <1>2, BaseIsCharged
<1>6. /\ \A s \in Symbols : Plain(s) => own[s] + childs[s] + (IF s \in on THEN d ELSE 0) = inclusive[s]
      /\ \A b : options.base = {b} =>
           graph_cycles + (IF LFindBase(ystack) = 0 THEN 0 ELSE d) = inclusive[b]
  BY DEF CostedOK, Balanced, Due, GraphDue
<1>7. CASE Kept
  <2>1. UNCHANGED << ystack, own, childs, graph_cycles, func_sym, cycle >>
    BY <1>7 DEF Kept
  <2>2. OnStack(ystack)' = on /\ LFindBase(ystack)' = LFindBase(ystack)
    BY <1>1, <2>1 DEF OnStack, LFindBase, IsBase
  <2>3. \A s : Plain(s)' => Plain(s)
    BY <1>1, <2>1, StillPlain DEF PlainOK, GraphOK
  <2> HIDE DEF on, d
  <2>4. \A s : Due(s)' = IF s \in on THEN d + 1 ELSE 0
    BY <1>1, <1>2, <2>1, <2>2 DEF Due
  <2>5. GraphDue' = IF LFindBase(ystack) = 0 THEN 0 ELSE d + 1
    BY <1>1, <1>2, <2>1, <2>2 DEF GraphDue
  <2>6. ASSUME NEW s \in Symbols, Plain(s)'
        PROVE  (own[s] + childs[s] + Due(s) = inclusive[s])'
    <3>1. own[s] \in Nat /\ childs[s] \in Nat /\ inclusive[s] \in Nat
      BY <1>2
    <3>2. own[s] + childs[s] + (IF s \in on THEN d ELSE 0) = inclusive[s]
      BY <1>6, <2>3, <2>6
    <3> QED BY <1>2, <1>3, <2>1, <2>4, <3>1, <3>2
  <2>7. ASSUME NEW b, options.base = {b}
        PROVE  graph_cycles' + GraphDue' = inclusive'[b]
    <3>1. inclusive[b] \in Nat /\ b \in Symbols
      BY <1>2, <1>5, <2>7
    <3> QED BY <1>2, <1>3, <1>5, <1>6, <2>1, <2>5, <2>7, <3>1
  <2> QED BY <1>1, <1>4, <2>6, <2>7 DEF Balanced
<1>8. ASSUME NEW sym, Moves(n_cycles', sym, to)
      PROVE  Balanced'
  <2>1. /\ AccountCycles(ystack, n_cycles') /\ graph_cycles' = AccountedCycles(ystack, n_cycles')
        /\ func_sym \subseteq func_sym'
    BY <1>8 DEF Moves
  <2>2. n_cycles' \in Nat /\ n_cycles' >= n_cycles /\ n_cycles' - cycle = d + 1
    BY <1>1, <1>2
  <2>3. /\ cycle' = n_cycles'
        /\ \A s \in Symbols : Plain(s) =>
             /\ own'[s] \in Nat /\ childs'[s] \in Nat
             /\ own'[s] + childs'[s] = own[s] + childs[s]
                                       + (IF s \in OnStack(ystack) THEN n_cycles' - cycle ELSE 0)
        /\ graph_cycles' = graph_cycles + (IF LFindBase(ystack) = 0 THEN 0 ELSE n_cycles' - cycle)
    BY <1>1, <2>1, <2>2, PlainCharges
  <2>4. \A s : Plain(s)' => Plain(s)
    BY <1>1, <2>1, StillPlain DEF PlainOK, GraphOK
  <2>5. n_cycles' - cycle' = 0
    BY <2>2, <2>3
  <2>6. (\A s : Due(s)' = 0) /\ GraphDue' = 0
    BY <2>5 DEF Due, GraphDue
  <2> HIDE DEF on, d
  <2>7. ASSUME NEW s \in Symbols, Plain(s)'
        PROVE  (own[s] + childs[s] + Due(s) = inclusive[s])'
    <3>1. own[s] \in Nat /\ childs[s] \in Nat /\ inclusive[s] \in Nat
      BY <1>2
    <3>2. own[s] + childs[s] + (IF s \in on THEN d ELSE 0) = inclusive[s]
      BY <1>6, <2>4, <2>7
    <3>3. /\ own'[s] \in Nat /\ childs'[s] \in Nat
          /\ own'[s] + childs'[s] = own[s] + childs[s] + (IF s \in on THEN d + 1 ELSE 0)
      BY <2>2, <2>3, <2>4, <2>7 DEF on
    <3>4. own'[s] + childs'[s] = inclusive'[s]
      BY <1>2, <1>3, <3>1, <3>2, <3>3
    <3> QED BY <2>6, <3>3, <3>4
  <2>8. ASSUME NEW b, options.base = {b}
        PROVE  graph_cycles' + GraphDue' = inclusive'[b]
    <3>1. inclusive[b] \in Nat /\ b \in Symbols
      BY <1>2, <1>5, <2>8
    <3>2. graph_cycles' = graph_cycles + (IF LFindBase(ystack) = 0 THEN 0 ELSE d + 1)
      BY <2>2, <2>3
    <3>3. graph_cycles' = inclusive'[b] /\ graph_cycles' \in Nat
      BY <1>2, <1>3, <1>5, <1>6, <2>8, <3>1, <3>2
    <3> QED BY <2>6, <3>3
  <2> QED BY <1>1, <1>4, <2>7, <2>8 DEF Balanced
<1> QED BY <1>4, <1>7, <1>8 DEF StepDone

(* graph_write_dot accounts what is due, and the end of the program gets no  *)
(* cycle.                                                                  *)
LEMMA LeaveSettles ==
  ASSUME PathInv, CostInv, PlainOK, CostedProgram, CostedOK, Leave
  PROVE  Settled'
<1> DEFINE i == [sp |-> SP(memory, sp_set), glitch |-> glitch > 0, pc |-> pc,
                 old |-> pc, now |-> n_cycles]
<1>1. WriteDot(i) /\ UNCHANGED << n_cycles, inclusive >>
  BY Zenon DEF Leave
<1>2. i.now = n_cycles
  BY Zenon
<1> HIDE DEF i
<1>3. Sequence(ystack) /\ Len(ystack) # 0 /\ Head(ystack).sym # T_LONGJMP
  <2>1. Head(ystack).sym \in Syms
    BY StackTop DEF PlainOK, MachineOK
  <2> QED BY <2>1, PlainElements, PlainSymbols DEF CostedProgram
<1>4. /\ UpdateCallStack(ystack, yfree, ProgramStop, 0, FALSE, NonglitchSP(i), i.pc, i.old, i.now)
      /\ options' = options
  BY <1>1, Zenon DEF WriteDot
<1>5. Moves(i.now, ProgramStop, i.pc)
  BY <1>3, <1>4, UpdateMoves
<1>6. hidden = {} /\ hidden' = {}
  <2> DEFINE lj == FALSE \/ Head(ystack).sym = T_LONGJMP
             d == Delta(ystack, ProgramStop, 0, lj)
  <2>1. d = 0
    BY Zenon DEF Delta
  <2>2. \/ hidden' = hidden
        \/ \E x : hidden' = hidden \ {x}
        \/ d < 0
    BY <1>4, Zenon DEF UpdateCallStack
  <2>3. hidden = {}
    BY DEF PlainOK, GraphOK
  <2> HIDE DEF d
  <2> QED BY <2>1, <2>2, <2>3
<1>7. \A s : Plain(s)' => Plain(s)
  BY <1>4, <1>5, <1>6, StillPlain DEF Moves
<1>8. n_cycles \in Nat /\ n_cycles >= n_cycles
  BY DEF CostInv, CostTypeOK
<1>9. AccountCycles(ystack, n_cycles) /\ graph_cycles' = AccountedCycles(ystack, n_cycles)
  BY <1>2, <1>5 DEF Moves
<1>10. /\ \A s \in Symbols : Plain(s) =>
            own'[s] + childs'[s] = own[s] + childs[s]
                                   + (IF s \in OnStack(ystack) THEN n_cycles - cycle ELSE 0)
       /\ graph_cycles' = graph_cycles + (IF LFindBase(ystack) = 0 THEN 0 ELSE n_cycles - cycle)
  BY <1>4, <1>8, <1>9, PlainCharges
<1>11. \A s \in Symbols : Plain(s)' => own'[s] + childs'[s] = inclusive[s]
  BY <1>7, <1>10 DEF CostedOK, Balanced, Due
<1>12. \A b : options.base = {b} => graph_cycles' = inclusive[b]
  BY <1>10 DEF CostedOK, Balanced, GraphDue
<1> QED BY <1>1, <1>4, <1>11, <1>12 DEF Settled

CostedInv == CostedProgram => IF left THEN Settled ELSE CostedOK

LEMMA CostedStart ==
  ASSUME Init
  PROVE  CostedInv
<1> DEFINE node == [sym |-> Entry("vectors"), from |-> EntryPoint, depth |-> 0, sp |-> 0,
                    is_leaf |-> FALSE, is_sub |-> FALSE]
           fn == [sym |-> Entry("vectors"), height |-> 0]
           frame == [base |-> 0, fns |-> <<fn>>]
<1>1. /\ pc = Entry("vectors") /\ n_cycles = 0 /\ frames = <<frame>> /\ ~left
      /\ inclusive = [s \in Symbols |-> 0] /\ main_run # "returned"
  <2>1. main_run = ""
    BY Zenon DEF Init, PInit
  <2>2. main_run # "returned"
    BY <2>1, Zenon
  <2> QED BY <2>2, Zenon DEF Init, PInit
<1>2. /\ own = [s \in Symbols |-> 0] /\ childs = [s \in Symbols |-> 0]
      /\ graph_cycles = 0 /\ cycle = 0 /\ ystack = <<node>>
      /\ options.base = BaseOf(prof.opt.base, pc)
  <2>1. options = [base |-> BaseOf(prof.opt.base, pc), leaf |-> prof.opt.leaf,
                   sub |-> prof.opt.sub, skip |-> prof.opt.skip, reserved |-> prof.opt.reserved]
    BY Zenon DEF Init, GraphInit
  <2>2. ystack = <<node>>
    BY <1>1, Zenon DEF Init, GraphInit
  <2>3. options.base = BaseOf(prof.opt.base, pc)
    BY <2>1
  <2>4. /\ own = [s \in Symbols |-> 0] /\ childs = [s \in Symbols |-> 0]
        /\ graph_cycles = 0 /\ cycle = 0
    BY Zenon DEF Init, GraphInit
  <2> QED BY <2>2, <2>3, <2>4
<1>3. Entry("vectors") \in StartSyms /\ Entry("vectors") \in Symbols
  BY RegionsAssumption DEF StartSyms, StartCode, Symbols
<1>4. InclusiveOK
  <2>1. options.base \subseteq {Entry(f) : f \in Named} \cup {T_MAIN, pc}
    BY <1>2 DEF BaseOf
  <2>2. T_MAIN \in Symbols \/ T_MAIN \notin options.base
    BY <1>1, <1>2, RegionsAssumption DEF BaseOf, T_MAIN, Symbols, Entry
  <2>3. {Entry(f) : f \in Named} \subseteq Symbols
    BY RegionsAssumption DEF Symbols
  <2> QED BY <1>1, <1>3, <2>1, <2>2, <2>3 DEF InclusiveOK
<1>5. node.sym \in StartSyms /\ ~node.is_leaf /\ fn.sym \in StartSyms
  <2>1. ~node.is_leaf
    BY Zenon
  <2> QED BY <1>3, <2>1
<1> HIDE DEF node, fn
<1>6. /\ Len(<<node>>) = 1 /\ <<node>>[1] = node /\ Len(<<fn>>) = 1 /\ <<fn>>[1] = fn
      /\ 1 .. 1 = {1}
  OBVIOUS
<1>7. ElementsOK(ystack)
  BY <1>2, <1>5, <1>6 DEF ElementsOK
<1>8. StartFrame
  <2>1. frames[1].fns = <<fn>>
    BY <1>1
  <2> QED BY <1>1, <1>5, <1>6, <2>1 DEF StartFrame
<1>9. Balanced
  <2>1. (\A s : Due(s) = 0) /\ GraphDue = 0
    BY <1>1, <1>2 DEF Due, GraphDue
  <2>2. \A b : options.base = {b} => b \in Symbols
    BY <1>4 DEF InclusiveOK
  <2> QED BY <1>1, <1>2, <2>1, <2>2 DEF Balanced
<1> QED BY <1>1, <1>4, <1>7, <1>8, <1>9 DEF CostedInv, CostedOK

LEMMA CostedNext ==
  ASSUME PathInv, CostInv, PlainInv, CostedInv, [Next]_vars
  PROVE  CostedInv'
<1>1. CASE Next
  <2> SUFFICES ASSUME CostedProgram'
               PROVE  IF left' THEN Settled' ELSE CostedOK'
    BY DEF CostedInv
  <2>1. ~left /\ prof' = prof /\ (left' \/ ~Leave)
    BY <1>1, StillRuns
  <2>2. CASE Leave
    <3>1. left' /\ options' = options
      BY <2>2 DEF Leave, WriteDot
    <3>2. CostedProgram
      BY <2>1, <3>1 DEF CostedProgram, PlainProgram
    <3>3. PlainOK /\ CostedOK
      BY <2>1, <3>2 DEF PlainInv, CostedInv, CostedProgram
    <3> QED BY <2>2, <3>1, <3>2, <3>3, LeaveSettles
  <2>3. CASE ~Leave
    <3>1. /\ CostedProgram => PlainOK /\ CostedOK
          /\ CostedProgram /\ ~left' => PlainOK'
      <4>1. CostedProgram => PlainOK /\ CostedOK
        BY <2>1 DEF PlainInv, CostedInv, CostedProgram
      <4>2. CostedProgram /\ ~left' => PlainOK'
        BY <1>1, <4>1, PlainSteps DEF CostedProgram
      <4> QED BY <4>1, <4>2
    <3>2. PICK id, to, mem : Executes(id, to, mem)
      BY <1>1, <2>3, NextExecutes
    <3>3. ~left' /\ options' = options
      BY <2>1, <3>2 DEF Executes, UpdateCallDepth
    <3>4. CostedProgram
      BY <2>1, <3>3 DEF CostedProgram, PlainProgram
    <3>5. PlainOK /\ CostedOK /\ PlainOK'
      BY <3>1, <3>3, <3>4
    <3>6. Sequence(ystack) /\ Len(ystack) # 0
      BY <3>4, <3>5, PlainElements DEF CostedProgram
    <3>7. PICK a, b, c : Steps(a, b, c)
      BY <1>1, <3>3, <3>4, <3>5, NextSteps DEF CostedOK
    <3>8. StepDone(b)
      BY <3>6, <3>7, StepMoves
    <3>9. InclusiveOK' /\ Balanced'
      BY <3>4, <3>5, <3>8, BalanceSteps
    <3>10. ElementsOK(ystack)'
      BY <3>5, <3>6, <3>8, ElementsStay DEF CostedOK
    <3>11. StartFrame'
      BY <3>7 DEF Steps
    <3> QED BY <3>3, <3>9, <3>10, <3>11 DEF CostedOK
  <2> QED BY <2>2, <2>3
<1>2. CASE UNCHANGED vars
  <2>1. /\ UNCHANGED << ystack, func_sym, hidden, options, own, childs, graph_cycles, cycle >>
        /\ UNCHANGED << n_cycles, frames, prof, inclusive, main_run, left >>
    BY <1>2 DEF vars, cgvars, pvars
  <2>2. CostedProgram' = CostedProgram /\ Settled' = Settled
    BY <2>1 DEF CostedProgram, PlainProgram, Settled, Plain, IsReserved, IsSkip, IsBase, IsLeaf, IsSub
  <2>3. /\ InclusiveOK' = InclusiveOK /\ StartFrame' = StartFrame
        /\ ElementsOK(ystack)' = ElementsOK(ystack)
    BY <2>1 DEF InclusiveOK, StartFrame, ElementsOK
  <2>4. Balanced' = Balanced
    BY <2>1 DEF Balanced, Plain, IsReserved, IsSkip, IsBase, IsLeaf, IsSub, Due, GraphDue,
                OnStack, LFindBase
  <2> QED BY <2>1, <2>2, <2>3, <2>4 DEF CostedInv, CostedOK
<1> QED BY <1>1, <1>2

(* For programs of calls, recursion, tail calls, jumps, PUSH and RET and     *)
(* returns, whatever the options of the graph but -graph-leaf are: when the  *)
(* simulator has left, a function was charged, for itself and for what it    *)
(* calls, exactly the cycles that passed while it was in a call that had not *)
(* returned, however often it was in it; the graph has those of its base,    *)
(* and the edges into a function add up to the function's own.  account of   *)
(* graph.c charges when the stack changes; what is still due is part of the  *)
(* invariant.                                                              *)
THEOREM CostsOfPlainPrograms ==
  Spec => [](CostedProgram => CostsAreInclusive)
<1> DEFINE Inv == PathInv /\ CostInv /\ EdgesInv /\ PlainInv /\ CostedInv
<1>1. Init => Inv
  BY PathInit, CostInit, EdgesInit, PlainStart, CostedStart
<1>2. Inv /\ [Next]_vars => Inv'
  <2> SUFFICES ASSUME Inv, [Next]_vars PROVE Inv'
    OBVIOUS
  <2>1. PathInv' /\ CostInv'
    BY PathNext, CostNext
  <2>2. EdgesInv'
    BY EdgesNext
  <2>3. PlainInv'
    BY PlainStays
  <2>4. CostedInv'
    BY CostedNext
  <2> QED BY <2>1, <2>2, <2>3, <2>4
<1>3. Inv => (CostedProgram => CostsAreInclusive)
  <2> SUFFICES ASSUME Inv, CostedProgram PROVE CostsAreInclusive
    OBVIOUS
  <2>1. EdgesAddUp
    BY EdgesAreAdded
  <2> QED BY <2>1 DEF CostedInv, Settled, CostsAreInclusive
<1> QED BY <1>1, <1>2, <1>3, PTL DEF Spec

-----------------------------------------------------------------------------
(* The option -graph-leaf                                                  *)

(* The costs of a leaf are those of all it calls only if the base of the     *)
(* graph is no callee of it: the base is main, and startup code calls it.   *)
LeafProgram ==
  /\ CostedProgram /\ options.base = {T_MAIN}
  /\ options.leaf \in SUBSET (Symbols \ StartSyms)
  /\ \A e \in prof.calls : e[2] = "main" => e[1] = "init"

(* An element is marked if it is above one of a leaf, and main is above none. *)
LeafMarks(stk) ==
  \A i \in 1 .. Len(stk) : stk[i].is_leaf <=> \E j \in i + 1 .. Len(stk) : IsLeaf(stk[j].sym)
NoneBelowMain(stk) ==
  \A i, j \in 1 .. Len(stk) : i < j /\ stk[i].sym = T_MAIN => ~IsLeaf(stk[j].sym)

(* The one leaf, in which all it calls ends.                                *)
TheLeaf(s) == s \in Symbols /\ options.leaf = {s} /\ ~IsSkip(s) /\ s # T_MAIN

(* The element of the leaf that was entered first pays.                     *)
LEMMA LeafPays ==
  ASSUME Sequence(ystack), LeafMarks(ystack), NoneBelowMain(ystack), options.base = {T_MAIN},
         NEW s, TheLeaf(s), s \in OnStack(ystack)
  PROVE  ystack[AccountNode(ystack, LFindBase(ystack))].sym = s
<1> DEFINE base == LFindBase(ystack)
           D == {i \in 1 .. base : ystack[i].sym = s}
           d == Max(D)
           K == {i \in 1 .. base : i = base \/ StopsAt(ystack[i], ystack[base])}
<1>1. /\ base \in 0 .. Len(ystack) /\ Len(ystack) \in Nat
      /\ base # 0 => ystack[base].sym = T_MAIN
  BY BaseIsBase DEF IsBase
<1>2. D # {} /\ D \subseteq 0 .. base /\ base \in Nat
  BY <1>1 DEF OnStack
<1>3. d \in D /\ \A i \in D : i <= d
  <2> HIDE DEF D, base
  <2> QED BY <1>2, Greatest
<1> HIDE DEF d
<1>4. d \in 1 .. base /\ base # 0 /\ ystack[d].sym = s /\ IsLeaf(s) /\ IsLeaf(ystack[d].sym)
  BY <1>1, <1>3 DEF IsLeaf, TheLeaf
<1>5. d # base /\ base \in 1 .. Len(ystack) /\ d \in 1 .. Len(ystack)
  BY <1>1, <1>4 DEF TheLeaf
<1>6. ASSUME NEW j \in d + 1 .. Len(ystack), IsLeaf(ystack[j].sym)
      PROVE  FALSE
  <2>1. ystack[j].sym = s
    BY <1>6 DEF IsLeaf, TheLeaf
  <2>2. CASE j \in 1 .. base
    <3>1. j \in D
      BY <2>1, <2>2
    <3> HIDE DEF D
    <3> QED BY <1>1, <1>3, <1>4, <3>1
  <2>3. CASE j \notin 1 .. base
    <3>1. base < j /\ j \in 1 .. Len(ystack)
      BY <1>1, <1>4, <2>3
    <3> QED BY <1>1, <1>4, <1>5, <1>6, <3>1 DEF NoneBelowMain
  <2> QED BY <2>2, <2>3
<1>7. ~ystack[d].is_leaf
  BY <1>5, <1>6 DEF LeafMarks
<1>8. d \in K
  <2>1. ~IsSkip(ystack[d].sym)
    BY <1>4 DEF TheLeaf
  <2>2. StopsAt(ystack[d], ystack[base])
    BY <1>4, <1>7, <2>1, Zenon DEF StopsAt
  <2> QED BY <1>4, <2>2
<1>9. ASSUME NEW i \in K PROVE d <= i
  <2> SUFFICES ASSUME i < d PROVE FALSE
    BY <1>1, <1>4
  <2>1. i \in 1 .. Len(ystack) /\ d \in i + 1 .. Len(ystack) /\ i # base
    BY <1>1, <1>4, <1>5
  <2>2. ystack[i].is_leaf
    BY <1>4, <2>1 DEF LeafMarks
  <2>3. ~StopsAt(ystack[i], ystack[base])
    BY <2>2, Zenon DEF StopsAt
  <2> QED BY <2>1, <2>3
<1>10. Min(K) = d
  <2>1. K \subseteq Nat /\ K # {}
    BY <1>8
  <2> HIDE DEF K
  <2>2. Min(K) \in K /\ \A x \in K : Min(K) <= x
    BY <2>1, Least
  <2>3. Min(K) <= d /\ d <= Min(K) /\ Min(K) \in Nat /\ d \in Nat
    BY <1>4, <1>8, <1>9, <2>1, <2>2
  <2> QED BY <2>3
<1> QED BY <1>4, <1>10 DEF AccountNode

(* A leaf is charged the cycles if it is on the stack, and never as a caller. *)
LEMMA LeafAccount ==
  ASSUME CostTypeOK, Sequence(ystack), LeafMarks(ystack), NoneBelowMain(ystack),
         options.base = {T_MAIN}, NEW s, TheLeaf(s),
         NEW now \in Nat, now - cycle \in Nat, AccountCycles(ystack, now)
  PROVE  /\ childs'[s] = childs[s] /\ own'[s] \in Nat
         /\ own'[s] = own[s] + (IF s \in OnStack(ystack) THEN now - cycle ELSE 0)
<1> DEFINE base == LFindBase(ystack)
           c == now - cycle
           k == AccountNode(ystack, base)
           me == ystack[k].sym
           parents == Callers(ystack, k, base)
<1>1. /\ own \in [Symbols -> Nat] /\ childs \in [Symbols -> Nat] /\ s \in Symbols
      /\ own[s] \in Nat /\ childs[s] \in Nat /\ c \in Nat
  BY DEF CostTypeOK, TheLeaf
<1>2. base \in 0 .. Len(ystack) /\ Len(ystack) \in Nat
  BY BaseIsBase
<1>3. CASE base = 0
  <2>1. own' = own /\ childs' = childs
    BY <1>3 DEF AccountCycles
  <2>2. 1 .. 0 = {}
    OBVIOUS
  <2>3. s \notin OnStack(ystack)
    BY <1>3, <2>2 DEF OnStack
  <2> HIDE DEF c
  <2>4. own[s] = own[s] + 0
    BY <1>1
  <2> QED BY <1>1, <2>1, <2>3, <2>4
<1>4. CASE base # 0
  <2>1. own' = [own EXCEPT ![me] = @ + c]
    BY <1>4, Zenon DEF AccountCycles, Account
  <2>2. childs' = [x \in Symbols |-> IF x \in parents THEN childs[x] + c ELSE childs[x]]
    BY <1>4, Zenon DEF AccountCycles, Account
  <2>3. me \notin parents
    BY PayerIsNoCaller
  <2> DEFINE K == {i \in 1 .. base : i = base \/ StopsAt(ystack[i], ystack[base])}
  <2>4. base \in K /\ K \subseteq 1 .. base /\ K \subseteq Nat
    BY <1>2, <1>4
  <2>5. k = Min(K)
    BY DEF AccountNode
  <2>6. k \in 1 .. base
    <3> HIDE DEF K, k
    <3> QED BY <2>4, <2>5, Least
  <2>7. s = me \/ s \in parents => s \in OnStack(ystack)
    <3>1. \A i \in k .. base : i \in 1 .. base
      BY <1>2, <2>6
    <3>2. ystack[k].sym \in OnStack(ystack)
      BY <2>6 DEF OnStack
    <3> HIDE DEF k
    <3> QED BY <3>1, <3>2 DEF OnStack, Callers
  <2>8. s \in OnStack(ystack) => s = me
    BY LeafPays
  <2> HIDE DEF c, me, parents, k
  <2>9. /\ own'[s] = IF s = me THEN own[s] + c ELSE own[s]
        /\ childs'[s] = IF s \in parents THEN childs[s] + c ELSE childs[s]
    BY <1>1, <2>1, <2>2
  <2>10. CASE s = me
    BY <1>1, <2>3, <2>7, <2>9, <2>10 DEF c
  <2>11. CASE s # me
    BY <1>1, <2>7, <2>8, <2>9, <2>11 DEF c
  <2> QED BY <2>10, <2>11
<1> QED BY <1>3, <1>4

(* main is entered by a call of the startup code only, and nothing but startup *)
(* code is on the call stack then.                                         *)
LEMMA MainIsCalled ==
  ASSUME PlainOK, LeafProgram, Next, ~left', pc' = T_MAIN
  PROVE  Len(frames) = 1
<1>0. PlainProgram(prof)
  BY DEF LeafProgram, CostedProgram
<1>1. ~Leave /\ ~NeverDone
  BY <1>0, NeverPlain, StillRuns DEF Leave
<1>2. \A p : Inside(p) # T_MAIN
  BY DEF Inside, T_MAIN, Entry
<1>3. \A f : Entry(f) \in Targets \/ f = "init" => Entry(f) # T_MAIN
  BY DEF Targets, T_MAIN, Entry
<1>4. ~JumpToInit /\ ~SetSP /\ ~Work /\ ~Allocate /\ ~PushData /\ ~PopData
  <2>1. ~JumpToInit
    BY <1>3, Executed DEF JumpToInit
  <2>2. ~SetSP /\ ~Work /\ ~Allocate
    BY <1>2, Executed DEF SetSP, Work, Allocate
  <2>3. ~PushData /\ ~PopData
    BY <1>2, Executed DEF PushData, PopData
  <2> QED BY <2>1, <2>2, <2>3
<1>5. \A f : ~PushTarget(f)
  BY <1>2, Executed DEF PushTarget
<1>6. ASSUME NEW f, FallInto(f) PROVE FALSE
  <2>1. <<Here, f>> \in prof.follows /\ Executes("LDI", Entry(f), memory)
    BY <1>6 DEF FallInto
  <2>2. Entry(f) \in Targets
    BY <1>0, <2>1, PlainTarget
  <2> QED BY <1>3, <2>1, <2>2, Executed
<1>7. ASSUME NEW f, NEW id \in {"JMP", "IJMP"}, TailCall(id, f) PROVE FALSE
  <2>1. <<Here, f>> \in prof.tails /\ Executes(id, Entry(f), memory)
    BY <1>7 DEF TailCall
  <2>2. Entry(f) \in Targets
    BY <1>0, <2>1, PlainTarget
  <2> QED BY <1>3, <2>1, <2>2, Executed
<1>8. ~RetToTarget
  <2> SUFFICES ASSUME RetToTarget PROVE FALSE
    OBVIOUS
  <2>1. graph_id = "PUSH" /\ Last(memory) \in Addresses /\ Executes("RET", Last(memory), Front(memory))
    BY DEF RetToTarget
  <2>2. Last(memory) \in Targets
    BY <2>1, PlainMachine, RegionsAssumption
  <2>3. PICK f : Last(memory) = Entry(f)
    BY <2>2 DEF Targets
  <2> QED BY <1>3, <2>1, <2>2, <2>3, Executed
<1>9. ASSUME NEW id \in {"RET", "RETI"}, Ret(id) PROVE FALSE
  <2>1. /\ Executes(id, Last(memory), Front(memory)) /\ Len(frames) > 1 /\ Height = Frame.base
        /\ Len(frames) \in Nat /\ ReturnsOK
    BY <1>9, PlainMachine DEF Ret, Atop, PlainOK
  <2>2. Len(frames) \in 2 .. Len(frames)
    BY <2>1
  <2>3. Last(memory) = memory[frames[Len(frames)].base]
    BY <2>1 DEF Last, Height, Frame
  <2>4. Last(memory) \in {Inside(p) : p \in Places}
    BY <2>1, <2>2, <2>3 DEF ReturnsOK
  <2> QED BY <1>2, <2>1, <2>4, Executed
<1>10. ASSUME NEW f, NEW id \in {"CALL", "ICALL"}, Call(id, f) PROVE Len(frames) = 1
  <2>1. <<Here, f>> \in prof.calls /\ Executes(id, Entry(f), Append(memory, Inside(Here)))
    BY <1>10 DEF Call
  <2>2. f = "main"
    BY <2>1, Executed DEF T_MAIN, Entry
  <2>3. Here = "init"
    BY <2>1, <2>2 DEF LeafProgram
  <2> QED BY <2>3, PlainMachine
<1> QED BY <1>1, <1>4, <1>5, <1>6, <1>7, <1>8, <1>9, <1>10, Zenon DEF Next, NeverDone

(* The elements of startup code are of no leaf.                             *)
LEMMA StartIsNoLeaf ==
  ASSUME PlainOK, LeafProgram, ElementsOK(ystack), Len(frames) = 1
  PROVE  \A i \in 1 .. Len(ystack) : ~IsLeaf(ystack[i].sym)
<1>1. Levels(frames) = << >>
  BY LevelsOfOne DEF PlainOK, FramesOK
<1>2. \A i \in 1 .. Len(ystack) : ystack[i].depth = 0
  <2>1. Len(<< >>) = 0 /\ 0 + 1 = 1
    OBVIOUS
  <2> QED BY <1>1, <2>1 DEF PlainOK, StackOK, Matches
<1> QED BY <1>2 DEF ElementsOK, IsLeaf, LeafProgram

LEMMA MarksStay ==
  ASSUME PlainOK, PlainOK', LeafProgram, ElementsOK(ystack), LeafMarks(ystack),
         NoneBelowMain(ystack), NEW to, StepDone(to), to = T_MAIN => Len(frames) = 1
  PROVE  LeafMarks(ystack)' /\ NoneBelowMain(ystack)'
<1> DEFINE old == ystack
           new == ystack'
<1>1. options' = options /\ pc' = to /\ Sequence(old) /\ Len(old) \in Nat \ {0}
      /\ \A s : IsLeaf(s)' <=> IsLeaf(s)
  <2>1. Sequence(old)
    BY DEF PlainOK, StackOK, Matches
  <2>2. Len(Levels(frames)) \in Nat /\ Len(Levels(frames)) < Len(old)
    BY LevelsBound DEF PlainOK, FramesOK, StackOK, Matches
  <2> QED BY <2>1, <2>2, LenProperties DEF Sequence, StepDone, IsLeaf
<1> SUFFICES /\ \A i \in 1 .. Len(new) :
                  new[i].is_leaf <=> \E j \in i + 1 .. Len(new) : IsLeaf(new[j].sym)
             /\ \A i, j \in 1 .. Len(new) : i < j /\ new[i].sym = T_MAIN => ~IsLeaf(new[j].sym)
  BY <1>1 DEF LeafMarks, NoneBelowMain
<1>2. CASE new = old
  BY <1>2 DEF LeafMarks, NoneBelowMain
<1>3. CASE Shorter(new, old)
  <2> DEFINE e == Len(old) - Len(new)
  <2>1. Len(new) \in 1 .. Len(old) /\ e \in Nat /\ Len(new) + e = Len(old) /\ Len(new) \in Nat
    BY <1>1, <1>3 DEF Shorter
  <2>2. \A i \in 1 .. Len(new) : i + e \in 1 .. Len(old) /\ new[i] = old[i + e]
    BY <1>1, <1>3, <2>1 DEF Shorter
  <2> HIDE DEF e
  <2>3. ASSUME NEW i \in 1 .. Len(new)
        PROVE  new[i].is_leaf <=> \E j \in i + 1 .. Len(new) : IsLeaf(new[j].sym)
    <3>1. ASSUME NEW j \in i + 1 .. Len(new)
          PROVE  j + e \in (i + e) + 1 .. Len(old) /\ new[j] = old[j + e]
      BY <2>1, <2>2
    <3>2. ASSUME NEW j \in (i + e) + 1 .. Len(old)
          PROVE  j - e \in i + 1 .. Len(new) /\ new[j - e] = old[j]
      <4>1. j - e \in i + 1 .. Len(new) /\ (j - e) + e = j /\ j - e \in 1 .. Len(new)
        BY <2>1
      <4> QED BY <2>2, <4>1
    <3>3. old[i + e].is_leaf <=> \E j \in (i + e) + 1 .. Len(old) : IsLeaf(old[j].sym)
      BY <2>2 DEF LeafMarks
    <3>4. (\E j \in (i + e) + 1 .. Len(old) : IsLeaf(old[j].sym))
          <=> \E j \in i + 1 .. Len(new) : IsLeaf(new[j].sym)
      BY <3>1, <3>2
    <3>5. new[i] = old[i + e]
      BY <2>2
    <3> HIDE DEF old, new
    <3> QED BY <3>3, <3>4, <3>5, Zenon
  <2>4. ASSUME NEW i \in 1 .. Len(new), NEW j \in 1 .. Len(new), i < j, new[i].sym = T_MAIN
        PROVE  ~IsLeaf(new[j].sym)
    <3>1. i + e < j + e
      BY <2>1, <2>4
    <3> QED BY <2>2, <2>4, <3>1 DEF NoneBelowMain
  <2> QED BY <2>3, <2>4
<1>4. ASSUME NEW target \in {NoSymbol, to}, NEW delta, NEW sp,
             new = <<NewNode(old, target, delta, sp)>> \o old
      PROVE  /\ \A i \in 1 .. Len(new) :
                  new[i].is_leaf <=> \E j \in i + 1 .. Len(new) : IsLeaf(new[j].sym)
             /\ \A i, j \in 1 .. Len(new) : i < j /\ new[i].sym = T_MAIN => ~IsLeaf(new[j].sym)
  <2> DEFINE l == NewNode(old, target, delta, sp)
             n == Len(old)
  <2>1. PICK T : old \in Seq(T)
    BY <1>1 DEF Sequence
  <2>2. l.sym = target /\ l.is_leaf = (Head(old).is_leaf \/ IsLeaf(Head(old).sym))
    BY Zenon DEF NewNode
  <2> HIDE DEF l
  <2>3. new = <<l>> \o old
    BY <1>4 DEF l
  <2>4. /\ n \in Nat \ {0} /\ Len(new) = n + 1 /\ new[1] = l
        /\ \A k \in 2 .. n + 1 : new[k] = old[k - 1]
    BY <1>1, <2>1, <2>3, PushedOn
  <2>5. Head(old) = old[1] /\ 1 \in 1 .. n
    BY <2>1, <2>4, EmptySeq
  <2>6. target = T_MAIN => Len(frames) = 1
    <3> SUFFICES ASSUME target = T_MAIN PROVE to = T_MAIN
      OBVIOUS
    <3>1. new[1].sym \in Syms
      <4>1. 1 \in 1 .. Len(new)
        BY <2>4
      <4> QED BY <4>1 DEF PlainOK, StackOK, Matches
    <3>2. T_MAIN \in Syms
      BY <2>2, <2>4, <3>1
    <3>3. T_MAIN # NoSymbol
      BY <3>2, PlacesAreRegions, RegionsAssumption DEF Syms, Addresses, Entry
    <3> QED BY <3>3
  <2> HIDE DEF new, old, n
  <2>7. ASSUME NEW i \in 2 .. n + 1
        PROVE  /\ i - 1 \in 1 .. n /\ new[i] = old[i - 1]
               /\ \A j \in i + 1 .. n + 1 : j - 1 \in (i - 1) + 1 .. n /\ new[j] = old[j - 1]
               /\ \A j \in (i - 1) + 1 .. n : j + 1 \in i + 1 .. n + 1 /\ new[j + 1] = old[j]
    <3>1. \A j \in i + 1 .. n + 1 : j \in 2 .. n + 1 /\ j - 1 \in (i - 1) + 1 .. n
      BY <2>4
    <3>2. \A j \in (i - 1) + 1 .. n : j + 1 \in i + 1 .. n + 1 /\ j + 1 \in 2 .. n + 1 /\ (j + 1) - 1 = j
      BY <2>4
    <3> QED BY <2>4, <3>1, <3>2
  <2>8. ASSUME NEW i \in 1 .. n + 1
        PROVE  new[i].is_leaf <=> \E j \in i + 1 .. n + 1 : IsLeaf(new[j].sym)
    <3>1. CASE i = 1
      <4>1. new[1].is_leaf <=> old[1].is_leaf \/ IsLeaf(old[1].sym)
        BY <2>2, <2>4, <2>5, Zenon
      <4>2. old[1].is_leaf <=> \E j \in 1 + 1 .. n : IsLeaf(old[j].sym)
        BY <2>5 DEF LeafMarks, old, n
      <4>3. ASSUME \E j \in 2 .. n + 1 : IsLeaf(new[j].sym)
            PROVE  IsLeaf(old[1].sym) \/ \E j \in 1 + 1 .. n : IsLeaf(old[j].sym)
        <5>1. PICK j \in 2 .. n + 1 : IsLeaf(new[j].sym)
          BY <4>3
        <5>2. IsLeaf(old[j - 1].sym) /\ (j - 1 = 1 \/ j - 1 \in 1 + 1 .. n)
          BY <2>4, <5>1
        <5> QED BY <5>2
      <4>4. ASSUME IsLeaf(old[1].sym) \/ \E j \in 1 + 1 .. n : IsLeaf(old[j].sym)
            PROVE  \E j \in 2 .. n + 1 : IsLeaf(new[j].sym)
        <5>1. PICK j \in 1 .. n : IsLeaf(old[j].sym)
          <6>1. \A k \in 1 + 1 .. n : k \in 1 .. n
            BY <2>4
          <6> QED BY <2>5, <4>4, <6>1
        <5>2. j + 1 \in 2 .. n + 1 /\ (j + 1) - 1 = j
          BY <2>4
        <5> QED BY <2>4, <5>1, <5>2
      <4>5. 1 + 1 = 2
        OBVIOUS
      <4> QED BY <3>1, <4>1, <4>2, <4>3, <4>4, <4>5, Zenon
    <3>2. CASE i # 1
      <4> DEFINE h == i - 1
      <4>1. i \in 2 .. n + 1
        BY <2>4, <3>2
      <4>2. h \in 1 .. n /\ new[i] = old[h]
        BY <2>7, <4>1
      <4>3. old[h].is_leaf <=> \E j \in h + 1 .. n : IsLeaf(old[j].sym)
        BY <4>2 DEF LeafMarks, old, n
      <4>4. (\E j \in h + 1 .. n : IsLeaf(old[j].sym))
            <=> \E j \in i + 1 .. n + 1 : IsLeaf(new[j].sym)
        BY <2>7, <4>1
      <4> HIDE DEF h
      <4> QED BY <4>2, <4>3, <4>4, Zenon
    <3> QED BY <3>1, <3>2
  <2>9. ASSUME NEW i \in 1 .. n + 1, NEW j \in 1 .. n + 1, i < j, new[i].sym = T_MAIN
        PROVE  ~IsLeaf(new[j].sym)
    <3>1. j \in 2 .. n + 1 /\ j - 1 \in 1 .. n /\ new[j] = old[j - 1]
      <4>1. j \in 2 .. n + 1
        BY <2>4, <2>9
      <4> QED BY <2>7, <4>1
    <3>2. CASE i = 1
      <4>1. Len(frames) = 1
        BY <2>2, <2>4, <2>6, <2>9, <3>2
      <4> QED BY <3>1, <4>1, StartIsNoLeaf DEF old, n
    <3>3. CASE i # 1
      <4>1. i \in 2 .. n + 1 /\ i - 1 < j - 1
        BY <2>4, <2>9, <3>3
      <4>2. i - 1 \in 1 .. n /\ new[i] = old[i - 1]
        BY <2>7, <4>1
      <4> QED BY <2>9, <3>1, <4>1, <4>2 DEF NoneBelowMain, old, n
    <3> QED BY <3>2, <3>3
  <2> QED BY <2>4, <2>8, <2>9
<1> QED BY <1>2, <1>3, <1>4 DEF StepDone, Kept, Moves, Grows

(* What the leaf was charged and what it is due are the cycles spent in it.  *)
LeafBalanced == \A s : TheLeaf(s) => childs[s] = 0 /\ own[s] + Due(s) = inclusive[s]
LeafSettled  == \A s : TheLeaf(s) => childs[s] = 0 /\ own[s] = inclusive[s]

LeafOK  == LeafMarks(ystack) /\ NoneBelowMain(ystack) /\ LeafBalanced
LeafInv == LeafProgram => IF left THEN LeafSettled ELSE LeafOK

LEMMA LeafSteps ==
  ASSUME PathInv, CostInv, PlainOK, LeafProgram, CostedOK, LeafOK, NEW to, StepDone(to)
  PROVE  LeafBalanced'
<1> SUFFICES ASSUME NEW s, TheLeaf(s)'
             PROVE  childs'[s] = 0 /\ own'[s] + Due(s)' = inclusive'[s]
  BY DEF LeafBalanced
<1> DEFINE on == OnStack(ystack)
           d == n_cycles - cycle
<1>1. /\ UNCHANGED options /\ n_cycles' = n_cycles + 1 /\ Charged(Chain) = on
      /\ inclusive' = [x \in Symbols |-> IF x \in Charged(Chain) THEN inclusive[x] + 1
                                                                 ELSE inclusive[x]]
  <2>1. Charged(Chain) = on
    BY ChargedIsOnStack DEF CostedOK, CostedProgram, LeafProgram
  <2> QED BY <2>1 DEF StepDone
<1>2. TheLeaf(s) /\ s \in Symbols
  BY <1>1 DEF TheLeaf, IsSkip
<1>3. /\ inclusive[s] \in Nat /\ own[s] \in Nat /\ Sequence(ystack) /\ CostTypeOK
      /\ n_cycles \in Nat /\ cycle \in Nat /\ d \in Nat /\ (n_cycles + 1) - cycle = d + 1
  BY <1>2, PlainElements DEF CostedOK, InclusiveOK, CostInv, CostTypeOK, CostsBounded,
                             CostedProgram, LeafProgram
<1>4. inclusive'[s] = IF s \in on THEN inclusive[s] + 1 ELSE inclusive[s]
  BY <1>1, <1>2
<1>5. childs[s] = 0 /\ own[s] + (IF s \in on THEN d ELSE 0) = inclusive[s]
  BY <1>2 DEF LeafOK, LeafBalanced, Due
<1>6. CASE Kept
  <2>1. UNCHANGED << ystack, own, childs, cycle >>
    BY <1>6 DEF Kept
  <2>2. OnStack(ystack)' = on
    BY <1>1, <2>1 DEF OnStack, LFindBase, IsBase
  <2> HIDE DEF on, d
  <2>3. Due(s)' = IF s \in on THEN d + 1 ELSE 0
    BY <1>1, <1>3, <2>1, <2>2 DEF Due
  <2> QED BY <1>3, <1>4, <1>5, <2>1, <2>3
<1>7. ASSUME NEW sym, Moves(n_cycles', sym, to)
      PROVE  childs'[s] = 0 /\ own'[s] + Due(s)' = inclusive'[s]
  <2>1. AccountCycles(ystack, n_cycles') /\ n_cycles' \in Nat /\ n_cycles' - cycle = d + 1
    BY <1>1, <1>3, <1>7 DEF Moves
  <2>2. /\ childs'[s] = childs[s] /\ own'[s] \in Nat
        /\ own'[s] = own[s] + (IF s \in on THEN n_cycles' - cycle ELSE 0)
    <3>1. n_cycles' - cycle \in Nat
      BY <1>3, <2>1
    <3> QED BY <1>2, <1>3, <2>1, <3>1, LeafAccount DEF LeafOK, LeafProgram
  <2>3. cycle' = n_cycles'
    BY <2>1 DEF AccountCycles
  <2>4. n_cycles' - cycle' = 0
    <3>1. \A n \in Nat : n - n = 0
      OBVIOUS
    <3> QED BY <2>1, <2>3, <3>1, Zenon
  <2>5. Due(s)' = 0
    BY <2>4 DEF Due
  <2> HIDE DEF on, d
  <2>6. own'[s] = inclusive'[s]
    <3>1. own'[s] = own[s] + (IF s \in on THEN d + 1 ELSE 0)
      BY <2>1, <2>2
    <3> QED BY <1>3, <1>4, <1>5, <3>1
  <2>7. own'[s] + 0 = own'[s]
    BY <2>2
  <2> QED BY <1>5, <2>2, <2>5, <2>6, <2>7
<1> QED BY <1>6, <1>7 DEF StepDone

LEMMA LeafSettles ==
  ASSUME PathInv, CostInv, PlainOK, LeafProgram, LeafOK, Leave
  PROVE  LeafSettled'
<1> DEFINE i == [sp |-> SP(memory, sp_set), glitch |-> glitch > 0, pc |-> pc,
                 old |-> pc, now |-> n_cycles]
<1>1. WriteDot(i) /\ UNCHANGED << n_cycles, inclusive >>
  BY Zenon DEF Leave
<1>2. i.now = n_cycles
  BY Zenon
<1> HIDE DEF i
<1>3. Sequence(ystack) /\ Len(ystack) # 0
  BY PlainElements DEF CostedProgram, LeafProgram
<1>4. /\ UpdateCallStack(ystack, yfree, ProgramStop, 0, FALSE, NonglitchSP(i), i.pc, i.old, i.now)
      /\ options' = options
  BY <1>1, Zenon DEF WriteDot
<1>5. Moves(i.now, ProgramStop, i.pc)
  BY <1>3, <1>4, UpdateMoves
<1>6. AccountCycles(ystack, n_cycles)
  BY <1>2, <1>5 DEF Moves
<1>7. n_cycles \in Nat /\ n_cycles - cycle \in Nat /\ CostTypeOK
  BY DEF CostInv, CostTypeOK, CostsBounded
<1>8. ASSUME NEW s, TheLeaf(s)'
      PROVE  childs'[s] = 0 /\ own'[s] = inclusive[s]
  <2>1. TheLeaf(s)
    BY <1>4, <1>8 DEF TheLeaf, IsSkip
  <2>2. /\ childs'[s] = childs[s]
        /\ own'[s] = own[s] + (IF s \in OnStack(ystack) THEN n_cycles - cycle ELSE 0)
    BY <1>3, <1>6, <1>7, <2>1, LeafAccount DEF LeafOK, LeafProgram
  <2> QED BY <2>1, <2>2 DEF LeafOK, LeafBalanced, Due
<1> QED BY <1>1, <1>8 DEF LeafSettled

LEMMA LeafStart ==
  ASSUME Init
  PROVE  LeafInv
<1> DEFINE node == [sym |-> Entry("vectors"), from |-> EntryPoint, depth |-> 0, sp |-> 0,
                    is_leaf |-> FALSE, is_sub |-> FALSE]
<1>1. n_cycles = 0 /\ ~left /\ inclusive = [s \in Symbols |-> 0]
  BY Zenon DEF Init, PInit
<1>2. /\ own = [s \in Symbols |-> 0] /\ childs = [s \in Symbols |-> 0] /\ cycle = 0
      /\ ystack = <<node>>
  <2>1. pc = Entry("vectors")
    BY Zenon DEF Init, PInit
  <2> QED BY <2>1, Zenon DEF Init, GraphInit
<1>3. ~node.is_leaf
  BY Zenon
<1> HIDE DEF node
<1>4. /\ Len(ystack) = 1 /\ ystack[1] = node /\ 1 .. 1 = {1} /\ 1 + 1 .. 1 = {} /\ ~(1 < 1)
  BY <1>2
<1>5. LeafMarks(ystack) /\ NoneBelowMain(ystack)
  BY <1>3, <1>4 DEF LeafMarks, NoneBelowMain
<1>6. \A s : Due(s) = 0
  BY <1>1, <1>2 DEF Due
<1>7. LeafBalanced
  BY <1>1, <1>2, <1>6 DEF LeafBalanced, TheLeaf
<1> QED BY <1>1, <1>5, <1>7 DEF LeafInv, LeafOK

LEMMA LeafNext ==
  ASSUME PathInv, CostInv, PlainInv, CostedInv, LeafInv, [Next]_vars
  PROVE  LeafInv'
<1>1. CASE Next
  <2> SUFFICES ASSUME LeafProgram'
               PROVE  IF left' THEN LeafSettled' ELSE LeafOK'
    BY DEF LeafInv
  <2>1. ~left /\ prof' = prof /\ (left' \/ ~Leave)
    BY <1>1, StillRuns
  <2>2. CASE Leave
    <3>1. left' /\ options' = options
      BY <2>2 DEF Leave, WriteDot
    <3>2. LeafProgram
      BY <2>1, <3>1 DEF LeafProgram, CostedProgram, PlainProgram
    <3>3. PlainOK /\ LeafOK
      BY <2>1, <3>2 DEF PlainInv, LeafInv, LeafProgram, CostedProgram
    <3> QED BY <2>2, <3>1, <3>2, <3>3, LeafSettles
  <2>3. CASE ~Leave
    <3>1. PICK id, to, mem : Executes(id, to, mem)
      BY <1>1, <2>3, NextExecutes
    <3>2. ~left' /\ options' = options
      BY <2>1, <3>1 DEF Executes, UpdateCallDepth
    <3>3. LeafProgram /\ CostedProgram
      BY <2>1, <3>2 DEF LeafProgram, CostedProgram, PlainProgram
    <3>4. PlainOK /\ CostedOK /\ LeafOK
      BY <2>1, <3>3 DEF PlainInv, CostedInv, LeafInv, CostedProgram
    <3>5. PlainOK'
      BY <1>1, <3>2, <3>3, <3>4, PlainSteps DEF CostedProgram
    <3>6. Sequence(ystack) /\ Len(ystack) # 0
      BY <3>3, <3>4, PlainElements DEF CostedProgram
    <3>7. PICK a, b, c : Steps(a, b, c)
      BY <1>1, <3>2, <3>3, <3>4, NextSteps DEF CostedOK
    <3>8. StepDone(b)
      BY <3>6, <3>7, StepMoves
    <3>9. b = T_MAIN => Len(frames) = 1
      BY <1>1, <3>2, <3>3, <3>4, <3>8, MainIsCalled DEF StepDone
    <3>10. LeafMarks(ystack)' /\ NoneBelowMain(ystack)'
      BY <3>3, <3>4, <3>5, <3>8, <3>9, MarksStay DEF LeafOK, CostedOK
    <3>11. LeafBalanced'
      BY <3>3, <3>4, <3>8, LeafSteps
    <3> QED BY <3>2, <3>10, <3>11 DEF LeafOK
  <2> QED BY <2>2, <2>3
<1>2. CASE UNCHANGED vars
  <2>1. /\ UNCHANGED << ystack, options, own, childs, cycle >>
        /\ UNCHANGED << n_cycles, prof, inclusive, left >>
    BY <1>2 DEF vars, cgvars, pvars
  <2>2. LeafProgram' = LeafProgram /\ LeafSettled' = LeafSettled
    BY <2>1 DEF LeafProgram, CostedProgram, PlainProgram, LeafSettled, TheLeaf, IsSkip
  <2>3. /\ LeafMarks(ystack)' = LeafMarks(ystack) /\ NoneBelowMain(ystack)' = NoneBelowMain(ystack)
    BY <2>1 DEF LeafMarks, NoneBelowMain, IsLeaf
  <2>4. LeafBalanced' = LeafBalanced
    BY <2>1 DEF LeafBalanced, TheLeaf, IsSkip, Due, OnStack, LFindBase, IsBase
  <2> QED BY <2>1, <2>2, <2>3, <2>4 DEF LeafInv, LeafOK
<1> QED BY <1>1, <1>2

(* For the same programs, when the graph starts at main and -graph-leaf is   *)
(* given for one function: the function's own costs are the cycles that      *)
(* passed while it was in a call that had not returned, recursion included,  *)
(* and none are costs of a callee.  The element of the leaf that was entered *)
(* first pays, since all above it inherit the mark.                         *)
THEOREM LeavesOfPlainPrograms ==
  Spec => [](LeafProgram => LeavesTakeAll)
<1> DEFINE Inv == PathInv /\ CostInv /\ PlainInv /\ CostedInv /\ LeafInv
<1>1. Init => Inv
  BY PathInit, CostInit, PlainStart, CostedStart, LeafStart
<1>2. Inv /\ [Next]_vars => Inv'
  BY PathNext, CostNext, PlainStays, CostedNext, LeafNext
<1>3. Inv => (LeafProgram => LeavesTakeAll)
  <2> SUFFICES ASSUME Inv, LeafProgram, left,
                      NEW s \in options.leaf, options.leaf = {s}, ~IsSkip(s),
                      \E b \in options.base : b # s
               PROVE  own[s] = inclusive[s] /\ childs[s] = 0
    BY DEF LeavesTakeAll
  <2>1. TheLeaf(s)
    BY DEF TheLeaf, LeafProgram
  <2> QED BY <2>1 DEF LeafInv, LeafSettled
<1> QED BY <1>1, <1>2, <1>3, PTL DEF Spec

=============================================================================
