---------------------------- MODULE MeterHistory ----------------------------
(***************************************************************************)
(* Instrumentation with history variables: what the rounds of every meter   *)
(* really cost, counted instruction by instruction, and the stack pointer   *)
(* as the program means it.                                                 *)
(***************************************************************************)
EXTENDS Instrumentation

(* A stack pointer is never taken for INT_MAX, which means "no call-only".  *)
ASSUME StackPointerAssumption == SpByte * SpByte <= IntMax

VARIABLES
  round,     (* the round a meter is in: its instructions and cycles, the   *)
             (* call depth it began at, and whether SP moved but by calls   *)
  rounds,    (* the rounds it has completed since it was first started      *)
  total,     (* what these rounds have cost together                        *)
  frames,    (* SP after each call that has not returned                    *)
  whole,     (* SP is half-written or not; the values it had when not       *)
  quiet      (* instructions since the last OUT to SPL or SPH               *)

history == << round, rounds, total, frames, whole, quiet >>
hvars   == << vars, history >>

Nothing == [insns |-> 0, cycles |-> 0]

Ends(i)     == meters[i].on /\ ~meters'[i].on
Begins(i)   == ~meters[i].on /\ meters'[i].on
Remains(i)  == meters[i].on /\ meters'[i].on
First(i)    == Begins(i) /\ meters[i].valid = "none"

(* PERF_START counts the instructions between PERF_START and PERF_STOP;     *)
(* PERF_START_CALL those that run at, come from or go to a greater call     *)
(* depth than PERF_START_CALL did.                                          *)
CallOnly(i) == meters[i].call_only.sp # IntMax

Depth == Len(frames)

Counted(i) ==
  IF CallOnly(i) THEN Depth > round[i].depth \/ Depth' > round[i].depth
  ELSE Remains(i)

(* Whether instruction i leaves the stack pointer to calls, to the returns  *)
(* from them, and to what functions push and pop that run at a greater call *)
(* depth than d.                                                            *)
OnlyCallsMoveSP(i, d) ==
  CASE i.op = "call" -> sp >= 2
    [] i.op = "ret"  -> /\ Depth > 0 /\ sp = frames[Depth]
                        /\ sp + 2 < SpByte * SpByte
    [] i.op = "push" -> Depth > d /\ sp > 0
    [] i.op = "pop"  -> Depth > d /\ sp < frames[Depth]
    [] i.op \in {"out_spl", "out_sph"} -> FALSE
    [] OTHER -> TRUE

NextRound(m, i) ==
  CASE Begins(m) ->
         [insns |-> 0, cycles |-> 0, depth |-> Depth', moves |-> quiet' < 4]
    [] meters[m].on ->
         LET n == IF Counted(m) THEN 1 ELSE 0
         IN  [insns  |-> round[m].insns + n,
              cycles |-> round[m].cycles
                           + n * (prog'.n_cycles - prog.n_cycles),
              depth  |-> round[m].depth,
              moves  |-> \/ round[m].moves
                         \/ ~OnlyCallsMoveSP(i, round[m].depth)]
    [] OTHER -> round[m]

NextRounds(m) ==
  CASE First(m) -> << >>
    [] Ends(m)  -> Append(rounds[m],
                          [insns  |-> round'[m].insns,
                           cycles |-> round'[m].cycles,
                           moves  |-> CallOnly(m) /\ round'[m].moves])
    [] OTHER    -> rounds[m]

NextTotal(m) ==
  CASE First(m) -> Nothing
    [] Ends(m)  -> [insns  |-> total[m].insns + round'[m].insns,
                    cycles |-> total[m].cycles + round'[m].cycles]
    [] OTHER    -> total[m]

HInit ==
  /\ Init
  /\ round = [m \in Meters |-> [insns |-> 0, cycles |-> 0, depth |-> 0,
                                moves |-> FALSE]]
  /\ rounds = [m \in Meters |-> << >>]
  /\ total = [m \in Meters |-> Nothing]
  /\ frames = << >> /\ quiet = 4
  /\ whole = [torn |-> FALSE, seen |-> {sp}]

(* Programs write SP as compilers do: SPH, at most one instruction that     *)
(* keeps SP (it restores SREG), SPL.                                        *)
SetsSpAsCompiled(i) ==
  /\ i.op = "out_spl" => whole.torn
  /\ whole.torn => i.op = "out_spl" \/ (i.op = "plain" /\ quiet = 0)

NextWhole(i) ==
  CASE i.op = "out_sph" -> [torn |-> TRUE, seen |-> whole.seen]
    [] i.op = "plain"   -> whole
    [] OTHER -> [torn |-> FALSE, seen |-> whole.seen \cup {sp'}]

HStep(i, c) ==
  /\ SetsSpAsCompiled(i)
  /\ Execute(i, c)
  /\ frames' = CASE i.op = "call" -> Append(frames, sp')
                 [] i.op = "ret" /\ Depth > 0 -> SubSeq(frames, 1, Depth - 1)
                 [] OTHER -> frames
  /\ quiet' = CASE i.op \in {"out_spl", "out_sph"} -> 0
                [] i.op \notin {"out_spl", "out_sph"} /\ quiet < 4 -> quiet + 1
                [] OTHER -> quiet
  /\ round' = [m \in Meters |-> NextRound(m, i)]
  /\ rounds' = [m \in Meters |-> NextRounds(m)]
  /\ total' = [m \in Meters |-> NextTotal(m)]
  /\ whole' = NextWhole(i)

HNext == \E i \in Instructions, c \in Costs : HStep(i, c)

HSpec == HInit /\ [][HNext]_hvars

-----------------------------------------------------------------------------

InUse(m) == meters[m].valid = "start"

(* A meter's totals, those PERF_DUMP has printed included, are the          *)
(* instructions and cycles of its rounds, each counted once, whatever the   *)
(* other meters do, and however its rounds begin, end, are ignored or are   *)
(* cut short by PERF_DUMP.                                                  *)
Accounted(m) ==
  /\ meters[m].insns = total[m].insns
  /\ meters[m].ticks = total[m].cycles % DWord
  /\ InUse(m) => meters[m].n = Len(rounds[m]) + (IF meters[m].on THEN 1 ELSE 0)

(* PERF_START_CALL works by SP: only calls may move it.                     *)
SpMoved(m) == \E k \in DOMAIN rounds[m] : rounds[m][k].moves

RoundsAreAccounted == \A m \in Meters : ~SpMoved(m) => Accounted(m)

(* "Min" and "Max" of a meter are those of its rounds; of their cycles, as  *)
(* long as the cycle count fits the 32 bits of perf.tick.                   *)
LeastOf(x, S)    == x \in S /\ \A y \in S : x <= y
GreatestOf(x, S) == x \in S /\ \A y \in S : y <= x

Between(mm, S) == /\ LeastOf(mm.min, S \cup {IntMax})
                  /\ GreatestOf(mm.max, S \cup {-IntMax})

ExtremesAreOfRounds ==
  \A m \in Meters : ~SpMoved(m) =>
    /\ Between(meters[m].insn, {rounds[m][k].insns : k \in DOMAIN rounds[m]})
    /\ prog.n_cycles < DWord =>
         Between(meters[m].tick, {rounds[m][k].cycles : k \in DOMAIN rounds[m]})

(* The stack pointer the meters see is never a half-written one, and four   *)
(* instructions after the last OUT to it they see it as it is.              *)
StackPointerIsWhole ==
  need.perf =>
    /\ perf.sp \in whole.seen \cup {0}
    /\ quiet = 4 /\ prog.n_insns > 0 => perf.sp = sp
    /\ \A m \in Meters : meters[m].sp # NoExtremes =>
         {meters[m].sp.min, meters[m].sp.max} \subseteq whole.seen \cup {0}

=============================================================================
