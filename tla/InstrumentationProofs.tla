------------------------ MODULE InstrumentationProofs ------------------------
(***************************************************************************)
(* Type correctness of Instrumentation and PrintedLinesHaveText, for any    *)
(* program, stack size, set of meters and word sizes; that the log it       *)
(* describes is the one LogScopes promises; and, in the second half, that   *)
(* the meters have the right totals, extremes and stack pointer.            *)
(***************************************************************************)
EXTENDS MeterHistory, LogAsScopes, ByteArithmetic, SequenceTheorems, TLAPS

-----------------------------------------------------------------------------
(* The log                                                                 *)

LEMMA PushType ==
  ASSUME NEW l \in LogType, NEW what \in BOOLEAN
  PROVE  Push(l, what) \in LogType
<1> DEFINE slot == [on |-> l.do_log, perf |-> l.perf_only,
                    count_val |-> l.count_val, countdown |-> l.countdown]
           set  == SetLogging(l, what, FALSE, 0)
           new  == Append(l.stack, slot)
<1>1. slot \in SlotType
  BY DEF LogType, SlotType
<1>2. set \in LogType /\ set.stack = l.stack
  BY DEF SetLogging, LogType
<1>3. new \in Seq(SlotType)
  BY <1>1 DEF LogType
<1> HIDE DEF set, new
<1>4. [set EXCEPT !.count_val = 0, !.stack = new] \in LogType
  BY <1>2, <1>3 DEF LogType
<1>5. Push(l, what) = IF Len(l.stack) < StackSlots - 1
                      THEN [set EXCEPT !.count_val = 0, !.stack = new] ELSE l
  BY <1>2 DEF Push, set, new, LogType
<1> QED BY <1>4, <1>5

LEMMA TopType ==
  ASSUME NEW l \in LogType, l.stack # << >>
  PROVE  /\ Len(l.stack) \in 1 .. Len(l.stack)
         /\ l.stack[Len(l.stack)] \in SlotType
<1>1. l.stack \in Seq(SlotType)
  BY DEF LogType
<1>2. Len(l.stack) \in Nat \ {0}
  BY <1>1, EmptySeq
<1> QED BY <1>1, <1>2

LEMMA PopType ==
  ASSUME NEW l \in LogType
  PROVE  Pop(l) \in LogType
<1> DEFINE slot == l.stack[Len(l.stack)]
           set  == SetLogging(l, slot.on, slot.perf, slot.countdown)
           rest == SubSeq(l.stack, 1, Len(l.stack) - 1)
<1>1. CASE l.stack = << >>
  BY <1>1 DEF Pop
<1>2. CASE l.stack # << >>
  <2>1. slot \in SlotType
    BY <1>2, TopType
  <2>2. set \in LogType /\ set.stack = l.stack
    BY <2>1 DEF SetLogging, LogType, SlotType
  <2>3. rest \in Seq(SlotType)
    BY <1>2, TopType DEF LogType
  <2>4. slot.count_val \in Nat
    BY <2>1 DEF SlotType
  <2>5. Pop(l) = [set EXCEPT !.count_val = slot.count_val, !.stack = rest]
    BY <1>2, <2>2 DEF Pop, LogType
  <2> HIDE DEF set, rest, slot
  <2>6. [set EXCEPT !.count_val = slot.count_val, !.stack = rest] \in LogType
    BY <2>2, <2>3, <2>4 DEF LogType
  <2> QED BY <2>5, <2>6
<1> QED BY <1>1, <1>2

LEMMA DoSyscallType ==
  ASSUME NEW l \in LogType, NEW no \in Int, NEW val \in Nat
  PROVE  DoSyscall(l, no, val) \in LogType
<1> DEFINE n == IF val = 0 THEN SetDefault ELSE val
           set == SetLogging(l, TRUE, FALSE, 1 + n)
<1>1. LogOff(l) \in LogType /\ LogOn(l) \in LogType /\ LogPerf(l) \in LogType
  BY DEF LogOff, LogOn, LogPerf, SetLogging, LogType
<1>2. LogSet(l, val) \in LogType
  <2>1. n \in Nat
    BY SetDefaultAssumption
  <2> HIDE DEF n
  <2>4. 1 + n \in Nat
    BY <2>1
  <2>2. set \in LogType
    BY <2>4 DEF SetLogging, LogType
  <2>3. LogSet(l, val) = [set EXCEPT !.count_val = n]
    BY DEF LogSet, n
  <2> HIDE DEF set
  <2> QED BY <2>1, <2>2, <2>3 DEF LogType
<1>3. Push(l, FALSE) \in LogType /\ Push(l, TRUE) \in LogType
  BY PushType
<1> QED BY <1>1, <1>2, <1>3, PopType, Zenon DEF DoSyscall

(* What a syscall can turn on.                                              *)
LEMMA DoSyscallEffect ==
  ASSUME NEW l \in LogType, NEW no \in Int, NEW val \in Nat
  PROVE  LET m == DoSyscall(l, no, val)
         IN  /\ m.log_this = l.log_this /\ m.maybe_log = l.maybe_log
             /\ m.log_unused = l.log_unused
             /\ m.do_log => l.do_log \/ no \in {1, 3, 10, 11}
             /\ m.perf_only => l.perf_only \/ no \in {2, 11}
<1>1. CASE no = 11
  BY <1>1 DEF DoSyscall, Pop, SetLogging, LogType
<1>2. CASE no \in {9, 10}
  BY <1>2 DEF DoSyscall, Push, SetLogging, LogType
<1>3. CASE no \notin {9, 10, 11}
  BY <1>3 DEF DoSyscall, LogOff, LogOn, LogPerf, LogSet, SetLogging, LogType
<1> QED BY <1>1, <1>2, <1>3

(* States that only log with a meter on are saved when LOG_PERF is in force.*)
PerfSaved(l) == \E k \in DOMAIN l.stack : l.stack[k].perf

LEMMA SavedStates ==
  ASSUME NEW l \in LogType, NEW no \in Int, NEW val \in Nat
  PROVE  LET m == DoSyscall(l, no, val)
         IN  /\ PerfSaved(m) => PerfSaved(l) \/ l.perf_only
             /\ m.perf_only => PerfSaved(l) \/ l.perf_only \/ no = 2
<1>1. CASE no = 11
  <2>1. CASE l.stack = << >>
    BY <1>1, <2>1 DEF DoSyscall, Pop
  <2>2. CASE l.stack # << >>
    <3> DEFINE rest == SubSeq(l.stack, 1, Len(l.stack) - 1)
    <3>1. Pop(l).perf_only = l.stack[Len(l.stack)].perf /\ Pop(l).stack = rest
      BY <2>2 DEF Pop, SetLogging, LogType
    <3>2. Len(l.stack) \in DOMAIN l.stack
      BY <2>2, TopType DEF LogType
    <3>3. \A k \in DOMAIN rest : k \in DOMAIN l.stack /\ rest[k] = l.stack[k]
      BY <2>2, TopType DEF LogType
    <3>4. DoSyscall(l, no, val) = Pop(l)
      BY <1>1 DEF DoSyscall
    <3> HIDE DEF rest
    <3> QED BY <3>1, <3>2, <3>3, <3>4 DEF PerfSaved
  <2> QED BY <2>1, <2>2
<1>2. CASE no \in {9, 10}
  <2> DEFINE slot == [on |-> l.do_log, perf |-> l.perf_only,
                      count_val |-> l.count_val, countdown |-> l.countdown]
             new  == Append(l.stack, slot)
  <2>1. DoSyscall(l, no, val) = l
        \/ (/\ DoSyscall(l, no, val).stack = new
            /\ DoSyscall(l, no, val).perf_only = FALSE)
    BY <1>2 DEF DoSyscall, Push, SetLogging, LogType
  <2>2. \A k \in DOMAIN new : \/ k \in DOMAIN l.stack /\ new[k] = l.stack[k]
                              \/ new[k] = slot
    BY DEF LogType
  <2> QED BY <2>1, <2>2, SMTT(30) DEF PerfSaved
<1>3. CASE no \notin {9, 10, 11}
  BY <1>3 DEF DoSyscall, LogOff, LogOn, LogPerf, LogSet, SetLogging, LogType,
              PerfSaved
<1> QED BY <1>1, <1>2, <1>3

LEMMA CountDownType ==
  ASSUME NEW l \in LogType, NEW counts \in BOOLEAN
  PROVE  LET m == CountDown(l, counts)
         IN  /\ m \in LogType
             /\ m.do_log => l.do_log
             /\ m.perf_only = l.perf_only /\ m.stack = l.stack
             /\ m.log_this = l.log_this /\ m.log_unused = l.log_unused
             /\ m.maybe_log = l.maybe_log
<1> DEFINE a == [l EXCEPT !.countdown = @ - 1]
           b == [a EXCEPT !.do_log = @ /\ l.countdown # 1]
<1>1. CountDown(l, counts) = IF counts /\ l.countdown # 0 THEN b ELSE l
  BY DEF CountDown
<1>2. CASE counts /\ l.countdown # 0
  <2>1. l.countdown - 1 \in Nat
    BY <1>2 DEF LogType
  <2>2. /\ a \in LogType /\ a.do_log = l.do_log
        /\ a.perf_only = l.perf_only /\ a.stack = l.stack
        /\ a.log_this = l.log_this /\ a.log_unused = l.log_unused
        /\ a.maybe_log = l.maybe_log
    BY <2>1 DEF LogType
  <2> HIDE DEF a
  <2>3. (a.do_log /\ l.countdown # 1) \in BOOLEAN
    OBVIOUS
  <2> QED BY <1>1, <1>2, <2>2, <2>3 DEF LogType
<1>3. CASE ~(counts /\ l.countdown # 0)
  BY <1>1, <1>3
<1> QED BY <1>2, <1>3

-----------------------------------------------------------------------------
(* The meters                                                              *)

LEMMA UpdateType ==
  ASSUME NEW mm \in Extremes, NEW x \in Int
  PROVE  Update(mm, x) \in Extremes
  BY DEF Update, Extremes

LEMMA Remainder ==
  ASSUME NEW x \in Int
  PROVE  x % DWord \in Nat
  BY DWordAssumption

ProgType == [n_insns : Nat, n_cycles : Nat]

LEMMA CallCostsType ==
  ASSUME NEW p \in MeterType, NEW q \in PerfType, NEW at \in ProgType,
         NEW s \in Nat
  PROVE  LET r == CallCosts(p, q, at, s)
         IN  r \in MeterType /\ r.on = p.on
<1> DEFINE c == p.call_only.ticks + at.n_cycles - q.tick
<1>1. c % DWord \in Nat
  BY Remainder DEF MeterType, ProgType, PerfType
<1> DEFINE a == [p EXCEPT !.call_only.insns = @ + 1]
           b == [a EXCEPT !.call_only.ticks = c % DWord]
<1>2. a \in MeterType /\ a.on = p.on /\ a.call_only.ticks = p.call_only.ticks
  BY DEF MeterType
<1>3. CallCosts(p, q, at, s) \in {b, p}
  BY DEF CallCosts
<1> HIDE DEF a, c
<1>4. b \in MeterType /\ b.on = p.on
  BY <1>1, <1>2 DEF MeterType
<1> HIDE DEF b
<1> QED BY <1>3, <1>4

LEMMA StopType ==
  ASSUME NEW p \in MeterType, NEW q \in PerfType, NEW at \in ProgType
  PROVE  LET r == Stop(p, q, at)
         IN  r \in MeterType /\ (r.on => p.on)
<1> DEFINE ticks == IF p.call_only.sp # IntMax THEN p.call_only.ticks
                    ELSE q.tick - p.tick_start
           insns == IF p.call_only.sp # IntMax THEN p.call_only.insns
                    ELSE at.n_insns - 1 - p.insn_start
           a == [p EXCEPT !.on = FALSE]
           b == [a EXCEPT !.ticks = (@ + ticks) % DWord]
           c == [b EXCEPT !.insns = @ + insns]
           d == [c EXCEPT !.tick = Update(@, ticks)]
           e == [d EXCEPT !.insn = Update(@, insns)]
<1>1. ticks \in Int /\ insns \in Int
  BY DEF MeterType, ProgType, PerfType
<1>2. Stop(p, q, at) = IF p.valid = "start" /\ p.on THEN e ELSE p
  BY DEF Stop
<1> HIDE DEF ticks, insns
<1>3. a \in MeterType /\ ~a.on
  BY DEF MeterType
<1> HIDE DEF a
<1>4. b \in MeterType /\ ~b.on
  BY <1>1, <1>3, Remainder DEF MeterType
<1> HIDE DEF b
<1>5. c \in MeterType /\ ~c.on
  BY <1>1, <1>4 DEF MeterType
<1> HIDE DEF c
<1>6. d \in MeterType /\ ~d.on
  BY <1>1, <1>5, UpdateType DEF MeterType
<1> HIDE DEF d
<1>7. e \in MeterType /\ ~e.on
  BY <1>1, <1>6, UpdateType DEF MeterType
<1> HIDE DEF e
<1> QED BY <1>2, <1>7

LEMMA DumpWatchType ==
  ASSUME NEW p \in MeterType, NEW s \in Nat
  PROVE  /\ Dump(p) \in MeterType /\ Dump(p).on = p.on
         /\ Watch(p, s) \in MeterType /\ Watch(p, s).on = p.on
<1>1. Dump(p) \in MeterType /\ Dump(p).on = p.on
  BY DEF Dump, MeterType
<1>2. Update(p.sp, s) \in Extremes
  BY UpdateType DEF MeterType
<1> QED BY <1>1, <1>2 DEF Watch, MeterType

LEMMA StatType ==
  ASSUME NEW p \in MeterType
  PROVE  Stat(p) \in MeterType /\ (Stat(p).on => p.on)
<1>1. CASE p.valid = "none"
  <2> DEFINE a == [p EXCEPT !.valid = "stat"]
             b == [a EXCEPT !.on = FALSE]
             c == [b EXCEPT !.n = 1]
  <2>1. Stat(p) = c
    BY <1>1 DEF Stat
  <2>2. b \in MeterType /\ ~b.on
    BY DEF MeterType
  <2> HIDE DEF b
  <2>3. c \in MeterType /\ ~c.on
    BY <2>2 DEF MeterType
  <2> QED BY <2>1, <2>3
<1>2. CASE p.valid = "stat"
  <2>1. Stat(p) = [p EXCEPT !.n = @ + 1]
    BY <1>2 DEF Stat
  <2> QED BY <2>1 DEF MeterType
<1>3. CASE p.valid = "start"
  BY <1>3 DEF Stat
<1> QED BY <1>1, <1>2, <1>3 DEF MeterType

LEMMA StartType ==
  ASSUME NEW p \in MeterType, NEW q, NEW at \in ProgType, NEW s \in Nat, NEW cmd
  PROVE  Start(p, cmd, at, q, s) \in MeterType
<1> DEFINE z == IF p.valid = "none" THEN [UnusedMeter EXCEPT !.valid = "start"]
                ELSE p
           call == [NoCall EXCEPT !.sp = IF cmd = "start_call" THEN s ELSE @]
           a == [z EXCEPT !.on = TRUE]
           b == [a EXCEPT !.n = @ + 1]
           c == [b EXCEPT !.call_only = call]
           d == [c EXCEPT !.insn_start = at.n_insns]
           e == [d EXCEPT !.tick_start = at.n_cycles]
<1>1. NoExtremes \in Extremes /\ IntMax \in Nat
  BY DEF NoExtremes, Extremes, IntMax
<1>2. z \in MeterType
  <2>1. UnusedMeter \in MeterType
    BY <1>1 DEF MeterType, UnusedMeter, NoCall
  <2>2. [UnusedMeter EXCEPT !.valid = "start"] \in MeterType
    BY <2>1 DEF MeterType
  <2> QED BY <2>2
<1>3. call \in [sp : Nat, insns : Nat, ticks : Nat]
  BY <1>1 DEF NoCall
<1>4. Start(p, cmd, at, q, s)
        = IF p.valid = "none" \/ (p.valid = "start" /\ ~p.on) THEN e ELSE p
  BY DEF Start
<1> HIDE DEF z, call
<1>5. a \in MeterType
  BY <1>2 DEF MeterType
<1> HIDE DEF a
<1>6. b \in MeterType
  BY <1>5 DEF MeterType
<1> HIDE DEF b
<1>7. c \in MeterType
  BY <1>3, <1>6 DEF MeterType
<1> HIDE DEF c
<1>8. d \in MeterType
  BY <1>7 DEF MeterType, ProgType
<1> HIDE DEF d
<1>9. e \in MeterType
  BY <1>8 DEF MeterType, ProgType
<1> HIDE DEF e
<1> QED BY <1>4, <1>9

Starts(q) == q.cmd \in {"start", "start_call"}

(* Only a start command switches a meter on.                                *)
LEMMA ServeMeterType ==
  ASSUME NEW p \in MeterType, NEW q \in PerfType, NEW at \in ProgType,
         NEW s \in Nat, NEW asked \in BOOLEAN
  PROVE  /\ ServeMeter(p, asked, q, at, s) \in MeterType
         /\ ServeMeter(p, asked, q, at, s).on => p.on \/ (asked /\ Starts(q))
<1> DEFINE p1 == CallCosts(p, q, at, s)
           p2 == IF asked /\ q.cmd \in {"stop", "dump"} THEN Stop(p1, q, at) ELSE p1
           p3 == IF asked /\ q.cmd = "dump" THEN Dump(p2) ELSE p2
           p4 == Watch(p3, s)
<1>1. p1 \in MeterType /\ p1.on = p.on
  BY CallCostsType
<1> HIDE DEF p1
<1>2. p2 \in MeterType /\ (p2.on => p.on)
  BY <1>1, StopType
<1> HIDE DEF p2
<1>3. p3 \in MeterType /\ (p3.on => p.on)
  BY <1>2, DumpWatchType
<1> HIDE DEF p3
<1>4. p4 \in MeterType /\ (p4.on => p.on)
  BY <1>3, DumpWatchType
<1>5. ServeMeter(p, asked, q, at, s)
        = CASE asked /\ q.cmd \in {"start", "start_call"} -> Start(p4, q.cmd, at, q, s)
            [] asked /\ q.cmd = "stat" -> Stat(p4)
            [] OTHER -> p4
  BY DEF ServeMeter, p1, p2, p3
<1> HIDE DEF p4
<1>6. Start(p4, q.cmd, at, q, s) \in MeterType
  BY <1>4, StartType
<1>7. Stat(p4) \in MeterType /\ (Stat(p4).on => p4.on)
  BY <1>4, StatType
<1> QED BY <1>4, <1>5, <1>6, <1>7 DEF Starts

(* Nothing is on afterwards that was not on or is being started.            *)
LEMMA ServeMetersType ==
  ASSUME NEW ms \in [Meters -> MeterType], NEW q \in PerfType,
         NEW at \in ProgType, NEW s \in Nat
  PROVE  LET r == ServeMeters(ms, q, at, s)
         IN  /\ r \in [Meters -> MeterType]
             /\ AnyOn(r) => AnyOn(ms) \/ (q.pmask # {} /\ Starts(q))
<1>1. CASE Idle(q)
  BY <1>1 DEF ServeMeters
<1>2. CASE ~Idle(q)
  <2> DEFINE r == [i \in Meters |-> ServeMeter(ms[i], i \in q.pmask, q, at, s)]
  <2>1. \A i \in Meters :
          /\ r[i] \in MeterType
          /\ r[i].on => ms[i].on \/ (i \in q.pmask /\ Starts(q))
    <3> SUFFICES ASSUME NEW i \in Meters
                 PROVE  /\ r[i] \in MeterType
                        /\ r[i].on => ms[i].on \/ (i \in q.pmask /\ Starts(q))
      OBVIOUS
    <3>1. ms[i] \in MeterType /\ (i \in q.pmask) \in BOOLEAN
      OBVIOUS
    <3>2. r[i] = ServeMeter(ms[i], i \in q.pmask, q, at, s)
      OBVIOUS
    <3> HIDE DEF r
    <3>3. /\ ServeMeter(ms[i], i \in q.pmask, q, at, s) \in MeterType
          /\ ServeMeter(ms[i], i \in q.pmask, q, at, s).on =>
               ms[i].on \/ (i \in q.pmask /\ Starts(q))
      BY ONLY <3>1, ServeMeterType, q \in PerfType, at \in ProgType, s \in Nat, Zenon
    <3> QED BY <3>2, <3>3
  <2>2. ServeMeters(ms, q, at, s) = r
    BY <1>2 DEF ServeMeters
  <2>3. r \in [Meters -> MeterType]
    BY <2>1
  <2> HIDE DEF r
  <2> QED BY <2>1, <2>2, <2>3 DEF AnyOn
<1> QED BY <1>1, <1>2

LEMMA PerfInstructionType ==
  ASSUME NEW q \in PerfType, NEW ms \in [Meters -> MeterType],
         NEW at \in ProgType, NEW s \in Nat
  PROVE  LET r == PerfInstruction(q, ms, at, s)
         IN  /\ r \in PerfType
             /\ ~r.will_be_on /\ r.pmask = {}
             /\ r.on = IF Idle(q) THEN q.on ELSE AnyOn(ms)
<1> DEFINE a == [q EXCEPT !.will_be_on = FALSE]
           b == [a EXCEPT !.sp = s]
           c == [b EXCEPT !.tick = at.n_cycles % DWord]
           d == [c EXCEPT !.pmask = {}]
           e == [d EXCEPT !.on = AnyOn(ms)]
           f == [e EXCEPT !.n_dumps = @ + IF q.cmd = "dump" THEN 1 ELSE 0]
<1>1. AnyOn(ms) \in BOOLEAN /\ at.n_cycles % DWord \in Nat
  BY Remainder DEF AnyOn, ProgType
<1>2. PerfInstruction(q, ms, at, s) = IF Idle(q) THEN c ELSE f
  BY DEF PerfInstruction
<1>3. a \in PerfType /\ ~a.will_be_on /\ a.pmask = q.pmask /\ a.on = q.on
  BY DEF PerfType
<1> HIDE DEF a
<1>4. b \in PerfType /\ ~b.will_be_on /\ b.pmask = q.pmask /\ b.on = q.on
  BY <1>3 DEF PerfType
<1> HIDE DEF b
<1>5. c \in PerfType /\ ~c.will_be_on /\ c.pmask = q.pmask /\ c.on = q.on
  BY <1>1, <1>4 DEF PerfType
<1> HIDE DEF c
<1>6. d \in PerfType /\ ~d.will_be_on /\ d.pmask = {}
  BY <1>5 DEF PerfType
<1> HIDE DEF d
<1>7. e \in PerfType /\ ~e.will_be_on /\ e.pmask = {} /\ e.on = AnyOn(ms)
  BY <1>1, <1>6 DEF PerfType
<1> HIDE DEF e
<1>8. f \in PerfType /\ ~f.will_be_on /\ f.pmask = {} /\ f.on = AnyOn(ms)
  BY <1>7 DEF PerfType
<1> HIDE DEF f
<1> QED BY <1>2, <1>5, <1>8 DEF Idle

-----------------------------------------------------------------------------
(* log_dump_line                                                           *)

StateType == [log : LogType, perf : PerfType, meters : [Meters -> MeterType],
              lines : Seq(BOOLEAN), fatal : BOOLEAN]

LEMMA StateIntro ==
  ASSUME NEW a \in LogType, NEW b \in PerfType, NEW c \in [Meters -> MeterType],
         NEW d \in Seq(BOOLEAN), NEW e \in BOOLEAN
  PROVE  [log |-> a, perf |-> b, meters |-> c, lines |-> d, fatal |-> e]
           \in StateType
  BY DEF StateType

Metered(st) == st.perf.on \/ st.perf.will_be_on

LEMMA LogDumpLineType ==
  ASSUME need \in [perf : BOOLEAN, logging : BOOLEAN],
         NEW st \in StateType, NEW counts \in BOOLEAN, NEW at \in ProgType,
         NEW s \in Nat, NEW text \in BOOLEAN
  PROVE  LogDumpLine(st, counts, at, s, text) \in StateType
<1> DEFINE l == CountDown(st.log, counts)
           on == Metered(st)
           served == ServeMeters(st.meters, st.perf, at, s)
           r == LogDumpLine(st, counts, at, s, text)
<1>0. /\ st.log \in LogType /\ st.perf \in PerfType /\ st.fatal \in BOOLEAN
      /\ st.meters \in [Meters -> MeterType] /\ st.lines \in Seq(BOOLEAN)
  BY DEF StateType
<1>1. l \in LogType
  BY <1>0, CountDownType
<1>2. on \in BOOLEAN
  BY <1>0 DEF Metered, PerfType
<1>3. served \in [Meters -> MeterType]
  BY <1>0, ServeMetersType
<1>4. PerfInstruction(st.perf, served, at, s) \in PerfType
  BY <1>0, <1>3, PerfInstructionType
<1>5. r = [log    |-> DumpLine(l, on),
           meters |-> IF need.perf THEN served ELSE st.meters,
           perf   |-> IF need.perf THEN PerfInstruction(st.perf, served, at, s)
                      ELSE st.perf,
           lines  |-> IF Prints(l, on) THEN Append(st.lines, text) ELSE st.lines,
           fatal  |-> st.fatal \/ Fatal(l, on)]
  BY DEF LogDumpLine, Metered
<1> HIDE DEF l, on, served
<1>6. LogThis(l, on) \in BOOLEAN /\ Prints(l, on) \in BOOLEAN
  BY <1>1, <1>2 DEF LogThis, Prints, LogType
<1>7. DumpLine(l, on) \in LogType
  <2> DEFINE a == [l EXCEPT !.maybe_log = Prints(l, on)]
  <2>1. a \in LogType
    BY <1>1, <1>6 DEF LogType
  <2>2. DumpLine(l, on) = [a EXCEPT !.log_this = LogThis(l, on)]
    BY DEF DumpLine
  <2> HIDE DEF a
  <2> QED BY <2>1, <2>2, <1>6 DEF LogType
<1>8. Append(st.lines, text) \in Seq(BOOLEAN)
  BY <1>0
<1>9. (st.fatal \/ Fatal(l, on)) \in BOOLEAN
  OBVIOUS
<1>10. r.log \in LogType
  BY <1>5, <1>7
<1>11. r.perf \in PerfType
  BY <1>0, <1>4, <1>5
<1>12. r.meters \in [Meters -> MeterType]
  BY <1>0, <1>3, <1>5
<1>13. r.lines \in Seq(BOOLEAN)
  <2>1. r.lines = IF Prints(l, on) THEN Append(st.lines, text) ELSE st.lines
    BY <1>5
  <2> QED BY <1>0, <1>8, <2>1, Zenon
<1>14. r.fatal \in BOOLEAN
  BY <1>5, <1>9
<1>15. r = [log |-> r.log, perf |-> r.perf, meters |-> r.meters,
            lines |-> r.lines, fatal |-> r.fatal]
  BY <1>5
<1> HIDE DEF r
<1>16. r \in StateType
  BY <1>10, <1>11, <1>12, <1>13, <1>14, <1>15, StateIntro
<1> QED BY <1>16 DEF r

(* How st and the state r that log_dump_line makes of it are related.       *)
Dumped(st, counts, text, r) ==
  LET l == CountDown(st.log, counts)
      on == Metered(st)
  IN  /\ r.log.do_log = l.do_log /\ r.log.perf_only = l.perf_only
      /\ r.log.stack = l.stack /\ r.log.countdown = l.countdown
      /\ r.log.log_this <=> LogThis(l, on)
      /\ r.log.maybe_log <=> Prints(l, on)
      /\ r.lines = IF Prints(l, on) THEN Append(st.lines, text) ELSE st.lines
      /\ r.fatal <=> st.fatal \/ Fatal(l, on)

LEMMA LogDumpLineEffect ==
  ASSUME NEW st \in StateType, NEW counts \in BOOLEAN, NEW at \in ProgType,
         NEW s \in Nat, NEW text \in BOOLEAN
  PROVE  Dumped(st, counts, text, LogDumpLine(st, counts, at, s, text))
<1> DEFINE l == CountDown(st.log, counts)
           on == Metered(st)
           r == LogDumpLine(st, counts, at, s, text)
<1>1. l \in LogType
  BY CountDownType DEF StateType
<1>2. /\ r.log = DumpLine(l, on)
      /\ r.lines = IF Prints(l, on) THEN Append(st.lines, text) ELSE st.lines
      /\ r.fatal <=> st.fatal \/ Fatal(l, on)
  BY DEF LogDumpLine, Metered
<1> HIDE DEF l, on, r
<1>3. /\ r.log.do_log = l.do_log /\ r.log.perf_only = l.perf_only
      /\ r.log.stack = l.stack /\ r.log.countdown = l.countdown
      /\ r.log.log_this <=> LogThis(l, on)
      /\ r.log.maybe_log <=> Prints(l, on)
  <2> DEFINE a == [l EXCEPT !.maybe_log = Prints(l, on)]
             b == [a EXCEPT !.log_this = LogThis(l, on)]
  <2>1. r.log = b
    BY <1>2 DEF DumpLine
  <2>2. /\ DOMAIN a = DOMAIN l /\ DOMAIN l = DOMAIN b
        /\ "do_log" \in DOMAIN l /\ "perf_only" \in DOMAIN l
        /\ "stack" \in DOMAIN l /\ "log_this" \in DOMAIN l
        /\ "maybe_log" \in DOMAIN l /\ "countdown" \in DOMAIN l
    BY <1>1 DEF LogType
  <2>3. /\ a.do_log = l.do_log /\ a.perf_only = l.perf_only
        /\ a.stack = l.stack /\ a.countdown = l.countdown
        /\ (a.maybe_log <=> Prints(l, on))
    BY <2>2
  <2> HIDE DEF a
  <2> QED BY <2>1, <2>2, <2>3
<1> QED BY <1>2, <1>3 DEF l, on, r, Dumped

(* What the meters, served, leave switched on.                              *)
LEMMA LogDumpLinePerf ==
  ASSUME need \in [perf : BOOLEAN, logging : BOOLEAN], need.perf,
         NEW st \in StateType, NEW counts \in BOOLEAN, NEW at \in ProgType,
         NEW s \in Nat, NEW text \in BOOLEAN,
         AnyOn(st.meters) => st.perf.on,
         st.perf.pmask # {} /\ Starts(st.perf) => st.perf.will_be_on
  PROVE  LET r == LogDumpLine(st, counts, at, s, text)
         IN  /\ ~r.perf.will_be_on /\ r.perf.pmask = {}
             /\ AnyOn(r.meters) => r.perf.on
             /\ r.perf.on => Metered(st)
<1> DEFINE served == ServeMeters(st.meters, st.perf, at, s)
           r == LogDumpLine(st, counts, at, s, text)
<1>1. st.perf \in PerfType /\ st.meters \in [Meters -> MeterType]
  BY DEF StateType
<1>2. r.meters = served /\ r.perf = PerfInstruction(st.perf, served, at, s)
  BY DEF LogDumpLine
<1>3. /\ served \in [Meters -> MeterType]
      /\ AnyOn(served) => AnyOn(st.meters) \/ (st.perf.pmask # {} /\ Starts(st.perf))
  BY <1>1, ServeMetersType
<1>4. Idle(st.perf) => served = st.meters
  BY DEF ServeMeters
<1> HIDE DEF served, r
<1>5. /\ ~r.perf.will_be_on /\ r.perf.pmask = {}
      /\ r.perf.on = IF Idle(st.perf) THEN st.perf.on ELSE AnyOn(served)
  BY <1>1, <1>2, <1>3, PerfInstructionType
<1>6. CASE Idle(st.perf)
  BY <1>2, <1>4, <1>5, <1>6 DEF Metered, r
<1>7. CASE ~Idle(st.perf)
  BY <1>2, <1>3, <1>5, <1>7 DEF Metered, r
<1> QED BY <1>6, <1>7

-----------------------------------------------------------------------------
(* The invariant                                                           *)

(* log_init asks for logging and for the meters whenever a syscall of the   *)
(* program can turn them on.                                                *)
Known ==
  /\ 5 \in have => need.perf
  /\ have \cap {1, 3, 10, 11} # {} => need.logging
  /\ 2 \in have /\ need.perf => need.logging

(* Between two instructions: what is on was asked for by a syscall the      *)
(* program has, no request is pending, and when the next instruction is to  *)
(* be logged as things are, its text will be collected.                     *)
Ready ==
  /\ log.do_log => need.logging
  /\ log.perf_only \/ PerfSaved(log) => 2 \in have
  /\ perf.on => need.perf
  /\ ~perf.will_be_on /\ perf.pmask = {}
  /\ AnyOn(meters) => perf.on
  /\ log.log_this => log.maybe_log /\ need.logging
  /\ LogThis(log, perf.on) => log.maybe_log

Inv == /\ TypeOK
       /\ Known
       /\ status = "RUNNING" => Ready
       /\ PrintedLinesHaveText

(* The stack pointer is a number of two bytes.                              *)
LEMMA SpRange ==
  /\ SpByte * SpByte \in Nat \ {0}
  /\ SpByte * SpByte - 1 \in 0 .. SpByte * SpByte - 1
  /\ \A h, l \in 0 .. SpByte - 1 : SpByte * h + l \in 0 .. SpByte * SpByte - 1
  /\ \A s \in 0 .. SpByte * SpByte - 1 : s \div SpByte \in 0 .. SpByte - 1
<1> DEFINE p == SpByte * SpByte
<1>1. SpByte \in Nat /\ SpByte >= 1
  BY BoundsAssumption
<1>2. p \in Nat /\ p >= SpByte
  <2>1. SpByte * 1 <= p /\ SpByte * 1 = SpByte
    BY <1>1, ProductMonotone
  <2>2. p \in Nat
    BY <1>1, ProductNat
  <2> QED BY <2>1, <2>2
<1>3. SpByte * (SpByte - 1) = p - SpByte
  BY <1>1
<1>4. ASSUME NEW h \in 0 .. SpByte - 1, NEW l \in 0 .. SpByte - 1
      PROVE  SpByte * h + l \in 0 .. p - 1
  <2> DEFINE x == SpByte * h
  <2>1. x \in Nat
    BY <1>1, ProductNat
  <2>2. x <= p - SpByte
    BY <1>1, <1>3, ProductMonotone
  <2>3. x + l \in 0 .. p - 1
    <3> HIDE DEF x, p
    <3> QED BY <1>1, <1>2, <2>1, <2>2
  <2> QED BY <2>3
<1>5. ASSUME NEW s \in 0 .. p - 1
      PROVE  s \div SpByte \in 0 .. SpByte - 1
  <2> DEFINE q == s \div SpByte
             x == SpByte * q
  <2>1. s \in Nat
    BY <1>2
  <2>2. q \in Nat /\ s % SpByte \in Nat /\ s = x + (s % SpByte)
    BY <1>1, <2>1, DivMod
  <2>3. x \in Nat
    BY <1>1, <2>2, ProductNat
  <2>4. x < p
    <3> HIDE DEF q, x, p
    <3> QED BY <1>2, <2>2, <2>3
  <2>5. CASE q >= SpByte
    <3>1. p <= x
      BY <1>1, <2>2, <2>5, ProductMonotone
    <3> HIDE DEF q, x, p
    <3> QED BY <1>2, <2>3, <2>4, <3>1
  <2>6. CASE q < SpByte
    BY <1>1, <2>2, <2>6
  <2> HIDE DEF x
  <2> QED BY <1>1, <2>2, <2>5, <2>6
<1>6. p \in Nat \ {0} /\ p - 1 \in 0 .. p - 1
  <2> HIDE DEF p
  <2> QED BY <1>1, <1>2
<1> QED BY <1>4, <1>5, <1>6 DEF p

LEMMA InitHolds == Init => Inv
<1> SUFFICES ASSUME Init PROVE Inv
  OBVIOUS
<1> USE DEF Init
<1>1. PICK do_log \in BOOLEAN :
        /\ need = [perf |-> NeedPerf(have), logging |-> NeedLogging(do_log, have)]
        /\ log = InitLog(do_log)
  BY Zenon
<1>2. NeedPerf(have) \in BOOLEAN /\ NeedLogging(do_log, have) \in BOOLEAN
  BY DEF NeedPerf, NeedLogging
<1>3. /\ need \in [perf : BOOLEAN, logging : BOOLEAN]
      /\ need.perf <=> NeedPerf(have)
      /\ need.logging <=> NeedLogging(do_log, have)
  BY <1>1, <1>2
<1>4. /\ log \in LogType /\ log.do_log = do_log /\ ~log.perf_only
      /\ ~log.log_this /\ log.maybe_log /\ log.stack = << >>
  BY <1>1 DEF InitLog, LogType
<1>5. perf \in PerfType /\ ~perf.on /\ ~perf.will_be_on /\ perf.pmask = {}
  BY DEF InitPerf, PerfType, Commands
<1>6. meters \in [Meters -> MeterType] /\ ~AnyOn(meters)
  <2>1. UnusedMeter \in MeterType /\ ~UnusedMeter.on
    BY DEF UnusedMeter, MeterType, NoCall, NoExtremes, Extremes, IntMax
  <2> QED BY <2>1 DEF AnyOn
<1>7. SpByte * SpByte - 1 \in 0 .. SpByte * SpByte - 1 /\ SpByte * SpByte \in Nat
  BY SpRange
<1>8. sp \in 0 .. SpByte * SpByte - 1
  BY <1>7
<1>9. glitch \in [left : 0 .. 4, sp : 0 .. SpByte * SpByte - 1]
  <2>2. 0 \in 0 .. 4 /\ 0 \in 0 .. SpByte * SpByte - 1
    BY <1>7
  <2> QED BY <2>2
<1>10. TypeOK
  BY <1>3, <1>4, <1>5, <1>6, <1>8, <1>9 DEF TypeOK
<1>11. Known
  BY <1>3 DEF Known, NeedPerf, NeedLogging
<1>12. ~PerfSaved(log)
  BY <1>4 DEF PerfSaved
<1>13. Ready
  BY <1>3, <1>4, <1>5, <1>6, <1>12 DEF Ready, NeedLogging, LogThis
<1>14. PrintedLinesHaveText
  BY DEF PrintedLinesHaveText
<1> QED BY <1>10, <1>11, <1>13, <1>14 DEF Inv

-----------------------------------------------------------------------------
(* One instruction                                                         *)

(* The assumptions under which instruction i is executed.                   *)
Executes(i) == Inv /\ status = "RUNNING" /\ i \in Instructions
               /\ (i.no # -1 => i.no \in have)

LEMMA ExecutedType ==
  ASSUME NEW i, Executes(i)
  PROVE  /\ Executed(i) \in StateType
         /\ i.no \in Int /\ i.n \in Nat
         /\ Executed(i).meters = meters /\ Executed(i).lines = << >>
         /\ ~Executed(i).fatal
<1> DEFINE begun == AddInstr(log, i.no, need.logging)
           l == DoSyscall(begun, i.no, i.n)
           q == IF i.no = 5 THEN PerfCmd(perf, i.cmd, i.n) ELSE perf
<1>1. TypeOK /\ i \in Instructions
  BY DEF Executes, Inv
<1>2. i.no \in Int /\ i.n \in Nat
  BY <1>1, InstructionsAssumption DEF InsnType
<1>3. begun \in LogType
  <2>1. (~(log.maybe_log \/ i.no \in SysMask) \/ ~need.logging) \in BOOLEAN
    OBVIOUS
  <2> QED BY <1>1, <2>1 DEF TypeOK, LogType, AddInstr
<1>4. l \in LogType
  BY <1>2, <1>3, DoSyscallType
<1>5. q \in PerfType
  <2>1. CASE i.no = 5
    <3> DEFINE on == i.cmd \in {"start", "start_call"}
               mask == IF i.n = 0 THEN Meters ELSE {i.n}
               a == [perf EXCEPT !.pmask = mask]
               b == [a EXCEPT !.will_be_on = on]
    <3>1. i.cmd \in Commands /\ mask \in SUBSET Meters /\ on \in BOOLEAN
      BY <1>1, <2>1, InstructionsAssumption
    <3>2. q = [b EXCEPT !.cmd = i.cmd]
      BY <2>1 DEF PerfCmd
    <3> HIDE DEF mask, on
    <3>3. a \in PerfType
      BY <1>1, <3>1 DEF TypeOK, PerfType
    <3> HIDE DEF a
    <3>4. b \in PerfType
      BY <3>1, <3>3 DEF PerfType
    <3> HIDE DEF b
    <3> QED BY <3>1, <3>2, <3>4 DEF PerfType
  <2>2. CASE i.no # 5
    BY <1>1, <2>2 DEF TypeOK
  <2> QED BY <2>1, <2>2
<1>6. /\ Executed(i) = [log |-> l, perf |-> q, meters |-> meters,
                        lines |-> << >>, fatal |-> FALSE]
      /\ Executed(i).meters = meters /\ Executed(i).lines = << >>
      /\ ~Executed(i).fatal
  BY DEF Executed
<1> HIDE DEF l, q
<1>7. Executed(i) \in StateType
  <2>1. meters \in [Meters -> MeterType] /\ << >> \in Seq(BOOLEAN)
    BY <1>1 DEF TypeOK
  <2> QED BY <1>4, <1>5, <1>6, <2>1, StateIntro
<1> QED BY <1>2, <1>6, <1>7

(* What is in force when log_dump_line has counted the instruction down: it *)
(* may need the text only if log_add_instr saw that it might.               *)
LEMMA TextWhenNeeded ==
  ASSUME NEW i, Executes(i), NEW counts \in BOOLEAN
  PROVE  LET st == Executed(i)
             l == CountDown(st.log, counts)
             on == Metered(st)
         IN  /\ l.do_log => need.logging
             /\ l.perf_only \/ PerfSaved(l) => 2 \in have
             /\ l.log_unused = st.log.log_unused
             /\ LogThis(l, on) => need.logging
             /\ Prints(l, on) => ~st.log.log_unused
<1> DEFINE st == Executed(i)
           begun == AddInstr(log, i.no, need.logging)
           m == st.log
           l == CountDown(m, counts)
           on == Metered(st)
<1>1. /\ TypeOK /\ Known /\ Ready /\ i.no \in Int /\ i.n \in Nat
      /\ st \in StateType /\ (i.no # -1 => i.no \in have)
  BY ExecutedType DEF Executes, Inv
<1>2. /\ begun \in LogType
      /\ begun.do_log = log.do_log /\ begun.perf_only = log.perf_only
      /\ begun.log_this = log.log_this /\ begun.stack = log.stack
      /\ begun.log_unused <=> ~(log.maybe_log \/ i.no \in SysMask) \/ ~need.logging
  <2> DEFINE unused == ~(log.maybe_log \/ i.no \in SysMask) \/ ~need.logging
  <2>1. log \in LogType /\ unused \in BOOLEAN
    BY <1>1 DEF TypeOK
  <2>2. begun = [log EXCEPT !.log_unused = unused]
    BY DEF AddInstr
  <2> HIDE DEF unused
  <2>3. /\ begun \in LogType
        /\ begun.do_log = log.do_log /\ begun.perf_only = log.perf_only
        /\ begun.log_this = log.log_this /\ begun.stack = log.stack
        /\ begun.log_unused = unused
    BY <2>1, <2>2 DEF LogType
  <2> QED BY <2>3 DEF unused
<1>3. m = DoSyscall(begun, i.no, i.n)
  BY DEF Executed
<1>4. /\ m.log_this = log.log_this
      /\ m.log_unused <=> ~(log.maybe_log \/ i.no \in SysMask) \/ ~need.logging
      /\ m.do_log => log.do_log \/ i.no \in {1, 3, 10, 11}
      /\ m.perf_only => log.perf_only \/ i.no \in {2, 11}
  <2> HIDE DEF m, begun
  <2> QED BY <1>1, <1>2, <1>3, DoSyscallEffect
<1>5. /\ PerfSaved(m) => PerfSaved(log) \/ log.perf_only
      /\ m.perf_only => PerfSaved(log) \/ log.perf_only \/ i.no = 2
  <2> HIDE DEF m
  <2>1. /\ PerfSaved(m) => PerfSaved(begun) \/ begun.perf_only
        /\ m.perf_only => PerfSaved(begun) \/ begun.perf_only \/ i.no = 2
    BY <1>1, <1>2, <1>3, SavedStates
  <2> QED BY <1>2, <2>1 DEF PerfSaved
<1>6. /\ l.do_log => m.do_log
      /\ l.perf_only = m.perf_only /\ l.stack = m.stack
      /\ l.log_this = m.log_this /\ l.log_unused = m.log_unused
  <2>1. m \in LogType
    BY <1>1 DEF StateType
  <2> HIDE DEF m
  <2> QED BY <2>1, CountDownType
<1>7. on => perf.on \/ (i.no = 5 /\ need.perf)
  BY <1>1 DEF Metered, Executed, Ready, Known
<1> HIDE DEF st, m, l, on, begun
<1>8. l.do_log => need.logging
  BY <1>1, <1>4, <1>6 DEF Ready, Known
<1>9. l.perf_only \/ PerfSaved(l) => 2 \in have
  BY <1>1, <1>5, <1>6 DEF Ready, PerfSaved
<1>10. LogThis(l, on) => need.logging
  BY <1>1, <1>7, <1>8, <1>9 DEF LogThis, Ready, Known
<1>11. Prints(l, on) => log.maybe_log \/ i.no \in SysMask
  <2>1. log.log_this => log.maybe_log
    BY <1>1 DEF Ready
  <2>2. l.do_log => log.maybe_log \/ i.no \in SysMask
    BY <1>1, <1>4, <1>6 DEF Ready, LogThis, SysMask
  <2>3. l.perf_only /\ on => log.maybe_log \/ i.no \in SysMask
    BY <1>1, <1>4, <1>6, <1>7 DEF Ready, LogThis, SysMask
  <2> QED BY <1>4, <1>6, <2>1, <2>2, <2>3 DEF Prints, LogThis
<1>12. Prints(l, on) => need.logging
  BY <1>1, <1>4, <1>6, <1>10 DEF Prints, Ready
<1> QED BY <1>4, <1>6, <1>8, <1>9, <1>10, <1>11, <1>12 DEF st, m, l, on

LEMMA StackPointerType ==
  ASSUME NEW i, Executes(i)
  PROVE  /\ NextSP(i) \in 0 .. SpByte * SpByte - 1
         /\ NonglitchSP(i) \in 0 .. SpByte * SpByte - 1
         /\ NonglitchSP(i) \in Nat
         /\ GlitchLeft(i) \in 0 .. 4
<1> DEFINE p == SpByte * SpByte
<1>1. /\ sp \in 0 .. p - 1 /\ glitch.sp \in 0 .. p - 1 /\ glitch.left \in 0 .. 4
      /\ i.n \in Nat /\ i.op \in Ops
  <2>1. TypeOK /\ i \in InsnType
    BY InstructionsAssumption DEF Executes, Inv
  <2> QED BY <2>1 DEF TypeOK, InsnType
<1>2. p \in Nat \ {0} /\ SpByte \in Nat \ {0}
  BY SpRange, BoundsAssumption
<1>3. sp \div SpByte \in 0 .. SpByte - 1
  BY <1>1, SpRange
<1>4. sp % SpByte \in 0 .. SpByte - 1 /\ i.n % SpByte \in 0 .. SpByte - 1
  <2>1. sp \in Nat
    BY <1>1
  <2> QED BY <1>1, <1>2, <2>1, DivMod
<1>5. SpByte * (sp \div SpByte) + (i.n % SpByte) \in 0 .. p - 1
  BY <1>3, <1>4, SpRange, Zenon
<1>6. SpByte * (i.n % SpByte) + (sp % SpByte) \in 0 .. p - 1
  BY <1>4, SpRange, Zenon
<1>7. /\ (sp - 1) % p \in 0 .. p - 1 /\ (sp + 1) % p \in 0 .. p - 1
      /\ (sp - 2) % p \in 0 .. p - 1 /\ (sp + 2) % p \in 0 .. p - 1
  <2> HIDE DEF p
  <2> QED BY <1>1, <1>2
<1>8. NextSP(i) \in 0 .. p - 1
  BY <1>1, <1>5, <1>6, <1>7, Zenon DEF NextSP, Hi, Lo
<1>9. GlitchLeft(i) \in 0 .. 4
  BY <1>1 DEF GlitchLeft
<1> HIDE DEF p
<1>10. NonglitchSP(i) \in 0 .. p - 1
  BY <1>1, <1>8 DEF NonglitchSP
<1>11. NonglitchSP(i) \in Nat
  BY <1>2, <1>10
<1> QED BY <1>8, <1>9, <1>10, <1>11 DEF p

(* The instruction as log_dump_line leaves it.                              *)
LEMMA LoggedHolds ==
  ASSUME NEW i, Executes(i), NEW at \in ProgType
  PROVE  LET r == Logged(i, at)
         IN  /\ r \in StateType
             /\ ~r.fatal
             /\ r.lines \in {<< >>, << TRUE >>}
             /\ ~Fatal(r.log, Metered(r))
             /\ r.log.do_log => need.logging
             /\ r.log.perf_only \/ PerfSaved(r.log) => 2 \in have
             /\ r.perf.on => need.perf
             /\ ~r.perf.will_be_on /\ r.perf.pmask = {}
             /\ AnyOn(r.meters) => r.perf.on
             /\ r.log.log_this => r.log.maybe_log /\ need.logging
             /\ LogThis(r.log, r.perf.on) => r.log.log_this /\ r.log.maybe_log
<1> DEFINE st == Executed(i)
           counts == i.op # "exit"
           text == ~st.log.log_unused
           s == NonglitchSP(i)
           l == CountDown(st.log, counts)
           on == Metered(st)
           r == Logged(i, at)
<1>1. /\ TypeOK /\ Known /\ Ready /\ (i.no # -1 => i.no \in have)
      /\ need \in [perf : BOOLEAN, logging : BOOLEAN]
  BY DEF Executes, Inv, TypeOK
<1>2. /\ st \in StateType /\ st.lines = << >> /\ ~st.fatal /\ st.meters = meters
      /\ i.no \in Int
  BY ExecutedType
<1>3. counts \in BOOLEAN /\ text \in BOOLEAN /\ s \in Nat
  BY StackPointerType
<1>4. r = LogDumpLine(st, counts, at, s, text)
  BY DEF Logged
<1>5. /\ l.do_log => need.logging
      /\ l.perf_only \/ PerfSaved(l) => 2 \in have
      /\ l.log_unused = st.log.log_unused
      /\ LogThis(l, on) => need.logging
      /\ Prints(l, on) => text
  BY <1>3, TextWhenNeeded
<1>6. st.perf.pmask # {} /\ Starts(st.perf) => st.perf.will_be_on
  BY <1>1 DEF Executed, Ready, Starts, PerfCmd, TypeOK, PerfType
<1>7. st.perf.on = perf.on /\ (AnyOn(st.meters) => st.perf.on)
  BY <1>1, <1>2 DEF Executed, Ready, PerfCmd, TypeOK, PerfType
<1>8. ~need.perf => st.perf = perf
  BY <1>1 DEF Executed, Known
<1>9. ~need.perf => r.perf = st.perf /\ r.meters = st.meters
  BY <1>4 DEF LogDumpLine
<1> HIDE DEF st, counts, text, s, l, on, r
<1>10. r \in StateType
  BY <1>1, <1>2, <1>3, <1>4, LogDumpLineType
<1>11. /\ r.log.do_log = l.do_log /\ r.log.perf_only = l.perf_only
       /\ r.log.stack = l.stack
       /\ r.log.log_this <=> LogThis(l, on)
       /\ r.log.maybe_log <=> Prints(l, on)
       /\ r.lines = IF Prints(l, on) THEN Append(st.lines, text) ELSE st.lines
       /\ r.fatal <=> st.fatal \/ Fatal(l, on)
  <2>1. Dumped(st, counts, text, r)
    BY <1>2, <1>3, <1>4, LogDumpLineEffect, Zenon
  <2> QED BY <2>1 DEF Dumped, l, on
<1>12. ~Fatal(l, on)
  BY <1>5 DEF Fatal, Prints, text
<1>13. r.lines \in {<< >>, << TRUE >>}
  <2>1. CASE Prints(l, on)
    <3>1. text = TRUE
      BY <1>3, <1>5, <2>1
    <3>2. r.lines = Append(<< >>, TRUE)
      BY <1>2, <1>11, <2>1, <3>1
    <3> QED BY <3>2
  <2>2. CASE ~Prints(l, on)
    BY <1>2, <1>11, <2>2
  <2> QED BY <2>1, <2>2
<1>14. /\ ~r.perf.will_be_on /\ r.perf.pmask = {}
       /\ AnyOn(r.meters) => r.perf.on
       /\ r.perf.on => on
       /\ r.perf.on => need.perf
  <2>1. CASE need.perf
    BY <1>1, <1>2, <1>3, <1>4, <1>6, <1>7, <2>1, LogDumpLinePerf DEF on
  <2>2. CASE ~need.perf
    BY <1>1, <1>2, <1>7, <1>8, <1>9, <2>2 DEF Ready, on, Metered
  <2> QED BY <2>1, <2>2
<1>15. r.log.log_unused = l.log_unused
  <2>1. l \in LogType
    BY <1>2, <1>3, CountDownType DEF l, StateType
  <2>2. r.log = DumpLine(l, on)
    BY <1>4 DEF LogDumpLine, Metered, l, on
  <2> QED BY <2>1, <2>2 DEF DumpLine, LogType
<1>16. LogThis(r.log, r.perf.on) => LogThis(l, on)
  BY <1>11, <1>14 DEF LogThis
<1>17. LogThis(l, on) => Prints(l, on)
  BY DEF Prints
<1>18. ~Fatal(r.log, Metered(r))
  BY <1>11, <1>12, <1>14, <1>15 DEF Fatal, LogThis, Metered
<1>19. PerfSaved(r.log) <=> PerfSaved(l)
  BY <1>11 DEF PerfSaved
<1> QED BY <1>2, <1>5, <1>10, <1>11, <1>12, <1>13, <1>14, <1>16, <1>17, <1>18,
           <1>19 DEF r

(* The line leave() adds is the only one without text.                      *)
LEMMA LineWithoutText ==
  ASSUME NEW ls \in {<< >>, << TRUE >>}, NEW ms \in {ls, Append(ls, FALSE)},
         NEW k \in DOMAIN ms, ~ms[k]
  PROVE  ms # ls /\ k = Len(ms)
<1>1. ls \in Seq(BOOLEAN) /\ FALSE \in BOOLEAN
  <2>1. << >> \in Seq(BOOLEAN) /\ << TRUE >> \in Seq(BOOLEAN)
    OBVIOUS
  <2> QED BY <2>1
<1>2. DOMAIN ls = 1 .. Len(ls) /\ Len(ls) \in Nat
  BY <1>1, LenProperties
<1>3. \A j \in DOMAIN ls : ls[j] /\ j = Len(ls)
  <2>1. CASE ls = << >>
    BY <2>1
  <2>2. CASE ls = << TRUE >>
    <3>1. DOMAIN ls = {1} /\ Len(ls) = 1 /\ ls[1] = TRUE
      BY <2>2
    <3> QED BY <3>1
  <2> QED BY <2>1, <2>2
<1>4. CASE ms = ls
  <2>1. ms[k]
    BY <1>3, <1>4, Zenon
  <2> QED BY <2>1
<1>5. CASE ms = Append(ls, FALSE)
  <2>1. /\ Len(ms) = Len(ls) + 1 /\ DOMAIN ms = 1 .. Len(ms)
        /\ \A j \in 1 .. Len(ls) : ms[j] = ls[j]
    BY <1>1, <1>5, AppendProperties
  <2>2. k \notin DOMAIN ls
    BY <1>2, <1>3, <2>1, Zenon
  <2> QED BY <1>2, <2>1, <2>2
<1> QED BY <1>4, <1>5

LEMMA ExecuteHolds ==
  ASSUME Inv, NEW i \in Instructions, NEW c \in Costs, Execute(i, c)
  PROVE  Inv'
<1> DEFINE at == [prog EXCEPT !.n_cycles = @ + c]
           once == Logged(i, at)
           limit == MaxInsns # 0 /\ prog.n_insns >= MaxInsns
           left == i.op # "exit" /\ limit /\ ~once.fatal
           s == NonglitchSP(i)
           last == LastLine(once, at, s)
<1>1. /\ Executes(i) /\ TypeOK /\ Known
      /\ need \in [perf : BOOLEAN, logging : BOOLEAN]
  BY DEF Execute, Executes, Inv, TypeOK
<1>2. at \in ProgType
  <2>1. prog \in ProgType /\ c \in Nat
    BY <1>1, BoundsAssumption DEF TypeOK, ProgType
  <2>2. prog.n_cycles + c \in Nat
    BY <2>1 DEF ProgType
  <2> QED BY <2>1, <2>2 DEF ProgType
<1>3. /\ sp' = NextSP(i)
      /\ glitch' = [left |-> GlitchLeft(i), sp |-> s]
      /\ Becomes(IF left THEN last ELSE once)
      /\ status' = CASE once.fatal     -> "FATAL"
                     [] i.op = "exit"  -> "EXIT"
                     [] left           -> "TIMEOUT"
                     [] OTHER          -> "RUNNING"
      /\ prog' = IF status' = "RUNNING"
                 THEN [at EXCEPT !.n_insns = @ + 1] ELSE at
      /\ have' = have /\ need' = need
  BY DEF Execute
<1> HIDE DEF at
<1>4. /\ once \in StateType
      /\ ~once.fatal
      /\ once.lines \in {<< >>, << TRUE >>}
      /\ ~Fatal(once.log, Metered(once))
      /\ once.log.do_log => need.logging
      /\ once.log.perf_only \/ PerfSaved(once.log) => 2 \in have
      /\ once.perf.on => need.perf
      /\ ~once.perf.will_be_on /\ once.perf.pmask = {}
      /\ AnyOn(once.meters) => once.perf.on
      /\ once.log.log_this => once.log.maybe_log /\ need.logging
      /\ LogThis(once.log, once.perf.on) => once.log.maybe_log
  BY <1>1, <1>2, LoggedHolds
<1>5. /\ NextSP(i) \in 0 .. SpByte * SpByte - 1
      /\ s \in 0 .. SpByte * SpByte - 1 /\ s \in Nat
      /\ GlitchLeft(i) \in 0 .. 4
  BY <1>1, StackPointerType
<1>6. last = LogDumpLine(once, FALSE, at, s, FALSE)
  BY DEF LastLine
<1> HIDE DEF once, s, last, limit
<1>7. last \in StateType
  BY <1>1, <1>2, <1>4, <1>5, <1>6, LogDumpLineType
<1>8. last.lines \in {once.lines, Append(once.lines, FALSE)}
  <2>1. last.lines = IF Prints(CountDown(once.log, FALSE), Metered(once))
                     THEN Append(once.lines, FALSE) ELSE once.lines
    <3>1. FALSE \in BOOLEAN
      OBVIOUS
    <3>2. Dumped(once, FALSE, FALSE, last)
      BY <1>2, <1>4, <1>5, <1>6, <3>1, LogDumpLineEffect, Zenon
    <3> QED BY <3>2 DEF Dumped
  <2> QED BY <2>1
<1> DEFINE new == IF left THEN last ELSE once
<1>9. /\ new \in StateType /\ log' = new.log /\ perf' = new.perf
      /\ meters' = new.meters /\ lines' = new.lines
  BY <1>3, <1>4, <1>7 DEF Becomes
<1>10. /\ status' \in {"RUNNING", "EXIT", "TIMEOUT"}
       /\ left <=> status' = "TIMEOUT"
  <2>1. CASE i.op = "exit"
    BY <1>3, <1>4, <2>1
  <2>2. CASE i.op # "exit" /\ limit
    BY <1>3, <1>4, <2>2
  <2>3. CASE i.op # "exit" /\ ~limit
    BY <1>3, <1>4, <2>3
  <2> QED BY <2>1, <2>2, <2>3
<1>11. prog' \in ProgType
  BY <1>2, <1>3 DEF ProgType
<1> HIDE DEF left
<1>12. TypeOK'
  <2>1. /\ log' \in LogType /\ perf' \in PerfType /\ lines' \in Seq(BOOLEAN)
        /\ meters' \in [Meters -> MeterType]
    <3> HIDE DEF new
    <3> QED BY <1>9 DEF StateType
  <2>2. glitch' \in [left : 0 .. 4, sp : 0 .. SpByte * SpByte - 1]
    BY <1>3, <1>5
  <2>3. sp' \in 0 .. SpByte * SpByte - 1
    BY <1>3, <1>5
  <2>4. /\ have' \in SUBSET Syscalls
        /\ need' \in [perf : BOOLEAN, logging : BOOLEAN]
    BY <1>1, <1>3 DEF TypeOK
  <2>5. status' \in {"RUNNING", "EXIT", "TIMEOUT", "FATAL"}
    BY <1>10
  <2>6. prog' \in [n_insns : Nat, n_cycles : Nat]
    BY <1>11 DEF ProgType
  <2> QED BY ONLY <2>1, <2>2, <2>3, <2>4, <2>5, <2>6 DEF TypeOK, Syscalls
<1>13. Known'
  BY <1>1, <1>3 DEF Known
<1>14. ASSUME status' = "RUNNING"
       PROVE  Ready'
  <2>1. log' = once.log /\ perf' = once.perf /\ meters' = once.meters
    BY <1>9, <1>10, <1>14
  <2>2. PerfSaved(log)' <=> PerfSaved(once.log)
    BY <2>1 DEF PerfSaved
  <2> QED BY <1>3, <1>4, <2>1, <2>2 DEF Ready, AnyOn, LogThis
<1>15. PrintedLinesHaveText'
  <2>1. ASSUME NEW k \in DOMAIN lines', ~lines'[k]
        PROVE  status' = "TIMEOUT" /\ k = Len(lines')
    <3>1. lines' # once.lines => left
      BY <1>9
    <3>2. lines' \in {once.lines, Append(once.lines, FALSE)}
      BY <1>8, <1>9
    <3> HIDE DEF new
    <3>3. lines' # once.lines /\ k = Len(lines')
      BY <1>4, <2>1, <3>2, LineWithoutText, Zenon
    <3> QED BY <1>10, <3>1, <3>3
  <2> QED BY <1>10, <2>1 DEF PrintedLinesHaveText
<1> QED BY <1>12, <1>13, <1>14, <1>15 DEF Inv

LEMMA InvHolds == Spec => []Inv
<1>1. Inv /\ [Next]_vars => Inv'
  <2> SUFFICES ASSUME Inv, [Next]_vars PROVE Inv'
    OBVIOUS
  <2>1. CASE Next
    BY <2>1, ExecuteHolds DEF Next
  <2>2. CASE UNCHANGED vars
    BY <2>2 DEF vars, Inv, TypeOK, Known, Ready, PerfSaved, AnyOn, LogThis,
                PrintedLinesHaveText, Syscalls
  <2> QED BY <2>1, <2>2
<1> QED BY <1>1, InitHolds, PTL DEF Spec

(* log_add_instr, log_dump_line and perf_instruction keep the log, the      *)
(* meters and the stack pointer in their ranges, whatever is executed.      *)
THEOREM TypeCorrect == Spec => []TypeOK
<1>1. Inv => TypeOK
  BY DEF Inv
<1> QED BY <1>1, InvHolds, PTL

(* log_add_instr collects the text of every instruction that log_dump_line  *)
(* then prints: "problem in log_dump_line" is unreachable.                  *)
THEOREM TextOfPrintedLines == Spec => []PrintedLinesHaveText
<1>1. Inv => PrintedLinesHaveText
  BY DEF Inv
<1> QED BY <1>1, InvHolds, PTL

-----------------------------------------------------------------------------
(* The refinement of LogScopes                                             *)

(* LOG_SET turns logging on for as long as it counts, also where it is      *)
(* saved: the end of the count-down then means that logging is off.         *)
Counting(l) ==
  /\ l.countdown > 0 => l.do_log /\ ~l.perf_only
  /\ \A k \in DOMAIN l.stack :
       l.stack[k].countdown > 0 => l.stack[k].on /\ ~l.stack[k].perf

ModeType == [kind : {"on", "off", "count", "perf"}, left : Nat]

LEMMA ModeOfType ==
  ASSUME NEW on \in BOOLEAN, NEW only \in BOOLEAN, NEW n \in Nat
  PROVE  ModeOf(on, only, n) \in ModeType
  BY DEF ModeOf, ModeType

LEMMA SavedModesType ==
  ASSUME NEW l \in LogType
  PROVE  /\ SavedModes(l) \in Seq(ModeType) /\ ModeInForce(l) \in ModeType
         /\ Len(SavedModes(l)) = Len(l.stack)
         /\ \A k \in 1 .. Len(l.stack) :
              SavedModes(l)[k] = ModeOf(l.stack[k].on, l.stack[k].perf,
                                        l.stack[k].countdown)
<1>1. l.stack \in Seq(SlotType) /\ Len(l.stack) \in Nat
  BY DEF LogType
<1>2. ModeInForce(l) \in ModeType
  BY ModeOfType DEF ModeInForce, LogType
<1>3. \A k \in 1 .. Len(l.stack) :
        ModeOf(l.stack[k].on, l.stack[k].perf, l.stack[k].countdown) \in ModeType
  <2>1. \A k \in 1 .. Len(l.stack) : /\ l.stack[k].on \in BOOLEAN
                                     /\ l.stack[k].perf \in BOOLEAN
                                     /\ l.stack[k].countdown \in Nat
    <3>1. \A k \in 1 .. Len(l.stack) : l.stack[k] \in SlotType
      BY <1>1
    <3> QED BY <3>1 DEF SlotType
  <2> TAKE k \in 1 .. Len(l.stack)
  <2> DEFINE a == l.stack[k].on
             b == l.stack[k].perf
             n == l.stack[k].countdown
  <2>2. a \in BOOLEAN /\ b \in BOOLEAN /\ n \in Nat
    BY <2>1
  <2> HIDE DEF a, b, n
  <2>3. ModeOf(a, b, n) \in ModeType
    BY <2>2, ModeOfType
  <2> QED BY <2>3 DEF a, b, n
<1>4. SavedModes(l) \in [1 .. Len(l.stack) -> ModeType]
  BY <1>3 DEF SavedModes
<1>5. SavedModes(l) \in Seq(ModeType)
  BY <1>1, <1>4, SeqDef
<1>6. Len(SavedModes(l)) = Len(l.stack)
  BY <1>1, <1>5 DEF SavedModes
<1> QED BY <1>2, <1>5, <1>6 DEF SavedModes

(* The scopes, taken apart.                                                 *)
LEMMA ScopesShape ==
  ASSUME NEW l \in LogType
  PROVE  /\ Len(ScopesOf(l)) = Len(l.stack) + 1
         /\ Scopes!Current(ScopesOf(l)) = ModeInForce(l)
         /\ Scopes!Below(ScopesOf(l)) = SavedModes(l)
         /\ \A m : Scopes!Enter(ScopesOf(l), m) = Append(SavedModes(l), m)
<1> DEFINE t == SavedModes(l)
           m == ModeInForce(l)
<1>1. t \in Seq(ModeType) /\ m \in ModeType /\ Len(t) = Len(l.stack)
  BY SavedModesType
<1> HIDE DEF t, m
<1>2. Len(Append(t, m)) = Len(t) + 1 /\ Append(t, m)[Len(t) + 1] = m
  BY <1>1
<1>3. SubSeq(Append(t, m), 1, Len(t)) = t
  BY <1>1
<1>4. ScopesOf(l) = Append(t, m)
  BY DEF ScopesOf, t, m
<1>5. Scopes!Below(ScopesOf(l)) = t
  <2>1. (Len(t) + 1) - 1 = Len(t)
    BY <1>1
  <2> QED BY <1>2, <1>3, <1>4, <2>1 DEF Scopes!Below
<1> QED BY <1>1, <1>2, <1>4, <1>5 DEF Scopes!Current, Scopes!Enter, t, m

(* The count-down is the count of the scope.                                *)
LEMMA CountDownScopes ==
  ASSUME NEW l \in LogType, Counting(l)
  PROVE  LET c == CountDown(l, TRUE)
         IN  Counting(c) /\ ScopesOf(c) = Scopes!Spend(ScopesOf(l))
<1> DEFINE c == CountDown(l, TRUE)
<1>1. c \in LogType /\ c.stack = l.stack /\ c.perf_only = l.perf_only
  BY CountDownType
<1>2. SavedModes(c) = SavedModes(l)
  BY <1>1 DEF SavedModes
<1>3. CASE l.countdown = 0
  <2>1. c = l
    BY <1>3 DEF CountDown
  <2>2. ModeInForce(l).kind # "count"
    BY <1>3 DEF ModeInForce, ModeOf
  <2> QED BY <2>1, <2>2, ScopesShape DEF Scopes!Spend
<1>4. CASE l.countdown # 0
  <2>1. l.countdown \in Nat /\ l.countdown > 0 /\ l.do_log /\ ~l.perf_only
    BY <1>4 DEF Counting, LogType
  <2>2. c.countdown = l.countdown - 1 /\ (c.do_log <=> l.countdown # 1)
    <3> DEFINE a == [l EXCEPT !.countdown = @ - 1]
               b == [a EXCEPT !.do_log = @ /\ l.countdown # 1]
    <3>1. c = IF TRUE /\ l.countdown # 0 THEN b ELSE l
      BY DEF CountDown
    <3>2. a \in LogType /\ a.countdown = l.countdown - 1 /\ a.do_log = l.do_log
      <4>1. l.countdown - 1 \in Nat
        BY <2>1
      <4> QED BY <4>1 DEF LogType
    <3> HIDE DEF a
    <3>3. b.countdown = a.countdown /\ (b.do_log <=> a.do_log /\ l.countdown # 1)
      BY <3>2 DEF LogType
    <3> HIDE DEF b, c
    <3> QED BY <2>1, <3>1, <3>2, <3>3
  <2> HIDE DEF c
  <2>3. Counting(c)
    BY <1>1, <2>1, <2>2 DEF Counting
  <2>4. ModeInForce(l) = [kind |-> "count", left |-> l.countdown]
    BY <2>1 DEF ModeInForce, ModeOf
  <2>5. ModeInForce(c) = Scopes!Count(l.countdown - 1)
    <3>1. CASE l.countdown = 1
      <4>1. c.countdown = 0 /\ ~c.do_log /\ ~c.perf_only
        BY <1>1, <2>1, <2>2, <3>1
      <4>2. ModeInForce(c) = [kind |-> "off", left |-> 0]
        BY <4>1 DEF ModeInForce, ModeOf
      <4>3. l.countdown - 1 = 0
        BY <3>1
      <4> QED BY <4>2, <4>3 DEF Scopes!Count, Scopes!Mode
    <3>2. CASE l.countdown # 1
      <4>1. c.countdown > 0 /\ c.countdown \in Nat /\ c.countdown # 0
        BY <2>1, <2>2, <3>2
      <4>2. ModeInForce(c) = [kind |-> "count", left |-> c.countdown]
        BY <4>1 DEF ModeInForce, ModeOf
      <4> QED BY <2>2, <4>1, <4>2 DEF Scopes!Count
    <3> QED BY <3>1, <3>2
  <2>6. Scopes!Spend(ScopesOf(l))
          = Append(SavedModes(l), Scopes!Count(l.countdown - 1))
    BY <2>4, ScopesShape DEF Scopes!Spend
  <2>7. ScopesOf(c) = Append(SavedModes(l), Scopes!Count(l.countdown - 1))
    BY <1>2, <2>5 DEF ScopesOf
  <2> QED BY <2>3, <2>6, <2>7 DEF c
<1> QED BY <1>3, <1>4

LEMMA PushScopes ==
  ASSUME NEW l \in LogType, Counting(l), NEW what \in BOOLEAN,
         Len(l.stack) < StackSlots - 1
  PROVE  LET p == Push(l, what)
         IN  /\ Counting(p) /\ p.countdown = 0
             /\ ScopesOf(p) = Append(ScopesOf(l),
                                     Scopes!Mode(IF what THEN "on" ELSE "off"))
<1> DEFINE slot == [on |-> l.do_log, perf |-> l.perf_only,
                    count_val |-> l.count_val, countdown |-> l.countdown]
           new == Append(l.stack, slot)
           p == Push(l, what)
<1>1. slot \in SlotType /\ l.stack \in Seq(SlotType) /\ Len(l.stack) \in Nat
  BY DEF LogType, SlotType
<1>2. p \in LogType
  BY PushType
<1>3. /\ p.do_log = what /\ p.perf_only = FALSE /\ p.countdown = 0
      /\ p.stack = new
  BY DEF Push, SetLogging, LogType
<1>4. /\ new \in Seq(SlotType) /\ Len(new) = Len(l.stack) + 1
      /\ \A k \in 1 .. Len(l.stack) : new[k] = l.stack[k]
      /\ new[Len(l.stack) + 1] = slot
  <2> HIDE DEF slot
  <2> QED BY <1>1
<1>5. /\ slot.on = l.do_log /\ slot.perf = l.perf_only
      /\ slot.countdown = l.countdown
  OBVIOUS
<1> HIDE DEF slot, new, p
<1>6. Counting(p)
  <2> SUFFICES ASSUME NEW k \in DOMAIN new, new[k].countdown > 0
               PROVE  new[k].on /\ ~new[k].perf
    BY <1>3 DEF Counting
  <2>1. k \in 1 .. Len(l.stack) + 1
    BY <1>4
  <2>2. CASE k \in 1 .. Len(l.stack)
    BY <1>1, <1>4, <2>2 DEF Counting
  <2>3. CASE k = Len(l.stack) + 1
    BY <1>4, <1>5, <2>3 DEF Counting
  <2> QED BY <1>1, <2>1, <2>2, <2>3
<1>7. SavedModes(p) = ScopesOf(l)
  <2> DEFINE t == SavedModes(l)
             m == ModeInForce(l)
  <2>1. t \in Seq(ModeType) /\ m \in ModeType /\ Len(t) = Len(l.stack)
        /\ \A k \in 1 .. Len(l.stack) :
             t[k] = ModeOf(l.stack[k].on, l.stack[k].perf, l.stack[k].countdown)
    BY SavedModesType
  <2>2. /\ SavedModes(p) \in Seq(ModeType) /\ Len(SavedModes(p)) = Len(new)
        /\ \A k \in 1 .. Len(new) :
             SavedModes(p)[k] = ModeOf(new[k].on, new[k].perf, new[k].countdown)
    BY <1>2, <1>3, SavedModesType
  <2>3. m = ModeOf(slot.on, slot.perf, slot.countdown)
    BY <1>5 DEF ModeInForce, m
  <2> HIDE DEF t, m
  <2>4. /\ Append(t, m) \in Seq(ModeType) /\ Len(Append(t, m)) = Len(t) + 1
        /\ \A k \in 1 .. Len(t) : Append(t, m)[k] = t[k]
        /\ Append(t, m)[Len(t) + 1] = m
    BY <2>1
  <2>5. \A k \in 1 .. Len(new) : SavedModes(p)[k] = Append(t, m)[k]
    <3> SUFFICES ASSUME NEW k \in 1 .. Len(new)
                 PROVE  SavedModes(p)[k] = Append(t, m)[k]
      OBVIOUS
    <3>1. CASE k \in 1 .. Len(l.stack)
      BY <1>4, <2>1, <2>2, <2>4, <3>1
    <3>2. CASE k = Len(l.stack) + 1
      BY <1>4, <2>1, <2>2, <2>3, <2>4, <3>2
    <3>3. k \in 1 .. Len(l.stack) \/ k = Len(l.stack) + 1
      BY <1>1, <1>4
    <3> QED BY <3>1, <3>2, <3>3, Zenon
  <2>6. SavedModes(p) = Append(t, m)
    BY <1>4, <2>1, <2>2, <2>4, <2>5, SeqEqual
  <2> QED BY <2>6 DEF ScopesOf, t, m
<1>8. ModeInForce(p) = Scopes!Mode(IF what THEN "on" ELSE "off")
  BY <1>3 DEF ModeInForce, ModeOf, Scopes!Mode
<1>9. ScopesOf(p) = Append(ScopesOf(l), Scopes!Mode(IF what THEN "on" ELSE "off"))
  BY <1>7, <1>8 DEF ScopesOf
<1> QED BY <1>3, <1>6, <1>9 DEF p

LEMMA PopScopes ==
  ASSUME NEW l \in LogType, Counting(l), l.stack # << >>
  PROVE  LET p == Pop(l)
         IN  /\ p \in LogType /\ Counting(p)
             /\ ScopesOf(p) = SavedModes(l)
<1> DEFINE n == Len(l.stack)
           slot == l.stack[n]
           rest == SubSeq(l.stack, 1, n - 1)
           p == Pop(l)
<1>1. p \in LogType /\ l.stack \in Seq(SlotType) /\ n \in Nat
      /\ n \in 1 .. n /\ slot \in SlotType
  BY PopType, TopType DEF LogType
<1>2. /\ p.do_log = slot.on /\ p.perf_only = slot.perf
      /\ p.countdown = slot.countdown /\ p.stack = rest
  BY DEF Pop, SetLogging, LogType
<1>3. /\ rest \in Seq(SlotType) /\ Len(rest) = n - 1
      /\ \A k \in 1 .. n - 1 : rest[k] = l.stack[k]
  <2> HIDE DEF n
  <2>1. n - 1 \in 0 .. Len(l.stack)
    BY <1>1 DEF n
  <2> QED BY <1>1, <2>1
<1> HIDE DEF slot, rest, p
<1>4. Counting(p)
  <2>1. slot.countdown > 0 => slot.on /\ ~slot.perf
    BY <1>1 DEF Counting, slot
  <2>2. \A k \in DOMAIN rest : rest[k].countdown > 0 => rest[k].on /\ ~rest[k].perf
    <3>1. \A k \in DOMAIN rest : k \in DOMAIN l.stack /\ rest[k] = l.stack[k]
      BY <1>1, <1>3
    <3> QED BY <3>1 DEF Counting
  <2> QED BY <1>2, <2>1, <2>2 DEF Counting
<1>5. ScopesOf(p) = SavedModes(l)
  <2> DEFINE t == SavedModes(p)
             m == ModeInForce(p)
             u == SavedModes(l)
  <2>1. /\ t \in Seq(ModeType) /\ m \in ModeType /\ Len(t) = n - 1
        /\ \A k \in 1 .. n - 1 :
             t[k] = ModeOf(rest[k].on, rest[k].perf, rest[k].countdown)
    BY <1>1, <1>2, <1>3, SavedModesType
  <2>2. /\ u \in Seq(ModeType) /\ Len(u) = n
        /\ \A k \in 1 .. n :
             u[k] = ModeOf(l.stack[k].on, l.stack[k].perf, l.stack[k].countdown)
    BY SavedModesType
  <2>3. m = ModeOf(slot.on, slot.perf, slot.countdown)
    BY <1>2 DEF ModeInForce
  <2>4. u[n] = m
    BY <1>1, <2>2, <2>3 DEF slot
  <2> HIDE DEF t, m, u
  <2>5. /\ Append(t, m) \in Seq(ModeType) /\ Len(Append(t, m)) = n
        /\ \A k \in 1 .. n - 1 : Append(t, m)[k] = t[k]
        /\ Append(t, m)[n] = m
    BY <1>1, <2>1
  <2>6. \A k \in 1 .. n : Append(t, m)[k] = u[k]
    <3> SUFFICES ASSUME NEW k \in 1 .. n PROVE Append(t, m)[k] = u[k]
      OBVIOUS
    <3>1. CASE k \in 1 .. n - 1
      BY <1>3, <2>1, <2>2, <2>5, <3>1
    <3>2. CASE k = n
      BY <2>4, <2>5, <3>2
    <3>3. k \in 1 .. n - 1 \/ k = n
      BY <1>1
    <3> QED BY <3>1, <3>2, <3>3, Zenon
  <2>7. Append(t, m) = u
    BY <2>2, <2>5, <2>6, SeqEqual
  <2> QED BY <2>7 DEF ScopesOf, t, m, u
<1> QED BY <1>1, <1>4, <1>5 DEF p

(* What LogScopes says of each command.                                     *)
LEMMA AfterCommand ==
  ASSUME NEW s, NEW i
  PROVE  /\ i.no = 0 => Scopes!After(s, i) = Scopes!Enter(s, Scopes!Mode("off"))
         /\ i.no = 1 => Scopes!After(s, i) = Scopes!Enter(s, Scopes!Mode("on"))
         /\ i.no = 2 => Scopes!After(s, i) = Scopes!Enter(s, Scopes!Mode("perf"))
         /\ i.no = 3 => Scopes!After(s, i)
                          = Scopes!Enter(s, Scopes!Count(
                              IF i.n = 0 THEN SetDefault ELSE i.n))
         /\ i.no = 9 /\ Len(s) <= StackSlots - 1
              => Scopes!After(s, i) = Append(s, Scopes!Mode("off"))
         /\ i.no = 10 /\ Len(s) <= StackSlots - 1
              => Scopes!After(s, i) = Append(s, Scopes!Mode("on"))
         /\ i.no = 11 /\ Len(s) > 1
              => Scopes!After(s, i) = Scopes!Spend(Scopes!Below(s))
         /\ (/\ i.no \notin {0, 1, 2, 3}
             /\ i.no \in {9, 10} => ~(Len(s) <= StackSlots - 1)
             /\ i.no = 11 => ~(Len(s) > 1))
              => Scopes!After(s, i) = Scopes!Spend(s)
<1>1. i.no = 0 => Scopes!After(s, i) = Scopes!Enter(s, Scopes!Mode("off"))
  BY DEF Scopes!After
<1>2. i.no = 1 => Scopes!After(s, i) = Scopes!Enter(s, Scopes!Mode("on"))
  BY DEF Scopes!After
<1>3. i.no = 2 => Scopes!After(s, i) = Scopes!Enter(s, Scopes!Mode("perf"))
  BY DEF Scopes!After
<1>4. i.no = 3 => Scopes!After(s, i)
                   = Scopes!Enter(s, Scopes!Count(
                       IF i.n = 0 THEN SetDefault ELSE i.n))
  BY DEF Scopes!After
<1>5. i.no = 9 /\ Len(s) <= StackSlots - 1
        => Scopes!After(s, i) = Append(s, Scopes!Mode("off"))
  BY DEF Scopes!After
<1>6. i.no = 10 /\ Len(s) <= StackSlots - 1
        => Scopes!After(s, i) = Append(s, Scopes!Mode("on"))
  BY DEF Scopes!After
<1>7. i.no = 11 /\ Len(s) > 1
        => Scopes!After(s, i) = Scopes!Spend(Scopes!Below(s))
  BY DEF Scopes!After
<1>8. (/\ i.no \notin {0, 1, 2, 3}
       /\ i.no \in {9, 10} => ~(Len(s) <= StackSlots - 1)
       /\ i.no = 11 => ~(Len(s) > 1))
        => Scopes!After(s, i) = Scopes!Spend(s)
  BY DEF Scopes!After
<1> QED BY <1>1, <1>2, <1>3, <1>4, <1>5, <1>6, <1>7, <1>8

(* A plain change of the mode in force.                                     *)
LEMMA SetLoggingScopes ==
  ASSUME NEW l \in LogType, Counting(l), NEW on \in BOOLEAN, NEW only \in BOOLEAN,
         ~(on /\ only)
  PROVE  LET m == SetLogging(l, on, only, 0)
         IN  /\ CountDown(m, TRUE) = m
             /\ Counting(m)
             /\ ScopesOf(m) = Append(SavedModes(l),
                   Scopes!Mode(IF on THEN "on" ELSE IF only THEN "perf" ELSE "off"))
<1> DEFINE m == SetLogging(l, on, only, 0)
<1>1. /\ m.countdown = 0 /\ m.stack = l.stack
      /\ m.do_log = on /\ m.perf_only = only
  BY DEF SetLogging, LogType
<1> HIDE DEF m
<1>2. CountDown(m, TRUE) = m
  BY <1>1 DEF CountDown
<1>3. Counting(m)
  BY <1>1 DEF Counting
<1>4. SavedModes(m) = SavedModes(l)
  BY <1>1 DEF SavedModes
<1>5. ModeInForce(m)
        = Scopes!Mode(IF on THEN "on" ELSE IF only THEN "perf" ELSE "off")
  BY <1>1 DEF ModeInForce, ModeOf, Scopes!Mode
<1> QED BY <1>2, <1>3, <1>4, <1>5 DEF ScopesOf, m

(* Every syscall, counted down, is the command of LogScopes.                *)
LEMMA DoSyscallScopes ==
  ASSUME NEW l \in LogType, Counting(l), NEW i, i.no \in Int, i.n \in Nat
  PROVE  LET c == CountDown(DoSyscall(l, i.no, i.n), TRUE)
         IN  Counting(c) /\ ScopesOf(c) = Scopes!After(ScopesOf(l), i)
<1> DEFINE m == DoSyscall(l, i.no, i.n)
           c == CountDown(m, TRUE)
           s == ScopesOf(l)
<1>1. m \in LogType
  BY DoSyscallType
<1>2. Len(l.stack) \in Nat /\ Len(s) = Len(l.stack) + 1
      /\ \A x : Scopes!Enter(s, x) = Append(SavedModes(l), x)
  BY ScopesShape DEF LogType
<1>3. CASE i.no = 0
  <2>1. m = SetLogging(l, FALSE, FALSE, 0)
    BY <1>3 DEF DoSyscall, LogOff
  <2>2. /\ CountDown(m, TRUE) = m /\ Counting(m)
        /\ ScopesOf(m) = Append(SavedModes(l), Scopes!Mode("off"))
    <3> HIDE DEF m
    <3> QED BY <2>1, SetLoggingScopes
  <2> HIDE DEF m, s
  <2>3. Scopes!After(s, i) = Append(SavedModes(l), Scopes!Mode("off"))
    BY <1>2, <1>3, AfterCommand
  <2> QED BY <2>2, <2>3 DEF s, m
<1>8. CASE i.no = 1
  <2>1. m = SetLogging(l, TRUE, FALSE, 0)
    BY <1>8 DEF DoSyscall, LogOn
  <2>2. /\ CountDown(m, TRUE) = m /\ Counting(m)
        /\ ScopesOf(m) = Append(SavedModes(l), Scopes!Mode("on"))
    <3> HIDE DEF m
    <3> QED BY <2>1, SetLoggingScopes
  <2> HIDE DEF m, s
  <2>3. Scopes!After(s, i) = Append(SavedModes(l), Scopes!Mode("on"))
    BY <1>2, <1>8, AfterCommand
  <2> QED BY <2>2, <2>3 DEF s, m
<1>9. CASE i.no = 2
  <2>1. m = SetLogging(l, FALSE, TRUE, 0)
    BY <1>9 DEF DoSyscall, LogPerf
  <2>2. /\ CountDown(m, TRUE) = m /\ Counting(m)
        /\ ScopesOf(m) = Append(SavedModes(l), Scopes!Mode("perf"))
    <3> HIDE DEF m
    <3> QED BY <2>1, SetLoggingScopes
  <2> HIDE DEF m, s
  <2>3. Scopes!After(s, i) = Append(SavedModes(l), Scopes!Mode("perf"))
    BY <1>2, <1>9, AfterCommand
  <2> QED BY <2>2, <2>3 DEF s, m
<1>4. CASE i.no = 3
  <2> DEFINE n == IF i.n = 0 THEN SetDefault ELSE i.n
  <2>1. n \in Nat /\ n > 0
    BY SetDefaultAssumption
  <2>2. /\ m.countdown = 1 + n /\ m.stack = l.stack
        /\ m.do_log = TRUE /\ m.perf_only = FALSE
    <3>1. m = LogSet(l, i.n)
      BY <1>4 DEF DoSyscall
    <3> DEFINE a == SetLogging(l, TRUE, FALSE, 1 + n)
    <3>2. m = [a EXCEPT !.count_val = n]
      BY <3>1 DEF LogSet
    <3> HIDE DEF m, n
    <3>3. /\ a.countdown = 1 + n /\ a.stack = l.stack
          /\ a.do_log = TRUE /\ a.perf_only = FALSE /\ a \in LogType
      <4>1. 1 + n \in Nat
        BY <2>1
      <4> DEFINE j == 1 + n
      <4> HIDE DEF j
      <4>2. SetLogging(l, TRUE, FALSE, j) \in LogType
        BY <4>1 DEF SetLogging, LogType, j
      <4>3. LET b == SetLogging(l, TRUE, FALSE, j)
            IN  /\ b.countdown = j /\ b.stack = l.stack
                /\ b.do_log = TRUE /\ b.perf_only = FALSE
        BY DEF SetLogging, LogType
      <4> QED BY <4>2, <4>3 DEF j, a
    <3> HIDE DEF a
    <3> QED BY <3>2, <3>3 DEF LogType
  <2>3. Scopes!After(s, i) = Append(SavedModes(l), Scopes!Count(n))
    <3>1. Scopes!After(s, i) = Scopes!Enter(s, Scopes!Count(n))
      BY <1>4, AfterCommand
    <3> HIDE DEF n, s
    <3> QED BY <1>2, <3>1
  <2> HIDE DEF m, n, s
  <2>4. Counting(m)
    BY <2>2 DEF Counting
  <2>5. Counting(c) /\ ScopesOf(c) = Scopes!Spend(ScopesOf(m))
    BY <1>1, <2>4, CountDownScopes
  <2>6. ModeInForce(m) = [kind |-> "count", left |-> 1 + n]
    BY <2>1, <2>2 DEF ModeInForce, ModeOf
  <2>7. Scopes!Spend(ScopesOf(m)) = Append(SavedModes(m), Scopes!Count(n))
    <3>1. (1 + n) - 1 = n
      BY <2>1
    <3> QED BY <1>1, <2>6, <3>1, ScopesShape DEF Scopes!Spend
  <2>8. SavedModes(m) = SavedModes(l)
    BY <2>2 DEF SavedModes
  <2> QED BY <2>3, <2>5, <2>7, <2>8 DEF s, m
<1>5. CASE i.no \in {9, 10} /\ Len(l.stack) < StackSlots - 1
  <2>1. Len(s) <= StackSlots - 1
    <3> HIDE DEF s
    <3> QED BY <1>2, <1>5, StackSlotsAssumption
  <2>2. CASE i.no = 9
    <3>1. m = Push(l, FALSE)
      BY <2>2 DEF DoSyscall
    <3> HIDE DEF m
    <3>2. /\ Counting(m) /\ m.countdown = 0
          /\ ScopesOf(m) = Append(s, Scopes!Mode("off"))
      BY <1>5, <3>1, PushScopes
    <3>3. c = m
      BY <3>2 DEF CountDown
    <3> HIDE DEF c, s
    <3>4. Scopes!After(s, i) = Append(s, Scopes!Mode("off"))
      BY <2>1, <2>2, AfterCommand
    <3> QED BY <3>2, <3>3, <3>4 DEF s, c, m
  <2>3. CASE i.no = 10
    <3>1. m = Push(l, TRUE)
      BY <2>3 DEF DoSyscall
    <3> HIDE DEF m
    <3>2. /\ Counting(m) /\ m.countdown = 0
          /\ ScopesOf(m) = Append(s, Scopes!Mode("on"))
      BY <1>5, <3>1, PushScopes
    <3>3. c = m
      BY <3>2 DEF CountDown
    <3> HIDE DEF c, s
    <3>4. Scopes!After(s, i) = Append(s, Scopes!Mode("on"))
      BY <2>1, <2>3, AfterCommand
    <3> QED BY <3>2, <3>3, <3>4 DEF s, c, m
  <2> QED BY <1>5, <2>2, <2>3
<1>6. CASE i.no = 11 /\ l.stack # << >>
  <2>1. m = Pop(l)
    BY <1>6 DEF DoSyscall
  <2> HIDE DEF m
  <2>2. Counting(m) /\ ScopesOf(m) = Scopes!Below(s)
    BY <1>6, <2>1, PopScopes, ScopesShape
  <2>3. Counting(c) /\ ScopesOf(c) = Scopes!Spend(ScopesOf(m))
    BY <1>1, <2>2, CountDownScopes
  <2>4. Len(s) > 1
    BY <1>2, <1>6, TopType
  <2> HIDE DEF s
  <2>5. Scopes!After(s, i) = Scopes!Spend(Scopes!Below(s))
    BY <1>6, <2>4, AfterCommand
  <2> QED BY <2>2, <2>3, <2>5 DEF s, m
<1>7. CASE \/ i.no \notin {0, 1, 2, 3, 9, 10, 11}
           \/ i.no \in {9, 10} /\ ~(Len(l.stack) < StackSlots - 1)
           \/ i.no = 11 /\ l.stack = << >>
  <2>1. m = l
    <3>1. CASE i.no \notin {0, 1, 2, 3, 9, 10, 11}
      BY <3>1 DEF DoSyscall
    <3>2. CASE i.no = 9 /\ ~(Len(l.stack) < StackSlots - 1)
      BY <3>2 DEF DoSyscall, Push
    <3>3. CASE i.no = 10 /\ ~(Len(l.stack) < StackSlots - 1)
      BY <3>3 DEF DoSyscall, Push
    <3>4. CASE i.no = 11 /\ l.stack = << >>
      BY <3>4 DEF DoSyscall, Pop
    <3> QED BY <1>7, <3>1, <3>2, <3>3, <3>4
  <2>2. Counting(c) /\ ScopesOf(c) = Scopes!Spend(ScopesOf(l))
    BY <2>1, CountDownScopes
  <2>3. /\ i.no \in {9, 10} => ~(Len(s) <= StackSlots - 1)
        /\ i.no = 11 => ~(Len(s) > 1)
    <3>1. l.stack = << >> => Len(l.stack) = 0
      OBVIOUS
    <3> HIDE DEF s
    <3> QED BY <1>2, <1>7, <3>1, StackSlotsAssumption
  <2> HIDE DEF s, m
  <2>4. Scopes!After(s, i) = Scopes!Spend(s)
    <3>1. i.no \notin {0, 1, 2, 3}
      BY <1>7
    <3> QED BY <2>3, <3>1, AfterCommand
  <2> QED BY <2>2, <2>4 DEF s, m
<1> QED BY <1>3, <1>4, <1>5, <1>6, <1>7, <1>8, <1>9

(* An instruction is logged if its mode says so.                            *)
LEMMA ActiveScopes ==
  ASSUME NEW l \in LogType, Counting(l), NEW on \in BOOLEAN
  PROVE  Scopes!Active(Scopes!Current(ScopesOf(l)), on) <=> LogThis(l, on)
<1>1. l.countdown \in Nat /\ l.do_log \in BOOLEAN /\ l.perf_only \in BOOLEAN
  BY DEF LogType
<1>2. l.countdown > 0 => l.do_log
  BY DEF Counting
<1>3. Scopes!Current(ScopesOf(l)) = ModeInForce(l)
  BY ScopesShape
<1> QED BY <1>1, <1>2, <1>3 DEF Scopes!Active, LogThis, ModeInForce, ModeOf

(* What the mapping reads, and no more.                                     *)
LEMMA SameScopes ==
  ASSUME NEW l, NEW m, Counting(l),
         m.do_log = l.do_log, m.perf_only = l.perf_only,
         m.countdown = l.countdown, m.stack = l.stack
  PROVE  Counting(m) /\ ScopesOf(m) = ScopesOf(l)
  BY DEF Counting, ScopesOf, SavedModes, ModeInForce

(* The log and the meters when log_dump_line decides.                       *)
LEMMA DecidedScopes ==
  ASSUME NEW i, Executes(i), Counting(log)
  PROVE  LET st == Executed(i)
             l == CountDown(st.log, i.op # "exit")
         IN  /\ l \in LogType /\ Counting(l)
             /\ ScopesOf(l) = IF i.op = "exit" THEN ScopesOf(log)
                              ELSE Scopes!After(ScopesOf(log), AsCommand(i))
             /\ l.log_this = log.log_this
             /\ Metered(st) <=> perf.on \/ AsCommand(i).starts
<1> DEFINE st == Executed(i)
           begun == AddInstr(log, i.no, need.logging)
           m == st.log
           l == CountDown(m, i.op # "exit")
<1>1. /\ TypeOK /\ Ready /\ i.no \in Int /\ i.n \in Nat
      /\ st \in StateType /\ i \in Instructions
  BY ExecutedType DEF Executes, Inv
<1>2. /\ begun \in LogType
      /\ begun.do_log = log.do_log /\ begun.perf_only = log.perf_only
      /\ begun.log_this = log.log_this /\ begun.stack = log.stack
      /\ begun.countdown = log.countdown
  <2> DEFINE unused == ~(log.maybe_log \/ i.no \in SysMask) \/ ~need.logging
  <2>1. log \in LogType /\ unused \in BOOLEAN
    BY <1>1 DEF TypeOK
  <2>2. begun = [log EXCEPT !.log_unused = unused]
    BY DEF AddInstr
  <2> HIDE DEF unused, begun
  <2> QED BY <2>1, <2>2 DEF LogType
<1>3. m = DoSyscall(begun, i.no, i.n) /\ m \in LogType
  BY <1>1 DEF Executed, StateType
<1> HIDE DEF begun
<1>4. Counting(begun) /\ ScopesOf(begun) = ScopesOf(log)
  BY <1>2, SameScopes
<1>5. m.log_this = log.log_this
  <2> HIDE DEF m
  <2> QED BY <1>1, <1>2, <1>3, DoSyscallEffect
<1>6. l \in LogType /\ l.log_this = log.log_this
  <2> HIDE DEF m
  <2>1. (i.op # "exit") \in BOOLEAN
    OBVIOUS
  <2> QED BY <1>3, <1>5, <2>1, CountDownType
<1> DEFINE Agreed == /\ Counting(l)
                     /\ ScopesOf(l) = IF i.op = "exit" THEN ScopesOf(log)
                                      ELSE Scopes!After(ScopesOf(log), AsCommand(i))
<1>7. ASSUME i.op = "exit" PROVE Agreed
  <2>1. i.no = -1
    BY <1>1, <1>7, InstructionsAssumption
  <2>2. m = begun
    BY <1>3, <2>1 DEF DoSyscall
  <2>3. l = m
    <3> HIDE DEF m
    <3> QED BY <1>7 DEF CountDown
  <2> HIDE DEF l, m, st
  <2>4. Counting(l) /\ ScopesOf(l) = ScopesOf(log)
    BY <1>4, <2>2, <2>3
  <2>5. ScopesOf(l) = IF i.op = "exit" THEN ScopesOf(log)
                      ELSE Scopes!After(ScopesOf(log), AsCommand(i))
    BY <1>7, <2>4
  <2> QED BY <2>4, <2>5
<1>8. ASSUME i.op # "exit" PROVE Agreed
  <2>1. l = CountDown(m, TRUE)
    <3> HIDE DEF m
    <3> QED BY <1>8 DEF CountDown
  <2>2. /\ AsCommand(i).no = i.no /\ AsCommand(i).n = i.n
    BY DEF AsCommand
  <2> HIDE DEF l, m, st
  <2> DEFINE cmd == AsCommand(i)
  <2> HIDE DEF cmd
  <2>3. cmd.no = i.no /\ cmd.n = i.n
    BY <2>2 DEF cmd
  <2>4. Counting(l) /\ ScopesOf(l) = Scopes!After(ScopesOf(begun), cmd)
    BY <1>1, <1>2, <1>3, <1>4, <2>1, <2>3, DoSyscallScopes
  <2>5. ScopesOf(l) = IF i.op = "exit" THEN ScopesOf(log)
                      ELSE Scopes!After(ScopesOf(log), AsCommand(i))
    BY <1>4, <1>8, <2>4 DEF cmd
  <2> QED BY <2>4, <2>5
<1>9. Metered(st) <=> perf.on \/ AsCommand(i).starts
  <2>1. perf \in PerfType /\ ~perf.will_be_on
    BY <1>1 DEF TypeOK, Ready
  <2>2. AsCommand(i).starts <=> i.cmd \in {"start", "start_call"}
    BY DEF AsCommand
  <2>3. CASE i.no = 5
    <3>1. st.perf = PerfCmd(perf, i.cmd, i.n)
      BY <2>3 DEF Executed
    <3>2. st.perf.on = perf.on
      BY <2>1, <3>1 DEF PerfCmd, PerfType
    <3>3. st.perf.will_be_on <=> i.cmd \in {"start", "start_call"}
      <4> DEFINE mask == IF i.n = 0 THEN Meters ELSE {i.n}
                 on == i.cmd \in {"start", "start_call"}
                 a == [perf EXCEPT !.pmask = mask]
                 b == [a EXCEPT !.will_be_on = on]
      <4>1. st.perf = [b EXCEPT !.cmd = i.cmd]
        BY <3>1 DEF PerfCmd
      <4>2. "will_be_on" \in DOMAIN a
        BY <2>1 DEF PerfType
      <4> HIDE DEF a, on
      <4>3. b.will_be_on = on /\ "will_be_on" \in DOMAIN b
        BY <4>2
      <4> HIDE DEF b, st
      <4>4. st.perf.will_be_on = b.will_be_on
        BY <4>1, <4>3
      <4> QED BY <4>3, <4>4 DEF on
    <3> QED BY <2>2, <3>2, <3>3 DEF Metered
  <2>4. CASE i.no # 5
    <3>1. st.perf = perf
      BY <2>4 DEF Executed
    <3>2. i.cmd = "none"
      BY <1>1, <2>4, InstructionsAssumption
    <3> QED BY <2>1, <2>2, <3>1, <3>2 DEF Metered
  <2> QED BY <2>3, <2>4
<1> HIDE DEF st, m, l
<1> QED BY <1>6, <1>7, <1>8, <1>9 DEF st, m, l

(* An instruction is to be logged if its mode asks for it, with a meter on  *)
(* or about to be switched on by it.                                        *)
Now(l, i) ==
  Scopes!Active(Scopes!Current(ScopesOf(l)), perf.on \/ AsCommand(i).starts)

(* The instruction as log_dump_line leaves it, seen from LogScopes.         *)
LEMMA LoggedScopes ==
  ASSUME NEW i, Executes(i), NEW at \in ProgType, Counting(log)
  PROVE  LET r == Logged(i, at)
         IN  /\ Counting(r.log)
             /\ ScopesOf(r.log) = IF i.op = "exit" THEN ScopesOf(log)
                                  ELSE Scopes!After(ScopesOf(log), AsCommand(i))
             /\ r.log.log_this <=> Now(r.log, i)
             /\ r.lines # << >> <=> log.log_this \/ Now(r.log, i)
<1> DEFINE st == Executed(i)
           counts == i.op # "exit"
           text == ~st.log.log_unused
           s == NonglitchSP(i)
           l == CountDown(st.log, counts)
           on == Metered(st)
           r == Logged(i, at)
<1>1. st \in StateType /\ st.lines = << >>
  BY ExecutedType
<1>2. counts \in BOOLEAN /\ text \in BOOLEAN /\ s \in Nat
  BY StackPointerType
<1>3. r = LogDumpLine(st, counts, at, s, text)
  BY DEF Logged
<1>4. /\ l \in LogType /\ Counting(l)
      /\ ScopesOf(l) = IF i.op = "exit" THEN ScopesOf(log)
                       ELSE Scopes!After(ScopesOf(log), AsCommand(i))
      /\ l.log_this = log.log_this
      /\ on <=> perf.on \/ AsCommand(i).starts
  BY DecidedScopes
<1> HIDE DEF st, counts, text, s, l, on, r
<1>5. /\ r.log.do_log = l.do_log /\ r.log.perf_only = l.perf_only
      /\ r.log.stack = l.stack /\ r.log.countdown = l.countdown
      /\ r.log.log_this <=> LogThis(l, on)
      /\ r.lines = IF Prints(l, on) THEN Append(st.lines, text) ELSE st.lines
  <2>1. Dumped(st, counts, text, r)
    BY <1>1, <1>2, <1>3, LogDumpLineEffect, Zenon
  <2> QED BY <2>1 DEF Dumped, l, on
<1>6. Counting(r.log) /\ ScopesOf(r.log) = ScopesOf(l)
  BY <1>4, <1>5, SameScopes
<1>7. Now(r.log, i) <=> LogThis(l, on)
  <2> DEFINE metered == perf.on \/ AsCommand(i).starts
  <2>1. metered \in BOOLEAN /\ (on <=> metered)
    BY <1>4
  <2> HIDE DEF metered
  <2>2. Scopes!Active(Scopes!Current(ScopesOf(l)), metered) <=> LogThis(l, metered)
    BY <1>4, <2>1, ActiveScopes
  <2>3. LogThis(l, metered) <=> LogThis(l, on)
    BY <2>1 DEF LogThis
  <2> QED BY <1>6, <2>2, <2>3 DEF Now, metered
<1>8. r.lines # << >> <=> Prints(l, on)
  <2>1. Append(<< >>, text) # << >>
    BY <1>2, AppendProperties, EmptySeq
  <2> QED BY <1>1, <1>5, <2>1
<1>9. r.lines # << >> <=> log.log_this \/ Now(r.log, i)
  BY <1>4, <1>7, <1>8 DEF Prints
<1> QED BY <1>4, <1>5, <1>6, <1>7, <1>9 DEF r

(* One instruction is one step of LogScopes.                                *)
LEMMA ExecuteMaps ==
  ASSUME Inv, Counting(log), NEW i \in Instructions, NEW c \in Costs,
         Execute(i, c)
  PROVE  Counting(log)' /\ Scopes!Step(AsCommand(i))
<1> DEFINE at == [prog EXCEPT !.n_cycles = @ + c]
           once == Logged(i, at)
           limit == MaxInsns # 0 /\ prog.n_insns >= MaxInsns
           left == i.op # "exit" /\ limit /\ ~once.fatal
           s == NonglitchSP(i)
           last == LastLine(once, at, s)
<1>1. Executes(i) /\ TypeOK /\ status = "RUNNING"
  BY DEF Execute, Executes, Inv
<1>2. at \in ProgType
  <2>1. prog \in ProgType /\ c \in Nat
    BY <1>1, BoundsAssumption DEF TypeOK, ProgType
  <2>2. prog.n_cycles + c \in Nat
    BY <2>1 DEF ProgType
  <2> QED BY <2>1, <2>2 DEF ProgType
<1>3. /\ Becomes(IF left THEN last ELSE once)
      /\ status' = CASE once.fatal     -> "FATAL"
                     [] i.op = "exit"  -> "EXIT"
                     [] left           -> "TIMEOUT"
                     [] OTHER          -> "RUNNING"
  BY DEF Execute
<1> HIDE DEF at
<1>4. /\ once \in StateType /\ ~once.fatal
      /\ once.lines \in {<< >>, << TRUE >>}
      /\ ~once.perf.will_be_on
      /\ LogThis(once.log, once.perf.on) => once.log.log_this
  BY <1>1, <1>2, LoggedHolds
<1>5. /\ Counting(once.log)
      /\ ScopesOf(once.log) = IF i.op = "exit" THEN ScopesOf(log)
                              ELSE Scopes!After(ScopesOf(log), AsCommand(i))
      /\ once.log.log_this <=> Now(once.log, i)
      /\ once.lines # << >> <=> log.log_this \/ Now(once.log, i)
  BY <1>1, <1>2, LoggedScopes
<1>6. s \in Nat
  BY <1>1, StackPointerType
<1>7. last = LogDumpLine(once, FALSE, at, s, FALSE)
  BY DEF LastLine
<1> HIDE DEF once, s, last, limit
<1>8. /\ Counting(last.log) /\ ScopesOf(last.log) = ScopesOf(once.log)
      /\ last.lines # << >> <=> once.lines # << >>
  <2> DEFINE l == CountDown(once.log, FALSE)
             on == Metered(once)
  <2>1. l = once.log
    BY DEF CountDown
  <2>2. on <=> once.perf.on
    BY <1>4 DEF Metered
  <2> HIDE DEF on
  <2>3. /\ last.log.do_log = l.do_log /\ last.log.perf_only = l.perf_only
        /\ last.log.stack = l.stack /\ last.log.countdown = l.countdown
        /\ last.lines = IF Prints(l, on) THEN Append(once.lines, FALSE)
                        ELSE once.lines
    <3>1. FALSE \in BOOLEAN
      OBVIOUS
    <3>2. Dumped(once, FALSE, FALSE, last)
      BY <1>2, <1>4, <1>6, <1>7, <3>1, LogDumpLineEffect, Zenon
    <3> QED BY <3>2 DEF Dumped, on
  <2> HIDE DEF l
  <2>4. Prints(l, on) => once.lines # << >>
    <3>1. LogThis(l, on) => once.log.log_this
      BY <1>4, <2>1, <2>2 DEF LogThis
    <3> QED BY <1>5, <2>1, <3>1 DEF Prints
  <2>5. Append(once.lines, FALSE) # << >>
    <3>1. once.lines \in Seq(BOOLEAN) /\ FALSE \in BOOLEAN
      BY <1>4 DEF StateType
    <3> QED BY <3>1, AppendProperties, EmptySeq
  <2>6. last.lines # << >> <=> once.lines # << >>
    BY <2>3, <2>4, <2>5
  <2>7. Counting(last.log) /\ ScopesOf(last.log) = ScopesOf(l)
    BY <1>5, <2>1, <2>3, SameScopes
  <2> QED BY <2>1, <2>6, <2>7
<1> DEFINE new == IF left THEN last ELSE once
<1>9. log' = new.log /\ perf' = new.perf /\ lines' = new.lines
  BY <1>3 DEF Becomes
<1>10. /\ Counting(new.log) /\ ScopesOf(new.log) = ScopesOf(once.log)
       /\ new.lines # << >> <=> once.lines # << >>
  BY <1>5, <1>8
<1>11. /\ left => status' # "RUNNING"
       /\ i.op = "exit" => status' # "RUNNING"
  BY <1>3, <1>4
<1>12. status' = "RUNNING" => log' = once.log
  BY <1>9, <1>11
<1> HIDE DEF new, left
<1>13. /\ Counting(log') /\ ScopesOf(log') = ScopesOf(once.log)
       /\ lines' # << >> <=> once.lines # << >>
  BY <1>9, <1>10
<1>14. Now(log', i) <=> Now(once.log, i)
  BY <1>13 DEF Now
<1>15. Scopes!Follows(ScopesOf(log), ScopesOf(log'), AsCommand(i))
  BY <1>5, <1>11, <1>13 DEF Scopes!Follows
<1>16. lines' # << >> <=> log.log_this \/ Now(log', i)
  BY <1>5, <1>13, <1>14
<1>17. log'.log_this \in BOOLEAN /\ perf'.on \in BOOLEAN
  <2>1. TypeOK'
    BY ExecuteHolds DEF Inv
  <2> QED BY <2>1 DEF TypeOK, LogType, PerfType
<1>18. status' = "RUNNING" => (log'.log_this <=> Now(log', i))
  BY <1>5, <1>12
<1> DEFINE now == Scopes!Active(Scopes!Current(ScopesOf(log')),
                                perf.on \/ AsCommand(i).starts)
           shows == lines' # << >>
           ends == status' # "RUNNING"
<1>19. now \in BOOLEAN /\ (now <=> Now(log', i))
  BY DEF Now, Scopes!Active
<1>20. ~(status # "RUNNING") /\ ends \in BOOLEAN
  BY <1>1
<1> HIDE DEF now
<1>21. shows = (log.log_this \/ now)
  BY <1>16, <1>19
<1>22. log'.log_this \in IF ends THEN BOOLEAN ELSE {now}
  <2>1. CASE ends
    BY <1>17, <2>1
  <2>2. CASE ~ends
    <3>1. log'.log_this = now
      BY <1>17, <1>18, <1>19, <2>2
    <3> QED BY <2>2, <3>1
  <2> QED BY <2>1, <2>2
<1>23. Scopes!Step(AsCommand(i))
  BY <1>15, <1>17, <1>20, <1>21, <1>22, Zenon DEF Scopes!Step, now
<1> QED BY <1>13, <1>23

(* log_init starts with the mode that -no-log chooses.                      *)
LEMMA InitMaps == Init => Counting(log) /\ Scopes!Init
<1> SUFFICES ASSUME Init PROVE Counting(log) /\ Scopes!Init
  OBVIOUS
<1>1. PICK do_log \in BOOLEAN : log = InitLog(do_log)
  BY Zenon DEF Init
<1>2. /\ lines = << >> /\ status = "RUNNING" /\ perf = InitPerf
  BY Zenon DEF Init
<1>3. /\ log.do_log = do_log /\ ~log.perf_only /\ log.countdown = 0
      /\ ~log.log_this /\ log.stack = << >>
  BY <1>1 DEF InitLog
<1>4. Counting(log)
  BY <1>3 DEF Counting
<1>5. SavedModes(log) = << >>
  <2>1. Len(log.stack) = 0
    BY <1>3
  <2>2. 1 .. 0 = {}
    OBVIOUS
  <2> QED BY <2>1, <2>2 DEF SavedModes
<1>6. ModeInForce(log) = Scopes!Mode(IF do_log THEN "on" ELSE "off")
  BY <1>3 DEF ModeInForce, ModeOf, Scopes!Mode
<1>7. \E kind \in {"on", "off"} : ScopesOf(log) = << Scopes!Mode(kind) >>
  <2> DEFINE kind == IF do_log THEN "on" ELSE "off"
             m == Scopes!Mode(kind)
  <2>1. kind \in {"on", "off"}
    OBVIOUS
  <2> HIDE DEF kind, m
  <2>2. ScopesOf(log) = Append(<< >>, m)
    BY <1>5, <1>6 DEF ScopesOf, m, kind
  <2>3. Append(<< >>, m) = << m >>
    OBVIOUS
  <2> QED BY <2>1, <2>2, <2>3 DEF m
<1>8. ~perf.on
  BY <1>2 DEF InitPerf
<1> QED BY <1>2, <1>3, <1>4, <1>7, <1>8 DEF Scopes!Init

(* What log_add_instr, the logging syscalls and log_dump_line do with       *)
(* maybe_log, do_log, perf_only, the count-down and the saved slots is what *)
(* avrtest.h promises: every instruction appears in the log exactly when    *)
(* the scope in force, or that of the instruction before, says so.          *)
THEOREM LogFollowsScopes == Spec => ImplementsScopes
<1>1. Init => Counting(log) /\ Scopes!Init
  BY InitMaps
<1>2. Inv /\ Counting(log) /\ [Next]_vars
        => Counting(log)' /\ [Scopes!Next]_Scopes!vars
  <2> SUFFICES ASSUME Inv, Counting(log), [Next]_vars
               PROVE  Counting(log)' /\ [Scopes!Next]_Scopes!vars
    OBVIOUS
  <2>1. CASE Next
    <3>1. PICK i \in Instructions, c \in Costs : Execute(i, c)
      BY <2>1 DEF Next
    <3>2. Counting(log)' /\ Scopes!Step(AsCommand(i))
      BY <3>1, ExecuteMaps
    <3>3. AsCommand(i) \in {AsCommand(j) : j \in Instructions}
      OBVIOUS
    <3> QED BY <3>2, <3>3 DEF Scopes!Next
  <2>2. CASE UNCHANGED vars
    <3>1. UNCHANGED << log, perf, lines, status >>
      BY <2>2 DEF vars
    <3>2. ScopesOf(log)' = ScopesOf(log) /\ (Counting(log) => Counting(log)')
      BY <3>1
    <3> QED BY <3>1, <3>2 DEF Scopes!vars
  <2> QED BY <2>1, <2>2
<1> QED BY <1>1, <1>2, InvHolds, PTL DEF Spec, ImplementsScopes, Scopes!Spec

-----------------------------------------------------------------------------
(* One meter                                                               *)

(* What a round is made of, and what rounds are summed up in.               *)
SameRound(p, r) ==
  /\ r.on = p.on /\ r.valid = p.valid /\ r.n = p.n
  /\ r.insn_start = p.insn_start /\ r.tick_start = p.tick_start

SameTotals(p, r) ==
  /\ r.insns = p.insns /\ r.ticks = p.ticks
  /\ r.insn = p.insn /\ r.tick = p.tick

(* The instruction is added to the costs of PERF_START_CALL.                *)
Hit(p, q, s) == /\ p.on /\ p.call_only.sp < IntMax
                /\ s < p.call_only.sp \/ q.sp < p.call_only.sp

LEMMA CallCostsEffect ==
  ASSUME NEW p \in MeterType, NEW q \in PerfType, NEW at \in ProgType,
         NEW s \in Nat
  PROVE  LET r == CallCosts(p, q, at, s)
         IN  /\ SameRound(p, r) /\ SameTotals(p, r) /\ r.sp = p.sp
             /\ r.call_only.sp = p.call_only.sp
             /\ r.call_only.insns
                  = p.call_only.insns + (IF Hit(p, q, s) THEN 1 ELSE 0)
             /\ r.call_only.ticks
                  = IF Hit(p, q, s)
                    THEN (p.call_only.ticks + at.n_cycles - q.tick) % DWord
                    ELSE p.call_only.ticks
<1> DEFINE c == p.call_only.ticks + at.n_cycles - q.tick
           a == [p EXCEPT !.call_only.insns = @ + 1]
           b == [a EXCEPT !.call_only.ticks = c % DWord]
           r == CallCosts(p, q, at, s)
<1>1. c % DWord \in Nat
  BY Remainder DEF MeterType, ProgType, PerfType
<1>2. /\ a \in MeterType
      /\ SameRound(p, a) /\ SameTotals(p, a) /\ a.sp = p.sp
      /\ a.call_only.sp = p.call_only.sp
      /\ a.call_only.insns = p.call_only.insns + 1
      /\ a.call_only.ticks = p.call_only.ticks
  BY DEF MeterType, SameRound, SameTotals
<1>3. r = IF Hit(p, q, s) THEN b ELSE p
  BY DEF CallCosts, Hit
<1> HIDE DEF a, c, r
<1>4. /\ SameRound(a, b) /\ SameTotals(a, b) /\ b.sp = a.sp
      /\ b.call_only.sp = a.call_only.sp
      /\ b.call_only.insns = a.call_only.insns
      /\ b.call_only.ticks = c % DWord
  BY <1>1, <1>2 DEF MeterType, SameRound, SameTotals
<1> HIDE DEF b
<1>5. CASE Hit(p, q, s)
  BY <1>2, <1>3, <1>4, <1>5 DEF SameRound, SameTotals, c, r
<1>6. CASE ~Hit(p, q, s)
  <2>1. p.call_only.insns \in Nat
    BY DEF MeterType
  <2> QED BY <1>3, <1>6, <2>1 DEF SameRound, SameTotals, r
<1> QED BY <1>5, <1>6

(* What PERF_STOP adds to the totals.                                       *)
StopInsns(p, at) == IF p.call_only.sp # IntMax THEN p.call_only.insns
                    ELSE at.n_insns - 1 - p.insn_start

StopTicks(p, q) == IF p.call_only.sp # IntMax THEN p.call_only.ticks
                   ELSE q.tick - p.tick_start

Adds(p, r, insns, ticks) ==
  /\ r.insns = p.insns + insns /\ r.ticks = (p.ticks + ticks) % DWord
  /\ r.insn = Update(p.insn, insns) /\ r.tick = Update(p.tick, ticks)

LEMMA StopEffect ==
  ASSUME NEW p \in MeterType, NEW q \in PerfType, NEW at \in ProgType
  PROVE  LET r == Stop(p, q, at)
         IN  /\ r.sp = p.sp /\ r.n = p.n /\ r.valid = p.valid
             /\ IF p.valid = "start" /\ p.on
                THEN ~r.on /\ Adds(p, r, StopInsns(p, at), StopTicks(p, q))
                ELSE r = p
<1> DEFINE ticks == StopTicks(p, q)
           insns == StopInsns(p, at)
           a == [p EXCEPT !.on = FALSE]
           b == [a EXCEPT !.ticks = (@ + ticks) % DWord]
           c == [b EXCEPT !.insns = @ + insns]
           d == [c EXCEPT !.tick = Update(@, ticks)]
           e == [d EXCEPT !.insn = Update(@, insns)]
           r == Stop(p, q, at)
           Same(x, y) == y.sp = x.sp /\ y.n = x.n /\ y.valid = x.valid
<1>1. ticks \in Int /\ insns \in Int
  BY DEF MeterType, ProgType, PerfType, StopTicks, StopInsns, IntMax
<1>2. r = IF p.valid = "start" /\ p.on THEN e ELSE p
  BY DEF Stop, StopTicks, StopInsns
<1> HIDE DEF ticks, insns, r
<1>3. a \in MeterType /\ ~a.on /\ Same(p, a) /\ SameTotals(p, a)
  BY DEF MeterType, SameTotals
<1> HIDE DEF a
<1>4. /\ b \in MeterType /\ ~b.on /\ Same(a, b) /\ b.insns = a.insns
      /\ b.ticks = (a.ticks + ticks) % DWord /\ b.insn = a.insn /\ b.tick = a.tick
  BY <1>1, <1>3, Remainder DEF MeterType
<1> HIDE DEF b
<1>5. /\ c \in MeterType /\ ~c.on /\ Same(b, c) /\ c.insns = b.insns + insns
      /\ c.ticks = b.ticks /\ c.insn = b.insn /\ c.tick = b.tick
  BY <1>1, <1>4 DEF MeterType
<1> HIDE DEF c
<1>6. /\ d \in MeterType /\ ~d.on /\ Same(c, d) /\ d.insns = c.insns
      /\ d.ticks = c.ticks /\ d.insn = c.insn /\ d.tick = Update(c.tick, ticks)
  BY <1>1, <1>5, UpdateType DEF MeterType
<1> HIDE DEF d
<1>7. /\ ~e.on /\ Same(d, e) /\ e.insns = d.insns
      /\ e.ticks = d.ticks /\ e.insn = Update(d.insn, insns) /\ e.tick = d.tick
  BY <1>1, <1>6, UpdateType DEF MeterType
<1> HIDE DEF e
<1>8. Same(p, e) /\ ~e.on /\ Adds(p, e, insns, ticks)
  BY <1>3, <1>4, <1>5, <1>6, <1>7 DEF Adds, SameTotals
<1> QED BY <1>2, <1>8 DEF insns, ticks, r

LEMMA WatchEffect ==
  ASSUME NEW p \in MeterType, NEW s \in Nat
  PROVE  LET r == Watch(p, s)
         IN  /\ SameRound(p, r) /\ SameTotals(p, r) /\ r.call_only = p.call_only
             /\ r.sp \in {p.sp, Update(p.sp, s)}
             /\ ~p.on => r.sp = p.sp
  BY DEF Watch, MeterType, SameRound, SameTotals

(* A round begins; the first one begins with nothing.                       *)
Begun(p, r, cmd, at, s) ==
  /\ ~p.on /\ r.on /\ r.valid = "start"
  /\ r.insn_start = at.n_insns /\ r.tick_start = at.n_cycles
  /\ r.call_only.sp = (IF cmd = "start_call" THEN s ELSE IntMax)
  /\ r.call_only.insns = 0 /\ r.call_only.ticks = 0
  /\ \/ p.valid = "none" /\ r.n = 1 /\ SameTotals(UnusedMeter, r)
                         /\ r.sp = NoExtremes
     \/ p.valid = "start" /\ r.n = p.n + 1 /\ SameTotals(p, r) /\ r.sp = p.sp

LEMMA StartEffect ==
  ASSUME NEW p \in MeterType, NEW q, NEW at \in ProgType, NEW s \in Nat, NEW cmd
  PROVE  LET r == Start(p, cmd, at, q, s)
         IN  IF ~p.on /\ p.valid \in {"none", "start"}
             THEN Begun(p, r, cmd, at, s)
             ELSE p.valid # "none" => r = p
<1> DEFINE z == IF p.valid = "none" THEN [UnusedMeter EXCEPT !.valid = "start"]
                ELSE p
           call == [NoCall EXCEPT !.sp = IF cmd = "start_call" THEN s ELSE @]
           a == [z EXCEPT !.on = TRUE]
           b == [a EXCEPT !.n = @ + 1]
           c == [b EXCEPT !.call_only = call]
           d == [c EXCEPT !.insn_start = at.n_insns]
           e == [d EXCEPT !.tick_start = at.n_cycles]
           r == Start(p, cmd, at, q, s)
<1>1. NoExtremes \in Extremes /\ IntMax \in Nat
  BY DEF NoExtremes, Extremes, IntMax
<1>2. /\ z \in MeterType
      /\ p.valid = "none" => /\ z.n = 0 /\ SameTotals(UnusedMeter, z)
                             /\ z.valid = "start" /\ z.sp = NoExtremes
      /\ p.valid # "none" => z = p
  <2>1. UnusedMeter \in MeterType /\ UnusedMeter.n = 0 /\ UnusedMeter.sp = NoExtremes
    BY <1>1 DEF MeterType, UnusedMeter, NoCall
  <2> DEFINE y == [UnusedMeter EXCEPT !.valid = "start"]
  <2>2. /\ y \in MeterType /\ y.n = UnusedMeter.n /\ y.valid = "start"
        /\ SameTotals(UnusedMeter, y) /\ y.sp = UnusedMeter.sp
    BY <2>1 DEF MeterType, SameTotals
  <2> HIDE DEF y
  <2>3. z = IF p.valid = "none" THEN y ELSE p
    BY DEF y
  <2> HIDE DEF z
  <2> QED BY <2>1, <2>2, <2>3
<1>3. /\ call \in [sp : Nat, insns : Nat, ticks : Nat]
      /\ call.sp = (IF cmd = "start_call" THEN s ELSE IntMax)
      /\ call.insns = 0 /\ call.ticks = 0
  BY <1>1 DEF NoCall
<1>4. r = IF p.valid = "none" \/ (p.valid = "start" /\ ~p.on) THEN e ELSE p
  BY DEF Start
<1> HIDE DEF z, call, r
<1>5. /\ a \in MeterType /\ a.on /\ a.n = z.n /\ a.valid = z.valid
      /\ SameTotals(z, a) /\ a.sp = z.sp
  BY <1>2 DEF MeterType, SameTotals
<1> HIDE DEF a
<1>6. /\ b \in MeterType /\ b.on /\ b.n = a.n + 1 /\ b.valid = a.valid
      /\ SameTotals(a, b) /\ b.sp = a.sp
  BY <1>5 DEF MeterType, SameTotals
<1> HIDE DEF b
<1>7. /\ c \in MeterType /\ c.on /\ c.n = b.n /\ c.valid = b.valid
      /\ SameTotals(b, c) /\ c.sp = b.sp /\ c.call_only = call
  BY <1>3, <1>6 DEF MeterType, SameTotals
<1> HIDE DEF c
<1>8. /\ d \in MeterType /\ d.on /\ d.n = c.n /\ d.valid = c.valid
      /\ SameTotals(c, d) /\ d.sp = c.sp /\ d.call_only = c.call_only
      /\ d.insn_start = at.n_insns
  BY <1>7 DEF MeterType, SameTotals, ProgType
<1> HIDE DEF d
<1>9. /\ e.on /\ e.n = d.n /\ e.valid = d.valid
      /\ SameTotals(d, e) /\ e.sp = d.sp /\ e.call_only = d.call_only
      /\ e.insn_start = d.insn_start /\ e.tick_start = at.n_cycles
  BY <1>8 DEF MeterType, SameTotals, ProgType
<1> HIDE DEF e
<1>10. CASE ~p.on /\ p.valid = "none"
  <2>1. SameTotals(UnusedMeter, e) /\ e.n = 1 /\ e.sp = NoExtremes
    BY <1>2, <1>5, <1>6, <1>7, <1>8, <1>9, <1>10 DEF SameTotals
  <2>2. e.on /\ e.valid = "start" /\ e.insn_start = at.n_insns
        /\ e.tick_start = at.n_cycles /\ e.call_only = call
    BY <1>2, <1>5, <1>6, <1>7, <1>8, <1>9, <1>10
  <2> QED BY <1>3, <1>4, <1>10, <2>1, <2>2 DEF Begun, r
<1>11. CASE ~p.on /\ p.valid = "start"
  <2>1. SameTotals(p, e) /\ e.n = p.n + 1 /\ e.sp = p.sp
    BY <1>2, <1>5, <1>6, <1>7, <1>8, <1>9, <1>11 DEF SameTotals
  <2>2. e.on /\ e.valid = "start" /\ e.insn_start = at.n_insns
        /\ e.tick_start = at.n_cycles /\ e.call_only = call
    BY <1>2, <1>5, <1>6, <1>7, <1>8, <1>9, <1>11
  <2> QED BY <1>3, <1>4, <1>11, <2>1, <2>2 DEF Begun, r
<1>12. CASE p.valid # "none" /\ ~(p.valid = "start" /\ ~p.on)
  BY <1>4, <1>12 DEF r
<1> QED BY <1>10, <1>11, <1>12

(* A value for a meter changes none that is running.                        *)
LEMMA StatEffect ==
  ASSUME NEW p \in MeterType
  PROVE  LET r == Stat(p)
         IN  /\ SameTotals(p, r) /\ r.sp = p.sp
             /\ p.valid = "start" => r = p
             /\ p.valid # "start" => r.valid = "stat" /\ (r.on => p.on)
<1> DEFINE r == Stat(p)
<1>1. CASE p.valid = "none"
  <2> DEFINE a == [p EXCEPT !.valid = "stat"]
             b == [a EXCEPT !.on = FALSE]
             c == [b EXCEPT !.n = 1]
  <2>1. r = c
    BY <1>1 DEF Stat
  <2>2. a \in MeterType /\ a.valid = "stat" /\ SameTotals(p, a) /\ a.sp = p.sp
    BY DEF MeterType, SameTotals
  <2> HIDE DEF a, r
  <2>3. b \in MeterType /\ b.valid = "stat" /\ SameTotals(a, b) /\ b.sp = a.sp
        /\ ~b.on
    BY <2>2 DEF MeterType, SameTotals
  <2> HIDE DEF b
  <2>4. c.valid = "stat" /\ SameTotals(b, c) /\ c.sp = b.sp /\ ~c.on
    BY <2>3 DEF MeterType, SameTotals
  <2> HIDE DEF c
  <2> QED BY <1>1, <2>1, <2>2, <2>3, <2>4 DEF r, SameTotals
<1>2. CASE p.valid = "stat"
  <2>1. r = [p EXCEPT !.n = @ + 1]
    BY <1>2 DEF Stat
  <2> HIDE DEF r
  <2>2. /\ SameTotals(p, r) /\ r.sp = p.sp /\ r.valid = "stat" /\ r.on = p.on
    BY <1>2, <2>1 DEF MeterType, SameTotals
  <2> QED BY <1>2, <2>2 DEF r
<1>3. CASE p.valid = "start"
  BY <1>3 DEF Stat, SameTotals
<1> QED BY <1>1, <1>2, <1>3 DEF MeterType

(* What can become of a meter: it is where it was, or was and is off, its   *)
(* round has ended, or one has begun.                                       *)
Kept(p, r)  == SameRound(p, r) /\ SameTotals(p, r)

Rests(p, r) == ~p.on /\ ~r.on /\ r.valid # "start" /\ SameTotals(p, r)

Ended(p, r, insns, ticks) ==
  p.on /\ ~r.on /\ r.n = p.n /\ Adds(p, r, insns, ticks)

LEMMA ServeMeterOutcome ==
  ASSUME NEW p \in MeterType, NEW q \in PerfType, NEW at \in ProgType,
         NEW s \in Nat, NEW asked \in BOOLEAN, p.on => p.valid = "start"
  PROVE  LET cc == CallCosts(p, q, at, s)
             r  == ServeMeter(p, asked, q, at, s)
         IN  /\ r.on => r.valid = "start"
             /\ r.sp \in {p.sp, Update(p.sp, s), NoExtremes}
             /\ \/ Kept(p, r) /\ r.call_only = cc.call_only
                \/ asked /\ Rests(p, r)
                \/ asked /\ Ended(p, r, StopInsns(cc, at), StopTicks(cc, q))
                \/ asked /\ Begun(p, r, q.cmd, at, s)
<1> DEFINE p1 == CallCosts(p, q, at, s)
           p2 == IF asked /\ q.cmd \in {"stop", "dump"} THEN Stop(p1, q, at) ELSE p1
           p3 == IF asked /\ q.cmd = "dump" THEN Dump(p2) ELSE p2
           p4 == Watch(p3, s)
           insns == StopInsns(p1, at)
           ticks == StopTicks(p1, q)
           r == ServeMeter(p, asked, q, at, s)
<1>1. p1 \in MeterType /\ SameRound(p, p1) /\ SameTotals(p, p1) /\ p1.sp = p.sp
  BY CallCostsType, CallCostsEffect
<1>2. r = CASE asked /\ q.cmd \in {"start", "start_call"} -> Start(p4, q.cmd, at, q, s)
            [] asked /\ q.cmd = "stat" -> Stat(p4)
            [] OTHER -> p4
  BY DEF ServeMeter
<1> HIDE DEF r, p1
<1>3. CASE asked /\ q.cmd \in {"stop", "dump"}
  <2>1. p2 = Stop(p1, q, at)
    BY <1>3
  <2>2. /\ p2 \in MeterType /\ p2.sp = p.sp /\ p2.n = p.n /\ p2.valid = p.valid
        /\ IF p.on THEN ~p2.on /\ Adds(p, p2, insns, ticks) ELSE p2 = p1
    <3> HIDE DEF p2, insns, ticks
    <3>1. p2 \in MeterType
      BY <1>1, <2>1, StopType
    <3>2. /\ p2.sp = p1.sp /\ p2.n = p1.n /\ p2.valid = p1.valid
          /\ IF p1.valid = "start" /\ p1.on
             THEN ~p2.on /\ Adds(p1, p2, insns, ticks) ELSE p2 = p1
      BY <1>1, <2>1, StopEffect DEF insns, ticks
    <3> QED BY <1>1, <3>1, <3>2 DEF SameRound, SameTotals, Adds
  <2> HIDE DEF p2
  <2>3. /\ p3 \in MeterType /\ p3.sp = p2.sp /\ p3.n = p2.n /\ p3.on = p2.on
        /\ SameTotals(p2, p3) /\ p3.valid = IF q.cmd = "dump" THEN "none" ELSE p2.valid
        /\ q.cmd # "dump" => p3 = p2
    BY <1>3, <2>2 DEF Dump, MeterType, SameTotals
  <2> HIDE DEF p3
  <2>4. /\ SameRound(p3, p4) /\ SameTotals(p3, p4) /\ p4.call_only = p3.call_only
        /\ p4.sp \in {p3.sp, Update(p3.sp, s)}
    BY <2>3, WatchEffect
  <2>5. r = p4
    BY <1>2, <1>3
  <2> HIDE DEF p4
  <2>6. CASE p.on
    <3>1. ~p2.on /\ Adds(p, p2, insns, ticks)
      BY <2>2, <2>6
    <3>2. Ended(p, r, insns, ticks)
      BY <2>2, <2>3, <2>4, <2>5, <2>6, <3>1 DEF Ended, Adds, SameRound, SameTotals
    <3>3. r.sp \in {p.sp, Update(p.sp, s)} /\ ~r.on
      BY <2>2, <2>3, <2>4, <2>5, <3>1 DEF SameRound
    <3> QED BY <1>3, <3>2, <3>3 DEF p1, r
  <2>7. CASE ~p.on
    <3>1. p2 = p1
      BY <2>2, <2>7
    <3>2. r.sp \in {p.sp, Update(p.sp, s)} /\ ~r.on /\ SameTotals(p, r)
      BY <1>1, <2>3, <2>4, <2>5, <2>7, <3>1 DEF SameRound, SameTotals
    <3>3. CASE q.cmd = "dump"
      <4>1. r.valid = "none"
        BY <2>3, <2>4, <2>5, <3>3 DEF SameRound
      <4>2. Rests(p, r)
        BY <2>7, <3>2, <4>1 DEF Rests
      <4> QED BY <1>3, <3>2, <4>2 DEF r
    <3>4. CASE q.cmd # "dump"
      <4>1. SameRound(p, r) /\ r.call_only = p1.call_only
        BY <1>1, <2>3, <2>4, <2>5, <3>1, <3>4 DEF SameRound
      <4> QED BY <2>7, <3>2, <4>1 DEF Kept, r, p1
    <3> QED BY <3>3, <3>4
  <2> QED BY <2>6, <2>7
<1>4. CASE ~(asked /\ q.cmd \in {"stop", "dump"})
  <2>1. p3 = p1
    BY <1>4
  <2> HIDE DEF p3
  <2>2. /\ SameRound(p1, p4) /\ SameTotals(p1, p4) /\ p4.call_only = p1.call_only
        /\ p4.sp \in {p1.sp, Update(p1.sp, s)} /\ p4 \in MeterType
        /\ ~p1.on => p4.sp = p1.sp
    BY <1>1, <2>1, WatchEffect, DumpWatchType
  <2>3. /\ SameRound(p, p4) /\ SameTotals(p, p4) /\ p4.call_only = p1.call_only
        /\ p4.sp \in {p.sp, Update(p.sp, s)}
        /\ ~p.on => p4.sp = p.sp
    BY <1>1, <2>2 DEF SameRound, SameTotals
  <2>4. p4.on => p4.valid = "start"
    BY <2>3 DEF SameRound
  <2> HIDE DEF p4
  <2>5. CASE r = p4
    BY <2>3, <2>4, <2>5 DEF Kept, p1, r
  <2>6. CASE asked /\ q.cmd \in {"start", "start_call"}
    <3>1. r = Start(p4, q.cmd, at, q, s)
      BY <1>2, <2>6
    <3>2. IF ~p4.on /\ p4.valid \in {"none", "start"}
          THEN Begun(p4, r, q.cmd, at, s)
          ELSE p4.valid # "none" => r = p4
      BY <2>2, <3>1, StartEffect
    <3>3. CASE r = p4
      BY <2>5, <3>3
    <3>4. CASE Begun(p4, r, q.cmd, at, s)
      <4>1. Begun(p, r, q.cmd, at, s)
        BY <2>3, <3>4 DEF Begun, SameRound, SameTotals
      <4>2. r.on /\ r.valid = "start" /\ r.sp \in {p4.sp, NoExtremes}
        BY <3>4 DEF Begun
      <4> QED BY <2>3, <2>6, <4>1, <4>2 DEF r
    <3> QED BY <2>4, <3>2, <3>3, <3>4
  <2>7. CASE asked /\ q.cmd = "stat"
    <3>1. r = Stat(p4)
      BY <1>2, <2>7
    <3>2. /\ SameTotals(p4, r) /\ r.sp = p4.sp
          /\ p4.valid = "start" => r = p4
          /\ p4.valid # "start" => r.valid = "stat" /\ (r.on => p4.on)
      BY <2>2, <3>1, StatEffect
    <3>3. CASE p4.valid = "start"
      BY <2>5, <3>2, <3>3
    <3>4. CASE p4.valid # "start"
      <4>1. ~p.on /\ ~r.on /\ r.valid = "stat" /\ r.sp = p4.sp
        BY <2>3, <2>4, <3>2, <3>4 DEF SameRound
      <4>2. SameTotals(p, r)
        BY <2>3, <3>2 DEF SameTotals
      <4> QED BY <2>3, <2>7, <4>1, <4>2 DEF Rests, r
    <3> QED BY <3>3, <3>4
  <2>8. r = p4 \/ (asked /\ q.cmd \in {"start", "start_call"}) \/ (asked /\ q.cmd = "stat")
    BY <1>2
  <2> QED BY <2>5, <2>6, <2>7, <2>8
<1> QED BY <1>3, <1>4

-----------------------------------------------------------------------------
(* One instruction                                                         *)

LEMMA PerfInstructionEffect ==
  ASSUME NEW q \in PerfType, NEW ms \in [Meters -> MeterType],
         NEW at \in ProgType, NEW s \in Nat
  PROVE  LET r == PerfInstruction(q, ms, at, s)
         IN  r.sp = s /\ r.tick = at.n_cycles % DWord
<1> DEFINE a == [q EXCEPT !.will_be_on = FALSE]
           b == [a EXCEPT !.sp = s]
           c == [b EXCEPT !.tick = at.n_cycles % DWord]
           d == [c EXCEPT !.pmask = {}]
           e == [d EXCEPT !.on = AnyOn(ms)]
           f == [e EXCEPT !.n_dumps = @ + IF q.cmd = "dump" THEN 1 ELSE 0]
           Same(x, y) == y.sp = x.sp /\ y.tick = x.tick
<1>1. AnyOn(ms) \in BOOLEAN /\ at.n_cycles % DWord \in Nat
  BY Remainder DEF AnyOn, ProgType
<1>2. PerfInstruction(q, ms, at, s) = IF Idle(q) THEN c ELSE f
  BY DEF PerfInstruction
<1>3. a \in PerfType
  BY DEF PerfType
<1> HIDE DEF a
<1>4. b \in PerfType /\ b.sp = s
  BY <1>3 DEF PerfType
<1> HIDE DEF b
<1>5. c \in PerfType /\ c.sp = s /\ c.tick = at.n_cycles % DWord
  BY <1>1, <1>4 DEF PerfType
<1> HIDE DEF c
<1>6. d \in PerfType /\ Same(c, d)
  BY <1>5 DEF PerfType
<1> HIDE DEF d
<1>7. e \in PerfType /\ Same(d, e)
  BY <1>1, <1>6 DEF PerfType
<1> HIDE DEF e
<1>8. Same(e, f)
  BY <1>7 DEF PerfType
<1> HIDE DEF f
<1> QED BY <1>2, <1>5, <1>6, <1>7, <1>8

(* A meter that is off is left alone, unless it is asked for.               *)
LEMMA OffServed ==
  ASSUME NEW p, NEW q, NEW at, NEW s, ~p.on, NEW asked, ~asked
  PROVE  ServeMeter(p, asked, q, at, s) = p
<1>1. CallCosts(p, q, at, s) = p /\ Watch(p, s) = p
  BY DEF CallCosts, Watch
<1> QED BY <1>1 DEF ServeMeter

(* perf_instruction returns early only if no meter would change.            *)
LEMMA MetersServed ==
  ASSUME NEW ms, NEW q \in PerfType, NEW at, NEW s, NEW m \in Meters,
         AnyOn(ms) => q.on
  PROVE  ServeMeters(ms, q, at, s)[m]
           = ServeMeter(ms[m], m \in q.pmask, q, at, s)
<1>1. CASE Idle(q)
  <2>1. ~ms[m].on /\ q.pmask = {}
    BY <1>1, Zenon DEF Idle, AnyOn
  <2> DEFINE p == ms[m]
             asked == m \in q.pmask
  <2>2. ~asked /\ ~p.on
    BY <2>1
  <2> HIDE DEF p, asked
  <2>3. ServeMeter(p, asked, q, at, s) = p
    BY <2>2, OffServed
  <2> QED BY <1>1, <2>3 DEF ServeMeters, p, asked
<1>2. CASE ~Idle(q)
  BY <1>2 DEF ServeMeters
<1> QED BY <1>1, <1>2

(* The request of the instruction.                                          *)
LEMMA RequestEffect ==
  ASSUME NEW i, Executes(i)
  PROVE  LET q == Executed(i).perf
         IN  /\ q \in PerfType
             /\ q.tick = perf.tick /\ q.sp = perf.sp /\ q.on = perf.on
             /\ q.pmask # {} => i.no = 5
             /\ i.no # 5 => q = perf
<1> DEFINE q == Executed(i).perf
<1>1. /\ q \in PerfType /\ perf \in PerfType /\ perf.pmask = {}
  BY ExecutedType DEF Executes, Inv, TypeOK, Ready, StateType
<1>2. q = IF i.no = 5 THEN PerfCmd(perf, i.cmd, i.n) ELSE perf
  BY DEF Executed
<1> HIDE DEF q
<1>3. CASE i.no = 5
  <2>1. q.tick = perf.tick /\ q.sp = perf.sp /\ q.on = perf.on
    BY <1>1, <1>2, <1>3 DEF PerfCmd, PerfType
  <2> QED BY <1>1, <1>3, <2>1 DEF q
<1>4. CASE i.no # 5
  BY <1>1, <1>2, <1>4 DEF q
<1> QED BY <1>3, <1>4

(* program.n_cycles as perf_instruction finds it.                           *)
At(c) == [prog EXCEPT !.n_cycles = @ + c]

(* A meter after perf_instruction.                                          *)
Served(m, i, c) ==
  ServeMeter(meters[m], m \in Executed(i).perf.pmask, Executed(i).perf, At(c),
             NonglitchSP(i))

LEMMA AtType ==
  ASSUME TypeOK, NEW c \in Costs
  PROVE  /\ At(c) \in ProgType /\ prog \in ProgType /\ c \in Nat
         /\ At(c).n_cycles = prog.n_cycles + c
         /\ At(c).n_insns = prog.n_insns
<1>1. prog \in ProgType /\ c \in Nat
  BY BoundsAssumption DEF TypeOK, ProgType
<1>2. prog.n_cycles + c \in Nat
  BY <1>1 DEF ProgType
<1> QED BY <1>1, <1>2 DEF At, ProgType

LEMMA LoggedMeters ==
  ASSUME NEW i, Executes(i), NEW c \in Costs
  PROVE  LET r == Logged(i, At(c))
         IN  /\ \A m \in Meters : r.meters[m] = Served(m, i, c)
             /\ need.perf => /\ r.perf.sp = NonglitchSP(i)
                             /\ r.perf.tick = At(c).n_cycles % DWord
<1> DEFINE st == Executed(i)
           q == st.perf
           s == NonglitchSP(i)
           at == At(c)
           r == Logged(i, at)
           served == ServeMeters(st.meters, q, at, s)
<1>1. /\ TypeOK /\ Ready /\ Known /\ meters \in [Meters -> MeterType]
      /\ (i.no # -1 => i.no \in have)
  BY DEF Executes, Inv, TypeOK
<1>2. st \in StateType /\ st.meters = meters
  BY ExecutedType
<1>3. at \in ProgType /\ s \in Nat
  BY <1>1, AtType, StackPointerType
<1>4. /\ q \in PerfType /\ q.on = perf.on
      /\ q.pmask # {} => i.no = 5
  BY RequestEffect
<1>5. AnyOn(meters) => q.on
  BY <1>1, <1>4, Zenon DEF Ready
<1>6. \A m \in Meters : served[m] = Served(m, i, c)
  <2> SUFFICES ASSUME NEW m \in Meters PROVE served[m] = Served(m, i, c)
    OBVIOUS
  <2> HIDE DEF at, s, q, st
  <2>1. ServeMeters(meters, q, at, s)[m]
          = ServeMeter(meters[m], m \in q.pmask, q, at, s)
    BY <1>4, <1>5, MetersServed
  <2> QED BY <1>2, <2>1 DEF Served, at, s, q, st
<1>7. /\ r.meters = IF need.perf THEN served ELSE st.meters
      /\ r.perf = IF need.perf THEN PerfInstruction(q, served, at, s) ELSE q
  BY DEF Logged, LogDumpLine
<1>8. CASE need.perf
  <2>1. served \in [Meters -> MeterType]
    BY <1>1, <1>2, <1>3, <1>4, ServeMetersType
  <2>2. r.perf = PerfInstruction(q, served, at, s) /\ r.meters = served
    BY <1>7, <1>8
  <2> HIDE DEF served, q, r, at, s
  <2>3. r.perf.sp = s /\ r.perf.tick = at.n_cycles % DWord
    BY <1>3, <1>4, <2>1, <2>2, PerfInstructionEffect
  <2> QED BY <1>6, <1>8, <2>2, <2>3 DEF r, at, s
<1>9. CASE ~need.perf
  <2>1. i.no # 5 /\ ~perf.on
    BY <1>1, <1>9 DEF Known, Ready
  <2>2. \A m \in Meters : ~meters[m].on /\ ~(m \in q.pmask)
    BY <1>1, <1>4, <2>1 DEF Ready, AnyOn
  <2>3. \A m \in Meters : Served(m, i, c) = meters[m]
    <3> SUFFICES ASSUME NEW m \in Meters PROVE Served(m, i, c) = meters[m]
      OBVIOUS
    <3> DEFINE p == meters[m]
               asked == m \in q.pmask
    <3>1. ~p.on /\ ~asked
      BY <2>2
    <3> HIDE DEF p, asked, q, at, s
    <3>2. ServeMeter(p, asked, q, at, s) = p
      BY <3>1, OffServed
    <3> QED BY <3>2 DEF Served, p, asked, q, at, s
  <2>4. r.meters = meters
    BY <1>2, <1>7, <1>9
  <2> QED BY <1>9, <2>3, <2>4
<1> QED BY <1>8, <1>9

(* What do_step makes of the meters and of the counters; at the instruction *)
(* limit perf_instruction runs a second time.                               *)
LEMMA ExecuteEffect ==
  ASSUME Inv, NEW i \in Instructions, NEW c \in Costs, Execute(i, c)
  PROVE  /\ prog'.n_cycles = prog.n_cycles + c
         /\ status' = "RUNNING" => prog'.n_insns = prog.n_insns + 1
         /\ sp' = NextSP(i) /\ need' = need
         /\ glitch' = [left |-> GlitchLeft(i), sp |-> NonglitchSP(i)]
         /\ need.perf => /\ perf'.sp = NonglitchSP(i)
                         /\ perf'.tick = prog'.n_cycles % DWord
         /\ \A m \in Meters :
              \/ meters'[m] = Served(m, i, c)
              \/ /\ status' # "RUNNING"
                 /\ \E q \in PerfType :
                      meters'[m] = ServeMeter(Served(m, i, c), FALSE, q, At(c),
                                              NonglitchSP(i))
<1> DEFINE at == At(c)
           once == Logged(i, at)
           limit == MaxInsns # 0 /\ prog.n_insns >= MaxInsns
           left == i.op # "exit" /\ limit /\ ~once.fatal
           s == NonglitchSP(i)
           last == LastLine(once, at, s)
           served == ServeMeters(once.meters, once.perf, at, s)
<1>1. Executes(i) /\ TypeOK
  BY DEF Execute, Executes, Inv
<1>2. /\ at \in ProgType /\ at.n_cycles = prog.n_cycles + c
      /\ at.n_insns = prog.n_insns
  BY <1>1, AtType
<1>3. /\ sp' = NextSP(i) /\ need' = need
      /\ glitch' = [left |-> GlitchLeft(i), sp |-> s]
      /\ Becomes(IF left THEN last ELSE once)
      /\ status' = CASE once.fatal     -> "FATAL"
                     [] i.op = "exit"  -> "EXIT"
                     [] left           -> "TIMEOUT"
                     [] OTHER          -> "RUNNING"
      /\ prog' = IF status' = "RUNNING"
                 THEN [at EXCEPT !.n_insns = @ + 1] ELSE at
  BY DEF Execute, At
<1>4. /\ once \in StateType /\ ~once.fatal /\ once.perf.pmask = {}
      /\ AnyOn(once.meters) => once.perf.on
  BY <1>1, <1>2, LoggedHolds
<1>5. /\ \A m \in Meters : once.meters[m] = Served(m, i, c)
      /\ need.perf => once.perf.sp = s /\ once.perf.tick = at.n_cycles % DWord
  BY <1>1, LoggedMeters
<1>6. s \in Nat
  BY <1>1, StackPointerType
<1>7. /\ last.meters = IF need.perf THEN served ELSE once.meters
      /\ last.perf = IF need.perf THEN PerfInstruction(once.perf, served, at, s)
                     ELSE once.perf
  BY DEF LastLine, LogDumpLine
<1> HIDE DEF once, s, last, limit, at, served
<1>8. once.meters \in [Meters -> MeterType] /\ once.perf \in PerfType
  BY <1>4 DEF StateType
<1>9. prog'.n_cycles = at.n_cycles
      /\ (status' = "RUNNING" => prog'.n_insns = at.n_insns + 1)
  BY <1>2, <1>3 DEF ProgType
<1>10. left => status' # "RUNNING"
  BY <1>3, <1>4
<1>11. CASE ~left
  <2>1. meters' = once.meters /\ perf' = once.perf
    BY <1>3, <1>11 DEF Becomes
  <2> HIDE DEF left
  <2> QED BY <1>2, <1>3, <1>5, <1>9, <2>1 DEF s
<1>12. CASE left
  <2>1. meters' = last.meters /\ perf' = last.perf
    BY <1>3, <1>12 DEF Becomes
  <2> HIDE DEF left
  <2>2. need.perf => perf'.sp = s /\ perf'.tick = at.n_cycles % DWord
    <3>1. served \in [Meters -> MeterType]
      BY <1>2, <1>6, <1>8, ServeMetersType DEF served
    <3> QED BY <1>2, <1>6, <1>7, <1>8, <2>1, <3>1, PerfInstructionEffect
  <2>3. ASSUME NEW m \in Meters
        PROVE  \/ meters'[m] = Served(m, i, c)
               \/ meters'[m] = ServeMeter(Served(m, i, c), FALSE, once.perf, at, s)
    <3> DEFINE p == once.meters[m]
               asked == m \in once.perf.pmask
    <3>1. served[m] = ServeMeter(p, asked, once.perf, at, s)
      BY <1>4, <1>8, MetersServed DEF served
    <3>2. asked = FALSE
      BY <1>4
    <3> HIDE DEF p, asked
    <3>3. served[m] = ServeMeter(p, FALSE, once.perf, at, s)
      BY <3>1, <3>2
    <3> QED BY <1>5, <1>7, <2>1, <3>3 DEF p
  <2> QED BY <1>2, <1>3, <1>8, <1>9, <1>10, <1>12, <2>2, <2>3 DEF s, at
<1> QED BY <1>11, <1>12

(* What one step makes of a meter, whether or not the program goes on.      *)
RoundStarts(p, r, at) ==
  /\ ~p.on /\ r.on /\ r.valid = "start"
  /\ r.insn_start = at.n_insns /\ r.tick_start = at.n_cycles
  /\ \/ p.valid = "none" /\ r.n = 1 /\ SameTotals(UnusedMeter, r)
     \/ p.valid = "start" /\ r.n = p.n + 1 /\ SameTotals(p, r)

StartsCalls(r, cmd, s) ==
  /\ r.call_only.sp = (IF cmd = "start_call" THEN s ELSE IntMax)
  /\ r.call_only.insns = 0 /\ r.call_only.ticks = 0

Outcome(p, r, q, at, s, runs) ==
  LET cc == CallCosts(p, q, at, s)
  IN  \/ Kept(p, r) /\ (runs => r.call_only = cc.call_only)
      \/ Rests(p, r)
      \/ Ended(p, r, StopInsns(cc, at), StopTicks(cc, q))
      \/ RoundStarts(p, r, at) /\ (runs => StartsCalls(r, q.cmd, s))

LEMMA KeptAfter ==
  ASSUME NEW p \in MeterType, NEW v \in MeterType, NEW r, NEW q, NEW at, NEW s,
         Outcome(p, v, q, at, s, TRUE), Kept(v, r)
  PROVE  Outcome(p, r, q, at, s, FALSE)
<1> DEFINE cc == CallCosts(p, q, at, s)
           insns == StopInsns(cc, at)
           ticks == StopTicks(cc, q)
<1>1. CASE Kept(p, v)
  <2>1. Kept(p, r)
    BY <1>1 DEF Kept, SameRound, SameTotals
  <2> QED BY <2>1 DEF Outcome
<1>2. CASE Rests(p, v)
  <2>1. Rests(p, r)
    BY <1>2 DEF Kept, Rests, SameRound, SameTotals
  <2> QED BY <2>1 DEF Outcome
<1>3. CASE Ended(p, v, insns, ticks)
  <2> HIDE DEF insns, ticks
  <2>1. Ended(p, r, insns, ticks)
    BY <1>3 DEF Kept, Ended, Adds, SameRound, SameTotals
  <2> QED BY <2>1 DEF Outcome, insns, ticks
<1>4. CASE RoundStarts(p, v, at)
  <2>1. RoundStarts(p, r, at)
    BY <1>4 DEF Kept, RoundStarts, SameRound, SameTotals
  <2> QED BY <2>1 DEF Outcome
<1> QED BY <1>1, <1>2, <1>3, <1>4 DEF Outcome

LEMMA MeterStep ==
  ASSUME Inv, NEW i \in Instructions, NEW c \in Costs, Execute(i, c),
         NEW m \in Meters, meters[m].on => meters[m].valid = "start"
  PROVE  LET p == meters[m]
             r == meters'[m]
             s == NonglitchSP(i)
         IN  /\ r.on => r.valid = "start"
             /\ \E x \in {p.sp, Update(p.sp, s), NoExtremes} :
                  r.sp \in {x, Update(x, s)}
             /\ Outcome(p, r, Executed(i).perf, At(c), s, status' = "RUNNING")
<1> DEFINE p == meters[m]
           r == meters'[m]
           s == NonglitchSP(i)
           q == Executed(i).perf
           at == At(c)
           v == Served(m, i, c)
           asked == m \in q.pmask
           cc == CallCosts(p, q, at, s)
           ok == status' = "RUNNING"
<1>1. Executes(i) /\ TypeOK
  BY DEF Execute, Executes, Inv
<1>2. /\ p \in MeterType /\ s \in Nat /\ q \in PerfType /\ at \in ProgType
      /\ asked \in BOOLEAN /\ ok \in BOOLEAN
  BY <1>1, AtType, RequestEffect, StackPointerType DEF TypeOK
<1>3. \/ r = v
      \/ /\ ~ok
         /\ \E q2 \in PerfType : r = ServeMeter(v, FALSE, q2, at, s)
  BY ExecuteEffect
<1>4. v = ServeMeter(p, asked, q, at, s)
  BY DEF Served
<1>5. p.on => p.valid = "start"
  OBVIOUS
<1> HIDE DEF p, r, s, q, at, v, asked, ok
<1>6. v \in MeterType
  BY <1>2, <1>4, ServeMeterType
<1>7. /\ v.on => v.valid = "start"
      /\ v.sp \in {p.sp, Update(p.sp, s), NoExtremes}
      /\ \/ Kept(p, v) /\ v.call_only = cc.call_only
         \/ asked /\ Rests(p, v)
         \/ asked /\ Ended(p, v, StopInsns(cc, at), StopTicks(cc, q))
         \/ asked /\ Begun(p, v, q.cmd, at, s)
  BY <1>2, <1>4, <1>5, ServeMeterOutcome
<1>8. Begun(p, v, q.cmd, at, s) =>
        RoundStarts(p, v, at) /\ StartsCalls(v, q.cmd, s)
  BY DEF Begun, RoundStarts, StartsCalls
<1>9. Outcome(p, v, q, at, s, TRUE)
  BY <1>7, <1>8 DEF Outcome
<1>10. CASE r = v
  <2>1. Outcome(p, r, q, at, s, ok)
    BY <1>9, <1>10 DEF Outcome
  <2> QED BY <1>7, <1>10, <2>1 DEF p, r, s, q, at, ok
<1>11. CASE ~ok /\ r # v
  <2>1. PICK q2 \in PerfType : r = ServeMeter(v, FALSE, q2, at, s)
    BY <1>3, <1>11
  <2>2. /\ r.on => r.valid = "start"
        /\ r.sp \in {v.sp, Update(v.sp, s), NoExtremes}
        /\ Kept(v, r)
    BY <1>2, <1>6, <1>7, <2>1, ServeMeterOutcome
  <2>3. Outcome(p, r, q, at, s, FALSE)
    BY <1>2, <1>6, <1>9, <2>2, KeptAfter
  <2>4. Outcome(p, r, q, at, s, ok)
    BY <1>2, <1>11, <2>3
  <2> QED BY <1>7, <2>2, <2>4 DEF p, r, s, q, at, ok
<1>12. r = v \/ ~ok
  BY <1>3
<1> QED BY <1>10, <1>11, <1>12

-----------------------------------------------------------------------------
(* The history                                                             *)

Top == SpByte * SpByte

RoundType == [insns : Nat, cycles : Nat, depth : Nat, moves : BOOLEAN]
EndedType == [insns : Nat, cycles : Nat, moves : BOOLEAN]
CostType  == [insns : Nat, cycles : Nat]

HistoryType ==
  /\ round \in [Meters -> RoundType]
  /\ rounds \in [Meters -> Seq(EndedType)]
  /\ total \in [Meters -> CostType]
  /\ frames \in Seq(0 .. Top - 1)
  /\ quiet \in 0 .. 4
  /\ whole \in [torn : BOOLEAN, seen : SUBSET (0 .. Top - 1)]

LEMMA HistoryTypeInit == HInit => HistoryType
<1> SUFFICES ASSUME HInit PROVE HistoryType
  OBVIOUS
<1>1. sp \in 0 .. Top - 1
  BY SpRange DEF HInit, Init, Top
<1>2. /\ round \in [Meters -> RoundType]
      /\ rounds \in [Meters -> Seq(EndedType)]
      /\ total \in [Meters -> CostType]
      /\ frames \in Seq(0 .. Top - 1)
      /\ quiet \in 0 .. 4
  BY DEF HInit, RoundType, CostType, Nothing
<1>3. whole \in [torn : BOOLEAN, seen : SUBSET (0 .. Top - 1)]
  BY <1>1 DEF HInit
<1> QED BY <1>2, <1>3 DEF HistoryType

LEMMA StepIsNext == HNext => Next
  BY DEF HNext, HStep, Next

(* The instruction is counted or not.                                       *)
LEMMA RoundGrows ==
  ASSUME HistoryType, NEW i, NEW m \in Meters, meters[m].on,
         prog \in ProgType, prog'.n_cycles \in Nat, NEW c \in Nat,
         prog'.n_cycles = prog.n_cycles + c
  PROVE  LET d == NextRound(m, i)
         IN  /\ d \in RoundType
             /\ d.insns = round[m].insns + (IF Counted(m) THEN 1 ELSE 0)
             /\ d.cycles = round[m].cycles + (IF Counted(m) THEN c ELSE 0)
             /\ d.depth = round[m].depth
             /\ d.moves <=> \/ round[m].moves
                            \/ ~OnlyCallsMoveSP(i, round[m].depth)
<1> DEFINE n == IF Counted(m) THEN 1 ELSE 0
           x == round[m].insns + n
           y == round[m].cycles + n * (prog'.n_cycles - prog.n_cycles)
           z == round[m].moves \/ ~OnlyCallsMoveSP(i, round[m].depth)
           d == NextRound(m, i)
<1>1. round[m] \in RoundType
  BY DEF HistoryType
<1>2. n * (prog'.n_cycles - prog.n_cycles) = IF Counted(m) THEN c ELSE 0
  BY DEF ProgType
<1>3. /\ x \in Nat /\ y \in Nat
      /\ x = round[m].insns + (IF Counted(m) THEN 1 ELSE 0)
      /\ y = round[m].cycles + (IF Counted(m) THEN c ELSE 0)
  BY <1>1, <1>2 DEF RoundType
<1>4. d = [insns |-> x, cycles |-> y, depth |-> round[m].depth, moves |-> z]
  BY Zenon DEF NextRound, Begins
<1>5. z \in BOOLEAN
  OBVIOUS
<1> HIDE DEF x, y, z, d
<1>6. /\ d \in RoundType /\ d.insns = x /\ d.cycles = y
      /\ d.depth = round[m].depth /\ d.moves = z
  BY <1>1, <1>3, <1>4, <1>5 DEF RoundType
<1>7. d.moves <=> z
  BY <1>6
<1> QED BY <1>3, <1>6, <1>7, Zenon DEF d, z

LEMMA NextRoundType ==
  ASSUME HistoryType, NEW i, NEW m \in Meters, frames' \in Seq(0 .. Top - 1),
         prog \in ProgType, prog'.n_cycles \in Nat, NEW c \in Nat,
         prog'.n_cycles = prog.n_cycles + c
  PROVE  NextRound(m, i) \in RoundType
<1>1. CASE Begins(m)
  <2> DEFINE new == [insns |-> 0, cycles |-> 0, depth |-> Depth',
                     moves |-> quiet' < 4]
  <2>1. Depth' \in Nat
    BY DEF Depth
  <2>2. new \in RoundType
    BY <2>1 DEF RoundType
  <2>3. NextRound(m, i) = new
    BY <1>1 DEF NextRound, Begins
  <2> QED BY <2>2, <2>3
<1>2. CASE meters[m].on
  BY <1>2, RoundGrows
<1>3. CASE ~Begins(m) /\ ~meters[m].on
  <2>1. NextRound(m, i) = round[m]
    BY <1>3 DEF NextRound
  <2> QED BY <2>1 DEF HistoryType
<1> QED BY <1>1, <1>2, <1>3

LEMMA HistoryTypeStep ==
  ASSUME Inv, HistoryType, NEW i \in Instructions, NEW c \in Costs, HStep(i, c)
  PROVE  HistoryType'
<1>1. /\ Inv /\ Inv' /\ Execute(i, c) /\ TypeOK /\ TypeOK' /\ c \in Nat
      /\ prog \in ProgType /\ prog' \in ProgType
      /\ prog'.n_cycles = prog.n_cycles + c
  <2>1. Execute(i, c)
    BY DEF HStep
  <2>2. Inv'
    BY <2>1, ExecuteHolds
  <2>3. TypeOK /\ TypeOK'
    BY <2>2 DEF Inv
  <2> QED BY <2>1, <2>2, <2>3, AtType, ExecuteEffect DEF TypeOK, ProgType
<1>2. sp' \in 0 .. Top - 1 /\ Top \in Nat \ {0}
  BY <1>1, SpRange DEF TypeOK, Top
<1>3. frames' \in Seq(0 .. Top - 1)
  <2>1. \/ frames' = Append(frames, sp')
        \/ Depth > 0 /\ frames' = SubSeq(frames, 1, Depth - 1)
        \/ frames' = frames
    BY Zenon DEF HStep
  <2>2. frames \in Seq(0 .. Top - 1)
    BY DEF HistoryType
  <2>3. CASE frames' = Append(frames, sp')
    BY <1>2, <2>2, <2>3, AppendProperties
  <2>4. CASE Depth > 0 /\ frames' = SubSeq(frames, 1, Depth - 1)
    <3>1. Len(frames) \in Nat /\ Depth - 1 <= Len(frames)
      BY <2>2, LenProperties DEF Depth
    <3>2. \A k \in 1 .. Len(frames) : frames[k] \in 0 .. Top - 1
      BY <2>2, ElementOfSeq
    <3>3. Depth - 1 \in Int /\ \A k \in 1 .. Depth - 1 : k \in 1 .. Len(frames)
      BY <3>1 DEF Depth
    <3> QED BY <2>4, <3>2, <3>3, SubSeqProperties
  <2> QED BY <2>1, <2>2, <2>3, <2>4
<1>4. quiet' \in 0 .. 4
  BY Zenon, SMT DEF HStep, HistoryType
<1>5. whole' \in [torn : BOOLEAN, seen : SUBSET (0 .. Top - 1)]
  <2>1. whole' = NextWhole(i)
    BY DEF HStep
  <2>2. whole \in [torn : BOOLEAN, seen : SUBSET (0 .. Top - 1)]
    BY DEF HistoryType
  <2>3. whole.seen \cup {sp'} \in SUBSET (0 .. Top - 1)
    BY <1>2, <2>2
  <2> QED BY <2>1, <2>2, <2>3 DEF NextWhole
<1>6. \A m \in Meters : NextRound(m, i) \in RoundType
  BY <1>1, <1>3, NextRoundType DEF ProgType
<1>7. round' \in [Meters -> RoundType]
  BY <1>6 DEF HStep
<1>8. ASSUME NEW m \in Meters
      PROVE  NextRounds(m) \in Seq(EndedType) /\ NextTotal(m) \in CostType
  <2>1. round'[m] \in RoundType /\ rounds[m] \in Seq(EndedType)
        /\ total[m] \in CostType
    BY <1>7 DEF HistoryType
  <2> DEFINE e == [insns  |-> round'[m].insns, cycles |-> round'[m].cycles,
                   moves  |-> CallOnly(m) /\ round'[m].moves]
             x == total[m].insns + round'[m].insns
             y == total[m].cycles + round'[m].cycles
  <2>2. e \in EndedType
    <3>1. (CallOnly(m) /\ round'[m].moves) \in BOOLEAN
      OBVIOUS
    <3> QED BY <2>1, <3>1 DEF RoundType, EndedType
  <2>3. x \in Nat /\ y \in Nat
    BY <2>1 DEF RoundType, CostType
  <2>4. \/ NextRounds(m) = << >>
        \/ NextRounds(m) = Append(rounds[m], e)
        \/ NextRounds(m) = rounds[m]
    BY DEF NextRounds
  <2>5. \/ NextTotal(m) = Nothing
        \/ NextTotal(m) = [insns |-> x, cycles |-> y]
        \/ NextTotal(m) = total[m]
    BY DEF NextTotal
  <2> HIDE DEF e, x, y
  <2>6. NextTotal(m) \in CostType
    BY <2>1, <2>3, <2>5 DEF CostType, Nothing
  <2>7. Append(rounds[m], e) \in Seq(EndedType) /\ << >> \in Seq(EndedType)
    BY <2>1, <2>2, AppendProperties, EmptySeq
  <2>8. NextRounds(m) \in Seq(EndedType)
    BY <2>1, <2>4, <2>7, Zenon
  <2> QED BY <2>6, <2>8
<1>9. rounds' \in [Meters -> Seq(EndedType)] /\ total' \in [Meters -> CostType]
  BY <1>8 DEF HStep
<1> QED BY <1>3, <1>4, <1>5, <1>7, <1>9 DEF HistoryType

-----------------------------------------------------------------------------
(* The stack pointer                                                       *)

(* What get_nonglitch_SP bridges lasts as long as SP may be half-written.   *)
Seen == whole.seen \cup {0}

Bridged ==
  /\ glitch.left <= 4 - quiet
  /\ prog.n_insns > 0 /\ glitch.left = 0 => glitch.sp = sp
  /\ glitch.sp \in Seen
  /\ ~whole.torn => sp \in whole.seen
  /\ whole.torn => glitch.left >= 3 /\ (quiet = 0 => glitch.left = 4)
  /\ need.perf => perf.sp = glitch.sp

(* The extremes of SP are those of values it really had.                    *)
Watched(m) == meters[m].sp # NoExtremes =>
                {meters[m].sp.min, meters[m].sp.max} \subseteq Seen

Pointer == Bridged /\ \A m \in Meters : Watched(m)

LEMMA PointerInit == HInit => Pointer
  BY DEF HInit, Init, Pointer, Bridged, Watched, Seen, InitPerf, UnusedMeter

LEMMA BridgedStep ==
  ASSUME Inv, HistoryType, Bridged, NEW i \in Instructions, NEW c \in Costs,
         HStep(i, c)
  PROVE  Bridged' /\ NonglitchSP(i) \in Seen' /\ whole.seen \subseteq whole'.seen
<1> DEFINE l == GlitchLeft(i)
           s == NonglitchSP(i)
<1>1. /\ Execute(i, c) /\ Executes(i) /\ TypeOK /\ i.op \in Ops
  BY InstructionsAssumption DEF HStep, Execute, Executes, Inv, InsnType
<1>2. /\ glitch.left \in 0 .. 4 /\ quiet \in 0 .. 4
      /\ whole \in [torn : BOOLEAN, seen : SUBSET (0 .. Top - 1)]
      /\ glitch.sp \in 0 .. Top - 1 /\ sp \in 0 .. Top - 1
  BY <1>1 DEF TypeOK, HistoryType, Top
<1>3. /\ sp' = NextSP(i) /\ need' = need
      /\ glitch' = [left |-> l, sp |-> s]
      /\ need.perf => perf'.sp = s
  BY <1>1, ExecuteEffect
<1>4. /\ quiet' = CASE i.op \in {"out_spl", "out_sph"} -> 0
                    [] i.op \notin {"out_spl", "out_sph"} /\ quiet < 4 -> quiet + 1
                    [] OTHER -> quiet
      /\ whole' = NextWhole(i)
      /\ i.op = "out_spl" => whole.torn
      /\ whole.torn => i.op = "out_spl" \/ (i.op = "plain" /\ quiet = 0)
  BY DEF HStep, SetsSpAsCompiled
<1>5. s = IF l = 0 THEN sp' ELSE glitch.sp
  BY <1>3 DEF NonglitchSP
<1>6. glitch'.left = l /\ glitch'.sp = s
  BY <1>3
<1> HIDE DEF s
<1>7. whole.seen \subseteq whole'.seen
  BY <1>4 DEF NextWhole
<1>8. CASE i.op = "out_sph"
  <2>1. l = 4 /\ quiet' = 0 /\ whole'.torn /\ s = glitch.sp
    BY <1>4, <1>5, <1>8 DEF GlitchLeft, NextWhole
  <2> QED BY <1>3, <1>6, <1>7, <2>1 DEF Bridged, Seen, s
<1>9. CASE i.op = "out_spl"
  <2>1. l = 4 /\ quiet' = 0 /\ ~whole'.torn /\ s = glitch.sp /\ sp' \in whole'.seen
    BY <1>4, <1>5, <1>9 DEF GlitchLeft, NextWhole
  <2> QED BY <1>3, <1>6, <1>7, <2>1 DEF Bridged, Seen, s
<1>10. CASE i.op = "plain"
  <2>1. /\ l = IF glitch.left = 0 THEN 0 ELSE glitch.left - 1
        /\ whole' = whole /\ sp' = sp
        /\ quiet' = IF quiet < 4 THEN quiet + 1 ELSE quiet
    BY <1>3, <1>4, <1>10 DEF GlitchLeft, NextWhole, NextSP
  <2> HIDE DEF l
  <2>2. /\ l <= 4 - quiet' /\ s \in Seen'
        /\ ~whole'.torn => sp' \in whole'.seen
        /\ whole'.torn => l >= 3 /\ (quiet' = 0 => l = 4)
    BY <1>2, <1>4, <1>5, <1>10, <2>1 DEF Bridged, Seen
  <2> QED BY <1>3, <1>5, <1>6, <1>7, <2>2 DEF Bridged, s, l
<1>11. CASE i.op \notin {"out_sph", "out_spl", "plain"}
  <2>1. /\ l = IF i.op \in {"ret", "call", "push", "pop"} THEN 0
               ELSE IF glitch.left = 0 THEN 0 ELSE glitch.left - 1
        /\ whole' = [torn |-> FALSE, seen |-> whole.seen \cup {sp'}]
        /\ quiet' = IF quiet < 4 THEN quiet + 1 ELSE quiet
    BY <1>4, <1>11 DEF GlitchLeft, NextWhole
  <2> HIDE DEF l
  <2>2. /\ l <= 4 - quiet' /\ s \in Seen'
        /\ ~whole'.torn /\ sp' \in whole'.seen
    BY <1>2, <1>5, <2>1 DEF Bridged, Seen
  <2> QED BY <1>3, <1>5, <1>6, <1>7, <2>2 DEF Bridged, s, l
<1> QED BY <1>8, <1>9, <1>10, <1>11

LEMMA UpdateWatched ==
  ASSUME NEW S \in SUBSET Nat, NEW s \in S, s < IntMax,
         NEW mm \in Extremes, mm # NoExtremes => {mm.min, mm.max} \subseteq S
  PROVE  {Update(mm, s).min, Update(mm, s).max} \subseteq S
<1>1. CASE mm = NoExtremes
  <2>1. mm.min = IntMax /\ mm.max = -IntMax /\ s \in Nat /\ IntMax \in Nat
    BY <1>1 DEF NoExtremes, IntMax
  <2> QED BY <2>1 DEF Update
<1>2. CASE mm # NoExtremes
  BY <1>2 DEF Update
<1> QED BY <1>1, <1>2

LEMMA PointerStep ==
  ASSUME Inv, HistoryType, Pointer, NEW i \in Instructions, NEW c \in Costs,
         HStep(i, c), \A m \in Meters : meters[m].on => meters[m].valid = "start"
  PROVE  Pointer'
<1> DEFINE s == NonglitchSP(i)
<1>1. /\ Execute(i, c) /\ Executes(i) /\ TypeOK
  BY DEF HStep, Execute, Executes, Inv
<1>2. /\ Bridged' /\ s \in Seen' /\ Seen \subseteq Seen'
  BY BridgedStep DEF Pointer, Seen
<1>3. HistoryType'
  BY HistoryTypeStep
<1>4. Seen' \in SUBSET Nat /\ s < IntMax
  <2>1. s \in 0 .. Top - 1 /\ Top \in Nat /\ Top <= IntMax /\ IntMax \in Nat
    BY <1>1, StackPointerType, SpRange, StackPointerAssumption DEF Top, IntMax
  <2> HIDE DEF s
  <2>2. s < IntMax
    BY <2>1
  <2>3. Seen' \in SUBSET Nat
    BY <1>3, <2>1 DEF HistoryType, Seen
  <2> QED BY <2>2, <2>3
<1>5. ASSUME NEW m \in Meters PROVE Watched(m)'
  <2> DEFINE p == meters[m]
             r == meters'[m]
  <2>1. p.sp \in Extremes /\ NoExtremes \in Extremes
    BY <1>1 DEF TypeOK, MeterType, NoExtremes, Extremes, IntMax
  <2>2. PICK x \in {p.sp, Update(p.sp, s), NoExtremes} : r.sp \in {x, Update(x, s)}
    BY <1>1, MeterStep
  <2>3. p.sp # NoExtremes => {p.sp.min, p.sp.max} \subseteq Seen'
    BY <1>2 DEF Pointer, Watched
  <2> HIDE DEF p, r, s
  <2>4. s \in Int
    BY <1>2, <1>4
  <2>5. x \in Extremes /\ (x # NoExtremes => {x.min, x.max} \subseteq Seen')
    <3>1. CASE x = Update(p.sp, s)
      BY <1>2, <1>4, <2>1, <2>3, <2>4, <3>1, UpdateWatched, UpdateType
    <3> QED BY <2>1, <2>2, <2>3, <3>1
  <2>6. r.sp # NoExtremes => {r.sp.min, r.sp.max} \subseteq Seen'
    <3>1. CASE r.sp = Update(x, s)
      BY <1>2, <1>4, <2>5, <3>1, UpdateWatched
    <3> QED BY <2>2, <2>5, <3>1
  <2> QED BY <2>6 DEF Watched, r
<1> QED BY <1>2, <1>5 DEF Pointer

-----------------------------------------------------------------------------
(* Calls                                                                   *)

(* SP as calls make it, for a round begun with SP = S and d calls open: it  *)
(* is at S or above while no more than d calls are open, and below what it  *)
(* was after the (d + 1)st call while that one is.                          *)
Nested(S, d, s, f, n) ==
  /\ n <= d => s = S + 2 * (d - n)
  /\ n > d  => /\ f[d + 1] = S - 2 /\ s <= f[n]
               /\ \A k \in d + 1 .. n : f[k] <= S - 2
               /\ \A k \in d + 1 .. n - 1 : f[k + 1] + 2 <= f[k]

LEMMA NestedStart ==
  ASSUME NEW S \in Nat, NEW d \in Nat, NEW f
  PROVE  Nested(S, d, S, f, d)
  BY DEF Nested

LEMMA NestedCall ==
  ASSUME NEW S \in Nat, NEW d \in Nat, NEW s \in Nat, NEW n \in Nat, NEW f, NEW g,
         Nested(S, d, s, f, n), \A k \in 1 .. n : f[k] \in Nat /\ g[k] = f[k],
         g[n + 1] = s - 2
  PROVE  Nested(S, d, s - 2, g, n + 1)
<1>1. CASE n < d
  BY <1>1 DEF Nested
<1>2. CASE n = d
  <2>1. s = S
    BY <1>2 DEF Nested
  <2> QED BY <1>2, <2>1 DEF Nested
<1>3. CASE n > d
  <2>1. /\ f[d + 1] = S - 2 /\ s <= f[n]
        /\ \A k \in d + 1 .. n : f[k] <= S - 2
        /\ \A k \in d + 1 .. n - 1 : f[k + 1] + 2 <= f[k]
    BY <1>3 DEF Nested
  <2>2. g[d + 1] = S - 2 /\ s - 2 <= g[n + 1]
    <3>1. d + 1 \in 1 .. n
      BY <1>3
    <3> QED BY <2>1, <3>1
  <2>3. ASSUME NEW k \in d + 1 .. n + 1 PROVE g[k] <= S - 2
    <3>1. CASE k = n + 1
      <4>1. n \in d + 1 .. n /\ n \in 1 .. n
        BY <1>3
      <4>2. f[n] <= S - 2 /\ f[n] \in Nat
        BY <2>1, <4>1
      <4> QED BY <2>1, <3>1, <4>2
    <3>2. CASE k # n + 1
      <4>1. k \in d + 1 .. n /\ k \in 1 .. n
        BY <3>2
      <4> QED BY <2>1, <4>1
    <3> QED BY <3>1, <3>2
  <2>4. ASSUME NEW k \in d + 1 .. n PROVE g[k + 1] + 2 <= g[k]
    <3>1. k \in 1 .. n
      OBVIOUS
    <3>2. CASE k = n
      BY <2>1, <3>1, <3>2
    <3>3. CASE k # n
      <4>1. k \in d + 1 .. n - 1 /\ k + 1 \in 1 .. n
        BY <3>3
      <4> QED BY <2>1, <3>1, <4>1
    <3> QED BY <3>2, <3>3
  <2> QED BY <1>3, <2>2, <2>3, <2>4 DEF Nested
<1> QED BY <1>1, <1>2, <1>3

LEMMA NestedReturn ==
  ASSUME NEW S \in Nat, NEW d \in Nat, NEW n \in Nat, n > 0, NEW f, NEW g,
         Nested(S, d, f[n], f, n),
         \A k \in 1 .. n : f[k] \in Nat, \A k \in 1 .. n - 1 : g[k] = f[k]
  PROVE  Nested(S, d, f[n] + 2, g, n - 1)
<1>1. CASE n <= d
  BY <1>1 DEF Nested
<1>2. CASE n = d + 1
  BY <1>2 DEF Nested
<1>3. CASE n > d + 1
  <2>1. /\ f[d + 1] = S - 2
        /\ \A k \in d + 1 .. n : f[k] <= S - 2
        /\ \A k \in d + 1 .. n - 1 : f[k + 1] + 2 <= f[k]
    BY <1>3 DEF Nested
  <2>2. f[n] + 2 <= g[n - 1] /\ g[d + 1] = S - 2
    <3>1. n - 1 \in d + 1 .. n - 1 /\ n - 1 \in 1 .. n - 1 /\ d + 1 \in 1 .. n - 1
          /\ (n - 1) + 1 = n
      BY <1>3
    <3>2. f[(n - 1) + 1] + 2 <= f[n - 1]
      BY <2>1, <3>1
    <3> QED BY <2>1, <3>1, <3>2
  <2>3. ASSUME NEW k \in d + 1 .. n - 1 PROVE g[k] <= S - 2
    <3>1. k \in 1 .. n - 1 /\ k \in d + 1 .. n
      OBVIOUS
    <3> QED BY <2>1, <3>1
  <2>4. ASSUME NEW k \in d + 1 .. (n - 1) - 1 PROVE g[k + 1] + 2 <= g[k]
    <3>1. k \in 1 .. n - 1 /\ k + 1 \in 1 .. n - 1 /\ k \in d + 1 .. n - 1
      OBVIOUS
    <3> QED BY <2>1, <3>1
  <2> QED BY <1>3, <2>2, <2>3, <2>4 DEF Nested
<1> QED BY <1>1, <1>2, <1>3

LEMMA NestedPushPop ==
  ASSUME NEW S, NEW d \in Nat, NEW s, NEW n \in Nat, NEW f,
         Nested(S, d, s, f, n), n > d, NEW t \in Int, t <= f[n]
  PROVE  Nested(S, d, t, f, n)
  BY DEF Nested

(* More than d calls are open just when SP is below S.                      *)
LEMMA NestedBelow ==
  ASSUME NEW S \in Nat, NEW d \in Nat, NEW s \in Nat, NEW n \in Nat, NEW f,
         \A k \in 1 .. n : f[k] \in Nat, Nested(S, d, s, f, n)
  PROVE  n > d <=> s < S
<1>1. CASE n > d
  <2>1. n \in d + 1 .. n /\ n \in 1 .. n
    BY <1>1
  <2>2. f[n] <= S - 2 /\ s <= f[n] /\ f[n] \in Nat
    BY <1>1, <2>1 DEF Nested
  <2> QED BY <1>1, <2>2
<1>2. CASE n <= d
  BY <1>2 DEF Nested
<1> QED BY <1>1, <1>2

(* The frames as numbers.                                                   *)
LEMMA FramesType ==
  ASSUME HistoryType
  PROVE  Depth \in Nat /\ \A k \in 1 .. Depth : frames[k] \in 0 .. Top - 1
  BY LenProperties, ElementOfSeq DEF HistoryType, Depth

(* What OnlyCallsMoveSP allows keeps SP as calls make it.                   *)
LEMMA NestedStep ==
  ASSUME Inv, HistoryType, NEW i \in Instructions, NEW c \in Costs, HStep(i, c),
         NEW S \in Nat, NEW d \in Nat, Nested(S, d, sp, frames, Depth),
         OnlyCallsMoveSP(i, d)
  PROVE  Nested(S, d, sp', frames', Depth') /\ i.op \notin {"out_spl", "out_sph"}
<1>1. /\ Execute(i, c) /\ TypeOK /\ i.op \in Ops /\ sp' = NextSP(i)
  BY InstructionsAssumption, ExecuteEffect DEF HStep, Inv, InsnType
<1>2. /\ Top \in Nat \ {0} /\ sp \in 0 .. Top - 1 /\ frames \in Seq(0 .. Top - 1)
      /\ sp \in Nat
  BY <1>1, SpRange DEF Top, TypeOK, HistoryType
<1>3. /\ Depth \in Nat /\ \A k \in 1 .. Depth : frames[k] \in 0 .. Top - 1
      /\ \A k \in 1 .. Depth : frames[k] \in Nat
  BY <1>2, FramesType
<1>4. frames' = CASE i.op = "call" -> Append(frames, sp')
                  [] i.op = "ret" /\ Depth > 0 -> SubSeq(frames, 1, Depth - 1)
                  [] OTHER -> frames
  BY DEF HStep
<1>5. \A x \in 0 .. Top - 1 : x % Top = x
  BY <1>2, SMTT(30)
<1>6. CASE i.op = "call"
  <2>1. sp >= 2 /\ sp' = (sp - 2) % Top /\ frames' = Append(frames, sp')
    BY <1>1, <1>4, <1>6 DEF OnlyCallsMoveSP, NextSP, Top
  <2>2. sp' = sp - 2 /\ sp' \in 0 .. Top - 1
    <3>1. sp - 2 \in 0 .. Top - 1
      BY <1>2, <2>1
    <3> QED BY <1>5, <2>1, <3>1
  <2>3. /\ Depth' = Depth + 1 /\ frames'[Depth + 1] = sp - 2
        /\ \A k \in 1 .. Depth : frames'[k] = frames[k]
    BY <1>2, <2>1, <2>2, AppendProperties DEF Depth
  <2>4. Nested(S, d, sp - 2, frames', Depth + 1)
    BY <1>2, <1>3, <2>3, NestedCall
  <2> QED BY <1>6, <2>2, <2>3, <2>4
<1>7. CASE i.op = "ret"
  <2>1. /\ Depth > 0 /\ sp = frames[Depth] /\ sp + 2 < Top
        /\ sp' = (sp + 2) % Top /\ frames' = SubSeq(frames, 1, Depth - 1)
    BY <1>1, <1>4, <1>7 DEF OnlyCallsMoveSP, NextSP, Top
  <2>2. sp' = sp + 2
    <3>1. sp \in Nat /\ Top \in Nat /\ sp + 2 < Top
      BY <1>2, <2>1
    <3>2. sp + 2 \in 0 .. Top - 1
      BY ONLY <3>1
    <3> QED BY <1>5, <2>1, <3>2
  <2>3. Depth' = Depth - 1 /\ \A k \in 1 .. Depth - 1 : frames'[k] = frames[k]
    <3> DEFINE n == Depth - 1
    <3>1. n \in Nat /\ \A k \in 1 .. n : k \in 1 .. Depth
      BY <1>3, <2>1
    <3>2. \A k \in 1 .. n : frames[k] \in Nat
      BY <1>3, <3>1
    <3>3. frames' = SubSeq(frames, 1, n)
      BY <2>1
    <3> HIDE DEF n
    <3>4. /\ Len(frames') = IF 1 <= n THEN n - 1 + 1 ELSE 0
          /\ \A k \in 1 .. n - 1 + 1 : frames'[k] = frames[1 + k - 1]
      BY <3>1, <3>2, <3>3, SubSeqProperties
    <3>5. Len(frames') = n /\ \A k \in 1 .. n : frames'[k] = frames[k]
      <4>1. \A k \in 1 .. n : k \in 1 .. n - 1 + 1 /\ 1 + k - 1 = k
        BY <3>1
      <4> QED BY <3>1, <3>4, <4>1
    <3> QED BY <3>5 DEF Depth, n
  <2>4. Nested(S, d, frames[Depth] + 2, frames', Depth - 1)
    BY <1>3, <2>1, <2>3, NestedReturn
  <2> QED BY <1>7, <2>1, <2>2, <2>3, <2>4
<1>8. CASE i.op \in {"push", "pop"}
  <2>1. /\ Depth > d /\ frames' = frames
        /\ \/ sp > 0 /\ sp' = (sp - 1) % Top
           \/ sp < frames[Depth] /\ sp' = (sp + 1) % Top
    BY <1>1, <1>4, <1>8 DEF OnlyCallsMoveSP, NextSP, Top
  <2>2. sp <= frames[Depth]
    BY <2>1 DEF Nested
  <2>3. frames[Depth] \in 0 .. Top - 1
    <3>1. Depth \in 1 .. Depth
      BY <1>3, <2>1
    <3> QED BY <1>3, <3>1
  <2>4. sp' \in Int /\ sp' <= frames[Depth]
    <3>1. sp > 0 => sp - 1 \in 0 .. Top - 1
      BY <1>2
    <3>2. sp < frames[Depth] => sp + 1 \in 0 .. Top - 1
      BY <1>2, <2>3
    <3>3. sp' = sp - 1 \/ (sp < frames[Depth] /\ sp' = sp + 1)
      BY <1>5, <2>1, <3>1, <3>2
    <3> QED BY <1>2, <2>2, <2>3, <3>3
  <2>5. Nested(S, d, sp', frames, Depth)
    BY <1>3, <2>1, <2>4, NestedPushPop
  <2> QED BY <1>8, <2>1, <2>5 DEF Depth
<1>9. CASE i.op \in {"plain", "syscall", "exit"}
  <2>1. sp' = sp /\ frames' = frames
    BY <1>1, <1>4, <1>9 DEF NextSP
  <2> QED BY <1>9, <2>1 DEF Depth
<1>10. CASE i.op \in {"out_spl", "out_sph"}
  BY <1>10 DEF OnlyCallsMoveSP
<1> QED BY <1>1, <1>6, <1>7, <1>8, <1>9, <1>10 DEF Ops

-----------------------------------------------------------------------------
(* Numbers that differ by a multiple of DWord have the same remainder.      *)
LEMMA SameRemainder ==
  ASSUME NEW x \in Int, NEW y \in Int, NEW k \in Int, x = y + DWord * k
  PROVE  x % DWord = y % DWord
<1> DEFINE q == x \div DWord
           t == y \div DWord
           r == x % DWord
           u == y % DWord
<1>1. DWord \in Nat /\ DWord > 0
  BY DWordAssumption
<1>2. /\ q \in Int /\ t \in Int /\ r \in 0 .. DWord - 1 /\ u \in 0 .. DWord - 1
      /\ x = DWord * q + r /\ y = DWord * t + u
  BY <1>1
<1> HIDE DEF q, t, r, u
<1>3. DWord * (t + k) = DWord * t + DWord * k
  BY <1>1, <1>2
<1> DEFINE a == DWord * q
           b == DWord * t
           e == DWord * k
           f == DWord * (t + k)
<1>4. a + r = f + u
  <2>1. x = a + r /\ y = b + u /\ x = y + e /\ f = b + e
    BY <1>2, <1>3
  <2>2. a \in Int /\ b \in Int /\ e \in Int /\ f \in Int
    BY <1>1, <1>2
  <2> HIDE DEF a, b, e, f
  <2> QED BY <1>2, <2>1, <2>2
<1>5. q = t + k
  <2>1. CASE q < t + k
    <3>1. DWord * (q + 1) <= DWord * (t + k)
      BY <1>1, <1>2, <2>1, ProductMonotone
    <3> QED BY <1>1, <1>2, <1>4, <3>1
  <2>2. CASE t + k < q
    <3>1. DWord * (t + k + 1) <= DWord * q
      BY <1>1, <1>2, <2>2, ProductMonotone
    <3> QED BY <1>1, <1>2, <1>4, <3>1
  <2> QED BY <1>2, <2>1, <2>2
<1>6. a = f /\ a \in Int
  BY <1>1, <1>2, <1>5
<1> HIDE DEF a, f
<1>7. r = u
  BY <1>2, <1>4, <1>6
<1> QED BY <1>7 DEF r, u

LEMMA Remains32 ==
  ASSUME NEW x \in Int
  PROVE  /\ x % DWord \in 0 .. DWord - 1
         /\ \E k \in Int : x = (x % DWord) + DWord * k
<1> DEFINE q == x \div DWord
           r == x % DWord
<1>1. /\ q \in Int /\ x = DWord * q + r /\ r \in 0 .. DWord - 1 /\ DWord \in Nat
  BY DWordAssumption
<1> HIDE DEF q, r
<1>2. x = r + DWord * q
  BY <1>1
<1> QED BY <1>1, <1>2 DEF r

(* What CallCosts makes of the 32-bit cycle counts.                         *)
LEMMA TicksAdded ==
  ASSUME NEW x \in Nat, NEW y \in Nat, NEW c \in Nat
  PROVE  ((x % DWord) + (y + c) - (y % DWord)) % DWord = (x + c) % DWord
<1>1. DWord \in Nat
  BY DWordAssumption
<1>2. PICK j \in Int : x = (x % DWord) + DWord * j
  BY Remains32
<1>3. PICK k \in Int : y = (y % DWord) + DWord * k
  BY Remains32
<1> DEFINE a == x % DWord
           b == y % DWord
<1>4. a \in Int /\ b \in Int
  BY Remains32
<1> HIDE DEF a, b
<1>5. DWord * (k - j) = DWord * k - DWord * j /\ DWord * k \in Int
      /\ DWord * j \in Int
  BY <1>1
<1>6. a + (y + c) - b = (x + c) + DWord * (k - j)
  BY <1>2, <1>3, <1>4, <1>5 DEF a, b
<1> QED BY <1>4, <1>6, SameRemainder DEF a, b

(* perf.tick has 32 bits, tick_start has more.                              *)
LEMMA PlainTicks ==
  ASSUME NEW x \in Nat, NEW z \in Nat, NEW a, NEW b,
         a = (x % DWord) - z, b = x - z
  PROVE  /\ a \in Int /\ \E k \in Int : a = b + DWord * k
         /\ x < DWord => a = b
<1> DEFINE y == x % DWord
<1>1. DWord \in Nat /\ y \in Nat /\ (x < DWord => y = x)
  BY DWordAssumption
<1>2. PICK k \in Int : x = y + DWord * k
  BY Remains32
<1> DEFINE e == DWord * k
           f == DWord * (-k)
<1>3. e \in Int /\ f = -e /\ -k \in Int /\ x = y + e
  BY <1>1, <1>2
<1> HIDE DEF y, e, f
<1>4. a = b + f
  BY <1>1, <1>3 DEF y
<1>5. a = y - z
  BY DEF y
<1>6. a \in Int /\ (x < DWord => a = b)
  BY <1>1, <1>5
<1> QED BY <1>3, <1>4, <1>6, Zenon DEF f

(* What PERF_STOP makes of them.                                            *)
LEMMA TicksSummed ==
  ASSUME NEW x \in Nat, NEW y \in Nat, NEW a \in Int,
         a = y % DWord \/ \E k \in Int : a = y + DWord * k
  PROVE  ((x % DWord) + a) % DWord = (x + y) % DWord
<1>1. DWord \in Nat
  BY DWordAssumption
<1>2. PICK j \in Int : x = (x % DWord) + DWord * j
  BY Remains32
<1>3. PICK k \in Int : a = y + DWord * k
  <2>1. CASE a = y % DWord
    <3>1. PICK l \in Int : y = (y % DWord) + DWord * l
      BY Remains32
    <3>2. a = y + DWord * (-l) /\ -l \in Int
      BY <1>1, <2>1, <3>1
    <3> QED BY <3>2
  <2> QED BY <2>1
<1> DEFINE b == x % DWord
<1>4. b \in Int
  BY Remains32
<1> HIDE DEF b
<1>5. DWord * (k - j) = DWord * k - DWord * j /\ DWord * k \in Int
      /\ DWord * j \in Int
  BY <1>1
<1>6. b + a = (x + y) + DWord * (k - j)
  BY <1>2, <1>3, <1>4, <1>5 DEF b
<1> QED BY <1>4, <1>6, SameRemainder DEF b

-----------------------------------------------------------------------------
(* Rounds                                                                  *)

(* The costs PERF_STOP will find are those of the round.                    *)
CallExact(p, d) ==
  p.call_only.insns = d.insns /\ p.call_only.ticks = d.cycles % DWord

PlainExact(p, d, at) ==
  d.insns = at.n_insns - 1 - p.insn_start /\ d.cycles = at.n_cycles - p.tick_start

(* A round of PERF_START_CALL is exact as long as only calls move SP.       *)
CallsOnly(m) ==
  LET S == meters[m].call_only.sp
  IN  /\ S \in 0 .. Top - 1
      /\ Nested(S, round[m].depth, sp, frames, Depth)
      /\ glitch.left = 0 /\ glitch.sp = sp

Running(m) ==
  IF CallOnly(m) THEN ~round[m].moves => CallsOnly(m) /\ CallExact(meters[m], round[m])
  ELSE PlainExact(meters[m], round[m], prog)

RoundInv(m) ==
  meters[m].on => /\ meters[m].valid = "start"
                  /\ round[m].cycles <= prog.n_cycles
                  /\ status = "RUNNING" => Running(m)

TickInv == need.perf => perf.tick = prog.n_cycles % DWord

LEMMA OnNeedsPerf ==
  ASSUME Inv, status = "RUNNING", NEW m \in Meters, meters[m].on
  PROVE  need.perf
  BY DEF Inv, Ready, AnyOn

LEMMA CallCounted ==
  ASSUME Inv, HistoryType, Bridged, TickInv, NEW i \in Instructions, NEW c \in Costs,
         HStep(i, c), NEW m \in Meters, meters[m].on, CallOnly(m), Running(m),
         ~NextRound(m, i).moves
  PROVE  LET p  == meters[m]
             cc == CallCosts(p, Executed(i).perf, At(c), NonglitchSP(i))
         IN  /\ CallExact(cc, NextRound(m, i))
             /\ Nested(p.call_only.sp, round[m].depth, sp', frames', Depth')
             /\ p.call_only.sp \in 0 .. Top - 1
             /\ glitch'.left = 0 /\ glitch'.sp = sp'
<1> DEFINE p  == meters[m]
           q  == Executed(i).perf
           at == At(c)
           s  == NonglitchSP(i)
           S  == p.call_only.sp
           cc == CallCosts(p, q, at, s)
           d  == NextRound(m, i)
           o  == round[m]
<1>1. /\ Execute(i, c) /\ Executes(i) /\ TypeOK /\ status = "RUNNING" /\ c \in Nat
      /\ prog \in ProgType /\ at \in ProgType /\ at.n_cycles = prog.n_cycles + c
  <2>1. Execute(i, c)
    BY DEF HStep
  <2>2. Executes(i) /\ TypeOK /\ status = "RUNNING"
    BY <2>1 DEF Execute, Executes, Inv
  <2> QED BY <2>1, <2>2, AtType
<1>2. /\ need.perf /\ perf.tick = prog.n_cycles % DWord /\ perf.sp = glitch.sp
  BY <1>1, OnNeedsPerf DEF TickInv, Bridged
<1>3. /\ prog'.n_cycles = prog.n_cycles + c
      /\ glitch' = [left |-> GlitchLeft(i), sp |-> s] /\ sp' = NextSP(i)
  BY <1>1, ExecuteEffect
<1>4. prog'.n_cycles \in Nat
  BY <1>1, <1>3 DEF ProgType
<1>5. /\ d.insns = o.insns + (IF Counted(m) THEN 1 ELSE 0)
      /\ d.cycles = o.cycles + (IF Counted(m) THEN c ELSE 0)
      /\ ~o.moves /\ OnlyCallsMoveSP(i, o.depth)
  BY <1>1, <1>3, <1>4, RoundGrows
<1>6. /\ S \in 0 .. Top - 1 /\ Nested(S, o.depth, sp, frames, Depth)
      /\ glitch.left = 0 /\ glitch.sp = sp /\ CallExact(p, o)
  BY <1>5 DEF Running, CallsOnly
<1>7. /\ Top \in Nat /\ Top <= IntMax /\ IntMax \in Nat
      /\ sp \in 0 .. Top - 1 /\ sp' \in 0 .. Top - 1 /\ s \in Nat
      /\ o \in RoundType /\ p \in MeterType /\ HistoryType'
  <2>1. Inv'
    BY <1>1, ExecuteHolds
  <2>2. TypeOK' /\ HistoryType'
    BY <2>1, HistoryTypeStep DEF Inv
  <2>3. Top \in Nat /\ Top <= IntMax /\ IntMax \in Nat
    BY SpRange, StackPointerAssumption DEF Top, IntMax
  <2>4. s \in Nat
    BY <1>1, StackPointerType
  <2>5. sp \in 0 .. Top - 1 /\ sp' \in 0 .. Top - 1
    BY <1>1, <2>2 DEF TypeOK, Top
  <2>6. o \in RoundType /\ p \in MeterType
    BY <1>1 DEF HistoryType, TypeOK
  <2> QED BY <2>2, <2>3, <2>4, <2>5, <2>6
<1>8. S \in Nat /\ S < IntMax /\ o.depth \in Nat
  BY <1>6, <1>7 DEF RoundType
<1>9. Nested(S, o.depth, sp', frames', Depth') /\ i.op \notin {"out_spl", "out_sph"}
  BY <1>5, <1>6, <1>8, NestedStep
<1>10. GlitchLeft(i) = 0 /\ s = sp'
  BY <1>3, <1>6, <1>9 DEF GlitchLeft, NonglitchSP
<1>11. q \in PerfType /\ q.tick = perf.tick /\ q.sp = sp
  BY <1>1, <1>2, <1>6, RequestEffect
<1>12. Depth > o.depth <=> sp < S
  <2>1. Depth \in Nat /\ \A k \in 1 .. Depth : frames[k] \in Nat
    BY <1>7, FramesType
  <2>2. sp \in Nat
    BY <1>7
  <2> QED BY <1>6, <1>8, <2>1, <2>2, NestedBelow, SMTT(30)
<1>13. Depth' > o.depth <=> sp' < S
  <2>1. Depth' \in Nat /\ \A k \in 1 .. Depth' : frames'[k] \in Nat
    <3>1. frames' \in Seq(0 .. Top - 1)
      BY <1>7 DEF HistoryType, Top
    <3> QED BY <1>7, <3>1, LenProperties, ElementOfSeq DEF Depth
  <2>2. sp' \in Nat
    BY <1>7
  <2> QED BY <1>8, <1>9, <2>1, <2>2, NestedBelow, SMTT(30)
<1>14. Counted(m) <=> Hit(p, q, s)
  <2>1. Counted(m) <=> Depth > o.depth \/ Depth' > o.depth
    BY DEF Counted
  <2>2. Hit(p, q, s) <=> sp' < S \/ sp < S
    BY <1>8, <1>10, <1>11 DEF Hit
  <2> QED BY <1>12, <1>13, <2>1, <2>2
<1>15. /\ cc.call_only.insns = p.call_only.insns + (IF Hit(p, q, s) THEN 1 ELSE 0)
       /\ cc.call_only.ticks = IF Hit(p, q, s)
                               THEN (p.call_only.ticks + at.n_cycles - q.tick) % DWord
                               ELSE p.call_only.ticks
  BY <1>1, <1>7, <1>11, CallCostsEffect
<1>16. CallExact(cc, d)
  <2>1. o.insns \in Nat /\ o.cycles \in Nat /\ prog.n_cycles \in Nat
    BY <1>1, <1>7 DEF RoundType, ProgType
  <2> DEFINE x == o.cycles
             y == prog.n_cycles
  <2>2. p.call_only.insns = o.insns /\ p.call_only.ticks = x % DWord
        /\ at.n_cycles = y + c /\ q.tick = y % DWord
    BY <1>1, <1>2, <1>6, <1>11 DEF CallExact
  <2>3. x \in Nat /\ y \in Nat
    BY <2>1
  <2> HIDE DEF cc, d, p, q, at, s, x, y
  <2>4. ((x % DWord) + (y + c) - (y % DWord)) % DWord = (x + c) % DWord
    BY <1>1, <2>3, TicksAdded
  <2>5. CASE Hit(p, q, s)
    <3>1. d.insns = o.insns + 1 /\ d.cycles = x + c
          /\ cc.call_only.insns = o.insns + 1
      BY <1>5, <1>14, <1>15, <2>2, <2>5 DEF x
    <3>2. cc.call_only.ticks = ((x % DWord) + (y + c) - (y % DWord)) % DWord
      BY <1>15, <2>2, <2>5
    <3> QED BY <2>4, <3>1, <3>2 DEF CallExact
  <2>6. CASE ~Hit(p, q, s)
    <3>1. d.insns = o.insns /\ d.cycles = o.cycles
          /\ cc.call_only.insns = p.call_only.insns
          /\ cc.call_only.ticks = p.call_only.ticks
      BY <1>5, <1>14, <1>15, <2>1, <2>2, <2>6 DEF x
    <3> QED BY <2>2, <3>1 DEF CallExact, x
  <2> QED BY <2>5, <2>6
<1>17. glitch'.left = 0 /\ glitch'.sp = sp'
  BY <1>3, <1>10
<1> QED BY <1>6, <1>9, <1>16, <1>17

(* PERF_STOP adds what the round has cost.                                  *)
LEMMA EndedExact ==
  ASSUME Inv, HistoryType, Bridged, TickInv, NEW i \in Instructions, NEW c \in Costs,
         HStep(i, c), NEW m \in Meters, meters[m].on, ~meters'[m].on, RoundInv(m),
         ~(CallOnly(m) /\ NextRound(m, i).moves)
  PROVE  LET q  == Executed(i).perf
             cc == CallCosts(meters[m], q, At(c), NonglitchSP(i))
             d  == NextRound(m, i)
             insns == StopInsns(cc, At(c))
             ticks == StopTicks(cc, q)
         IN  /\ insns = d.insns
             /\ ticks \in Int
             /\ ticks = d.cycles % DWord \/ \E k \in Int : ticks = d.cycles + DWord * k
             /\ prog'.n_cycles < DWord => ticks = d.cycles
<1> DEFINE p  == meters[m]
           q  == Executed(i).perf
           at == At(c)
           s  == NonglitchSP(i)
           cc == CallCosts(p, q, at, s)
           d  == NextRound(m, i)
           o  == round[m]
           insns == StopInsns(cc, at)
           ticks == StopTicks(cc, q)
<1>1. /\ Execute(i, c) /\ Executes(i) /\ TypeOK /\ status = "RUNNING" /\ c \in Nat
      /\ prog \in ProgType /\ at \in ProgType /\ at.n_insns = prog.n_insns
  <2>1. Execute(i, c)
    BY DEF HStep
  <2>2. Executes(i) /\ TypeOK /\ status = "RUNNING"
    BY <2>1 DEF Execute, Executes, Inv
  <2> QED BY <2>1, <2>2, AtType
<1>2. perf.tick = prog.n_cycles % DWord
  BY <1>1, OnNeedsPerf DEF TickInv
<1>3. prog'.n_cycles = prog.n_cycles + c /\ prog'.n_cycles \in Nat
  <2>1. prog'.n_cycles = prog.n_cycles + c
    BY <1>1, ExecuteEffect
  <2>2. prog.n_cycles \in Nat
    BY <1>1 DEF ProgType
  <2> QED BY <1>1, <2>1, <2>2
<1>4. q \in PerfType /\ q.tick = prog.n_cycles % DWord
  BY <1>1, <1>2, RequestEffect
<1>5. s \in Nat /\ p \in MeterType /\ o \in RoundType
  BY <1>1, StackPointerType DEF TypeOK, HistoryType
<1>6. SameRound(p, cc) /\ cc.call_only.sp = p.call_only.sp
  BY <1>1, <1>4, <1>5, CallCostsEffect
<1>7. Running(m) /\ o.cycles <= prog.n_cycles
  BY <1>1 DEF RoundInv
<1>8. /\ d \in RoundType
      /\ d.insns = o.insns + (IF Counted(m) THEN 1 ELSE 0)
      /\ d.cycles = o.cycles + (IF Counted(m) THEN c ELSE 0)
  BY <1>1, <1>3, RoundGrows
<1>9. /\ d.insns \in Nat /\ d.cycles \in Nat /\ o.cycles \in Nat
      /\ prog.n_cycles \in Nat /\ prog.n_insns \in Nat
      /\ p.insn_start \in Nat /\ p.tick_start \in Nat /\ DWord \in Nat \ {0}
  BY <1>1, <1>5, <1>8, DWordAssumption DEF RoundType, ProgType, MeterType
<1>10. CASE CallOnly(m)
  <2>1. CallExact(cc, d)
    BY <1>7, <1>10, CallCounted
  <2>2. insns = d.insns /\ ticks = d.cycles % DWord
    BY <1>6, <1>10, <2>1 DEF CallExact, CallOnly, StopInsns, StopTicks
  <2> HIDE DEF insns, ticks, d, o
  <2>3. ticks \in Int
    BY <1>9, <2>2
  <2>4. prog'.n_cycles < DWord => ticks = d.cycles
    <3>1. d.cycles <= prog'.n_cycles
      BY <1>1, <1>3, <1>7, <1>8, <1>9
    <3>2. d.cycles < DWord => d.cycles % DWord = d.cycles
      BY <1>9
    <3> QED BY <1>3, <1>9, <2>2, <3>1, <3>2
  <2> QED BY <2>2, <2>3, <2>4 DEF insns, ticks, d
<1>11. CASE ~CallOnly(m)
  <2>1. ~Counted(m)
    BY <1>11 DEF Counted, Remains
  <2>2. d.insns = o.insns /\ d.cycles = o.cycles
    BY <1>5, <1>8, <2>1 DEF RoundType
  <2>3. o.insns = prog.n_insns - 1 - p.insn_start
        /\ o.cycles = prog.n_cycles - p.tick_start
    BY <1>7, <1>11 DEF Running, PlainExact
  <2>4. /\ insns = prog.n_insns - 1 - p.insn_start
        /\ ticks = (prog.n_cycles % DWord) - p.tick_start
    BY <1>1, <1>4, <1>6, <1>11 DEF CallOnly, StopInsns, StopTicks, SameRound
  <2> DEFINE x == prog.n_cycles
             z == p.tick_start
  <2>5. x \in Nat /\ z \in Nat /\ ticks = (x % DWord) - z /\ d.cycles = x - z
    BY <1>9, <2>2, <2>3, <2>4
  <2> HIDE DEF insns, ticks, d, o, x, z
  <2>6. /\ ticks \in Int /\ \E k \in Int : ticks = d.cycles + DWord * k
        /\ x < DWord => ticks = d.cycles
    BY <2>5, PlainTicks
  <2>7. prog'.n_cycles < DWord => x < DWord
    BY <1>1, <1>3, <1>9, <2>5 DEF x
  <2>8. insns = d.insns
    BY <2>2, <2>3, <2>4
  <2> QED BY <2>6, <2>7, <2>8 DEF insns, ticks, d
<1> QED BY <1>10, <1>11

LEMMA RoundStep ==
  ASSUME Inv, HistoryType, Bridged, TickInv, NEW i \in Instructions, NEW c \in Costs,
         HStep(i, c), NEW m \in Meters, RoundInv(m)
  PROVE  RoundInv(m)'
<1> DEFINE p  == meters[m]
           r  == meters'[m]
           q  == Executed(i).perf
           at == At(c)
           s  == NonglitchSP(i)
           cc == CallCosts(p, q, at, s)
           d  == NextRound(m, i)
           o  == round[m]
           ok == status' = "RUNNING"
<1>1. /\ Execute(i, c) /\ Executes(i) /\ TypeOK /\ status = "RUNNING" /\ c \in Nat
      /\ prog \in ProgType /\ at \in ProgType /\ at.n_cycles = prog.n_cycles + c
      /\ at.n_insns = prog.n_insns
  <2>1. Execute(i, c)
    BY DEF HStep
  <2>2. Executes(i) /\ TypeOK /\ status = "RUNNING"
    BY <2>1 DEF Execute, Executes, Inv
  <2> QED BY <2>1, <2>2, AtType
<1>2. /\ prog'.n_cycles = prog.n_cycles + c /\ prog'.n_cycles \in Nat
      /\ status' = "RUNNING" => prog'.n_insns = prog.n_insns + 1
      /\ glitch' = [left |-> GlitchLeft(i), sp |-> s] /\ sp' = NextSP(i)
  BY <1>1, ExecuteEffect DEF ProgType
<1>3. /\ r.on => r.valid = "start"
      /\ Outcome(p, r, q, at, s, ok)
  BY <1>1, MeterStep DEF RoundInv
<1>4. round'[m] = d
  BY DEF HStep
<1>5. q \in PerfType /\ s \in Nat /\ p \in MeterType /\ o \in RoundType
  BY <1>1, RequestEffect, StackPointerType DEF TypeOK, HistoryType
<1>6. SameRound(p, cc) /\ cc.call_only.sp = p.call_only.sp
  BY <1>1, <1>5, CallCostsEffect
<1>7. CASE Kept(p, r) /\ (ok => r.call_only = cc.call_only) /\ p.on
  <2>1. r.on /\ r.valid = "start" /\ Running(m) /\ o.cycles <= prog.n_cycles
        /\ r.insn_start = p.insn_start /\ r.tick_start = p.tick_start
    BY <1>1, <1>3, <1>7 DEF Kept, SameRound, RoundInv
  <2>2. /\ d \in RoundType
        /\ d.insns = o.insns + (IF Counted(m) THEN 1 ELSE 0)
        /\ d.cycles = o.cycles + (IF Counted(m) THEN c ELSE 0)
        /\ d.depth = o.depth
    BY <1>1, <1>2, <1>7, RoundGrows
  <2>3. d.cycles <= prog'.n_cycles
    BY <1>1, <1>2, <1>5, <2>1, <2>2 DEF RoundType, ProgType
  <2>4. ASSUME ok PROVE Running(m)'
    <3>1. r.call_only = cc.call_only /\ r.call_only.sp = p.call_only.sp
      BY <1>6, <1>7, <2>4
    <3>2. CASE CallOnly(m)
      <4>1. CallOnly(m)'
        BY <3>1, <3>2 DEF CallOnly
      <4>2. ASSUME ~d.moves PROVE CallsOnly(m)' /\ CallExact(r, d)
        <5>1. /\ CallExact(cc, d)
              /\ Nested(p.call_only.sp, o.depth, sp', frames', Depth')
              /\ p.call_only.sp \in 0 .. Top - 1
              /\ glitch'.left = 0 /\ glitch'.sp = sp'
          BY <1>7, <2>1, <3>2, <4>2, CallCounted
        <5>2. CallExact(r, d)
          BY <3>1, <5>1 DEF CallExact
        <5>3. CallsOnly(m)'
          BY <1>4, <2>2, <3>1, <5>1 DEF CallsOnly, Top
        <5> QED BY <5>2, <5>3
      <4> QED BY <1>4, <4>1, <4>2 DEF Running
    <3>3. CASE ~CallOnly(m)
      <4>1. ~CallOnly(m)'
        BY <3>1, <3>3 DEF CallOnly
      <4>2. Counted(m)
        BY <1>7, <2>1, <3>3 DEF Counted, Remains
      <4>3. PlainExact(p, o, prog)
        BY <2>1, <3>3 DEF Running
      <4>4. PlainExact(r, d, prog')
        BY <1>1, <1>2, <1>5, <2>1, <2>2, <2>4, <4>2, <4>3
           DEF PlainExact, RoundType, ProgType, MeterType
      <4> QED BY <1>4, <4>1, <4>4 DEF Running
    <3> QED BY <3>2, <3>3
  <2> QED BY <1>4, <2>1, <2>3, <2>4 DEF RoundInv
<1>8. CASE ~r.on
  BY <1>8 DEF RoundInv
<1>9. CASE RoundStarts(p, r, at) /\ (ok => StartsCalls(r, q.cmd, s))
  <2>1. /\ ~p.on /\ r.on /\ r.valid = "start"
        /\ r.insn_start = at.n_insns /\ r.tick_start = at.n_cycles
    BY <1>9 DEF RoundStarts
  <2>2. d = [insns |-> 0, cycles |-> 0, depth |-> Depth', moves |-> quiet' < 4]
    BY <2>1 DEF NextRound, Begins
  <2>3. /\ Top \in Nat /\ Top <= IntMax /\ IntMax \in Nat /\ s \in 0 .. Top - 1
        /\ quiet' \in 0 .. 4 /\ Depth' \in Nat /\ Bridged' /\ glitch'.left \in 0 .. 4
    <3>1. HistoryType'
      BY HistoryTypeStep
    <3>2. /\ Top \in Nat /\ Top <= IntMax /\ IntMax \in Nat
      BY SpRange, StackPointerAssumption DEF Top, IntMax
    <3>3. s \in 0 .. Top - 1 /\ GlitchLeft(i) \in 0 .. 4
      BY <1>1, StackPointerType DEF Top
    <3>4. Depth' \in Nat
      BY <3>1, LenProperties DEF HistoryType, Depth
    <3> QED BY <1>2, <3>1, <3>2, <3>3, <3>4, BridgedStep DEF HistoryType
  <2>4. ASSUME ok PROVE Running(m)'
    <3>1. /\ r.call_only.sp = (IF q.cmd = "start_call" THEN s ELSE IntMax)
          /\ r.call_only.insns = 0 /\ r.call_only.ticks = 0
      BY <1>9, <2>4 DEF StartsCalls
    <3>2. CASE r.call_only.sp # IntMax
      <4>1. r.call_only.sp = s /\ CallOnly(m)'
        BY <3>1, <3>2 DEF CallOnly
      <4>2. ASSUME ~d.moves PROVE CallsOnly(m)' /\ CallExact(r, d)
        <5>1. quiet' = 4
          <6> DEFINE z == quiet' < 4
          <6>1. z \in BOOLEAN
            OBVIOUS
          <6>2. d = [insns |-> 0, cycles |-> 0, depth |-> Depth', moves |-> z]
            BY <2>2
          <6> HIDE DEF z, d
          <6>3. d.moves = z
            BY <6>2
          <6>4. ~z
            BY <4>2, <6>1, <6>3
          <6> QED BY <2>3, <6>4 DEF z
        <5>2. glitch'.left = 0
          BY <2>3, <5>1 DEF Bridged
        <5>3. s = sp' /\ glitch'.sp = s
          BY <1>2, <5>2 DEF NonglitchSP
        <5>4. Nested(s, Depth', sp', frames', Depth')
          BY <2>3, <5>3, NestedStart
        <5>5. 0 % DWord = 0
          BY DWordAssumption
        <5>6. CallExact(r, d)
          BY <2>2, <3>1, <5>5 DEF CallExact
        <5>7. round'[m].depth = Depth'
          BY <1>4, <2>2
        <5>8. CallsOnly(m)'
          BY <2>3, <4>1, <5>2, <5>3, <5>4, <5>7 DEF CallsOnly, Top
        <5> QED BY <5>6, <5>8
      <4> QED BY <1>4, <4>1, <4>2 DEF Running
    <3>3. CASE r.call_only.sp = IntMax
      <4>1. ~CallOnly(m)'
        BY <3>3 DEF CallOnly
      <4>2. PlainExact(r, d, prog')
        BY <1>1, <1>2, <2>1, <2>2, <2>4 DEF PlainExact, ProgType
      <4> QED BY <1>4, <4>1, <4>2 DEF Running
    <3> QED BY <3>2, <3>3
  <2>5. d.cycles <= prog'.n_cycles
    BY <1>2, <2>2
  <2> QED BY <1>4, <2>1, <2>4, <2>5 DEF RoundInv
<1>10. \/ r.on /\ p.on /\ Kept(p, r) /\ (ok => r.call_only = cc.call_only)
       \/ ~r.on
       \/ RoundStarts(p, r, at) /\ (ok => StartsCalls(r, q.cmd, s))
  BY <1>3 DEF Outcome, Kept, SameRound, Rests, Ended
<1> QED BY <1>7, <1>8, <1>9, <1>10

-----------------------------------------------------------------------------
(* Sums and extremes                                                       *)

Insns(f)  == {f[k].insns : k \in DOMAIN f}
Cycles(f) == {f[k].cycles : k \in DOMAIN f}

SumInv(m) ==
  /\ InUse(m) => meters[m].n = Len(rounds[m]) + (IF meters[m].on THEN 1 ELSE 0)
  /\ ~SpMoved(m) =>
       /\ meters[m].insns = total[m].insns
       /\ meters[m].ticks = total[m].cycles % DWord
       /\ Between(meters[m].insn, Insns(rounds[m]))
       /\ prog.n_cycles < DWord => Between(meters[m].tick, Cycles(rounds[m]))

LEMMA BetweenNone == Between(NoExtremes, {})
  BY DEF Between, LeastOf, GreatestOf, NoExtremes, IntMax

LEMMA BetweenMore ==
  ASSUME NEW mm \in Extremes, NEW S \in SUBSET Int, NEW x \in Int, Between(mm, S)
  PROVE  Between(Update(mm, x), S \cup {x})
<1> DEFINE u == Update(mm, x)
<1>1. /\ mm.min \in Int /\ mm.max \in Int /\ IntMax \in Int /\ -IntMax \in Int
      /\ u.min = IF x < mm.min THEN x ELSE mm.min
      /\ u.max = IF x > mm.max THEN x ELSE mm.max
  BY DEF Extremes, Update, IntMax
<1>2. /\ mm.min \in S \cup {IntMax} /\ \A y \in S \cup {IntMax} : mm.min <= y
      /\ mm.max \in S \cup {-IntMax} /\ \A y \in S \cup {-IntMax} : y <= mm.max
  BY DEF Between, LeastOf, GreatestOf
<1> HIDE DEF u
<1>3. LeastOf(u.min, S \cup {x} \cup {IntMax})
  BY <1>1, <1>2 DEF LeastOf
<1>4. GreatestOf(u.max, S \cup {x} \cup {-IntMax})
  BY <1>1, <1>2 DEF GreatestOf
<1> QED BY <1>3, <1>4 DEF Between, u

(* The rounds with one more.                                                *)
LEMMA OneMoreRound ==
  ASSUME NEW f \in Seq(EndedType), NEW e \in EndedType
  PROVE  LET g == Append(f, e)
         IN  /\ Len(g) = Len(f) + 1 /\ Len(f) \in Nat
             /\ Insns(g) = Insns(f) \cup {e.insns}
             /\ Cycles(g) = Cycles(f) \cup {e.cycles}
             /\ Insns(f) \in SUBSET Int /\ Cycles(f) \in SUBSET Int
             /\ (\E k \in DOMAIN f : f[k].moves) \/ e.moves
                  => \E k \in DOMAIN g : g[k].moves
<1> DEFINE g == Append(f, e)
           n == Len(f)
<1>1. /\ n \in Nat /\ Len(g) = n + 1 /\ DOMAIN f = 1 .. n /\ DOMAIN g = 1 .. n + 1
      /\ g[n + 1] = e /\ \A k \in 1 .. n : g[k] = f[k]
  BY AppendProperties, LenProperties
<1>2. \A k \in 1 .. n : f[k] \in EndedType
  BY ElementOfSeq
<1> HIDE DEF g, n
<1>3. 1 .. n + 1 = (1 .. n) \cup {n + 1}
  BY <1>1
<1>4. Insns(g) = Insns(f) \cup {e.insns} /\ Cycles(g) = Cycles(f) \cup {e.cycles}
  <2>1. Insns(g) = Insns(f) \cup {e.insns}
    BY <1>1, <1>3 DEF Insns
  <2>2. Cycles(g) = Cycles(f) \cup {e.cycles}
    BY <1>1, <1>3 DEF Cycles
  <2> QED BY <2>1, <2>2
<1>5. Insns(f) \in SUBSET Int /\ Cycles(f) \in SUBSET Int
  BY <1>1, <1>2 DEF Insns, Cycles, EndedType
<1>6. (\E k \in DOMAIN f : f[k].moves) \/ e.moves => \E k \in DOMAIN g : g[k].moves
  BY <1>1, <1>3, Zenon
<1> QED BY <1>1, <1>4, <1>5, <1>6 DEF g, n

LEMMA SumStep ==
  ASSUME Inv, HistoryType, Bridged, TickInv, NEW i \in Instructions, NEW c \in Costs,
         HStep(i, c), NEW m \in Meters, RoundInv(m), SumInv(m)
  PROVE  SumInv(m)'
<1> DEFINE p  == meters[m]
           r  == meters'[m]
           q  == Executed(i).perf
           at == At(c)
           s  == NonglitchSP(i)
           cc == CallCosts(p, q, at, s)
           d  == NextRound(m, i)
           ok == status' = "RUNNING"
           insns == StopInsns(cc, at)
           ticks == StopTicks(cc, q)
<1>1. /\ Execute(i, c) /\ TypeOK /\ c \in Nat /\ prog.n_cycles \in Nat
      /\ prog'.n_cycles = prog.n_cycles + c
  <2>1. Execute(i, c) /\ TypeOK
    BY DEF HStep, Inv
  <2> QED BY <2>1, AtType, ExecuteEffect DEF ProgType
<1>2. Outcome(p, r, q, at, s, ok)
  BY <1>1, MeterStep DEF RoundInv
<1>3. /\ round'[m] = d /\ rounds'[m] = NextRounds(m) /\ total'[m] = NextTotal(m)
  BY DEF HStep
<1>4. prog'.n_cycles < DWord => prog.n_cycles < DWord
  BY <1>1, DWordAssumption
<1>5. /\ p \in MeterType /\ rounds[m] \in Seq(EndedType) /\ total[m] \in CostType
      /\ d \in RoundType /\ HistoryType'
  BY <1>1, <1>3, HistoryTypeStep DEF TypeOK, HistoryType
<1>6. ASSUME rounds'[m] = rounds[m], total'[m] = total[m], SameTotals(p, r),
             r.valid = "start" =>
               /\ p.valid = "start"
               /\ \/ r.n = p.n /\ (r.on <=> p.on)
                  \/ r.n = p.n + 1 /\ r.on /\ ~p.on
      PROVE  SumInv(m)'
  <2>1. Len(rounds[m]) \in Nat /\ p.n \in Nat
    BY <1>5, LenProperties DEF MeterType
  <2>2. InUse(m)' => r.n = Len(rounds'[m]) + (IF r.on THEN 1 ELSE 0)
    <3> SUFFICES ASSUME r.valid = "start"
                 PROVE  r.n = Len(rounds[m]) + (IF r.on THEN 1 ELSE 0)
      BY <1>6 DEF InUse
    <3>1. p.n = Len(rounds[m]) + (IF p.on THEN 1 ELSE 0)
      BY <1>6 DEF SumInv, InUse
    <3> HIDE DEF p, r
    <3>2. CASE p.on
      <4>1. p.n = Len(rounds[m]) + 1 /\ r.n = p.n /\ r.on
        BY <1>6, <3>1, <3>2
      <4> QED BY <4>1
    <3>3. CASE ~p.on
      <4>1. p.n = Len(rounds[m])
        BY <2>1, <3>1, <3>3
      <4>2. CASE r.on
        <5>1. r.n = p.n + 1
          BY <1>6, <3>3, <4>2
        <5> QED BY <4>1, <4>2, <5>1
      <4>3. CASE ~r.on
        <5>1. r.n = p.n
          BY <1>6, <4>3
        <5> QED BY <2>1, <4>1, <4>3, <5>1
      <4> QED BY <4>2, <4>3
    <3> QED BY <3>2, <3>3
  <2>3. SpMoved(m)' = SpMoved(m)
    BY <1>6 DEF SpMoved
  <2> QED BY <1>4, <1>6, <2>2, <2>3 DEF SumInv, SameTotals
<1>7. CASE Kept(p, r)
  <2>1. ~Begins(m) /\ ~Ends(m) /\ p.n \in Nat /\ r.n = p.n /\ r.on = p.on
        /\ r.valid = p.valid
    BY <1>5, <1>7 DEF Kept, SameRound, Begins, Ends, MeterType
  <2>2. rounds'[m] = rounds[m] /\ total'[m] = total[m]
    BY <1>3, <2>1 DEF NextRounds, NextTotal, First
  <2> QED BY <1>6, <1>7, <2>1, <2>2 DEF Kept
<1>8. CASE Rests(p, r)
  <2>1. ~Begins(m) /\ ~Ends(m)
    BY <1>8 DEF Rests, Begins, Ends
  <2>2. rounds'[m] = rounds[m] /\ total'[m] = total[m]
    BY <1>3, <2>1 DEF NextRounds, NextTotal, First
  <2> QED BY <1>6, <1>8, <2>2 DEF Rests
<1>9. CASE RoundStarts(p, r, at)
  <2>1. ~p.on /\ r.on /\ r.valid = "start" /\ Begins(m) /\ ~Ends(m)
    BY <1>9 DEF RoundStarts, Begins, Ends
  <2>2. CASE p.valid = "start"
    <3>1. SameTotals(p, r) /\ r.n = p.n + 1 /\ p.n \in Nat
      BY <1>5, <1>9, <2>2 DEF RoundStarts, MeterType
    <3>2. rounds'[m] = rounds[m] /\ total'[m] = total[m]
      BY <1>3, <2>1, <2>2 DEF NextRounds, NextTotal, First
    <3> QED BY <1>6, <2>1, <2>2, <3>1, <3>2
  <2>3. CASE p.valid = "none"
    <3>1. r.n = 1 /\ SameTotals(UnusedMeter, r)
      BY <1>9, <2>3 DEF RoundStarts
    <3>2. rounds'[m] = << >> /\ total'[m] = Nothing
      BY <1>3, <2>1, <2>3 DEF NextRounds, NextTotal, First
    <3>3. /\ Insns(rounds'[m]) = {} /\ Cycles(rounds'[m]) = {} /\ Len(rounds'[m]) = 0
      BY <3>2 DEF Insns, Cycles
    <3>4. /\ r.insns = 0 /\ r.ticks = 0 /\ r.insn = NoExtremes /\ r.tick = NoExtremes
          /\ 0 % DWord = 0
      BY <3>1, DWordAssumption DEF SameTotals, UnusedMeter
    <3>5. r.n = Len(rounds'[m]) + (IF r.on THEN 1 ELSE 0)
      BY <2>1, <3>1, <3>3
    <3>6. /\ r.insns = total'[m].insns
          /\ r.ticks = total'[m].cycles % DWord
      BY <3>2, <3>4 DEF Nothing
    <3>7. Between(r.insn, Insns(rounds'[m])) /\ Between(r.tick, Cycles(rounds'[m]))
      BY <3>3, <3>4, BetweenNone
    <3> QED BY <3>5, <3>6, <3>7 DEF SumInv
  <2> QED BY <1>9, <2>2, <2>3 DEF RoundStarts
<1>10. CASE Ended(p, r, insns, ticks)
  <2> DEFINE e == [insns |-> round'[m].insns, cycles |-> round'[m].cycles,
                   moves |-> CallOnly(m) /\ round'[m].moves]
             z == CallOnly(m) /\ d.moves
  <2>1. /\ p.on /\ ~r.on /\ r.n = p.n /\ Adds(p, r, insns, ticks)
        /\ Ends(m) /\ ~First(m) /\ p.valid = "start"
    BY <1>10 DEF Ended, Ends, First, Begins, RoundInv
  <2>2. /\ rounds'[m] = Append(rounds[m], e)
        /\ total'[m] = [insns |-> total[m].insns + d.insns,
                        cycles |-> total[m].cycles + d.cycles]
    BY <1>3, <2>1 DEF NextRounds, NextTotal
  <2>3. /\ e \in EndedType /\ e.insns = d.insns /\ e.cycles = d.cycles
        /\ e.moves <=> z
    <3>1. z \in BOOLEAN
      OBVIOUS
    <3>2. e = [insns |-> d.insns, cycles |-> d.cycles, moves |-> z]
      BY <1>3
    <3> HIDE DEF e, z, d
    <3> QED BY <1>5, <3>1, <3>2 DEF RoundType, EndedType
  <2> HIDE DEF e
  <2>4. /\ Len(rounds'[m]) = Len(rounds[m]) + 1 /\ Len(rounds[m]) \in Nat
        /\ Insns(rounds'[m]) = Insns(rounds[m]) \cup {d.insns}
        /\ Cycles(rounds'[m]) = Cycles(rounds[m]) \cup {d.cycles}
        /\ Insns(rounds[m]) \in SUBSET Int /\ Cycles(rounds[m]) \in SUBSET Int
        /\ SpMoved(m) \/ z => SpMoved(m)'
    BY <1>5, <2>2, <2>3, OneMoreRound DEF SpMoved
  <2>5. InUse(m)' => r.n = Len(rounds'[m]) + (IF r.on THEN 1 ELSE 0)
    BY <2>1, <2>4 DEF SumInv, InUse
  <2>6. ASSUME ~SpMoved(m)'
        PROVE  /\ r.insns = total'[m].insns
               /\ r.ticks = total'[m].cycles % DWord
               /\ Between(r.insn, Insns(rounds'[m]))
               /\ prog'.n_cycles < DWord => Between(r.tick, Cycles(rounds'[m]))
    <3>1. /\ insns = d.insns /\ ticks \in Int
          /\ ticks = d.cycles % DWord \/ \E k \in Int : ticks = d.cycles + DWord * k
          /\ prog'.n_cycles < DWord => ticks = d.cycles
      BY <2>1, <2>4, <2>6, EndedExact
    <3>2. /\ p.insns = total[m].insns /\ p.ticks = total[m].cycles % DWord
          /\ Between(p.insn, Insns(rounds[m]))
          /\ prog'.n_cycles < DWord => Between(p.tick, Cycles(rounds[m]))
      BY <1>4, <2>4, <2>6 DEF SumInv
    <3>3. /\ r.insns = p.insns + d.insns /\ r.ticks = (p.ticks + ticks) % DWord
          /\ r.insn = Update(p.insn, d.insns) /\ r.tick = Update(p.tick, ticks)
      BY <2>1, <3>1 DEF Adds
    <3> HIDE DEF p, r, d, insns, ticks
    <3>4. /\ total'[m].insns = total[m].insns + d.insns
          /\ total'[m].cycles = total[m].cycles + d.cycles
          /\ total[m].cycles \in Nat /\ d.cycles \in Nat /\ d.insns \in Nat
          /\ p.insn \in Extremes /\ p.tick \in Extremes
      BY <1>5, <2>2 DEF CostType, RoundType, MeterType
    <3>5. r.ticks = total'[m].cycles % DWord
      BY <3>1, <3>2, <3>3, <3>4, TicksSummed
    <3>6. Between(r.insn, Insns(rounds'[m]))
      BY <2>4, <3>2, <3>3, <3>4, BetweenMore
    <3>7. prog'.n_cycles < DWord => Between(r.tick, Cycles(rounds'[m]))
      BY <2>4, <3>1, <3>2, <3>3, <3>4, BetweenMore
    <3> QED BY <3>2, <3>3, <3>4, <3>5, <3>6, <3>7
  <2> QED BY <2>5, <2>6 DEF SumInv
<1> QED BY <1>2, <1>7, <1>8, <1>9, <1>10 DEF Outcome

-----------------------------------------------------------------------------
(* The invariant of HSpec                                                  *)

HInv == /\ Inv /\ HistoryType
        /\ Pointer
        /\ TickInv
        /\ \A m \in Meters : RoundInv(m) /\ SumInv(m)

LEMMA HInitHolds == HInit => HInv
<1> SUFFICES ASSUME HInit PROVE HInv
  OBVIOUS
<1>1. Inv /\ HistoryType /\ Pointer
  BY InitHolds, HistoryTypeInit, PointerInit DEF HInit
<1>2. 0 % DWord = 0
  BY DWordAssumption
<1>3. TickInv
  BY <1>2 DEF HInit, Init, InitPerf, TickInv
<1>4. ASSUME NEW m \in Meters PROVE RoundInv(m) /\ SumInv(m)
  <2>1. /\ meters[m] = UnusedMeter /\ rounds[m] = << >> /\ total[m] = Nothing
    BY DEF HInit, Init
  <2>2. /\ UnusedMeter.on = FALSE /\ UnusedMeter.valid = "none"
        /\ UnusedMeter.insns = 0 /\ UnusedMeter.ticks = 0
        /\ UnusedMeter.insn = NoExtremes /\ UnusedMeter.tick = NoExtremes
        /\ Nothing.insns = 0 /\ Nothing.cycles = 0
    BY DEF UnusedMeter, Nothing
  <2>3. Insns(<< >>) = {} /\ Cycles(<< >>) = {}
    BY DEF Insns, Cycles
  <2>4. RoundInv(m)
    BY <2>1, <2>2 DEF RoundInv
  <2>5. SumInv(m)
    BY <1>2, <2>1, <2>2, <2>3, BetweenNone DEF SumInv, InUse
  <2> QED BY <2>4, <2>5
<1> QED BY <1>1, <1>3, <1>4 DEF HInv

LEMMA HStepHolds ==
  ASSUME HInv, NEW i \in Instructions, NEW c \in Costs, HStep(i, c)
  PROVE  HInv'
<1>1. /\ Inv /\ HistoryType /\ Pointer /\ Bridged /\ TickInv
      /\ \A m \in Meters : RoundInv(m) /\ SumInv(m)
  BY DEF HInv, Pointer
<1>2. Execute(i, c)
  BY DEF HStep
<1>3. Inv' /\ HistoryType'
  BY <1>1, <1>2, ExecuteHolds, HistoryTypeStep
<1>4. Pointer'
  BY <1>1, PointerStep DEF RoundInv
<1>5. TickInv'
  BY <1>1, <1>2, ExecuteEffect DEF TickInv
<1>6. \A m \in Meters : RoundInv(m)' /\ SumInv(m)'
  BY <1>1, RoundStep, SumStep
<1> QED BY <1>3, <1>4, <1>5, <1>6 DEF HInv

LEMMA HInvHolds == HSpec => []HInv
<1>1. HInv /\ [HNext]_hvars => HInv'
  <2> SUFFICES ASSUME HInv, [HNext]_hvars PROVE HInv'
    OBVIOUS
  <2>1. CASE HNext
    BY <2>1, HStepHolds DEF HNext
  <2>2. CASE UNCHANGED hvars
    <3>1. UNCHANGED vars /\ UNCHANGED history
      BY <2>2 DEF hvars
    <3>2. Inv'
      BY <3>1 DEF HInv, vars, Inv, TypeOK, Known, Ready, PerfSaved, AnyOn, LogThis,
                  PrintedLinesHaveText, Syscalls
    <3>3. HistoryType' /\ Pointer' /\ TickInv'
      BY <3>1 DEF HInv, vars, history, HistoryType, Pointer, Bridged, Watched, Seen,
                  TickInv
    <3>4. ASSUME NEW m \in Meters PROVE RoundInv(m)' /\ SumInv(m)'
      BY <3>1 DEF HInv, vars, history, RoundInv, SumInv, Running, CallOnly, CallsOnly,
                  Depth, InUse, SpMoved, Top
    <3> QED BY <3>2, <3>3, <3>4 DEF HInv
  <2> QED BY <2>1, <2>2
<1> QED BY <1>1, HInitHolds, PTL DEF HSpec

(* Whatever the program asks of the meters, and whenever it asks, what each *)
(* of them has added up is what its rounds cost; with PERF_START_CALL, as   *)
(* long as only calls move the stack pointer.                               *)
THEOREM TotalsAreExact == HSpec => []RoundsAreAccounted
<1>1. HInv => RoundsAreAccounted
  BY DEF HInv, SumInv, RoundsAreAccounted, Accounted
<1> QED BY <1>1, HInvHolds, PTL

(* "Min" and "Max" are taken over the rounds counted in the totals, and over*)
(* all of them.                                                             *)
THEOREM ExtremesAreExact == HSpec => []ExtremesAreOfRounds
<1>1. HInv => ExtremesAreOfRounds
  BY DEF HInv, SumInv, ExtremesAreOfRounds, Insns, Cycles
<1> QED BY <1>1, HInvHolds, PTL

(* get_nonglitch_SP never returns a stack pointer of which only one byte    *)
(* was written, and no meter has taken one for an extreme.                  *)
THEOREM NoHalfWrittenSP == HSpec => []StackPointerIsWhole
<1>1. HInv => StackPointerIsWhole
  <2> SUFFICES ASSUME HInv, need.perf PROVE StackPointerIsWhole
    BY DEF StackPointerIsWhole
  <2>1. Bridged /\ (\A m \in Meters : Watched(m)) /\ glitch.left \in 0 .. 4
    BY DEF HInv, Pointer, Inv, TypeOK
  <2>2. perf.sp = glitch.sp /\ glitch.sp \in whole.seen \cup {0}
    BY <2>1 DEF Bridged, Seen
  <2>3. quiet = 4 /\ prog.n_insns > 0 => perf.sp = sp
    BY <2>1, <2>2 DEF Bridged
  <2> QED BY <2>1, <2>2, <2>3 DEF StackPointerIsWhole, Watched, Seen
<1> QED BY <1>1, HInvHolds, PTL
==============================================================================
