-------------------------- MODULE MCInstrumentation --------------------------
(***************************************************************************)
(* Programs for model checking the log and the meters, in families: a       *)
(* program is made of the instructions of one family and costs its cycles.  *)
(***************************************************************************)
EXTENDS MeterHistory, LogAsScopes, FiniteSets

VARIABLE plan      \* the family: what the program does, what that costs

mcvars == << hvars, plan >>

Plain(op)         == [op |-> op, no |-> -1, cmd |-> "none", n |-> 0]
Sys(no, n)        == [op |-> "syscall", no |-> no, cmd |-> "none", n |-> n]
PerfSys(cmd, n)   == [op |-> "syscall", no |-> 5, cmd |-> cmd, n |-> n]
Out(op, n)        == [op |-> op, no |-> -1, cmd |-> "none", n |-> n]

(* Every logging command, with a meter that is started and dumped.          *)
Logging ==
  [does  |-> {Plain("plain"), Plain("exit")}
             \cup {Sys(no, 0) : no \in {0, 1, 2, 3, 9, 10, 11}}
             \cup {PerfSys(cmd, 1) : cmd \in {"start", "dump"}},
   costs |-> {0}]

(* Every request to two meters.                                             *)
Metering ==
  [does  |-> {Plain("plain")}
             \cup {PerfSys(cmd, n) : cmd \in {"start", "stop"}, n \in {0, 1}}
             \cup {PerfSys("dump", 1), PerfSys("stat", 1)},
   costs |-> {1, 3}]

(* PERF_START_CALL around calls, and a new stack pointer, written byte by   *)
(* byte.  The cycles wrap around within a program.                          *)
Calling ==
  [does  |-> {Plain(op) : op \in {"plain", "call", "ret", "push", "pop"}}
             \cup {Out("out_spl", 1), Out("out_sph", 2)}
             \cup {PerfSys(cmd, 0) : cmd \in {"start_call", "stop"}},
   costs |-> {5}]

Families == {Logging, Metering, Calling}

AllInstructions == UNION {f.does : f \in Families}
AllCosts        == UNION {f.costs : f \in Families}

(* Fewer syscalls allow fewer programs and matter where log_init asks for   *)
(* them: all syscalls of the family, all but one, or at most three.         *)
Seen == LET all == {i.no : i \in plan.does} \ {-1}
        IN  {s \in SUBSET all : Cardinality(all \ s) <= 1 \/ Cardinality(s) <= 3}

MCInit == plan \in Families /\ HInit /\ have \in Seen

MCNext == /\ \E i \in plan.does, c \in plan.costs : HStep(i, c)
          /\ UNCHANGED plan

MCSpec == MCInit /\ [][MCNext]_mcvars

=============================================================================
