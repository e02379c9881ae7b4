------------------------------ MODULE LogScopes ------------------------------
(***************************************************************************)
(* What the logging commands of avrtest.h promise (README.md, "-no-log and  *)
(* Logging Control"), without the way logging.c arrives at it: there is no  *)
(* text to be collected in advance, no count-down that has to allow for its *)
(* own line, and a saved state is simply the mode it was saved in.          *)
(*                                                                         *)
(* Instrumentation implements this specification, see LogAsScopes.          *)
(***************************************************************************)
EXTENDS Integers, Sequences

CONSTANTS
  Commands,    (* set of records [no, n, starts]: the syscall or -1, its    *)
               (* operand, whether it starts a performance meter            *)
  MaxSaved,    (* states LOG_PUSH can save                                  *)
  SetDefault   (* what LOG_SET (0) stands for                               *)

VARIABLES
  scopes,      (* saved modes and, last, the mode in force                  *)
  active,      (* the last instruction was one to be logged                 *)
  shown,       (* the last instruction appears in the log                   *)
  metered,     (* a performance meter is on                                 *)
  ended        (* the program has come to its end                           *)

vars == << scopes, active, shown, metered, ended >>

Mode(kind)   == [kind |-> kind, left |-> 0]
Count(n)     == IF n = 0 THEN Mode("off") ELSE [kind |-> "count", left |-> n]
Current(s)   == s[Len(s)]
Below(s)     == SubSeq(s, 1, Len(s) - 1)
Enter(s, m)  == Append(Below(s), m)

Active(m, on) == m.kind \in {"on", "count"} \/ (m.kind = "perf" /\ on)

(* An instruction under LOG_SET uses up one of its count.                   *)
Spend(s) == IF Current(s).kind = "count"
            THEN Enter(s, Count(Current(s).left - 1)) ELSE s

(* The scopes after a command, itself counted where it is not LOG_SET.      *)
After(s, i) ==
  CASE i.no = 0 -> Enter(s, Mode("off"))
    [] i.no = 1 -> Enter(s, Mode("on"))
    [] i.no = 2 -> Enter(s, Mode("perf"))
    [] i.no = 3 -> Enter(s, Count(IF i.n = 0 THEN SetDefault ELSE i.n))
    [] i.no \in {9, 10} /\ Len(s) <= MaxSaved
         -> Append(s, Mode(IF i.no = 10 THEN "on" ELSE "off"))
    [] i.no = 11 /\ Len(s) > 1 -> Spend(Below(s))
    [] OTHER -> Spend(s)

(* leave() does not count the instruction that ends the program.            *)
Follows(s, t, i) == t = After(s, i) \/ (ended' /\ t = s)

Init ==
  /\ \E kind \in {"on", "off"} : scopes = << Mode(kind) >>
  /\ ~active /\ ~shown /\ ~metered /\ ~ended

(* An instruction appears in the log when it is to be logged, and when it   *)
(* follows one that was: the commands that turn logging off, and the last   *)
(* instruction of LOG_SET, are still in the log.                            *)
Step(i) ==
  LET now == Active(Current(scopes'), metered \/ i.starts)
  IN  /\ ~ended
      /\ ended' \in BOOLEAN /\ metered' \in BOOLEAN
      /\ Follows(scopes, scopes', i)
      /\ shown' = (active \/ now)
      /\ active' \in IF ended' THEN BOOLEAN ELSE {now}

Next == \E i \in Commands : Step(i)

Spec == Init /\ [][Next]_vars
=============================================================================
