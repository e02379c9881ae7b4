----------------------------- MODULE LogAsScopes -----------------------------
(***************************************************************************)
(* The mapping from Instrumentation to LogScopes: a mode is read off        *)
(* do_log, perf_only and the count-down, in force and in the saved states.  *)
(***************************************************************************)
EXTENDS Instrumentation

ModeOf(on, only, countdown) ==
  [kind |-> CASE countdown > 0 -> "count"
              [] ~(countdown > 0) /\ on -> "on"
              [] ~(countdown > 0) /\ ~on /\ only -> "perf"
              [] OTHER -> "off",
   left |-> countdown]

SavedModes(l) ==
  [k \in 1 .. Len(l.stack) |->
     ModeOf(l.stack[k].on, l.stack[k].perf, l.stack[k].countdown)]

ModeInForce(l) == ModeOf(l.do_log, l.perf_only, l.countdown)

ScopesOf(l) == Append(SavedModes(l), ModeInForce(l))

AsCommand(i) ==
  [no |-> i.no, n |-> i.n, starts |-> i.cmd \in {"start", "start_call"}]

Scopes == INSTANCE LogScopes WITH
  Commands <- {AsCommand(i) : i \in Instructions},
  MaxSaved <- StackSlots - 1,
  scopes   <- ScopesOf(log),
  active   <- log.log_this,
  shown    <- lines # << >>,
  metered  <- perf.on,
  ended    <- status # "RUNNING"

(* The log shows exactly what the logging commands ask for: LOG_SET (n) the *)
(* next n instructions, LOG_PUSH and LOG_POP nested states, LOG_PERF the    *)
(* rounds of the meters.                                                    *)
ImplementsScopes == Scopes!Spec
==============================================================================
