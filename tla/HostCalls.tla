------------------------------ MODULE HostCalls ------------------------------
(***************************************************************************)
(* The syscalls by which a running target uses the host: streams (24, 28,    *)
(* 29), arguments (27), logs of values with format strings (7, 8), and what *)
(* the host computes or copies for it (21).                                 *)
(*                                                                         *)
(* A byte has Bits bits, so that a wide number is a small one here.  The    *)
(* characters that cross a stream, and the texts of formats, are left out:  *)
(* io is which stream was used, where it went, and for a log which format   *)
(* got which value.                                                        *)
(***************************************************************************)
EXTENDS Loader, SequencesExt

CONSTANTS
  Bits,       \* bits of a byte
  Formats     \* bound: format strings of the target

VARIABLES
  regs,       \* the registers that syscall 21 and the logs read and write
  freg,       \* the float in R22, in units of 2^-FloatUnit
  fmt_once, xfmt,      \* static variables of sys_log_dump
  argc_argv,  \* what syscall 27 left in R24 (argc) and R22 (argv)
  io          \* what went over the streams

ASSUME BitsAssumption == Bits \in Nat \ {0}

hostVars == << regs, freg, fmt_once, xfmt, argc_argv, io >>

(* b^n.                                                                     *)
Power(b, n) == LET p[k \in Nat] == IF k = 0 THEN 1 ELSE b * p[k - 1] IN p[n]

Byte == Power(2, Bits)
Wide(size) == Power(Byte, size)     \* size bytes hold the numbers below
Full == Wide(4)                     \* of "unsigned"
Regs == 10 .. 25

-----------------------------------------------------------------------------
(* Values in registers                                                      *)

Unsigned(r, regno, size) ==
  FoldLeft(LAMBDA val, n : Byte * val + r[n], 0,
           [k \in 1 .. size |-> regno + size - k])

(* From -1U or 0, depending on the sign, the bytes are shifted in.          *)
get_reg_value(r, regno, size, signed_p) ==
  LET u == Unsigned(r, regno, size) IN
  IF signed_p /\ r[regno + size - 1] >= Byte \div 2
  THEN (Full - Wide(size)) + u ELSE u

set_reg_value(r, regno, n, val) ==
  [k \in Regs |-> IF k \in regno .. regno + n - 1
                  THEN (val \div Wide(k - regno)) % Byte ELSE r[k]]

(* A cast to a signed number of size bytes.                                 *)
Signed(val, size) == IF val >= Wide(size) \div 2 THEN val - Wide(size) ELSE val

-----------------------------------------------------------------------------
(* Syscalls 24, 28, 29                                                      *)

Target == phase = "run"
Unchanged == UNCHANGED << optionVars, i, seg, flash, eeprom, device, symbols, image >>

Entry(stream, dest, fmt, val) == [stream |-> stream, dest |-> dest, fmt |-> fmt, val |-> val]

(* putc and getc: a stream that is NULL is not touched.                     *)
UseStream(f) ==
  /\ Target
  /\ io' = IF streams[f] = NULL THEN io ELSE Append(io, Entry(f, streams[f], None, 0))
  /\ Unchanged /\ UNCHANGED << phase, left, ram, regs, freg, fmt_once, xfmt, argc_argv >>

-----------------------------------------------------------------------------
(* Syscall 27: put_argv writes the strings from addr on, their addresses     *)
(* behind them, and a null pointer.                                        *)

Chars(word) == Append(Words[word].chars, 0)
Word16(a) == << a % 256, (a \div 256) % 256 >>

ArgStrings == << Chars(program.short_name) >> \o [k \in DOMAIN args |-> Chars(args[k])]
Before(strs, k) == Len(FlattenSeq(SubSeq(strs, 1, k - 1)))

Pointers(addr, strs) == [k \in DOMAIN strs |-> Word16(addr + Before(strs, k))]

sys_argc_argv(addr) ==
  /\ Target
  /\ Unchanged /\ UNCHANGED << phase, left, regs, freg, fmt_once, xfmt, io >>
  /\ IF do.args = 0
     THEN argc_argv' = [argc |-> 0, argv |-> 0] /\ UNCHANGED ram
     ELSE /\ ram' = Write(ram, addr, FlattenSeq(ArgStrings) \o
                            FlattenSeq(Pointers(addr, ArgStrings)) \o << 0, 0 >>)
          /\ argc_argv' = [argc |-> Len(ArgStrings),
                           argv |-> addr + Len(FlattenSeq(ArgStrings))]

-----------------------------------------------------------------------------
(* Syscalls 7 and 8: sys_log_dump                                           *)

(* The layout of a logged value: bytes, signed or not.  Values of 8 bytes    *)
(* are passed in R18 and the others in R20.                                 *)
layout ==
  [STR |-> << 2, FALSE >>, PSTR |-> << 2, FALSE >>, ADDR |-> << 2, FALSE >>,
   FLOAT |-> << 4, FALSE >>, D64 |-> << 8, FALSE >>, F7T |-> << 2, FALSE >>,
   U8 |-> << 1, FALSE >>, U16 |-> << 2, FALSE >>, U24 |-> << 3, FALSE >>,
   U32 |-> << 4, FALSE >>, U64 |-> << 8, FALSE >>,
   S8 |-> << 1, TRUE >>, S16 |-> << 2, TRUE >>, S24 |-> << 3, TRUE >>,
   S32 |-> << 4, TRUE >>, S64 |-> << 8, TRUE >>,
   X8 |-> << 1, FALSE >>, X16 |-> << 2, FALSE >>, X24 |-> << 3, FALSE >>,
   X32 |-> << 4, FALSE >>, X64 |-> << 8, FALSE >>]

LogRegno(cmd) == IF layout[cmd][1] = 8 THEN 18 ELSE 20

LoggedValue(r, cmd) ==
  IF layout[cmd][1] = 8 THEN Unsigned(r, 18, 8)
  ELSE get_reg_value(r, 20, layout[cmd][1], layout[cmd][2])

(* To the log stream, and avrtest_log also to stdout.                       *)
LOGPRINT(fmt, val) ==
  LET log == Entry("log", streams["log"], fmt, val)
  IN  IF is_log /\ streams["log"] # Std("stdout")
      THEN << log, Entry("log_copy", Std("stdout"), fmt, val) >> ELSE << log >>

(* A format that is set once is used up by the next command, whichever.     *)
\* Seeded fault: it is used up by nothing but a command that prints.
fmt_once_after_print(cmd) ==
  CASE cmd \in {"SET_FMT_ONCE", "SET_PFMT_ONCE"} -> 1
    [] cmd \in {"SET_FMT", "SET_PFMT"}           -> -1
    [] cmd = "UNSET_FMT"                         -> 0
    [] OTHER                                     -> fmt_once

fmt_once_after(cmd) ==
  CASE cmd \in {"SET_FMT_ONCE", "SET_PFMT_ONCE"} -> 1
    [] cmd \in {"SET_FMT", "SET_PFMT"}           -> -1
    [] cmd = "UNSET_FMT"                         -> 0
    [] OTHER                                     -> IF fmt_once = 1 THEN 0 ELSE fmt_once

FormatCmds == {"SET_FMT_ONCE", "SET_PFMT_ONCE", "SET_FMT", "SET_PFMT"}

(* R20 holds the address of fmt, the text is read from there.               *)
log_set_format(cmd, fmt) ==
  /\ Target /\ cmd \in FormatCmds
  /\ fmt_once' = fmt_once_after(cmd) /\ xfmt' = fmt
  /\ Unchanged /\ UNCHANGED << phase, left, ram, regs, freg, argc_argv, io >>

log_unset_format ==
  /\ Target
  /\ fmt_once' = fmt_once_after("UNSET_FMT")
  /\ Unchanged /\ UNCHANGED << phase, left, ram, regs, freg, xfmt, argc_argv, io >>

(* The target has put val into the registers of cmd.                        *)
log_value(cmd, val) ==
  /\ Target /\ cmd \in DOMAIN layout
  /\ regs' = set_reg_value(regs, LogRegno(cmd), layout[cmd][1], val)
  /\ fmt_once' = fmt_once_after(cmd)
  /\ io' = io \o LOGPRINT(IF fmt_once # 0 THEN xfmt ELSE cmd, LoggedValue(regs', cmd))
  /\ Unchanged /\ UNCHANGED << phase, left, ram, freg, xfmt, argc_argv >>

-----------------------------------------------------------------------------
(* Syscall 21: arithmetic of 4 and 8 bytes.  The product of signed numbers   *)
(* wraps around like the one of unsigned numbers (in C it is undefined).    *)

Abs(x) == IF x < 0 THEN -x ELSE x

(* "/" of C, which truncates, and the % that belongs to it.                 *)
CDiv(a, b) == IF (a < 0) = (b < 0) THEN Abs(a) \div Abs(b) ELSE -(Abs(a) \div Abs(b))
CMod(a, b) == a - b * CDiv(a, b)

misc_u(op, a, b, size) ==
  CASE op = "mul" -> (a * b) % Wide(size)
    [] op = "div" -> IF b = 0 THEN Wide(size) - 1 ELSE a \div b
    [] op = "mod" -> IF b = 0 THEN a ELSE a % b

IntMin(size) == -(Wide(size) \div 2)

\* Seeded fault: the remainder has the sign of the divisor.
misc_s_floor(op, a, b, size) ==
  CASE op = "mul" -> a * b
    [] op = "div" -> IF b = 0 THEN (IF (a < 0) # (b < 0) THEN 1 ELSE -1) ELSE CDiv(a, b)
    [] op = "mod" -> IF b = 0 THEN a ELSE IF b < 0 THEN -((-a) % (-b)) ELSE a % b

misc_s(op, a, b, size) ==
  CASE op = "mul" -> a * b
    [] op = "div" -> IF b = 0 THEN (IF (a < 0) # (b < 0) THEN 1 ELSE -1)
                     ELSE IF a = IntMin(size) /\ b = -1 THEN IntMin(size) ELSE CDiv(a, b)
    [] op = "mod" -> IF b = 0 THEN a
                     ELSE IF a = IntMin(size) /\ b = -1 THEN 0 ELSE CMod(a, b)

(* The first operand, which is also the result, and the second.             *)
FirstReg(size)  == IF size = 4 THEN 22 ELSE 18
SecondReg(size) == IF size = 4 THEN 18 ELSE 10

Operands(r, size) == << Unsigned(r, FirstReg(size), size), Unsigned(r, SecondReg(size), size) >>

sys_misc_arith(op, signed_p, size, a, b) ==
  /\ Target
  /\ LET r == set_reg_value(set_reg_value(regs, SecondReg(size), size, b), FirstReg(size), size, a)
         x == Operands(r, size)
         c == IF signed_p THEN misc_s(op, Signed(x[1], size), Signed(x[2], size), size)
                          ELSE misc_u(op, x[1], x[2], size)
     IN  regs' = set_reg_value(r, FirstReg(size), size, c)
  /\ Unchanged /\ UNCHANGED << phase, left, ram, freg, fmt_once, xfmt, argc_argv, io >>

-----------------------------------------------------------------------------
(* Syscall 21: fixed point from and to float.                               *)

(* signed, bytes, bits behind the point                                     *)
FxTypes ==
  [r  |-> << TRUE, 2, 2 * Bits - 1 >>, k   |-> << TRUE, 4, 2 * Bits - 1 >>,
   hr |-> << TRUE, 1, Bits - 1 >>,     hk  |-> << TRUE, 2, Bits - 1 >>,
   ur |-> << FALSE, 2, 2 * Bits >>,    uk  |-> << FALSE, 4, 2 * Bits >>,
   uhr |-> << FALSE, 1, Bits >>,       uhk |-> << FALSE, 2, Bits >>]

FxReg(size) == IF size <= 2 THEN 24 ELSE 22

(* Float arithmetic: an exact result is rounded to MantBits bits, to nearest *)
(* and in the middle to even.                                              *)
MantBits == 3 * Bits
FloatUnit == 2 * Bits + 1

BitLen(n) == Cardinality({k \in 0 .. 30 : 2^k <= n})
RoundTo(n, unit) ==
  LET q == n \div unit  r == n % unit IN
  IF 2 * r > unit \/ (2 * r = unit /\ q % 2 = 1) THEN (q + 1) * unit ELSE q * unit
Rounded(n) ==
  IF BitLen(n) <= MantBits THEN n ELSE RoundTo(n, 2^(BitLen(n) - MantBits))
Float(n) == IF n < 0 THEN -Rounded(-n) ELSE Rounded(n)

sys_misc_fxtof(t, val) ==
  /\ Target
  /\ LET sign == FxTypes[t][1]  size == FxTypes[t][2]  fbit == FxTypes[t][3]
         r == set_reg_value(regs, FxReg(size), size, val)
         v == Unsigned(r, FxReg(size), size)
     IN  /\ regs' = r
         /\ freg' = Float(IF sign THEN Signed(v, size) ELSE v) * 2^(FloatUnit - fbit)
  /\ Unchanged /\ UNCHANGED << phase, left, ram, fmt_once, xfmt, argc_argv, io >>

(* v + 0.5f is a float itself, the conversion to int64_t truncates.         *)
\* Seeded fault: a negative number is rounded like a positive one.
Nearest_up(v) ==
  LET one == 2^FloatUnit  half == one \div 2 IN Float(v + half) \div one

Nearest(v) ==
  LET one == 2^FloatUnit  half == one \div 2 IN
  IF v < 0 THEN -(Rounded(half - v) \div one) ELSE Rounded(v + half) \div one

\* Seeded fault: the limits of a signed type are the ones of an unsigned one.
Saturated_unsigned(v64, sign, size) ==
  IF v64 < 0 THEN 0 ELSE IF v64 > Wide(size) - 1 THEN Wide(size) - 1 ELSE v64

Saturated(v64, sign, size) ==
  LET ma == IF sign THEN Wide(size) \div 2 - 1 ELSE Wide(size) - 1
      mi == IF sign THEN -ma - 1 ELSE 0
  IN  IF v64 < mi THEN mi ELSE IF v64 > ma THEN ma ELSE v64

sys_misc_ftofx(t) ==
  /\ Target
  /\ LET sign == FxTypes[t][1]  size == FxTypes[t][2]  fbit == FxTypes[t][3]
     IN  regs' = set_reg_value(regs, FxReg(size), size,
                               Saturated(Nearest(freg * 2^fbit), sign, size))
  /\ Unchanged /\ UNCHANGED << phase, left, ram, freg, fmt_once, xfmt, argc_argv, io >>

-----------------------------------------------------------------------------
(* Syscall 21: a part of 32 KiB of flash is copied to where RAM shows it.    *)

RodataVma == \h8000
RodataLen == \h8000
rodata_lma(flmap) == (RodataLen * (flmap % 4)) % (arch.desc.flash_addr_mask + 1)

sys_misc_flmap(flmap) ==
  /\ Target
  /\ LET shown == {a \in DOMAIN flash : a - rodata_lma(flmap) \in 0 .. RodataLen - 1}
     IN  ram' = [a \in {b \in DOMAIN ram : b < RodataVma} \cup
                       {RodataVma + b - rodata_lma(flmap) : b \in shown} |->
                   IF a < RodataVma THEN ram[a]
                   ELSE flash[a - RodataVma + rodata_lma(flmap)]]
  /\ Unchanged /\ UNCHANGED << phase, left, regs, freg, fmt_once, xfmt, argc_argv, io >>

InitHostCalls ==
  /\ regs = [k \in Regs |-> 0] /\ freg = 0
  /\ fmt_once = 0 /\ xfmt = None
  /\ argc_argv = [argc |-> 0, argv |-> 0] /\ io = << >>

=============================================================================
