---------------------------- MODULE InstructionSet ----------------------------
(***************************************************************************)
(* The words of the instructions, by the comments next to the opcodes in    *)
(* load-flash.c: "0001 11rd dddd rrrr | ADC" says which bits are the number *)
(* of which operand.  What Decoder finds must be what is listed.            *)
(***************************************************************************)
EXTENDS Decoder

(* A letter of the comments: up to three ranges of bits, lowest first, each *)
(* its lowest bit and its length.                                          *)
None == <<0, 0, 0, 0, 0, 0>>
d5 == <<4, 5, 0, 0, 0, 0>>
d4 == <<4, 4, 0, 0, 0, 0>>
d3 == <<4, 3, 0, 0, 0, 0>>
d2 == <<4, 2, 0, 0, 0, 0>>
r5 == <<0, 4, 9, 1, 0, 0>>
r4 == <<0, 4, 0, 0, 0, 0>>
r3 == <<0, 3, 0, 0, 0, 0>>
K8 == <<0, 4, 8, 4, 0, 0>>
K6 == <<0, 4, 6, 2, 0, 0>>
b3 == <<0, 3, 0, 0, 0, 0>>
s3 == <<4, 3, 0, 0, 0, 0>>
A5 == <<3, 5, 0, 0, 0, 0>>
A6 == <<0, 4, 9, 2, 0, 0>>
q6 == <<0, 3, 10, 2, 13, 1>>
k7 == <<3, 7, 0, 0, 0, 0>>
k7tiny == <<0, 4, 9, 2, 8, 1>>
k12 == <<0, 12, 0, 0, 0, 0>>
k22 == <<0, 1, 4, 5, 0, 0>>

Number(w, f) == Bits(w, f[1], f[2]) + 2^f[2] * Bits(w, f[3], f[4])
                + 2^(f[2] + f[4]) * Bits(w, f[5], f[6])
Clear(w, f) ==
  Without(Without(Without(w, f[1], f[2]), f[3], f[4]), f[5], f[6])

(* What the operand is whose number is n.                                   *)
Meaning(kind, n, w, next) ==
  CASE kind = "number"  -> n
    [] kind = "high"    -> n + 16
    [] kind = "pair"    -> 2 * n
    [] kind = "pointer" -> 24 + 2 * n
    [] kind = "mask"    -> 2^n
    [] kind = "byte"    -> IF n < 64 THEN n ELSE n + 128
    [] kind = "word"    -> IF n < 2048 THEN n ELSE n + 61440
    [] kind = "port"    -> n + io_base
    [] kind = "tiny"    -> IF n < 64 THEN n + 128 ELSE n
    [] kind = "next"    -> next

Lists(table, f1, kind1, f2, kind2) ==
  [table |-> table, f1 |-> f1, kind1 |-> kind1, f2 |-> f2, kind2 |-> kind2]


Listing ==
  {Lists(avr_op_16, None, "number", None, "number"),
   Lists(avr_op_6, d5, "number", r5, "number"),
   Lists(avr_op_74, d5, "number", None, "next"),
   Lists(immediate, d4, "high", K8, "number"),
   Lists(register_bit, d5, "number", b3, "mask"),
   Lists(branch, k7, "byte", b3, "mask"),
   Lists(displacement, d5, "number", q6, "number"),
   Lists(tiny_data, d4, "high", k7tiny, "tiny"),
   Lists(absolute, k22, "number", None, "next"),
   Lists(sreg_bit, s3, "mask", None, "next"),
   Lists(word_immediate, d2, "pointer", K6, "number"),
   Lists(io_bit, A5, "port", b3, "mask"),
   Lists(io, d5, "number", A6, "port"),
   Lists(relative, None, "number", k12, "word"),
   Lists(movw, d4, "pair", r4, "pair"),
   Lists(muls, d4, "high", r4, "high"),
   Lists(fractional, d3, "high", r3, "high")}

Key(w, l)   == Clear(Clear(w, l.f1), l.f2)
Listed(w)   == {l \in Listing : Key(w, l) \in DOMAIN l.table}
NameIn(w, l) == l.table[Key(w, l)]

(* ADD, ADC, EOR and AND of a register with itself have names of their own. *)
SameName(id, d) ==
  \/ d.id = id
  \/ id \in DOMAIN SameRegister /\ d.id = SameRegister[id] /\ d.op1 = d.op2
  \/ id \in DOMAIN Skip2 /\ d.id = Skip2[id]
  \/ id = "CPSE" /\ d.id = "SYSCALL"

(* Nothing is said of an operand combination that has no result, nor of DES, *)
(* which is not implemented: their operands are for messages only.          *)
Executed(id) == id \notin {"ILLEGAL", "UNDEF", "DES"}

(* The operands that are executed are those that l has in w.               *)
DecodedAs(k, w, l) ==
  /\ SameName(NameIn(w, l), At(k))
  /\ At(k).op1 = Meaning(l.kind1, Number(w, l.f1), w, flash[k + 1])
  /\ At(k).op2 = Meaning(l.kind2, Number(w, l.f2), w, flash[k + 1])

(* avrtest-tiny lacks the instruction, or the others do not have its form.  *)
Lacking(w, l) ==
  \/ is_tiny /\ (NameIn(w, l) \in NotOnTiny \/ (l.f2 = q6 /\ Number(w, q6) # 0))
  \/ ~is_tiny /\ l.f2 = k7tiny

(* The instruction and the operands that are executed are those of the word *)
(* in flash, and of no other group of opcodes, in whatever order the decoder*)
(* tries them; the second word of an instruction is the next word.  A word  *)
(* is illegal only if it is listed nowhere or for other variants.           *)
DecodesAsListed ==
  \A k \in Done :
    LET w == flash[k] IN
    /\ Executed(At(k).id) => \E l \in Listed(w) : DecodedAs(k, w, l)
    /\ At(k).id = "ILLEGAL" => \A l \in Listed(w) : Lacking(w, l)

=============================================================================
