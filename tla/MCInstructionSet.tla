--------------------------- MODULE MCInstructionSet ---------------------------
EXTENDS InstructionSet

Code(before, words, behind, s, e, variant) ==
  [before |-> before, words |-> words, behind |-> behind, start |-> s, end |-> e,
   isa |-> variant]

AllPrograms ==
  \* each word behind skip instructions, one of them a syscall if it may be
  {Code({<<\h9B1F>>}, Word, {<<\h940E>>}, 0, 1, "classic"),
   Code({<<\h1011>>}, Word, {<<\h9300>>}, 0, 1, "tiny"),
  \* skips of every kind, ports of avrtest-xmega
   Code({<< >>}, \h9800 .. \h9BFF, {<<w, 0>> : w \in {\h9310, \h940E, 0}}, 0, 1, "xmega"),
   Code({<< >>}, \hFC00 .. \hFFFF, {<<w, 0>> : w \in {\h9310, \h940E, 0}}, 0, 1, "classic"),
   Code({<< >>}, \h1000 .. \h13FF, {<<w, 0>> : w \in {\h9310, \h940E, invalid_opcode}},
        0, 1, "classic")}
  \* code that begins later or ends before the last word, or no code
  \cup {Code({<<0>>, <<\h1011>>}, {\h940C, invalid_opcode}, {<<\h940C>>, <<invalid_opcode>>},
              s, e, "classic") : s \in 0 .. 2, e \in 0 .. 1}
=============================================================================
