\* Every instruction on boundary operands, and two-byte arithmetic.
SPECIFICATION HSpec
CONSTANTS
  Regs = {0, 1, 2, 3}
  Insns <- MCInsns
  Follow <- MCFollow
  First <- FirstInsns
  Operands <- MCOperands
  Flags <- MCFlags
INVARIANTS
  TypeOK
  ChainedFlags
PROPERTIES
  FlagsAsTested
  ProductFlags
