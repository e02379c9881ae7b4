SPECIFICATION Spec
CONSTANTS
  Programs <- AllPrograms
INVARIANTS SkipsWholeInstruction DecodesAsListed
CHECK_DEADLOCK FALSE
