SPECIFICATION Spec
CONSTANTS
  Regions <- AllRegions
  Named = {"vectors", "init", "main", "f", "g", "__h", "exit", "setjmp", "longjmp", "__tablejump2__", "__prologue_saves__", "__epilogue_restores__"}
  ReservedNames = {"__h", "__tablejump2__", "__prologue_saves__", "__epilogue_restores__"}
  Top = 20
  MaxFrames = 6
  Programs <- AllPrograms
INVARIANTS StackIsThePrograms PathInGraph CostsAreInclusive CostsBounded LeavesTakeAll
CHECK_DEADLOCK FALSE
