\* Every order of the logging commands; two meters and every request to them;
\* PERF_START_CALL around calls, with a cycle count that wraps around.
SPECIFICATION MCSpec
CONSTANTS
  StackSlots = 3
  SetDefault = 2
  Meters = {1, 2}
  DWord = 16
  Instructions <- AllInstructions
  Costs <- AllCosts
  SpByte = 4
  MaxInsns = 5
CHECK_DEADLOCK FALSE
INVARIANTS
  TypeOK
  PrintedLinesHaveText
  RoundsAreAccounted
  ExtremesAreOfRounds
  StackPointerIsWhole
PROPERTY ImplementsScopes
