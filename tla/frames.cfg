\* Calls, returns and the stack, 3-byte program counter: the code lies around
\* the address from which on the third byte counts; avrtest_cycles_call before calls.
SPECIFICATION HSpec
CONSTANTS
  Mod32 = 64
  Byte = 4
  NRegs = 1
  SPL = 1
  Pc3Bytes = TRUE
  HasEind = FALSE
  CX = 0
  IsTiny = FALSE
  FlashWords = 32
  CodeStart = 11
  CodeEnd = 20
  PcMask = 31
  Entry = 11
  MaxInsns = 10
  ExitValues = {}
  Images <- AllImages
  Programs <- AllPrograms
INVARIANTS
  FramesIntact
  StopsAtLimit
PROPERTIES
  ReturnsToCaller
  MeasurementIsOwnCall
  CyclesOfTheCall
