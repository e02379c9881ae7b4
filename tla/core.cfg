\* Every instruction, every three-word program, with an instruction limit.
SPECIFICATION FairSpec
CONSTANTS
  Mod32 = 4
  Byte = 4
  NRegs = 1
  SPL = 1
  Pc3Bytes = FALSE
  HasEind = TRUE
  CX = 0
  IsTiny = FALSE
  FlashWords = 8
  CodeStart = 3
  CodeEnd = 7
  PcMask = 7
  Entry = 3
  MaxInsns = 6
  ExitValues <- MCExitValues
  Images <- MCImages
  Programs <- MCPrograms
INVARIANT TypeOK
PROPERTIES
  OnlyDecodedCodeRuns
  Terminates
