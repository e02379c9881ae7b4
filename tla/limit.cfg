\* The programs of the run frames with a limit of three instructions.
SPECIFICATION HSpec
CONSTANTS
  Mod32 = 64
  Byte = 4
  NRegs = 1
  SPL = 1
  Pc3Bytes = TRUE
  HasEind = FALSE
  CX = 0
  IsTiny = FALSE
  FlashWords = 32
  CodeStart = 11
  CodeEnd = 20
  PcMask = 31
  Entry = 11
  MaxInsns = 3
  ExitValues = {}
  Images <- AllImages
  Programs <- AllPrograms
INVARIANT
  AtMostMaxInsns
