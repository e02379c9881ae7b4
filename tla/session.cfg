SPECIFICATION Spec
CONSTANTS
  Words <- AllWords
  TxtNames <- TextNames
  Unwritable = {"/o.txt"}
  Readable = {"i.txt"}
  FromLastSlash <- LastSlash
  ProgramFiles <- AllFiles
  Bits = 2
  Formats = {"a", "b"}
  Families <- AllFamilies
  HasFlmap = {"avr128da32"}
  Values <- Boundaries
  ExitValues = {0, 5}
INVARIANTS StreamsAsAsked ArgumentsAsAsked MemoryAtMain  CodeIsDecoded OnlyFittingFilesRun ExitCodeAsDocumented LoggedAsPassed QuotientAndRemainder FixedRoundTrip
