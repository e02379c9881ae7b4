\* Every call of fileio.c, on pointers and handles that may be stale, against
\* one table of files.
SPECIFICATION Spec
CONSTANTS
  HostSlots = 2
  FileSlots = 2
  StdHandles <- StdinOnly
  Names <- AFewNames
  DotDot <- UpName
  Addrs <- ThreeAddrs
  RamText <- TextInRam
  FlashText <- TextInFlash
  PmOffset = 1
  MaxLen = 1
  Sandbox = {TRUE, FALSE}
INVARIANTS
  TypeOK
  TablesAgree
  HostNeverRunsOut
  FileOfTheName
PROPERTY
  ImplementsStdio
CHECK_DEADLOCK FALSE
