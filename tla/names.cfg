\* Names on a device whose RAM does not show the flash.
SPECIFICATION Spec
CONSTANTS
  HostSlots = 3
  FileSlots = 2
  StdHandles <- TwoStd
  Names <- AFewNames
  DotDot <- UpName
  Addrs <- ThreeAddrs
  RamText <- TextInRam
  FlashText <- TextInFlash
  PmOffset = 0
  MaxLen = 1
  Sandbox = {TRUE, FALSE}
INVARIANT
  FileOfTheName
CHECK_DEADLOCK FALSE
