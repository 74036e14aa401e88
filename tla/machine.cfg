SPECIFICATION FairSpec
CONSTANTS
  Idx = {0, 1, 2, 3, 4, 5, 6, 7, 8}
  POOL = 2
  Slots = {1, 2}
  MmioSlot = 1
  ImageSlot = 2
  PastSlot = 4
  MmioPages = {0}
  text_start = 1
  text_end = 2
  rodata_end = 3
  guard_bottom = 7
  stack_bottom = 8
  CodeIdx = 1
  StackIdx = 2
  CodeFrame <- mcCodeFrame
  StackFrame <- mcStackFrame
  DevicePages <- mcDevicePages
  MonitorPages <- mcMonitorPages
  Probes <- mcProbes
  TOP = 16
  KERNEL_BASE = 12
  Blobs <- mcBlobs
  Paths <- mcPaths
  PageOf <- mcPageOf
  Uart0 <- mcUart0
  Calls <- mcCalls
  Sessions <- mcSessions
  EarlyBases <- mcEarlyBases
INVARIANTS
  TypeOK NoSelfDeadlock WholeMessages OneOwner FiqOnlyAtEL0 NoEdgeLost
  ParserReadsBack ParserInventsNothing UserRangeExact
  TablesFormATree OnlyIoremapUnprotects SoftWalkAgrees
PROPERTIES
  TablesOrder AddressSpaceSpec HeartbeatGoesOn VirtReachesMonitor
CHECK_DEADLOCK FALSE
