CONSTANTS
  ByteBits = 1
  WordBytes = 4
  UsizeBits = 8
  PageSize = 4
  MaxPages = 4
  InitPages = {1, 4}
  InitData <- MCInitData
  Memory64 = FALSE
  Addrs = {0, 1, 3, 15}
  Lens = {0, 2, 3, 15}
  Vals = {5, 9}
  Vals64 = {9, 150}
  Offsets = {0, 1, 16}
  WatchAddrs = {1}
  MaxSteps = 3
SPECIFICATION Spec
INVARIANTS
  TypeOK
PROPERTIES
  CopyIsMemmove
  AccessBoundsMatchWasm
  GrowReportsPreviousSize
  LoadAfterStoreMatchesWasm
CHECK_DEADLOCK FALSE
