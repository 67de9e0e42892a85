CONSTANTS
  f1 = f1
  f2 = f2
  Null = Null
  W = 4
  UsizeBits = 8
  TableIds = {0, 1}
  TableMax = 3
  InitTables <- MCInitTables
  ElemExprs <- MCElemExprs
  GlobalInits <- MCGlobalInits
  Imported = 1
  Funcs <- MCFuncs
  FuncType <- MCFuncType
  Types = {0, 1}
  Idxs = {0, 1, 2, 15}
  Lens = {0, 1, 3, 15}
  GlobalVals = {1}
  BreakFuncs = {f2}
  MaxSteps = 3
SPECIFICATION Spec
INVARIANTS
  TypeOK
PROPERTIES
  TableOpsMatchWasm
  CallIndirectMatchesWasm
CHECK_DEADLOCK FALSE
