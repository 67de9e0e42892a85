CONSTANTS
  NoSource = NoSource
  Home <- MCHome
  Cwds <- MCCwds
  Files <- MCFiles
  FileLines <- MCFileLines
  InitSources <- MCInitSources
  Commands = {"thread", "process"}
  CmdResults <- MCCmdResults
  Aliases <- MCAliases
  RemoteApi = FALSE
  Inputs = {"", "thread", "process", "bt", "help", "bogus"}
  MaxInputs = 4
SPECIFICATION Spec
INVARIANTS
  InitFileRead
CHECK_DEADLOCK FALSE
