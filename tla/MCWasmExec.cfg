CONSTANTS
  W = 3
  Programs <- MCPrograms
  BreakInsts <- MCBreakInsts
  BreakFuncs = {2}
  HostValues = {0, 1}
  LineOf <- MCLineOf
SPECIFICATION Spec
INVARIANTS
  TypeOK
  LabelsMatchCode
  ReturnAddressesFollowCalls
  NoStackTrap
  ReturnsWasmResults
PROPERTIES
  RunStops
  CallsRefined
  StepOverSkipsCall
  StepOverStaysOut
  StepOutReturnsToCaller
CHECK_DEADLOCK FALSE
