CONSTANTS
  W = 3
  Programs <- MCPrograms
  BreakInsts <- MCBreakInsts
  BreakFuncs = {2}
  HostValues = {0, 1}
  LineOf <- MCLineOf
SPECIFICATION Spec
INVARIANTS
  BreakBeforeInstruction
CHECK_DEADLOCK FALSE
