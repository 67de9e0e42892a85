CONSTANTS
  MaxLen = 9
  ScanOps = {"block", "loop", "if", "else", "end", "nop"}
  W = 4
INIT Init
NEXT Next
INVARIANTS
  IfScanFindsOwnElse
  BranchScanLeavesTarget
  NumericMatchesWasm
