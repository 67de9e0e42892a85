CONSTANTS
  M1 = M1
  NoId = NoId
  Ids <- MCIds
  Names = {"spec"}
  Vals = {0}
  MaxResults = 1
  TrapMsgs = {"unreachable", "exhausted"}
  InvalidMsgs = {"type mismatch"}
  LinkMsg = "unknown import"
  MaxLen = 3
  Scripts <- MCScripts
SPECIFICATION Spec
INVARIANTS
  TrappedNeverCurrent
PROPERTIES
  NoFalseAlarm
CHECK_DEADLOCK FALSE
