CONSTANTS
  Conns = {c1, c2}
  MsgKinds = {"Req", "Break", "Import"}
  MaxMsgs = 2
  NoConn = NoConn
  EOS = EOS
SPECIFICATION Spec
INVARIANTS
  TypeOK
  DrainedOnReturn
PROPERTIES
  SessionReleased
  HeadlessRpcAnswered
CHECK_DEADLOCK FALSE
