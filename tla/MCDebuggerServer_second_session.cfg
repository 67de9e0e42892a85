CONSTANTS
  Conns = {c1, c2}
  MsgKinds = {"Req"}
  MaxMsgs = 2
  NoConn = NoConn
  EOS = EOS
SPECIFICATION Spec
INVARIANTS
  AtMostOneSession
CHECK_DEADLOCK FALSE
