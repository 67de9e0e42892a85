CONSTANTS
  Conns = {c1, c2}
  MsgKinds = {"Req"}
  MaxMsgs = 2
  NoConn = NoConn
  EOS = EOS
SPECIFICATION Spec
PROPERTIES
  RpcAnswered
CHECK_DEADLOCK FALSE
