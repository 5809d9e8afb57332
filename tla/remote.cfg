CONSTANTS
  Keys = {"a"}
  Conns = {c1, c2}
  LineLen = 2
  BufSize = 5
  MaxClients = 8
  Half = 3
  WireSize = 4
SPECIFICATION FairSpec
INVARIANTS TypeOK InSync OneClientOpen
PROPERTIES EveryoneIsAccepted BufferDrains ImplementsKeyStream
CHECK_DEADLOCK FALSE
