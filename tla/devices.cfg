CONSTANTS
  Devices = {"kb1", "kb2", "mouse"}
  Wanted = {"kb1", "kb2"}
  MAX_KBS = 2
  MaxOpen = 3
  INT_MAX = 1023
  Timeouts = {0, 1, 3}
  StartUsecs = {200000}
  TickUsec = 700000
  MaxTime = 2
  MaxPlugs = 2
SPECIFICATION FairSpec
INVARIANTS TypeOK GrabbedOnce
PROPERTIES NewKeyboardIsGrabbed ExitsInTime NeverEarly
CHECK_DEADLOCK FALSE
