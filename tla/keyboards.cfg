CONSTANTS
  Keys = {29, 33, 36, 105}
  ModifierKeys <- MCModifiers
  Keymaps = {"root", "arrows"}
  KeymapOf <- MCKeyboardsKeymaps
  Grabs = {g1}
  NoGrab = NoGrab
  Kbs = {kb1, kb2}
  GrabOf <- MCGrabOf
  RootOf <- MCRootOf
  InputKeys = {33, 36}
  PreHeld = {}
  RepeatKeys = {}
  Unpluggable = {}
  OtherEvents <- MCScanCodes
  URMAX = 2
  EvdevSize = 1
  MaxTime = 2
  MaxCount = 1
  MaxLag = 0
SPECIFICATION FairSpec
INVARIANTS TypeOK InputsAreOred SinkIsLogicalOr OutputFrameCloses
PROPERTIES LoopReturns
CHECK_DEADLOCK FALSE
