CONSTANTS
  Keys = {1, 29, 33, 36, 58, 105}
  ModifierKeys <- MCModifiers
  Keymaps = {"root", "arrows"}
  KeymapOf <- MCTwoDualKeymaps
  Grabs = {g1}
  NoGrab = NoGrab
  Kbs = {kb1}
  GrabOf <- MCGrabOf
  RootOf <- MCRootOf
  InputKeys = {33}
  PreHeld = {}
  RepeatKeys = {}
  Unpluggable = {}
  OtherEvents = {}
  URMAX = 4
  EvdevSize = 1
  MaxTime = 3
  MaxCount = 1
  MaxLag = 0
SPECIFICATION FairSpec
PROPERTIES ResolvedByTimeout
CHECK_DEADLOCK FALSE
