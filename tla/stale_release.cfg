CONSTANTS
  Keys = {1, 29, 33, 36, 58, 105}
  ModifierKeys <- MCModifiers
  Keymaps = {"root", "arrows"}
  KeymapOf <- MCLayerMacroKeymaps
  Grabs = {g1}
  NoGrab = NoGrab
  Kbs = {kb1}
  GrabOf <- MCGrabOf
  RootOf <- MCRootOf
  InputKeys = {33, 36, 58}
  PreHeld = {}
  RepeatKeys = {}
  Unpluggable = {}
  OtherEvents = {}
  URMAX = 4
  EvdevSize = 1
  MaxTime = 3
  MaxCount = 1
  MaxLag = 0
SPECIFICATION Spec
INVARIANTS ReleasesAreValid
CHECK_DEADLOCK FALSE
