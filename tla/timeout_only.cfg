CONSTANTS
  Keys = {29, 33}
  ModifierKeys <- MCModifiers
  Keymaps = {"root"}
  KeymapOf <- MCTimeoutKeymaps
  Grabs = {g1}
  NoGrab = NoGrab
  Kbs = {kb1}
  GrabOf <- MCGrabOf
  RootOf <- MCRootOf
  InputKeys = {33}
  PreHeld = {}
  RepeatKeys = {}
  Unpluggable = {}
  OtherEvents = {}
  URMAX = 4
  EvdevSize = 1
  MaxTime = 2
  MaxCount = 1
  MaxLag = 0
SPECIFICATION Spec
INVARIANTS QueueAlternates
CHECK_DEADLOCK FALSE
