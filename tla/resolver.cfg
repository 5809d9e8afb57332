CONSTANTS
  Keys = {29, 33, 36, 58}
  ModifierKeys <- MCModifiers
  Keymaps = {"root", "arrows"}
  KeymapOf <- MCHoldsKeymaps
  Grabs = {g1}
  NoGrab = NoGrab
  Kbs = {kb1}
  GrabOf <- MCGrabOf
  RootOf <- MCRootOf
  InputKeys = {33, 36, 58}
  PreHeld = {}
  RepeatKeys = {}
  Unpluggable = {kb1}
  OtherEvents = {}
  URMAX = 3
  EvdevSize = 1
  MaxTime = 2
  MaxCount = 1
  MaxLag = 1
SPECIFICATION Spec
INVARIANTS QueueAlternates OutputJustified LayerIsHeld QuickReleaseIsNoHold OutputIsAsHeld
PROPERTIES ModifiersOutlastChords ImplementsKeyHolds
CHECK_DEADLOCK FALSE
