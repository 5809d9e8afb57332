CONSTANTS
  Keys = {29, 33, 36}
  ModifierKeys <- MCModifiers
  Keymaps = {"root", "plain"}
  KeymapOf <- MCMacroKeymaps
  Grabs = {g1, g2}
  NoGrab = NoGrab
  Kbs = {kb1, kb2}
  GrabOf <- MCOwnGrab
  RootOf <- MCTwoRoots
  InputKeys = {33, 36}
  PreHeld = {36}
  RepeatKeys = {33}
  Unpluggable = {}
  OtherEvents = {}
  URMAX = 2
  EvdevSize = 1
  MaxTime = 3
  MaxCount = 1
  MaxLag = 1
SPECIFICATION Spec
INVARIANTS OutputFrameCloses OutputJustified QuickReleaseIsNoHold
PROPERTIES SlowReleaseIsNoTap
CHECK_DEADLOCK FALSE
