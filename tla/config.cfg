CONSTANTS
  KeyMax = 4
  FieldKeys = {"KEY_A", "KEY_B", "number"}
  CodeOf <- MCCodeOf
  IntModulus = 8
  ScriptIntegers = {2, 10}
  ModCodes = {3}
  OptionOf <- MCOptionOf
  Configs <- MCConfigs
  Keyboards = {"kb1", "kb2"}
  Patterns <- MCPatterns
  MaxArgs = 2
  MaxUserdata = 2
  MaxStatements = 5
SPECIFICATION Spec
INVARIANTS GrabsAreComplete UnassignedKeysAreThemselves MacrosLeaveNothingDown BlocksHaveOneOwner
PROPERTIES FirstMatchDecides
CHECK_DEADLOCK FALSE
