CONSTANTS
  NULL = NULL
  Configs = {"/etc/sdiol/conf.lua"}
  Procs = {p1, p2}
  NoProc = NoProc
  CommandLines <- MCCommandLines
  Accounts = {"us", "them", "input"}
  Modes = {"600", "660"}
  MaxStarts = 4
  MaxCrashes = 2
  MaxFaults = 1
SPECIFICATION FairSpec
INVARIANTS SocketUnderLock SocketIsAsAsked
PROPERTIES ImplementsSocketService RecoversFromCrash
CHECK_DEADLOCK FALSE
