SPECIFICATION FairSpec
CONSTANTS
  Key = {"num", "ctrl"}
  LockKey = "num"
  CtrlKey = "ctrl"
  PauseKey = "pause"
  Scripts <- SmallScripts
  MaxPlugs = 2
  Contact = {1}
  MaxTouches = 3
  MaxDevices = 2
INVARIANTS
  TypeOK
  InputSound
PROPERTIES
  InputSettles
CHECK_DEADLOCK FALSE
