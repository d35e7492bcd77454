SPECIFICATION Spec
CONSTANTS
  MaxAttempts = 1
  MaxEvents = 0
  MaxLogins = 0
  MaxChanges = 3
  MaxClients = 2
  Calm = FALSE
  Ids = {}
  Sessions = {}
  Display = {}
  Windows = {}
  MaxReady = 2
  Conn = {}
  Packets <- SmallPackets
  VncClient = {"v", "w"}
  Key = {"k"}
  Button = {"left"}
  MaxInputs = 4
  RdpClient = {"s1", "s2"}
  NoSession = "none"
  Answered = {"s1"}
  Channel = {"input"}
  RdpModes = {"system", "screen-share", "handover"}
INVARIANTS
  DialogShownOnce
CHECK_DEADLOCK FALSE
