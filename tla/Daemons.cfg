SPECIFICATION FairSpec
CONSTANTS
  MaxAttempts = 2
  MaxEvents = 4
  MaxLogins = 2
  MaxChanges = 6
  MaxClients = 2
  Calm = TRUE
  Ids = {"i", "j"}
  Sessions = {"greeter", "user"}
  Display = {"a", "b"}
  Windows = {"i"}
  MaxReady = 2
  Conn = {"x"}
  Packets <- SmallPackets
  VncClient = {"v", "w"}
  Key = {"k"}
  Button = {"left"}
  MaxInputs = 4
  RdpClient = {"s1", "s2"}
  NoSession = "none"
  Answered = {"s1"}
  Channel = {"input"}
  RdpModes = {"system", "screen-share", "handover"}
INVARIANTS
  TypeOK
  ConnectionsSound
  ClientsArrive
  SessionsSound
PROPERTIES
  DaemonsSettle
CHECK_DEADLOCK FALSE
