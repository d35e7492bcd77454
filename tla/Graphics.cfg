\* Of the channel: two serials, so that a later surface may take one over; more frames than the
\* history holds; the client resets the protocol while frames and acknowledgements are on their
\* way.  Of the encoding: a tile that changes or not, since tiles do not depend on each other.
SPECIFICATION GraphicsFairSpec
CONSTANTS
  RefreshRate = 3
  NSerials = 2
  MaxFrames = 4
  MaxTracked = 2
  MaxDelay = 1
  MaxResets = 1
  Word = 16
  Codecs = {"avc444", "progressive"}
  Tile = {1}
  MaxPictures <- MCPictures
INVARIANTS
  GraphicsTypeOK
  ChannelSound
  EncodingSound
PROPERTIES
  GraphicsSettle
CHECK_DEADLOCK FALSE
