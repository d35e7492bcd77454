SPECIFICATION FairSpec
CONSTANTS
  Offers <- SmallOffers
  Twin = "utf8"
  Unicode = {"utf8", "string"}
  CopiedFiles = "copied"
  MaxSelections = 2
  MaxRequests = 2
  Lists <- SmallLists
  FileTypes = {"uris", "copied"}
  MaxCopies = 2
  MaxTransfers = 2
  ClipId = {1, 2}
  MaxLists = 2
  MaxLocks = 2
  Careful = TRUE
  MaxIds = 2
  MaxFiles = 2
  MaxOps = 1
INVARIANTS
  TypeOK
  TransfersSound
  NothingDangles
PROPERTIES
  ClipboardSettles
CHECK_DEADLOCK FALSE
