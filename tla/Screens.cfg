\* Three monitor configs for virtual monitors, or a physical monitor whose stream closes;
\* a cache of two pointers; a stream and others that use the EGL thread; a VNC stream with two
\* buffers, which changes its format.
SPECIFICATION FairSpec
CONSTANTS
  Scenarios = {"layout", "cursor", "egl", "vnc"}
  Modes = {TRUE, FALSE}
  Configs <- SmallConfigs
  Sizes = {1, 2}
  NoConfig = NoConfig
  NStreams = 3
  MaxConfigs = 3
  MaxCloses = 3
  Shape = {"arrow", "hand", "text"}
  CacheSize = 2
  MaxUpdates = 4
  Slot = {"p"}
  TaskKinds = {"download", "deallocate", "sync"}
  MaxTasks = 4
  PwBuffer = {"a", "b"}
  NoBuffer = "null"
  FrameSizes = {1, 2}
  MaxFormats = 2
  MaxProcess = 2
  CalmSizes = TRUE
INVARIANTS
  TypeOK
  LayoutSound
  PicturesSound
PROPERTIES
  SurfacesChangeWhenQuiet
  ScreensSettle
CHECK_DEADLOCK FALSE
