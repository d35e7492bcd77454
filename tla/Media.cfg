\* Two streams of a camera, three buffers of one, two cameras, two sinks and two channels
\* with ids of their own.  The sequence numbers wrap after four, so that pings meet numbers
\* of unanswered ones.
SPECIFICATION FairSpec
CONSTANTS
  Streams = {s1, s2}
  MaxRuns = 5
  MaxSamples = 1
  Calm = TRUE
  Buffers = {b1, b2, b3}
  MaxFrames = 1
  MaxStarts = 3
  Names = {"n1", "n2"}
  MaxNews = 5
  CalmFails = TRUE
  MaxPackets = 2
  MaxTake = 2
  MaxOpens = 2
  Sinks = {"k1", "k2"}
  PacketSize = 2
  MaxChunks = 2
  MaxSinks = 3
  MaxBadTrainings = 2
  Channels = {"disp", "telemetry"}
  MaxIds = 2
  MaxSeq = 4
  CtPings = 2
  MaxPings = 6
  StopsLate = TRUE
INVARIANTS
  TypeOK
  StreamsSound
  AnswersFindAsker
PROPERTIES
  MediaSettle
CHECK_DEADLOCK FALSE
