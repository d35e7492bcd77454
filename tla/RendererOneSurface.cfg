\* One surface, with a frame in each half of the pipeline.
SPECIFICATION FairSpec
CONSTANTS
  s1 = s1  s2 = s2  f1 = f1  f2 = f2  f3 = f3  f4 = f4
  NoFrame = NoFrame
  Surface = {s1}
  Frame = {f1, f2}
  SurfaceOf <- OneSurface
  Slots = 2
  MaxAdverts = 2
INVARIANTS
  TypeOK
  RenderingSound
PROPERTIES
  DestroyedWhenIdle
  RequestsAnswered
CHECK_DEADLOCK FALSE
