\* The third CapsAdvertise PDU meets a wake-up that the second one left behind.
SPECIFICATION Spec
CONSTANTS
  s1 = s1  s2 = s2  f1 = f1  f2 = f2  f3 = f3  f4 = f4
  NoFrame = NoFrame
  Surface = {s1}
  Frame = {f1, f2}
  SurfaceOf <- OneSurface
  Slots = 2
  MaxAdverts = 3
PROPERTIES
  ResetFindsContextsIdle
CHECK_DEADLOCK FALSE
