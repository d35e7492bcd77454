\* Two surfaces share the gates.
SPECIFICATION Spec
CONSTANTS
  s1 = s1  s2 = s2  f1 = f1  f2 = f2  f3 = f3  f4 = f4
  NoFrame = NoFrame
  Surface = {s1, s2}
  Frame = {f1, f2, f3, f4}
  SurfaceOf <- TwoSurfaces
  Slots = 1
  MaxAdverts = 1
SYMMETRY PairSymmetry
INVARIANTS
  GatesHold
CHECK_DEADLOCK FALSE
