------------------------------ MODULE MCRenderer ------------------------------
(* Model values for Renderer. *)
EXTENDS Renderer, TLC

CONSTANTS s1, s2, f1, f2, f3, f4

\* Two surfaces, two frames each.
TwoSurfaces == f1 :> s1 @@ f2 :> s1 @@ f3 :> s2 @@ f4 :> s2

\* All frames belong to one surface.
OneSurface == [f \in Frame |-> s1]

\* The frames of a surface are alike.
FrameSymmetry == Permutations({f1, f2, f3})
PairSymmetry == Permutations({f1, f2}) \cup Permutations({f3, f4})

================================================================================
