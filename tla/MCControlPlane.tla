--------------------------- MODULE MCControlPlane ---------------------------
(* Instances of ControlPlane for TLC. *)
EXTENDS ControlPlane, TLC

CONSTANTS r1, r2, h1, d1, d2

DrainSymmetry == Permutations(Drains)
=============================================================================
