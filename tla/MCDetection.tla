---------------------------- MODULE MCDetection ----------------------------
(* Bounds for Detection: see README.md, "Bounds". *)
EXTENDS Detection, TLC

CONSTANTS p1, p2, p3

ThreeProcs == {p1, p2, p3}
TwoImages  == {p1, p2}
NoImage    == {}

\* Pids are interchangeable, and so are the two suspicious images.
HostSymmetry == Permutations(Pids) \cup Permutations({p1, p2})
=============================================================================
