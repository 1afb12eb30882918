---------------------------- MODULE MCGraceQueue ----------------------------
(* Three actions on one file under one dedup key and two vetoes of it.       *)
EXTENDS GraceQueue

CONSTANTS i1, i2, i3, c1, c2, k1

ThreeItems == {i1, i2, i3}
OneKey     == {k1}
TwoVetoes  == {c1, c2}
SameKey    == [i \in Items |-> k1]
=============================================================================
