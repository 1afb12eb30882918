------------------------------- MODULE MCTail -------------------------------
(* Bounds for Tail: see README.md, "Bounds". *)
EXTENDS Tail

\* A short line, one longer than the cap, and one that spans reads.
Sizes == <<1, 3, 2>>
=============================================================================
