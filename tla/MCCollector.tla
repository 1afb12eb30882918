---------------------------- MODULE MCCollector ----------------------------
(* Bounds for Collector: see README.md, "Bounds". *)
EXTENDS Collector, TLC

\* Ingest and proxy share no state but the process: each is run without the other.
OneOfTwo == {{"token"}, {"socket", "response token"}, {"socket"}}

SourcesAlike == Permutations(Sources)

\* Medium, low, then critical.
Ranks == [f \in 1 .. MaxAccepted |-> IF f = 1 THEN 2 ELSE IF f = 2 THEN 3 ELSE 0]
=============================================================================
