---------------------------- MODULE MCHoneytoken ----------------------------
(* Bounds for Honeytoken: see README.md, "Bounds". *)
EXTENDS Honeytoken

CommandsAlike == Permutations(Commands)

OneDecoy == <<"env">>
\* A random token and a plain line.
TwoLines == {[shape |-> FALSE, assigned |-> TRUE, random |-> r] : r \in BOOLEAN}
=============================================================================
