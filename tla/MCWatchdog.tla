----------------------------- MODULE MCWatchdog -----------------------------
(* Bounds for Watchdog over Executor: see README.md, "Bounds". *)
EXTENDS Watchdog, TLC

\* Requests and key lines are interchangeable.
CallerSymmetry == Permutations(Callers) \cup Permutations(Keys)
=============================================================================
