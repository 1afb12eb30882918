----------------------------- MODULE Severities -----------------------------
(* What the scanners have in common: the package internal/report, which is copied from *)
(* tool to tool, ranks their findings.                                                 *)
EXTENDS Integers

Info == 0
Low == 1
Medium == 2
High == 3
Critical == 4

\* In the place of an exit code while a command has none.
Running == -1
=============================================================================
