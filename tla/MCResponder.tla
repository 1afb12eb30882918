----------------------------- MODULE MCResponder -----------------------------
(* Instances of Responder for TLC: the request contents the runs enumerate.  *)
EXTENDS Responder

CONSTANTS r1, r2

\* Live containment, the same in dry-run, an operator rescue, and a containment
\* action sent down the rescue path.
Contain     == [entry |-> "respond", reverse |-> FALSE, valid |-> TRUE, override |-> "live"]
ContainDry  == [Contain EXCEPT !.override = "dry"]
Rescue      == [entry |-> "rescue", reverse |-> TRUE, valid |-> TRUE, override |-> "unset"]
RescueWrong == [Rescue EXCEPT !.reverse = FALSE]

MixedShapes == {Contain, ContainDry, Rescue, RescueWrong}
TwoRequests == {r1, r2}
=============================================================================
