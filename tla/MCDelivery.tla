----------------------------- MODULE MCDelivery -----------------------------
(* Bounds for Delivery: see README.md, "Bounds". *)
EXTENDS Delivery

\* Once two flushes have overlapped every property is relinquished.
Serial == ~overlap
=============================================================================
