------------------------------ MODULE Channel ------------------------------
(***************************************************************************)
(* What the reporting path of agentd promises about a finding: it is       *)
(* pending until the collector has it or the agent gives it up where an    *)
(* operator can see it, and the collector gets findings oldest first.      *)
(* Nothing leaves the channel any other way.  Repeating a delivery is not  *)
(* visible here.  Module Delivery implements this one.                     *)
(***************************************************************************)
EXTENDS Naturals

VARIABLES
    made,      \* findings made so far: 1 .. made
    pending,   \* on their way
    delivered, \* the collector has them
    abandoned  \* given up, on record

vars == <<made, pending, delivered, abandoned>>

Init == made = 0 /\ pending = {} /\ delivered = {} /\ abandoned = {}

\* A new finding may push others out.
Make(lost) ==
    /\ lost \subseteq pending
    /\ made' = made + 1
    /\ pending' = (pending \ lost) \cup {made + 1}
    /\ abandoned' = abandoned \cup lost
    /\ UNCHANGED delivered

\* No younger finding overtakes an older one.
Deliver(batch) ==
    /\ batch \subseteq pending
    /\ \A n \in batch, m \in pending \ batch : n < m
    /\ pending' = pending \ batch
    /\ delivered' = delivered \cup batch
    /\ UNCHANGED <<made, abandoned>>

Abandon(lost) ==
    /\ lost \subseteq pending
    /\ pending' = pending \ lost
    /\ abandoned' = abandoned \cup lost
    /\ UNCHANGED <<made, delivered>>

Next ==
    \/ \E lost \in SUBSET pending : Make(lost)
    \/ \E batch \in SUBSET pending : Deliver(batch)
    \/ \E lost \in SUBSET pending : Abandon(lost)

Spec == Init /\ [][Next]_vars
=============================================================================
