------------------------------- MODULE Bridge -------------------------------
(***************************************************************************)
(* The decision engine of the automatic response: Bridge.Consider, its     *)
(* gates and its budget (agent/internal/respond/auto.go, autoguards.go).   *)
(* It executes nothing: it turns a correlated incident and what /proc says *)
(* of the incident's pid into a shadow finding, a throttled finding or     *)
(* nothing.                                                                *)
(***************************************************************************)
EXTENDS Correlator, Sequences

CONSTANTS
    External,    \* destinations that are routable and not the operator's own
    Protected,   \* images at a protected or never-quarantine path
    StaleTTL,    \* AutoConfig.StaleTTL, in ticks
    RateMax,     \* AutoConfig.RateMax
    RateWindow   \* AutoConfig.RateWindow, in ticks

ASSUME BridgeAssumption ==
    /\ External \subseteq Dsts
    /\ Protected \subseteq Procs
    /\ StaleTTL \in Nat \ {0}
    /\ RateMax \in Nat \ {0}
    /\ RateWindow \in Nat \ {0}

DedupKeys == Dsts \X (Procs \cup {None})

\* rate: the decisions whose times the window holds; dedup admits one of a key.
BridgeStates ==
    [dedup: SUBSET DedupKeys, rate: SUBSET [key: DedupKeys, at: Nat],
     throttled: BOOLEAN, lastThrottle: Nat]

NewBridge == [dedup |-> {}, rate |-> {}, throttled |-> FALSE, lastThrottle |-> 0]

-----------------------------------------------------------------------------
(* decide: the gates.  target is the procInfo of the incident's pid.        *)

Fresh(inc, t) == inc.detectedAt + StaleTTL >= t

\* A start time is the first exec_id of the task; None is an unreadable one.
Bound_PidOnly(inc, target) == target.live
Bound(inc, target) ==
    /\ target.live
    /\ inc.startTime # None
    /\ target.startTime = inc.startTime

Actionable(image) == image \in Staged \ Protected

SelectAction_FilelessFirst(techniques) ==
    IF "T1620" \in techniques THEN "quarantine" ELSE "alert-only"
SelectAction(techniques) ==
    IF "T1014" \notin techniques /\ "T1620" \in techniques
    THEN "quarantine" ELSE "alert-only"

Eligible(inc, target, t) ==
    /\ inc.byExecID
    /\ Fresh(inc, t)
    /\ inc.dst \in External
    /\ Bound(inc, target)
    /\ Actionable(target.exe)
    /\ SelectAction(inc.techniques) = "quarantine"

DedupKey(inc) == <<inc.dst, inc.root>>

-----------------------------------------------------------------------------
(* emit: dedup, the disarm latch, the budget and the throttle alert.        *)

InWindow(rate, t) == {d \in rate : d.at + RateWindow > t}

OverBudget_OffByOne(rate) == Cardinality(rate) > RateMax
OverBudget(rate) == Cardinality(rate) >= RateMax

\* The state after a decision and what it emitted.  overRateLocked prunes the
\* window whether or not the latch is up.
Emit(b, inc, t, disarmed) ==
    LET pruned == [b EXCEPT !.rate = InWindow(@, t)] IN
    CASE DedupKey(inc) \in b.dedup ->
            [bridge |-> b, emitted |-> "nothing"]
      [] DedupKey(inc) \notin b.dedup /\ (disarmed \/ OverBudget(pruned.rate)) ->
            IF b.throttled /\ t < b.lastThrottle + RateWindow
            THEN [bridge |-> pruned, emitted |-> "nothing"]
            ELSE [bridge |-> [pruned EXCEPT !.throttled = TRUE, !.lastThrottle = t],
                  emitted |-> "throttled"]
      [] OTHER ->
            [bridge |-> [pruned EXCEPT !.rate = @ \cup {[key |-> DedupKey(inc), at |-> t]},
                                       !.dedup = @ \cup {DedupKey(inc)},
                                       !.throttled = FALSE],
             emitted |-> "shadow"]

Consider(b, inc, target, t, disarmed) ==
    IF Eligible(inc, target, t) THEN Emit(b, inc, t, disarmed)
    ELSE [bridge |-> b, emitted |-> "nothing"]
=============================================================================
