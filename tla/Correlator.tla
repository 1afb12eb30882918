----------------------------- MODULE Correlator -----------------------------
(***************************************************************************)
(* The correlation engine of agentd: Correlator.Process and what it calls  *)
(* (agent/internal/correlate/correlate.go), with the base rules that arm   *)
(* it (agent/internal/rules/rules.go).  One goroutine drives it, one event *)
(* at a time, so a whole Process call is one step; the operators below are *)
(* its parts in the order of the code, each from one state of the          *)
(* correlator to the next.                                                 *)
(***************************************************************************)
EXTENDS Naturals, FiniteSets

CONSTANTS
    Procs,        \* exec_ids: each names one program image run by one task
    Pids,         \* process ids, reused
    Dsts,         \* destinations, ip:port
    None,         \* an empty exec_id, a missing entry
    Staged,       \* images started from a staging directory
    Fileless,     \* images started from a deleted file or a memfd
    MaxProcs,     \* DefaultMaxProcs
    TTL,          \* DefaultTTL, in ticks
    MaxDsts,      \* maxCorrelatedDsts
    LineageDepth  \* maxLineageDepth

ASSUME CorrelatorAssumption ==
    /\ IsFiniteSet(Procs)
    /\ None \notin Procs
    /\ Staged \subseteq Procs
    /\ Fileless \subseteq Procs
    /\ MaxProcs \in Nat \ {0}
    /\ TTL \in Nat \ {0}
    /\ MaxDsts \in Nat \ {0}
    /\ LineageDepth \in Nat \ {0}

Techniques == {"T1059", "T1620", "T1014"}
Kinds      == {"exec", "bpf", "connect", "exit"}

\* A line of the event log.  proc is the process it happened to; hasId tells
\* whether the line carries its exec_id; image is what it runs.
Events == [kind: Kinds, proc: Procs, hasId: BOOLEAN, pid: Pids, image: Procs,
           parent: Procs \cup {None}, dst: Dsts \cup {None}, at: Nat]

\* byExec is the set tracked with the functions over it, which read as empty
\* for a process that is not tracked.
CorrelatorStates ==
    [tracked: SUBSET Procs, lastSeen: [Procs -> Nat],
     parent: [Procs -> Procs \cup {None}],
     suspicious: [Procs -> SUBSET Techniques],
     latched: [Procs -> SUBSET Dsts],
     pidIndex: [Pids -> Procs \cup {None}]]

NewCorrelator ==
    [tracked |-> {}, lastSeen |-> [p \in Procs |-> 0],
     parent |-> [p \in Procs |-> None],
     suspicious |-> [p \in Procs |-> {}],
     latched |-> [p \in Procs |-> {}],
     pidIndex |-> [i \in Pids |-> None]]

-----------------------------------------------------------------------------
(* State kept per process.                                                  *)

Armed(c) == {p \in c.tracked : c.suspicious[p] # {}}

\* forget, for all of S.
Forget(c, S) ==
    [c EXCEPT !.tracked    = @ \ S,
              !.lastSeen   = [p \in Procs |-> IF p \in S THEN 0 ELSE @[p]],
              !.parent     = [p \in Procs |-> IF p \in S THEN None ELSE @[p]],
              !.suspicious = [p \in Procs |-> IF p \in S THEN {} ELSE @[p]],
              !.latched    = [p \in Procs |-> IF p \in S THEN {} ELSE @[p]],
              !.pidIndex   = [i \in Pids |-> IF @[i] \in S THEN None ELSE @[i]]]

\* lastSeen.Before(now - ttl).
Idle(c, p, t) == c.lastSeen[p] + TTL < t

EvictExpired(c, t) == Forget(c, {p \in c.tracked : Idle(c, p, t)})

Oldest(c, S) == {p \in S : \A q \in S : c.lastSeen[p] <= c.lastSeen[q]}

\* oldestKey(false), and oldestKey(true) when no tracked process is clean.  A tie
\* goes to the smaller exec_id, whose order says nothing: any of the oldest.
Victims_AnyOldest(c) == Oldest(c, c.tracked)
Victims(c) ==
    Oldest(c, IF c.tracked = Armed(c) THEN c.tracked ELSE c.tracked \ Armed(c))

\* The states admit may leave.
Admit(c) ==
    IF Cardinality(c.tracked) < MaxProcs THEN {c} ELSE {Forget(c, {v}) : v \in Victims(c)}

Touch(c, ev, t) ==
    [c EXCEPT !.tracked            = @ \cup {ev.proc},
              !.lastSeen[ev.proc]  = t,
              !.parent[ev.proc]    = IF ev.parent = None THEN @ ELSE ev.parent]

\* On exit the pid is given back, if it still points here.
Index_ExitToo(c, ev) == [c EXCEPT !.pidIndex[ev.pid] = ev.proc]
Index(c, ev) ==
    IF ev.kind # "exit" THEN [c EXCEPT !.pidIndex[ev.pid] = ev.proc]
    ELSE IF c.pidIndex[ev.pid] = ev.proc THEN [c EXCEPT !.pidIndex[ev.pid] = None]
    ELSE c

\* The states track may leave: nothing happens for a line without exec_id.
Track(c, ev, t) ==
    IF ~ev.hasId THEN {c}
    ELSE {Index(Touch(d, ev, t), ev) :
             d \in IF ev.proc \in c.tracked THEN {c} ELSE Admit(c)}

-----------------------------------------------------------------------------
(* Suspicions.                                                              *)

\* rules.Eval and suspicionFor: what a line says against its process.  Fileless
\* takes precedence over staging; "bpf" is a load by an unrecognised loader.
Suspicion(ev) ==
    CASE ev.kind = "exec" /\ ev.image \in Fileless -> {"T1620"}
      [] ev.kind = "exec" /\ ev.image \in Staged \ Fileless -> {"T1059"}
      [] ev.kind = "bpf" -> {"T1014"}
      [] OTHER -> {}

\* addSuspicion; the cap of sixteen is above the number of distinct suspicions.
Arm(c, ev) ==
    IF ev.hasId THEN [c EXCEPT !.suspicious[ev.proc] = @ \cup Suspicion(ev)] ELSE c

-----------------------------------------------------------------------------
(* Correlation of an egress event.                                          *)

ById(c, ev) == ev.hasId /\ ev.proc \in c.tracked

Resolve(c, ev) == IF ById(c, ev) THEN ev.proc ELSE c.pidIndex[ev.pid]

\* The parent of q, or q itself when its parent is not tracked.
Up(c, q) == IF c.parent[q] \in c.tracked THEN c.parent[q] ELSE q

\* p and its ancestors, the last one repeated.
Ancestry(c, p) ==
    LET walk[n \in 0 .. LineageDepth - 1] == IF n = 0 THEN p ELSE Up(c, walk[n - 1]) IN walk

\* The root-most tracked ancestor, None for a chain of one.
LineageRoot(c, p) ==
    LET top == Ancestry(c, p)[LineageDepth - 1] IN IF top = p THEN None ELSE top

Correlates(c, ev, t) ==
    LET p == Resolve(c, ev) IN
    /\ ev.kind = "connect"
    /\ p # None
    /\ c.suspicious[p] # {}
    /\ ~Idle(c, p, t)
    /\ ev.dst \notin c.latched[p]

Latch(c, p, dst) ==
    IF Cardinality(c.latched[p]) < MaxDsts
    THEN [c EXCEPT !.latched[p] = @ \cup {dst}] ELSE c

\* What correlateEgress hands to the bridge.
Incidents == [proc: Procs, byExecID: BOOLEAN, techniques: SUBSET Techniques, dst: Dsts,
              root: Procs \cup {None}, pid: Pids, startTime: Procs \cup {None}, detectedAt: Nat]

\* The realtime.correlated finding; startTime is what /proc says of the pid now.
Incident(c, ev, startTime) ==
    LET p == Resolve(c, ev) IN
    [proc |-> p, byExecID |-> ById(c, ev), techniques |-> c.suspicious[p],
     dst |-> ev.dst, root |-> LineageRoot(c, p), pid |-> ev.pid,
     startTime |-> startTime, detectedAt |-> ev.at]

\* The states Process may leave before correlateEgress latches.
Processed(c, ev, t) == {Arm(d, ev) : d \in Track(EvictExpired(c, t), ev, t)}
=============================================================================
