--------------------------- MODULE DetectionProofs ---------------------------
(***************************************************************************)
(* Proofs about Detection: for every number of processes, pids and lines,  *)
(* the five invariants of its run.  The host and its log come first: what  *)
(* the lines waiting in the log say of the processes, and which of them    *)
(* announce that a pid has changed hands.  The state of the correlator,    *)
(* the pending incident, the budget and the type invariant follow from     *)
(* that.                                                                   *)
(***************************************************************************)
EXTENDS Detection, FiniteSetTheorems, SequenceTheorems, NaturalsInduction, WellFoundedInduction, TLAPS

-----------------------------------------------------------------------------
(* The inductive invariant: the host and its log.                           *)

Waiting == 1 .. Len(log)
Born(p) == os[p].life # "unborn"

\* Process p is gone and no line of it waits.
Over(p) == os[p].life # "live" /\ \A k \in Waiting : log[k].proc # p

\* From line j on, another process at the pid of p speaks only when p is gone
\* and has nothing more to say.
Past(p, j) ==
    \A k \in Waiting :
        k >= j /\ log[k].pid = os[p].pid /\ log[k].proc # p =>
            /\ os[p].life # "live"
            /\ \A l \in Waiting : l > k => log[l].proc # p

\* Line m says that pid i is no longer of process q.
Announces(m, q, i) ==
    /\ log[m].pid = i
    /\ \/ log[m].kind = "exec" /\ log[m].proc # q
       \/ log[m].kind = "exit" /\ log[m].proc = q

\* From line j on, no process but q speaks at pid i, nor holds it, before a line
\* says that it changed hands.
Follows(q, i, j) ==
    /\ \A k \in Waiting :
          k >= j /\ log[k].pid = i /\ log[k].proc # q /\ log[k].kind # "exec" =>
              \E m \in Waiting : j <= m /\ m < k /\ Announces(m, q, i)
    /\ \/ os[q].life = "live" /\ os[q].pid = i
       \/ \E m \in Waiting : j <= m /\ Announces(m, q, i)

HostOK ==
    /\ os \in [Procs -> Processes]
    /\ log \in Seq(Events)
    /\ now \in Nat
    /\ \A p \in Procs : Born(p) => /\ os[p].pid \in Pids
                                   /\ os[p].task \in Procs
                                   /\ os[p].exe \in Procs
    /\ \A p, q \in Live : os[p].pid = os[q].pid => p = q

LineOK(k) ==
    /\ Born(log[k].proc)
    /\ log[k].pid = os[log[k].proc].pid
    /\ IF log[k].kind = "connect" THEN log[k].dst \in Dsts ELSE log[k].hasId
    /\ Past(log[k].proc, k)
    /\ Follows(log[k].proc, log[k].pid, k)
    /\ \A l \in Waiting : l > k /\ log[l].proc = log[k].proc =>
          log[k].kind # "exit" /\ log[l].kind # "exec"
    /\ log[k].kind = "exit" => os[log[k].proc].life # "live"

HostInv == HostOK /\ \A k \in Waiting : LineOK(k)

-----------------------------------------------------------------------------
(* The inductive invariant: the agent.                                      *)

CorrOK ==
    /\ corr \in CorrelatorStates
    /\ \A p \in corr.tracked : Born(p) /\ Past(p, 1)
    /\ \A p \in Procs \ corr.tracked : corr.suspicious[p] = {} /\ corr.latched[p] = {}
    /\ \A i \in Pids : corr.pidIndex[i] # None =>
          /\ corr.pidIndex[i] \in corr.tracked
          /\ os[corr.pidIndex[i]].pid = i
          /\ i \in lost \/ Follows(corr.pidIndex[i], i, 1)

\* While the suspicious processes fit, the correlator knows what truth knows.
Knows ==
    /\ ~truth.missed
    /\ truth.armed = Armed(corr)
    /\ \A p \in truth.armed : /\ truth.heard[p] = corr.lastSeen[p]
                              /\ Over(p) \/ corr.pidIndex[os[p].pid] = p
    /\ \A p \in Procs : \A d \in corr.latched[p] : <<p, d>> \in truth.reported \/ Over(p)

Truths ==
    [heard: [Procs -> Nat], armed: SUBSET Procs, loaders: SUBSET Procs,
     reported: SUBSET (Procs \X (Dsts \cup {None})), crowded: BOOLEAN, missed: BOOLEAN]

TruthOK == truth \in Truths /\ (truth.crowded \/ Knows)

\* Its load is the last that can make a loader suspicious.
LoadersOK ==
    \A p \in truth.loaders :
        /\ p \in Procs
        /\ Born(p)
        /\ \A k \in Waiting : log[k].proc = p => log[k].kind # "exec"
        /\ "T1620" \in corr.suspicious[p] => "T1014" \in corr.suspicious[p]

IncidentOK ==
    incident # None =>
        /\ origin.proc \in Procs
        /\ Born(origin.proc)
        /\ incident.proc # origin.proc => ~incident.byExecID /\ incident.pid \in lost
        /\ ~origin.handedOver => incident.startTime = os[origin.proc].task
        /\ origin.loader /\ incident.byExecID /\ "T1620" \in incident.techniques =>
              "T1014" \in incident.techniques

ShadowOK ==
    shadow # None =>
        /\ shadow.connector \in Procs
        /\ Born(shadow.connector)
        /\ ~shadow.loader
        /\ ~shadow.handedOver => shadow.task = os[shadow.connector].task

\* The decisions still in some later window, and those of them that this start
\* of agentd counts.
ActedIn(t) == {a \in acted : a.at + RateWindow > t}

IsBridge(b) ==
    b = [dedup |-> b.dedup, rate |-> b.rate,
         throttled |-> b.throttled, lastThrottle |-> b.lastThrottle]

BridgeOK ==
    /\ IsBridge(bridge)
    /\ IsFiniteSet(bridge.rate)
    /\ Cardinality(bridge.rate) <= RateMax
    /\ \A d \in bridge.rate : d.at \in Nat /\ d.key \in bridge.dedup

BudgetOK ==
    /\ starts \in Nat \ {0}
    /\ IsFiniteSet(acted)
    /\ \A a \in acted : a.at \in Nat
    /\ \A t \in Nat : t >= now =>
          Cardinality(ActedIn(t)) <=
              Cardinality(InWindow(bridge.rate, t)) + RateMax * (starts - 1)

AgentInv == CorrOK /\ TruthOK /\ LoadersOK /\ IncidentOK /\ ShadowOK

-----------------------------------------------------------------------------
(* The log grows at its end and is read at its head.                        *)

\* The line at the head was taken away; a line was added at the end.
TookHead ==
    /\ 1 \in Waiting
    /\ \A k \in Waiting' : k + 1 \in Waiting /\ log'[k] = log[k + 1]
    /\ \A k \in Waiting : k > 1 => k - 1 \in Waiting' /\ log'[k - 1] = log[k]
    /\ \A k \in Waiting : k \in Nat
    /\ \A k \in Waiting' : k \in Nat

Added(line) ==
    /\ \A k \in Waiting : k \in Waiting' /\ log'[k] = log[k]
    /\ Len(log) + 1 \in Waiting' /\ log'[Len(log) + 1] = line
    /\ \A k \in Waiting' : k \in Waiting \/ k = Len(log) + 1
    /\ \A k \in Waiting : k \in Nat /\ k < Len(log) + 1
    /\ Len(log) \in Nat

LEMMA LogTail ==
    ASSUME log \in Seq(Events), log # <<>>, log' = Tail(log)
    PROVE  TookHead /\ log' \in Seq(Events) /\ Head(log) = log[1] /\ log[1] \in Events
  <1>1. /\ Len(log) \in Nat /\ Len(log) # 0 /\ log' \in Seq(Events)
        /\ Len(log') = Len(log) - 1 /\ Head(log) = log[1]
        /\ \A k \in 1 .. Len(log) - 1 : log'[k] = log[k + 1]
    BY HeadTailProperties, LenProperties, EmptySeq
  <1>2. \A k \in 1 .. Len(log) : log[k] \in Events
    BY ElementOfSeq
  <1> QED
    BY <1>1, <1>2 DEF Waiting, TookHead

LEMMA LogAppend ==
    ASSUME log \in Seq(Events), NEW line \in Events, log' = Append(log, line)
    PROVE  Added(line) /\ log' \in Seq(Events)
  <1>1. /\ Len(log) \in Nat /\ log' \in Seq(Events) /\ Len(log') = Len(log) + 1
        /\ \A k \in 1 .. Len(log) : log'[k] = log[k]
        /\ log'[Len(log) + 1] = line
    BY AppendProperties, LenProperties
  <1> QED
    BY <1>1 DEF Waiting, Added

\* A line that was read: the past stays past, and what follows it follows.
LEMMA ReadHost ==
    ASSUME HostInv, TookHead, log' \in Seq(Events), UNCHANGED <<os, now>>
    PROVE  /\ HostInv'
           /\ \A p \in Procs : Past(p, 1) => Past(p, 1)'
           /\ \A q \in Procs, i \in Pids :
                 Follows(q, i, 1) /\ ~Announces(1, q, i) => Follows(q, i, 1)'
  <1>1. /\ 1 \in Waiting
        /\ \A k \in Waiting' : k + 1 \in Waiting /\ log'[k] = log[k + 1]
        /\ \A k \in Waiting : k > 1 => k - 1 \in Waiting' /\ log'[k - 1] = log[k]
        /\ \A k \in Waiting : k \in Nat
        /\ \A k \in Waiting' : k \in Nat
    BY DEF TookHead
  <1>2. ASSUME NEW p, NEW j \in Nat, NEW n \in Nat, n <= j + 1, Past(p, n)
        PROVE  Past(p, j)'
    <2>1. ASSUME NEW k, k \in Waiting', k >= j, log'[k].pid = os[p].pid, log'[k].proc # p
          PROVE  /\ os[p].life # "live"
                 /\ \A l \in Waiting' : l > k => log'[l].proc # p
      <3>0. k \in Nat
        BY <1>1, <2>1
      <3>1. k + 1 \in Waiting /\ log'[k] = log[k + 1]
        BY <1>1, <2>1
      <3>4. k + 1 >= n
        BY <1>2, <2>1, <3>0
      <3>2. os[p].life # "live" /\ \A l \in Waiting : l > k + 1 => log[l].proc # p
        BY <1>2, <2>1, <3>1, <3>4 DEF Past
      <3>3. \A l \in Waiting' : l > k => l + 1 \in Waiting /\ l + 1 > k + 1 /\ log'[l] = log[l + 1]
        BY <1>1, <3>0
      <3> QED
        BY <3>2, <3>3
    <2> QED
      BY <2>1 DEF Past
  <1>3. \A k \in Waiting' : \A q, i : Announces(k, q, i)' <=> Announces(k + 1, q, i)
    BY <1>1 DEF Announces
  <1>4. \A k \in Waiting : \A q, i : k > 1 => (Announces(k, q, i) <=> Announces(k - 1, q, i)')
    BY <1>1 DEF Announces
  <1>5. ASSUME NEW q, NEW i, NEW j \in Nat, NEW n \in Nat,
               n = j + 1 \/ (n = 1 /\ j = 1 /\ ~Announces(1, q, i)), Follows(q, i, n)
        PROVE  j = 0 \/ Follows(q, i, j)'
    <2>1. SUFFICES ASSUME j # 0 PROVE Follows(q, i, j)'
      OBVIOUS
    <2>2. ASSUME NEW m \in Waiting, n <= m, Announces(m, q, i)
          PROVE  m > 1 /\ m - 1 \in Waiting' /\ j <= m - 1 /\ Announces(m - 1, q, i)'
      BY <2>1, <2>2, <1>1, <1>4, <1>5
    <2>3. ASSUME NEW k, k \in Waiting', k >= j, log'[k].pid = i, log'[k].proc # q,
                 log'[k].kind # "exec"
          PROVE  \E m \in Waiting' : j <= m /\ m < k /\ Announces(m, q, i)'
      <3>0. k \in Nat /\ k + 1 \in Waiting /\ log'[k] = log[k + 1]
        BY <1>1, <2>3
      <3>1. /\ k + 1 >= n /\ log[k + 1].pid = i
            /\ log[k + 1].proc # q /\ log[k + 1].kind # "exec"
        BY <3>0, <1>5, <2>3
      <3>2. PICK m \in Waiting : n <= m /\ m < k + 1 /\ Announces(m, q, i)
        BY <3>0, <3>1, <1>5 DEF Follows
      <3>3. m > 1 /\ m - 1 \in Waiting' /\ j <= m - 1 /\ Announces(m - 1, q, i)'
        BY <2>2, <3>2
      <3>4. m - 1 < k /\ m \in Nat
        BY <3>0, <3>2, <1>1
      <3> QED
        BY <3>3, <3>4
    <2>4. \/ os'[q].life = "live" /\ os'[q].pid = i
          \/ \E m \in Waiting' : j <= m /\ Announces(m, q, i)'
      <3>1. CASE os[q].life = "live" /\ os[q].pid = i
        BY <3>1
      <3>2. CASE \E m \in Waiting : n <= m /\ Announces(m, q, i)
        BY <3>2, <2>2
      <3> QED
        BY <3>1, <3>2, <1>5 DEF Follows
    <2> QED
      BY <2>3, <2>4 DEF Follows
  <1>6. \A p \in Procs : Past(p, 1) => Past(p, 1)'
    BY <1>2
  <1>7. \A q \in Procs, i \in Pids :
           Follows(q, i, 1) /\ ~Announces(1, q, i) => Follows(q, i, 1)'
    BY <1>5
  <1>8. ASSUME NEW k, k \in Waiting' PROVE LineOK(k)'
    <2>1. k \in Nat /\ k + 1 \in Waiting /\ log'[k] = log[k + 1] /\ LineOK(k + 1) /\ k # 0
      <3>1. k \in Nat /\ k + 1 \in Waiting /\ log'[k] = log[k + 1]
        BY <1>1, <1>8
      <3>2. k # 0
        BY <1>8 DEF Waiting
      <3> QED
        BY <3>1, <3>2 DEF HostInv
    <2>2. PICK p \in Procs, i \in Pids : p = log[k + 1].proc /\ i = log[k + 1].pid
      <3>1. log[k + 1] \in Events
        BY <2>1, ElementOfSeq DEF Waiting, HostInv, HostOK
      <3> QED
        BY <3>1 DEF Events
    <2>3. Past(p, k)' /\ Follows(p, i, k)'
      BY <1>2, <1>5, <2>1, <2>2 DEF LineOK
    <2>4. ASSUME NEW l, l \in Waiting', l > k, log'[l].proc = log'[k].proc
          PROVE  log'[k].kind # "exit" /\ log'[l].kind # "exec"
      <3>1. l \in Nat /\ l + 1 \in Waiting /\ log'[l] = log[l + 1]
        BY <2>4, <1>1
      <3>2. l + 1 > k + 1
        BY <3>1, <2>1, <2>4
      <3> QED
        BY <3>1, <3>2, <2>1, <2>4 DEF LineOK
    <2> QED
      BY <2>1, <2>2, <2>3, <2>4 DEF LineOK, Born
  <1> QED
    BY <1>6, <1>7, <1>8 DEF HostInv, HostOK, Live, Born

-----------------------------------------------------------------------------
(* The host writes.                                                         *)

\* What every host step leaves of a process that was born.
Remains ==
    \A q \in Procs : Born(q) =>
        /\ Born(q)'
        /\ os'[q].pid = os[q].pid /\ os'[q].task = os[q].task
        /\ os[q].life # "live" => os'[q].life # "live"

\* One process speaks, as it starts, lives or exits; another dies only when its
\* pid goes to the one that speaks, which says so.
Speaks(line) ==
    /\ Remains
    /\ line.proc \in Procs
    /\ Born(line.proc)'
    /\ line.pid = os'[line.proc].pid
    /\ IF Born(line.proc) THEN os[line.proc].life = "live" /\ line.kind # "exec"
                          ELSE line.kind = "exec"
    /\ IF line.kind = "connect" THEN line.dst \in Dsts ELSE line.hasId
    /\ line.kind = "exit" <=> os'[line.proc].life # "live"
    /\ \A q \in Procs : q # line.proc /\ os[q].life = "live" =>
          IF os[q].pid = line.pid THEN os'[q].life # "live" /\ line.kind = "exec"
                                  ELSE os'[q].life = "live"

\* The agent's view of a process that was born stays true.
Keeps ==
    /\ Remains
    /\ lost \subseteq lost'
    /\ \A q \in Procs : Born(q) =>
          /\ Over(q) => Over(q)'
          /\ Past(q, 1) => Past(q, 1)'
          /\ \A i \in Pids \ lost' : Follows(q, i, 1) => Follows(q, i, 1)'
          /\ \A k \in Waiting' : log'[k].proc = q /\ log'[k].kind = "exec" =>
                \E m \in Waiting : log[m].proc = q /\ log[m].kind = "exec"

LEMMA SpeakHost ==
    ASSUME HostInv, HostOK', NEW line, Speaks(line), Added(line), UNCHANGED lost
    PROVE  HostInv' /\ Keeps
  <1>0. PICK e : e = Len(log) + 1
    OBVIOUS
  <1>1. /\ \A k \in Waiting : k \in Waiting' /\ log'[k] = log[k]
        /\ e \in Waiting' /\ log'[e] = line
        /\ \A k \in Waiting' : k \in Waiting \/ k = e
        /\ \A k \in Waiting : k \in Nat /\ k < e
        /\ e \in Nat /\ e >= 1
    BY <1>0 DEF Added
  <1>2. /\ line.proc \in Procs
        /\ \A q \in Procs : Born(q) /\ os[q].life # "live" => line.proc # q
    BY DEF Speaks
  <1>3. ASSUME NEW q \in Procs, Born(q), NEW n \in Nat, Past(q, n)
        PROVE  Past(q, n)'
    <2>1. ASSUME NEW k, k \in Waiting', k >= n, log'[k].pid = os'[q].pid, log'[k].proc # q
          PROVE  os'[q].life # "live" /\ \A l \in Waiting' : l > k => log'[l].proc # q
      <3>1. CASE k \in Waiting
        <4>1. log'[k] = log[k] /\ os'[q].pid = os[q].pid
          BY <1>1, <1>3, <3>1 DEF Speaks, Remains
        <4>2. os[q].life # "live" /\ \A l \in Waiting : l > k => log[l].proc # q
          BY <1>3, <2>1, <3>1, <4>1 DEF Past
        <4>3. os'[q].life # "live" /\ line.proc # q
          BY <1>2, <1>3, <4>2 DEF Speaks, Remains
        <4> QED
          BY <1>1, <4>2, <4>3
      <3>2. CASE k = e
        <4>1. os[q].pid = line.pid /\ line.proc # q
          BY <1>1, <1>3, <2>1, <3>2 DEF Speaks, Remains
        <4>2. os'[q].life # "live"
          BY <4>1, <1>3 DEF Speaks, Remains
        <4>3. \A l \in Waiting' : ~(l > k)
          BY <1>1, <3>2
        <4> QED
          BY <4>2, <4>3
      <3> QED
        BY <1>1, <2>1, <3>1, <3>2
    <2> QED
      BY <2>1 DEF Past
  <1>4. \A m \in Waiting : \A q, i : Announces(m, q, i) <=> Announces(m, q, i)'
    BY <1>1 DEF Announces
  <1>5. \A q, i : Announces(e, q, i)' <=>
           /\ line.pid = i
           /\ \/ line.kind = "exec" /\ line.proc # q
              \/ line.kind = "exit" /\ line.proc = q
    BY <1>1 DEF Announces
  <1>6. ASSUME NEW q \in Procs, Born(q), NEW i \in Pids,
               NEW n \in Nat, n <= e, Follows(q, i, n)
        PROVE  Follows(q, i, n)'
    <2>1. CASE \E m \in Waiting : n <= m /\ Announces(m, q, i)
      <3>1. PICK w \in Waiting : n <= w /\ Announces(w, q, i)
        BY <2>1
      <3>2. w \in Waiting' /\ w < e /\ Announces(w, q, i)'
        BY <3>1, <1>1, <1>4
      <3>3. ASSUME NEW k, k \in Waiting', k >= n, log'[k].pid = i, log'[k].proc # q,
                   log'[k].kind # "exec"
            PROVE  \E m \in Waiting' : n <= m /\ m < k /\ Announces(m, q, i)'
        <4>1. CASE k \in Waiting
          <5>1. log'[k] = log[k]
            BY <1>1, <4>1
          <5>2. PICK m \in Waiting : n <= m /\ m < k /\ Announces(m, q, i)
            BY <1>6, <3>3, <4>1, <5>1 DEF Follows
          <5> QED
            BY <5>2, <1>1, <1>4
        <4>2. CASE k = e
          BY <3>1, <3>2, <4>2
        <4> QED
          BY <3>3, <4>1, <4>2, <1>1
      <3> QED
        BY <3>1, <3>2, <3>3 DEF Follows
    <2>2. CASE os[q].life = "live" /\ os[q].pid = i
      <3>1. ASSUME NEW k, k \in Waiting', k >= n, log'[k].pid = i, log'[k].proc # q,
                   log'[k].kind # "exec"
            PROVE  \E m \in Waiting' : n <= m /\ m < k /\ Announces(m, q, i)'
        <4>1. CASE k \in Waiting
          <5>1. log'[k] = log[k]
            BY <1>1, <4>1
          <5>2. PICK m \in Waiting : n <= m /\ m < k /\ Announces(m, q, i)
            BY <1>6, <3>1, <4>1, <5>1 DEF Follows
          <5> QED
            BY <5>2, <1>1, <1>4
        <4>2. CASE k = e
          <5>1. line.pid = os[q].pid /\ line.proc # q /\ line.kind # "exec"
            BY <2>2, <3>1, <4>2, <1>1
          <5> QED
            BY <5>1, <2>2 DEF Speaks
        <4> QED
          BY <3>1, <4>1, <4>2, <1>1
      <3>2. \/ os'[q].life = "live" /\ os'[q].pid = i
            \/ \E m \in Waiting' : n <= m /\ Announces(m, q, i)'
        <4>1. os'[q].pid = os[q].pid
          BY <1>6 DEF Speaks, Remains
        <4>2. CASE q = line.proc
          <5>1. line.pid = i /\ (line.kind = "exit" <=> os'[q].life # "live")
            BY <2>2, <4>1, <4>2 DEF Speaks
          <5> QED
            BY <2>2, <4>1, <4>2, <5>1, <1>1, <1>5, <1>6
        <4>3. CASE q # line.proc
          <5>1. IF line.pid = i THEN line.kind = "exec" ELSE os'[q].life = "live"
            BY <2>2, <4>3 DEF Speaks
          <5> QED
            BY <2>2, <4>1, <4>3, <5>1, <1>1, <1>5, <1>6
        <4> QED
          BY <4>2, <4>3
      <3> QED
        BY <3>1, <3>2 DEF Follows
    <2> QED
      BY <1>6, <2>1, <2>2 DEF Follows
  <1>7. ASSUME NEW k, k \in Waiting' PROVE LineOK(k)'
    <2>1. CASE k \in Waiting
      <3>1. log'[k] = log[k] /\ LineOK(k) /\ k \in Nat /\ k < e
        BY <1>1, <2>1 DEF HostInv
      <3>2. log[k] \in Events
        BY <2>1, ElementOfSeq DEF Waiting, HostInv, HostOK
      <3>3. PICK p \in Procs, i \in Pids : p = log[k].proc /\ i = log[k].pid
        BY <3>2 DEF Events
      <3>4. Past(p, k)' /\ Follows(p, i, k)'
        <4>1. Born(p) /\ Past(p, k) /\ Follows(p, i, k)
          BY <3>1, <3>3 DEF LineOK
        <4>2. k <= e /\ k \in Nat
          BY <3>1, <1>1
        <4> QED
          BY <1>3, <1>6, <4>1, <4>2
      <3>5. /\ Born(p) /\ Born(p)'
            /\ os'[p].pid = os[p].pid
            /\ os[p].life # "live" => os'[p].life # "live"
        BY <3>1, <3>3 DEF LineOK, Speaks, Remains
      <3>6. ASSUME NEW l, l \in Waiting', l > k, log'[l].proc = p
            PROVE  log[k].kind # "exit" /\ log'[l].kind # "exec"
        <4>1. CASE l \in Waiting
          BY <4>1, <3>1, <3>3, <3>6, <1>1 DEF LineOK
        <4>2. CASE l = e
          <5>1. line.proc = p
            BY <4>2, <3>6, <1>1
          <5>2. os[p].life = "live" /\ line.kind # "exec"
            BY <5>1, <3>5 DEF Speaks
          <5> QED
            BY <5>2, <4>2, <3>1, <3>3, <1>1 DEF LineOK
        <4> QED
          BY <4>1, <4>2, <3>6, <1>1
      <3>7. IF log[k].kind = "connect" THEN log[k].dst \in Dsts ELSE log[k].hasId
        BY <3>1 DEF LineOK
      <3>8. log[k].pid = os[p].pid /\ (log[k].kind = "exit" => os[p].life # "live")
        BY <3>1, <3>3 DEF LineOK
      <3> QED
        BY <3>1, <3>3, <3>4, <3>5, <3>6, <3>7, <3>8 DEF LineOK
    <2>2. CASE k = e
      <3>1. log'[k] = line /\ \A l \in Waiting' : ~(l > k)
        BY <1>1, <2>2
      <3>2. PICK p \in Procs : p = line.proc
        BY <1>2
      <3>3. Past(p, k)'
        <4>1. ASSUME NEW l, l \in Waiting', l >= k PROVE log'[l].proc = p
          <5>1. l = k
            BY <4>1, <1>1, <2>2
          <5> QED
            BY <5>1, <3>1, <3>2
        <4> QED
          BY <4>1 DEF Past
      <3>4. PICK i : i = line.pid
        OBVIOUS
      <3>5. Follows(p, i, k)'
        <4>1. ASSUME NEW l, l \in Waiting', l >= k PROVE log'[l].proc = p
          <5>1. l = k
            BY <4>1, <1>1, <2>2
          <5> QED
            BY <5>1, <3>1, <3>2
        <4>2. i = os'[p].pid /\ (line.kind = "exit" \/ os'[p].life = "live")
          BY <3>2, <3>4 DEF Speaks
        <4>3. line.kind = "exit" => Announces(k, p, i)'
          BY <3>2, <3>4, <1>5, <2>2
        <4>4. \/ os'[p].life = "live" /\ os'[p].pid = i
              \/ \E m \in Waiting' : k <= m /\ Announces(m, p, i)'
          BY <4>2, <4>3, <1>1, <2>2
        <4> QED
          BY <4>1, <4>4 DEF Follows
      <3>6. /\ Born(p)'
            /\ i = os'[p].pid
            /\ IF line.kind = "connect" THEN line.dst \in Dsts ELSE line.hasId
            /\ line.kind = "exit" => os'[p].life # "live"
        BY <3>2, <3>4 DEF Speaks
      <3> QED
        BY <3>1, <3>2, <3>3, <3>4, <3>5, <3>6 DEF LineOK
    <2> QED
      BY <1>1, <1>7, <2>1, <2>2
  <1>8. ASSUME NEW q \in Procs, Born(q), Over(q) PROVE Over(q)'
    <2>1. os'[q].life # "live" /\ line.proc # q
      BY <1>2, <1>8 DEF Over, Speaks, Remains
    <2>2. \A k \in Waiting' : log'[k].proc # q
      BY <2>1, <1>1, <1>8 DEF Over
    <2> QED
      BY <2>1, <2>2 DEF Over
  <1>9. ASSUME NEW q \in Procs, Born(q), NEW i \in Pids, Follows(q, i, 1)
        PROVE  Follows(q, i, 1)'
    BY <1>1, <1>6, <1>9
  <1>10. ASSUME NEW q \in Procs, Born(q), NEW k, k \in Waiting',
                log'[k].proc = q, log'[k].kind = "exec"
         PROVE  \E m \in Waiting : log[m].proc = q /\ log[m].kind = "exec"
    <2>1. k # e
      BY <1>1, <1>10 DEF Speaks
    <2> QED
      BY <2>1, <1>1, <1>10
  <1>11. HostInv'
    BY <1>7 DEF HostInv
  <1>12. Keeps
    BY <1>1, <1>3, <1>8, <1>9, <1>10 DEF Keeps, Speaks
  <1> QED
    BY <1>11, <1>12

LEMMA LineWritten ==
    ASSUME HostInv, NEW p \in Procs, NEW kind \in Kinds, NEW hasId \in BOOLEAN,
           NEW dst \in Dsts \cup {None},
           os' \in [Procs -> Processes], os'[p].pid \in Pids, os'[p].exe \in Procs,
           Write(Line(kind, p, hasId, dst))
    PROVE  /\ Added(Line(kind, p, hasId, dst)) /\ log' \in Seq(Events)
           /\ Line(kind, p, hasId, dst).proc = p
           /\ Line(kind, p, hasId, dst).kind = kind
           /\ Line(kind, p, hasId, dst).pid = os'[p].pid
  <1>1. Line(kind, p, hasId, dst) \in Events
    <2>1. os'[p].parent \in Procs \cup {None}
      BY DEF Processes
    <2> QED
      BY <2>1 DEF Line, Events, HostInv, HostOK
  <1>2. log \in Seq(Events) /\ log' = Append(log, Line(kind, p, hasId, dst))
    BY DEF Write, HostInv, HostOK
  <1>3. Added(Line(kind, p, hasId, dst)) /\ log' \in Seq(Events)
    BY <1>1, <1>2, LogAppend
  <1> QED
    BY <1>3 DEF Line

\* A process that starts: the image, the parent and the task may be another's.
LEMMA Starts ==
    ASSUME HostInv, NEW p \in Procs, NEW i \in Pids, NEW task \in Procs, NEW exe \in Procs,
           NEW parent \in Procs \cup {None}, Start(p, i, task, exe, parent)
    PROVE  /\ os' \in [Procs -> Processes]
           /\ \A q \in Procs \ {p} : os'[q] = os[q]
           /\ ~Born(p)
           /\ os'[p] = [life |-> "live", pid |-> i, task |-> task, exe |-> exe, parent |-> parent]
  <1>1. os \in [Procs -> Processes]
    BY DEF HostInv, HostOK
  <1>2. [life |-> "live", pid |-> i, task |-> task, exe |-> exe, parent |-> parent] \in Processes
    BY DEF Processes
  <1> QED
    BY <1>1, <1>2 DEF Start, Unborn, Born

LEMMA SpawnKeeps ==
    ASSUME HostInv, NEW p \in Procs, NEW parent \in Live \cup {None}, NEW i \in Pids,
           Spawn(p, parent, i)
    PROVE  HostInv' /\ Keeps
  <1>l. PICK line : line = Line("exec", p, TRUE, None)
    OBVIOUS
  <1>1. /\ os' \in [Procs -> Processes]
        /\ \A q \in Procs \ {p} : os'[q] = os[q]
        /\ ~Born(p)
        /\ os'[p].life = "live" /\ os'[p].pid = i /\ os'[p].task = p /\ os'[p].exe = p
    <2>1. Start(p, i, p, p, parent) /\ parent \in Procs \cup {None}
      BY DEF Spawn, Live
    <2>2. p \in Procs /\ i \in Pids /\ HostInv
      OBVIOUS
    <2>3. /\ os' \in [Procs -> Processes]
          /\ \A q \in Procs \ {p} : os'[q] = os[q]
          /\ ~Born(p)
          /\ os'[p] = [life |-> "live", pid |-> i, task |-> p, exe |-> p, parent |-> parent]
      BY <2>1, <2>2, Starts
    <2> QED
      BY <2>3
  <1>2. /\ Added(line) /\ log' \in Seq(Events)
        /\ line.proc = p /\ line.kind = "exec" /\ line.hasId /\ line.pid = i
    <2>1. PICK kind \in Kinds, hasId \in BOOLEAN : kind = "exec" /\ hasId = TRUE
      BY DEF Kinds
    <2>2. Write(Line(kind, p, hasId, None)) /\ line = Line(kind, p, hasId, None)
      BY <1>l, <2>1 DEF Spawn
    <2>3. None \in Dsts \cup {None} /\ os'[p].pid \in Pids /\ os'[p].exe \in Procs
      BY <1>1
    <2> QED
      BY <1>1, <2>1, <2>2, <2>3, LineWritten, <1>1 DEF Line
  <1>3. UNCHANGED <<now, lost>> /\ \A q \in Procs : os[q].life = "live" => os[q].pid # i
    BY DEF Spawn, Free, Live
  <1>4. HostOK'
    BY <1>1, <1>2, <1>3 DEF HostInv, HostOK, Live, Born
  <1>5. Speaks(line)
    BY <1>1, <1>2, <1>3 DEF Speaks, Remains, Born
  <1> QED
    BY <1>2, <1>3, <1>4, <1>5, SpeakHost

LEMMA ForkKeeps ==
    ASSUME HostInv, NEW p \in Procs, NEW parent \in Live, NEW i \in Pids,
           Fork(p, parent, i)
    PROVE  HostInv' /\ Keeps
  <1>0. os[parent].exe \in Procs /\ parent \in Procs
    BY DEF HostInv, HostOK, Live, Born
  <1>1. /\ os' \in [Procs -> Processes]
        /\ \A q \in Procs \ {p} : os'[q] = os[q]
        /\ ~Born(p)
        /\ os'[p].life = "live" /\ os'[p].pid = i /\ os'[p].task = p /\ os'[p].exe \in Procs
    <2>1. Start(p, i, p, os[parent].exe, parent)
      BY DEF Fork
    <2>3. /\ os' \in [Procs -> Processes]
          /\ \A q \in Procs \ {p} : os'[q] = os[q]
          /\ ~Born(p)
          /\ os'[p] = [life |-> "live", pid |-> i, task |-> p,
                       exe |-> os[parent].exe, parent |-> parent]
      BY <1>0, <2>1, Starts
    <2> QED
      BY <1>0, <2>3
  <1>2. /\ UNCHANGED <<now, log, lost>>
        /\ \A q \in Procs : os[q].life = "live" => os[q].pid # i
    BY DEF Fork, Free, Live
  <1>3. HostOK'
    BY <1>1, <1>2 DEF HostInv, HostOK, Live, Born
  <1>4. \A q \in Procs : Born(q) => q # p /\ os'[q] = os[q]
    BY <1>1
  <1>5. Waiting' = Waiting
    BY <1>2 DEF Waiting
  <1>6. ASSUME NEW q \in Procs, Born(q)
        PROVE  /\ Over(q) => Over(q)'
               /\ \A n : Past(q, n) => Past(q, n)'
               /\ \A j, n : Follows(q, j, n) => Follows(q, j, n)'
    BY <1>2, <1>4, <1>5, <1>6 DEF Over, Past, Follows, Announces
  <1>7. ASSUME NEW k \in Waiting PROVE LineOK(k)'
    <2>1. log[k] \in Events
      BY ElementOfSeq DEF Waiting, HostInv, HostOK
    <2>2. PICK q \in Procs, j \in Pids : q = log[k].proc /\ j = log[k].pid
      BY <2>1 DEF Events
    <2>3. LineOK(k) /\ Born(q)
      BY <2>2 DEF HostInv, LineOK
    <2>4. Past(q, k)' /\ Follows(q, j, k)'
      BY <1>6, <2>2, <2>3 DEF LineOK
    <2>5. os'[q] = os[q] /\ log' = log
      BY <1>2, <1>4, <2>3
    <2> QED
      BY <1>5, <2>2, <2>3, <2>4, <2>5 DEF LineOK, Born
  <1>8. HostInv'
    BY <1>3, <1>5, <1>7 DEF HostInv
  <1>9. Remains
    BY <1>4 DEF Remains, Born
  <1> QED
    BY <1>2, <1>5, <1>6, <1>8, <1>9 DEF Keeps

LEMMA ReExecKeeps ==
    ASSUME HostInv, NEW p \in Live, NEW q \in Procs, ReExec(p, q)
    PROVE  HostInv' /\ Keeps
  <1>l. PICK line : line = Line("exec", q, TRUE, None)
    OBVIOUS
  <1>0. /\ p \in Procs /\ os[p].life = "live" /\ Born(p) /\ os \in [Procs -> Processes]
        /\ ~Born(q) /\ q # p
    BY DEF ReExec, Unborn, Born, Live, HostInv, HostOK
  <1>1. /\ os' \in [Procs -> Processes]
        /\ \A r \in Procs \ {p, q} : os'[r] = os[r]
        /\ os'[p] = [os[p] EXCEPT !.life = "dead"]
        /\ os'[q] = [os[p] EXCEPT !.exe = q]
    <2>1. os[p] \in Processes
      BY <1>0
    <2>2. [os[p] EXCEPT !.life = "dead"] \in Processes /\ [os[p] EXCEPT !.exe = q] \in Processes
      BY <2>1 DEF Processes
    <2>3. os' = [os EXCEPT ![p] = [os[p] EXCEPT !.life = "dead"], ![q] = [os[p] EXCEPT !.exe = q]]
      BY <1>0 DEF ReExec
    <2> QED
      BY <1>0, <2>2, <2>3
  <1>2. /\ os'[p].life = "dead" /\ os'[p].pid = os[p].pid /\ os'[p].task = os[p].task
        /\ os'[p].exe = os[p].exe
        /\ os'[q].life = "live" /\ os'[q].pid = os[p].pid /\ os'[q].task = os[p].task
        /\ os'[q].exe = q
    <2>1. os[p] \in Processes
      BY <1>0
    <2> QED
      BY <1>0, <1>1, <2>1 DEF Processes
  <1>3. os[p].pid \in Pids /\ os[p].task \in Procs /\ os[p].exe \in Procs
    BY <1>0 DEF HostInv, HostOK
  <1>4. /\ Added(line) /\ log' \in Seq(Events)
        /\ line.proc = q /\ line.kind = "exec" /\ line.hasId /\ line.pid = os[p].pid
    <2>1. PICK kind \in Kinds, hasId \in BOOLEAN : kind = "exec" /\ hasId = TRUE
      BY DEF Kinds
    <2>2. Write(Line(kind, q, hasId, None)) /\ line = Line(kind, q, hasId, None)
      BY <1>l, <2>1 DEF ReExec
    <2>3. None \in Dsts \cup {None} /\ os'[q].pid \in Pids /\ os'[q].exe \in Procs
      BY <1>2, <1>3
    <2> QED
      BY <1>1, <2>1, <2>2, <2>3, LineWritten, <1>2, <1>3 DEF Line
  <1>5. /\ UNCHANGED <<now, lost>>
        /\ \A r \in Procs \ {p} : os[r].life = "live" => os[r].pid # os[p].pid
    BY <1>0 DEF ReExec, HostInv, HostOK, Live
  <1>6. HostOK'
    <2>1. \A r \in Procs : Born(r)' => /\ os'[r].pid \in Pids
                                        /\ os'[r].task \in Procs
                                        /\ os'[r].exe \in Procs
      BY <1>1, <1>2, <1>3 DEF HostInv, HostOK, Born
    <2>2. \A r \in Procs : os'[r].life = "live" => r # p
      BY <1>2
    <2>3. \A r \in Procs : os'[r].life = "live" /\ r # q =>
             os[r].life = "live" /\ os'[r].pid = os[r].pid /\ os'[r].pid # os'[q].pid
      BY <1>1, <1>2, <1>5, <2>2
    <2>4. \A r, w \in Live' : os'[r].pid = os'[w].pid => r = w
      BY <2>3 DEF Live, HostInv, HostOK
    <2> QED
      BY <1>1, <1>4, <1>5, <2>1, <2>4 DEF HostInv, HostOK
  <1>7. Speaks(line)
    <2>1. Remains
      BY <1>0, <1>1, <1>2 DEF Remains, Born
    <2>2. \A r \in Procs : r # q /\ os[r].life = "live" =>
             IF os[r].pid = os[p].pid THEN os'[r].life # "live" ELSE os'[r].life = "live"
      BY <1>0, <1>1, <1>2, <1>5
    <2> QED
      BY <1>0, <1>2, <1>4, <2>1, <2>2 DEF Speaks, Born
  <1> QED
    BY <1>4, <1>5, <1>6, <1>7, SpeakHost

\* A process says something in its life, or at the end of it.
LEMMA LiveSpeaks ==
    ASSUME HostInv, NEW p \in Live, NEW kind \in Kinds \ {"exec"}, NEW hasId \in BOOLEAN,
           NEW dst \in Dsts \cup {None},
           IF kind = "connect" THEN dst \in Dsts ELSE hasId,
           os' = IF kind = "exit" THEN [os EXCEPT ![p].life = "dead"] ELSE os,
           Write(Line(kind, p, hasId, dst)), UNCHANGED <<now, lost>>
    PROVE  HostInv' /\ Keeps
  <1>l. PICK line : line = Line(kind, p, hasId, dst)
    OBVIOUS
  <1>0. /\ p \in Procs /\ os[p].life = "live" /\ Born(p) /\ os \in [Procs -> Processes]
        /\ os[p].pid \in Pids /\ os[p].task \in Procs /\ os[p].exe \in Procs
    BY DEF Born, Live, HostInv, HostOK
  <1>1. /\ os' \in [Procs -> Processes]
        /\ \A r \in Procs \ {p} : os'[r] = os[r]
        /\ os'[p] = IF kind = "exit" THEN [os[p] EXCEPT !.life = "dead"] ELSE os[p]
    <2>1. os[p] \in Processes
      BY <1>0
    <2>2. [os[p] EXCEPT !.life = "dead"] \in Processes
      BY <2>1 DEF Processes
    <2> QED
      BY <1>0, <2>2
  <1>2. /\ os'[p].life = IF kind = "exit" THEN "dead" ELSE "live"
        /\ os'[p].pid = os[p].pid /\ os'[p].task = os[p].task /\ os'[p].exe = os[p].exe
    <2>1. os[p] \in Processes
      BY <1>0
    <2> QED
      BY <1>0, <1>1, <2>1 DEF Processes
  <1>3. /\ Added(line) /\ log' \in Seq(Events)
        /\ line.proc = p /\ line.kind = kind /\ line.hasId = hasId /\ line.dst = dst
        /\ line.pid = os[p].pid
    BY <1>l, <1>0, <1>1, <1>2, LineWritten DEF Line
  <1>4. \A r \in Procs \ {p} : os[r].life = "live" => os[r].pid # os[p].pid
    BY <1>0 DEF HostInv, HostOK, Live
  <1>5. HostOK'
    BY <1>0, <1>1, <1>2, <1>3, <1>4 DEF HostInv, HostOK, Live, Born
  <1>6. Speaks(line)
    BY <1>0, <1>1, <1>2, <1>3, <1>4 DEF Speaks, Remains, Born
  <1> QED
    BY <1>3, <1>5, <1>6, SpeakHost

LEMMA LoseKeeps == ASSUME HostInv, LoseLine PROVE HostInv' /\ Keeps
  <1>1. /\ log \in Seq(Events) /\ log # <<>> /\ log' = Tail(log)
        /\ lost' = lost \cup {Head(log).pid} /\ UNCHANGED <<now, os>>
    BY DEF LoseLine, HostInv, HostOK
  <1>2. TookHead /\ log' \in Seq(Events) /\ Head(log) = log[1]
    BY <1>1, LogTail
  <1>3. /\ HostInv'
        /\ \A p \in Procs : Past(p, 1) => Past(p, 1)'
        /\ \A q \in Procs, i \in Pids :
              Follows(q, i, 1) /\ ~Announces(1, q, i) => Follows(q, i, 1)'
    BY <1>1, <1>2, ReadHost
  <1>4. \A q \in Procs, i \in Pids \ lost' : Follows(q, i, 1) => Follows(q, i, 1)'
    BY <1>1, <1>2, <1>3 DEF Announces
  <1>5. \A q \in Procs : Over(q) => Over(q)'
    <2>1. ASSUME NEW q \in Procs, Over(q), NEW k, k \in Waiting' PROVE log'[k].proc # q
      BY <1>2, <2>1 DEF Over, TookHead
    <2> QED
      BY <1>1, <2>1 DEF Over
  <1>6. ASSUME NEW q, NEW k, k \in Waiting', log'[k].proc = q, log'[k].kind = "exec"
        PROVE  \E m \in Waiting : log[m].proc = q /\ log[m].kind = "exec"
    BY <1>2, <1>6 DEF TookHead
  <1>7. Remains
    BY <1>1 DEF Remains, Born
  <1> QED
    BY <1>1, <1>3, <1>4, <1>5, <1>6, <1>7 DEF Keeps

LEMMA NothingSaid ==
    ASSUME HostInv, UNCHANGED <<os, log, lost>>, now' \in Nat
    PROVE  HostInv' /\ Keeps
  <1>1. Waiting' = Waiting
    BY DEF Waiting
  <1>2. ASSUME NEW q \in Procs
        PROVE  /\ Over(q) => Over(q)'
               /\ Past(q, 1) => Past(q, 1)'
               /\ \A i : Follows(q, i, 1) => Follows(q, i, 1)'
    BY <1>1 DEF Over, Past, Follows, Announces
  <1>3. Remains
    BY DEF Remains, Born
  <1>4. HostOK'
    BY DEF HostInv, HostOK, Live, Born
  <1>5. \A k \in Waiting : LineOK(k) => LineOK(k)'
    BY <1>1 DEF LineOK, Born, Past, Follows, Announces
  <1> QED
    BY <1>1, <1>2, <1>3, <1>4, <1>5 DEF HostInv, Keeps

LEMMA HostStepKeeps == ASSUME HostInv, HostStep PROVE HostInv' /\ Keeps
  <1>1. ASSUME NEW p \in Procs, NEW parent \in Live \cup {None}, NEW i \in Pids,
               Spawn(p, parent, i)
        PROVE  HostInv' /\ Keeps
    BY <1>1, SpawnKeeps
  <1>2. ASSUME NEW p \in Procs, NEW parent \in Live, NEW i \in Pids, Fork(p, parent, i)
        PROVE  HostInv' /\ Keeps
    BY <1>2, ForkKeeps
  <1>3. ASSUME NEW p \in Live, NEW q \in Procs, ReExec(p, q)
        PROVE  HostInv' /\ Keeps
    BY <1>3, ReExecKeeps
  <1>4. ASSUME NEW p \in Live, LoadBPF(p) PROVE HostInv' /\ Keeps
    <2>1. /\ os' = os /\ UNCHANGED <<now, lost>>
          /\ Write(Line("bpf", p, TRUE, None))
          /\ "bpf" \in Kinds \ {"exec"}
      BY <1>4 DEF LoadBPF, Kinds
    <2> QED
      BY <2>1, LiveSpeaks
  <1>5. ASSUME NEW p \in Live, Exit(p) PROVE HostInv' /\ Keeps
    <2>1. /\ os' = [os EXCEPT ![p].life = "dead"] /\ UNCHANGED <<now, lost>>
          /\ Write(Line("exit", p, TRUE, None))
          /\ "exit" \in Kinds \ {"exec"}
      BY <1>5 DEF Exit, Kinds
    <2> QED
      BY <2>1, LiveSpeaks
  <1>6. ASSUME NEW p \in Live, NEW dst \in Dsts, NEW hasId \in BOOLEAN, Connect(p, dst, hasId)
        PROVE  HostInv' /\ Keeps
    <2>1. /\ os' = os /\ UNCHANGED <<now, lost>>
          /\ Write(Line("connect", p, hasId, dst))
          /\ "connect" \in Kinds \ {"exec"}
      BY <1>6 DEF Connect, Kinds
    <2> QED
      BY <2>1, LiveSpeaks
  <1>7. CASE LoseLine
    BY <1>7, LoseKeeps
  <1>8. CASE Tick
    BY <1>8, NothingSaid DEF Tick, HostInv, HostOK
  <1> QED
    BY <1>1, <1>2, <1>3, <1>4, <1>5, <1>6, <1>7, <1>8 DEF HostStep

-----------------------------------------------------------------------------
(* What the agent knows stays true while the host goes on.                  *)

LEMMA AgentKept ==
    ASSUME AgentInv, Keeps, UNCHANGED <<corr, incident, origin, shadow, truth>>
    PROVE  AgentInv'
  <1>1. \A p \in Procs : Born(p) =>
           /\ Born(p)' /\ os'[p].pid = os[p].pid /\ os'[p].task = os[p].task
           /\ Over(p) => Over(p)'
    BY DEF Keeps, Remains
  <1>2. corr.tracked \subseteq Procs /\ corr.pidIndex \in [Pids -> Procs \cup {None}]
        /\ corr.latched \in [Procs -> SUBSET Dsts]
    BY DEF AgentInv, CorrOK, CorrelatorStates
  <1>3. CorrOK'
    <2>1. \A p \in corr.tracked : Born(p)' /\ Past(p, 1)'
      BY <1>2 DEF AgentInv, CorrOK, Keeps, Remains
    <2>2. ASSUME NEW i \in Pids, NEW q \in Procs, q = corr.pidIndex[i], q \in corr.tracked
          PROVE  os'[q].pid = i /\ (i \in lost' \/ Follows(q, i, 1)')
      <3>1. Born(q) /\ os[q].pid = i /\ (i \in lost \/ Follows(q, i, 1))
        BY <2>2, <1>2, CorrelatorAssumption DEF AgentInv, CorrOK
      <3> QED
        BY <1>1, <3>1 DEF Keeps
    <2> QED
      BY <1>2, <2>1, <2>2 DEF AgentInv, CorrOK
  <1>4. TruthOK'
    <2>1. ASSUME Knows PROVE Knows'
      <3>1. \A p \in truth.armed : Born(p) /\ p \in Procs
        BY <1>2, <2>1 DEF Knows, Armed, AgentInv, CorrOK
      <3>2. \A p \in Procs : corr.latched[p] # {} => Born(p)
        BY <1>2 DEF AgentInv, CorrOK
      <3> QED
        BY <1>1, <2>1, <3>1, <3>2 DEF Knows
    <2> QED
      BY <2>1 DEF AgentInv, TruthOK
  <1>5. LoadersOK'
    <2>1. ASSUME NEW p \in truth.loaders
          PROVE  /\ p \in Procs /\ Born(p)'
                 /\ \A k \in Waiting' : log'[k].proc = p => log'[k].kind # "exec"
                 /\ "T1620" \in corr.suspicious[p] => "T1014" \in corr.suspicious[p]
      BY <1>1 DEF AgentInv, LoadersOK, Keeps
    <2> QED
      BY <2>1 DEF LoadersOK
  <1>6. IncidentOK'
    BY <1>1 DEF AgentInv, IncidentOK, Keeps
  <1>7. ShadowOK'
    BY <1>1 DEF AgentInv, ShadowOK
  <1> QED
    BY <1>3, <1>4, <1>5, <1>6, <1>7 DEF AgentInv

-----------------------------------------------------------------------------
(* What Process leaves of the state of the correlator.                      *)

\* From c to d on line ev at time t; the processes G were evicted: the idle ones,
\* and one more only when the others fill the correlator, a suspicious one only
\* when they are all suspicious.
Became(c, ev, t, G, d) ==
    /\ d \in CorrelatorStates
    /\ d.tracked = (c.tracked \ G) \cup (IF ev.hasId THEN {ev.proc} ELSE {})
    /\ \A p \in Procs :
          /\ d.lastSeen[p] = IF ev.hasId /\ p = ev.proc THEN t
                             ELSE IF p \in G THEN 0 ELSE c.lastSeen[p]
          /\ d.suspicious[p] = (IF p \in G THEN {} ELSE c.suspicious[p])
                                 \cup (IF ev.hasId /\ p = ev.proc THEN Suspicion(ev) ELSE {})
          /\ d.latched[p] = IF p \in G THEN {} ELSE c.latched[p]
    /\ \A i \in Pids :
          d.pidIndex[i] =
             IF ev.hasId /\ i = ev.pid /\ ev.kind # "exit" THEN ev.proc
             ELSE IF c.pidIndex[i] \in G \/ (ev.hasId /\ i = ev.pid /\ c.pidIndex[i] = ev.proc)
                  THEN None ELSE c.pidIndex[i]
    /\ \A p \in c.tracked : Idle(c, p, t) => p \in G
    /\ \A p \in G : ~Idle(c, p, t) =>
          /\ Cardinality({q \in c.tracked : ~Idle(c, q, t)}) >= MaxProcs
          /\ c.suspicious[p] # {} =>
                \A q \in c.tracked : ~Idle(c, q, t) => c.suspicious[q] # {}

\* From c to d, S was forgotten.
Forgot(c, S, d) ==
    /\ d \in CorrelatorStates
    /\ d.tracked = c.tracked \ S
    /\ \A p \in Procs :
          /\ d.lastSeen[p] = IF p \in S THEN 0 ELSE c.lastSeen[p]
          /\ d.suspicious[p] = IF p \in S THEN {} ELSE c.suspicious[p]
          /\ d.latched[p] = IF p \in S THEN {} ELSE c.latched[p]
    /\ \A i \in Pids : d.pidIndex[i] = IF c.pidIndex[i] \in S THEN None ELSE c.pidIndex[i]

LEMMA ForgetIs ==
    ASSUME NEW c \in CorrelatorStates, NEW S \in SUBSET Procs
    PROVE  Forgot(c, S, Forget(c, S))
  <1>0. PICK d : d = Forget(c, S)
    OBVIOUS
  <1> DEFINE seen == [p \in Procs |-> IF p \in S THEN 0 ELSE c.lastSeen[p]]
             par  == [p \in Procs |-> IF p \in S THEN None ELSE c.parent[p]]
             susp == [p \in Procs |-> IF p \in S THEN {} ELSE c.suspicious[p]]
             ltch == [p \in Procs |-> IF p \in S THEN {} ELSE c.latched[p]]
             pidx == [i \in Pids |-> IF c.pidIndex[i] \in S THEN None ELSE c.pidIndex[i]]
  <1>1. d = [tracked |-> c.tracked \ S, lastSeen |-> seen, parent |-> par,
             suspicious |-> susp, latched |-> ltch, pidIndex |-> pidx]
    BY <1>0 DEF Forget, CorrelatorStates
  <1>2. /\ c.tracked \subseteq Procs /\ c.lastSeen \in [Procs -> Nat]
        /\ c.parent \in [Procs -> Procs \cup {None}]
        /\ c.suspicious \in [Procs -> SUBSET Techniques]
        /\ c.latched \in [Procs -> SUBSET Dsts]
        /\ c.pidIndex \in [Pids -> Procs \cup {None}]
    BY DEF CorrelatorStates
  <1>3. /\ seen \in [Procs -> Nat] /\ par \in [Procs -> Procs \cup {None}]
        /\ susp \in [Procs -> SUBSET Techniques] /\ ltch \in [Procs -> SUBSET Dsts]
        /\ pidx \in [Pids -> Procs \cup {None}]
    BY <1>2
  <1>4. d \in CorrelatorStates
    <2> HIDE DEF seen, par, susp, ltch, pidx
    <2> QED
      BY <1>1, <1>2, <1>3 DEF CorrelatorStates
  <1> QED
    BY <1>0, <1>1, <1>4 DEF Forgot

\* track and addSuspicion on a line with exec_id, once there is room.
Touched(c, ev, t, d) ==
    /\ d \in CorrelatorStates
    /\ d.tracked = c.tracked \cup {ev.proc}
    /\ \A p \in Procs :
          /\ d.lastSeen[p] = IF p = ev.proc THEN t ELSE c.lastSeen[p]
          /\ d.suspicious[p] = IF p = ev.proc THEN c.suspicious[p] \cup Suspicion(ev)
                               ELSE c.suspicious[p]
          /\ d.latched[p] = c.latched[p]
    /\ \A i \in Pids :
          d.pidIndex[i] = IF i = ev.pid /\ ev.kind # "exit" THEN ev.proc
                          ELSE IF i = ev.pid /\ c.pidIndex[i] = ev.proc THEN None
                          ELSE c.pidIndex[i]

LEMMA TouchIs ==
    ASSUME NEW c \in CorrelatorStates, NEW ev \in Events, NEW t \in Nat, ev.hasId
    PROVE  Touched(c, ev, t, Arm(Index(Touch(c, ev, t), ev), ev))
  <1>0. PICK d : d = Arm(Index(Touch(c, ev, t), ev), ev)
    OBVIOUS
  <1>1. /\ ev.proc \in Procs /\ ev.pid \in Pids /\ ev.parent \in Procs \cup {None}
        /\ Suspicion(ev) \subseteq Techniques
    BY DEF Events, Suspicion, Techniques
  <1>2. /\ c.tracked \subseteq Procs /\ c.lastSeen \in [Procs -> Nat]
        /\ c.parent \in [Procs -> Procs \cup {None}]
        /\ c.suspicious \in [Procs -> SUBSET Techniques]
        /\ c.latched \in [Procs -> SUBSET Dsts]
        /\ c.pidIndex \in [Pids -> Procs \cup {None}]
    BY DEF CorrelatorStates
  <1> DEFINE seen == [c.lastSeen EXCEPT ![ev.proc] = t]
             par  == [c.parent EXCEPT ![ev.proc] = IF ev.parent = None THEN @ ELSE ev.parent]
             susp == [c.suspicious EXCEPT ![ev.proc] = @ \cup Suspicion(ev)]
             pidx == IF ev.kind # "exit" THEN [c.pidIndex EXCEPT ![ev.pid] = ev.proc]
                     ELSE IF c.pidIndex[ev.pid] = ev.proc
                          THEN [c.pidIndex EXCEPT ![ev.pid] = None]
                     ELSE c.pidIndex
             new  == c.tracked \cup {ev.proc}
  <1>3. /\ seen \in [Procs -> Nat] /\ par \in [Procs -> Procs \cup {None}]
        /\ susp \in [Procs -> SUBSET Techniques]
        /\ pidx \in [Pids -> Procs \cup {None}] /\ new \subseteq Procs
    BY <1>1, <1>2
  <1>4. PICK x : x = Touch(c, ev, t)
    OBVIOUS
  <1>5. /\ x \in CorrelatorStates
        /\ x.tracked = new /\ x.lastSeen = seen /\ x.parent = par
        /\ x.suspicious = c.suspicious /\ x.latched = c.latched /\ x.pidIndex = c.pidIndex
    <2>1. /\ x.tracked = new /\ x.lastSeen = seen /\ x.parent = par
          /\ x.suspicious = c.suspicious /\ x.latched = c.latched /\ x.pidIndex = c.pidIndex
      BY <1>4 DEF Touch, CorrelatorStates
    <2>2. x \in CorrelatorStates
      BY <1>3, <1>4 DEF Touch, CorrelatorStates
    <2> QED
      BY <2>1, <2>2
  <1>6. PICK y : y = Index(x, ev)
    OBVIOUS
  <1> HIDE DEF new, seen, par, susp
  <1>7. /\ y \in CorrelatorStates
        /\ y.tracked = new /\ y.lastSeen = seen
        /\ y.suspicious = c.suspicious /\ y.latched = c.latched /\ y.pidIndex = pidx
    BY <1>1, <1>3, <1>5, <1>6 DEF Index, CorrelatorStates
  <1> HIDE DEF pidx
  <1>8. /\ d \in CorrelatorStates
        /\ d.tracked = new /\ d.lastSeen = seen /\ d.suspicious = susp
        /\ d.latched = c.latched /\ d.pidIndex = pidx
    <2>1. d = [y EXCEPT !.suspicious[ev.proc] = @ \cup Suspicion(ev)]
      BY <1>0, <1>4, <1>6 DEF Arm
    <2>2. d.suspicious = susp
      BY <2>1, <1>7 DEF susp, CorrelatorStates
    <2>3. /\ d.tracked = new /\ d.lastSeen = seen
          /\ d.latched = c.latched /\ d.pidIndex = pidx
      BY <2>1, <1>7 DEF CorrelatorStates
    <2>4. [y.suspicious EXCEPT ![ev.proc] = @ \cup Suspicion(ev)] \in [Procs -> SUBSET Techniques]
      BY <1>1, <1>2, <1>7
    <2>5. d \in CorrelatorStates
      BY <2>1, <2>4, <1>7 DEF CorrelatorStates
    <2> QED
      BY <2>2, <2>3, <2>5
  <1>9. \A i \in Pids :
           pidx[i] = IF i = ev.pid /\ ev.kind # "exit" THEN ev.proc
                     ELSE IF i = ev.pid /\ c.pidIndex[i] = ev.proc THEN None
                     ELSE c.pidIndex[i]
    BY <1>1, <1>2 DEF pidx
  <1>10. \A p \in Procs :
            /\ seen[p] = IF p = ev.proc THEN t ELSE c.lastSeen[p]
            /\ susp[p] = IF p = ev.proc THEN c.suspicious[p] \cup Suspicion(ev)
                         ELSE c.suspicious[p]
    BY <1>1, <1>2 DEF seen, susp
  <1> QED
    BY <1>0, <1>8, <1>9, <1>10 DEF new, Touched

LEMMA ProcessedIs ==
    ASSUME NEW c \in CorrelatorStates, NEW ev \in Events, NEW t \in Nat,
           NEW d \in Processed(c, ev, t)
    PROVE  \E G \in SUBSET c.tracked : Became(c, ev, t, G, d)
  <1> DEFINE stale == {p \in c.tracked : Idle(c, p, t)}
  <1>1. c.tracked \subseteq Procs
    BY DEF CorrelatorStates
  <1>2. PICK e : e = Forget(c, stale)
    OBVIOUS
  <1>3. Forgot(c, stale, e)
    BY <1>1, <1>2, ForgetIs
  <1>4. \E x \in Track(e, ev, t) : d = Arm(x, ev)
    BY <1>2 DEF Processed, EvictExpired
  <1>5. CASE ~ev.hasId
    <2>1. d = e
      BY <1>4, <1>5 DEF Track, Arm
    <2>2. Became(c, ev, t, stale, d)
      BY <1>3, <1>5, <2>1 DEF Became, Forgot
    <2> QED
      BY <2>2
  <1>6. CASE ev.hasId
    <2>1. PICK x \in (IF ev.proc \in e.tracked THEN {e} ELSE Admit(e)) :
             d = Arm(Index(Touch(x, ev, t), ev), ev)
      BY <1>4, <1>6 DEF Track
    <2>2. ASSUME NEW G \in SUBSET c.tracked, Forgot(c, G, x), stale \subseteq G,
                 \A p \in G : ~Idle(c, p, t) =>
                    /\ Cardinality({q \in c.tracked : ~Idle(c, q, t)}) >= MaxProcs
                    /\ c.suspicious[p] # {} =>
                          \A q \in c.tracked : ~Idle(c, q, t) => c.suspicious[q] # {}
          PROVE  Became(c, ev, t, G, d)
      <3>1. x \in CorrelatorStates
        BY <2>2 DEF Forgot
      <3>2. Touched(x, ev, t, d)
        BY <3>1, <2>1, <1>6, TouchIs
      <3>3. /\ d \in CorrelatorStates
            /\ d.tracked = (c.tracked \ G) \cup {ev.proc}
        BY <3>2, <2>2 DEF Forgot, Touched
      <3>4. ASSUME NEW p \in Procs
            PROVE  /\ d.lastSeen[p] = IF p = ev.proc THEN t
                                      ELSE IF p \in G THEN 0 ELSE c.lastSeen[p]
                   /\ d.suspicious[p] = (IF p \in G THEN {} ELSE c.suspicious[p])
                                          \cup (IF p = ev.proc THEN Suspicion(ev) ELSE {})
                   /\ d.latched[p] = IF p \in G THEN {} ELSE c.latched[p]
        <4>1. /\ x.lastSeen[p] = IF p \in G THEN 0 ELSE c.lastSeen[p]
              /\ x.suspicious[p] = IF p \in G THEN {} ELSE c.suspicious[p]
              /\ x.latched[p] = IF p \in G THEN {} ELSE c.latched[p]
          BY <2>2 DEF Forgot
        <4>2. /\ d.lastSeen[p] = IF p = ev.proc THEN t ELSE x.lastSeen[p]
              /\ d.suspicious[p] = IF p = ev.proc THEN x.suspicious[p] \cup Suspicion(ev)
                                   ELSE x.suspicious[p]
              /\ d.latched[p] = x.latched[p]
          BY <3>2 DEF Touched
        <4> QED
          BY <4>1, <4>2
      <3>5. ASSUME NEW i \in Pids
            PROVE  d.pidIndex[i] =
                      IF i = ev.pid /\ ev.kind # "exit" THEN ev.proc
                      ELSE IF c.pidIndex[i] \in G \/ (i = ev.pid /\ c.pidIndex[i] = ev.proc)
                           THEN None ELSE c.pidIndex[i]
        <4>1. x.pidIndex[i] = IF c.pidIndex[i] \in G THEN None ELSE c.pidIndex[i]
          BY <2>2 DEF Forgot
        <4> QED
          BY <4>1, <3>2 DEF Touched
      <3> QED
        BY <3>3, <3>4, <3>5, <2>2, <1>6 DEF Became
    <2>3. CASE x = e
      <3>1. Became(c, ev, t, stale, d)
        BY <1>3, <2>2, <2>3
      <3> QED
        BY <3>1
    <2>4. CASE x # e
      <3>1. PICK v \in Victims(e) : x = Forget(e, {v})
        BY <2>1, <2>4 DEF Admit
      <3>2. ~(Cardinality(e.tracked) < MaxProcs)
        BY <2>1, <2>4 DEF Admit
      <3>3. e \in CorrelatorStates /\ e.tracked = c.tracked \ stale
            /\ \A p \in Procs \ stale : e.suspicious[p] = c.suspicious[p]
        BY <1>3 DEF Forgot
      <3>4. v \in e.tracked /\ (e.suspicious[v] # {} => \A q \in e.tracked : e.suspicious[q] # {})
        BY <3>1 DEF Victims, Oldest, Armed
      <3>5. Forgot(e, {v}, x)
        <4>1. {v} \in SUBSET Procs
          BY <1>1, <3>3, <3>4
        <4> QED
          BY <3>1, <3>3, <4>1, ForgetIs
      <3> DEFINE G == stale \cup {v}
      <3>6. G \in SUBSET c.tracked /\ v \in c.tracked
        BY <3>3, <3>4
      <3>7. Forgot(c, G, x)
        <4>1. ASSUME NEW i \in Pids
              PROVE  x.pidIndex[i] = IF c.pidIndex[i] \in G THEN None ELSE c.pidIndex[i]
          <5>1. x.pidIndex[i] = IF e.pidIndex[i] \in {v} THEN None ELSE e.pidIndex[i]
            BY <3>5 DEF Forgot
          <5>2. e.pidIndex[i] = IF c.pidIndex[i] \in stale THEN None ELSE c.pidIndex[i]
            BY <1>3 DEF Forgot
          <5> QED
            BY <5>1, <5>2
        <4>2. x.tracked = c.tracked \ G
          BY <3>3, <3>5 DEF Forgot
        <4> QED
          BY <1>3, <3>5, <4>1, <4>2 DEF Forgot
      <3>8. e.tracked = {q \in c.tracked : ~Idle(c, q, t)}
        BY <3>3
      <3>9. Cardinality({q \in c.tracked : ~Idle(c, q, t)}) >= MaxProcs
        <4>1. IsFiniteSet(e.tracked)
          BY <1>1, <3>3, CorrelatorAssumption, FS_Subset
        <4>2. Cardinality(e.tracked) \in Nat
          BY <4>1, FS_CardinalityType
        <4> QED
          BY <3>2, <3>8, <4>2, CorrelatorAssumption
      <3>10. \A p \in G : ~Idle(c, p, t) => p = v
        OBVIOUS
      <3>11. c.suspicious[v] # {} => \A q \in c.tracked : ~Idle(c, q, t) => c.suspicious[q] # {}
        BY <1>1, <3>3, <3>4, <3>6, <3>8
      <3>12. Became(c, ev, t, G, d)
        <4>1. \A p \in G : ~Idle(c, p, t) =>
                 /\ Cardinality({q \in c.tracked : ~Idle(c, q, t)}) >= MaxProcs
                 /\ c.suspicious[p] # {} =>
                       \A q \in c.tracked : ~Idle(c, q, t) => c.suspicious[q] # {}
          BY <3>9, <3>10, <3>11
        <4>2. stale \subseteq G
          OBVIOUS
        <4> HIDE DEF G, stale
        <4> QED
          BY <2>2, <3>6, <3>7, <4>1, <4>2
      <3> QED
        BY <3>6, <3>12
    <2> QED
      BY <2>3, <2>4
  <1> QED
    BY <1>5, <1>6

LEMMA LatchIs ==
    ASSUME NEW c \in CorrelatorStates, NEW p \in Procs, NEW dst \in Dsts,
           NEW d, d = Latch(c, p, dst)
    PROVE  /\ d \in CorrelatorStates
           /\ d.tracked = c.tracked /\ d.lastSeen = c.lastSeen
           /\ d.suspicious = c.suspicious /\ d.pidIndex = c.pidIndex
           /\ \A r \in Procs : d.latched[r] \subseteq c.latched[r] \cup (IF r = p THEN {dst} ELSE {})
  <1>1. CASE d = c
    BY <1>1
  <1>2. CASE d = [c EXCEPT !.latched[p] = @ \cup {dst}]
    <2>1. c.latched \in [Procs -> SUBSET Dsts]
      BY DEF CorrelatorStates
    <2>2. d.latched = [c.latched EXCEPT ![p] = @ \cup {dst}]
      BY <1>2 DEF CorrelatorStates
    <2>3. [c.latched EXCEPT ![p] = @ \cup {dst}] \in [Procs -> SUBSET Dsts]
      BY <2>1
    <2>4. d \in CorrelatorStates
      BY <1>2, <2>3 DEF CorrelatorStates
    <2>5. /\ d.tracked = c.tracked /\ d.lastSeen = c.lastSeen
          /\ d.suspicious = c.suspicious /\ d.pidIndex = c.pidIndex
      BY <1>2 DEF CorrelatorStates
    <2>6. \A r \in Procs : d.latched[r] \subseteq c.latched[r] \cup (IF r = p THEN {dst} ELSE {})
      BY <2>1, <2>2
    <2> QED
      BY <2>4, <2>5, <2>6
  <1> QED
    BY <1>1, <1>2 DEF Latch

-----------------------------------------------------------------------------
(* The agent reads a line.                                                  *)

ReadBy(ev, G, d) ==
    /\ TookHead /\ log' \in Seq(Events) /\ UNCHANGED <<os, now, lost>>
    /\ ev = log[1] /\ ev \in Events
    /\ G \in SUBSET corr.tracked
    /\ Became(corr, ev, now, G, d)

LEMMA ReadIndex ==
    ASSUME HostInv, CorrOK, NEW ev, NEW G, NEW d, ReadBy(ev, G, d)
    PROVE  /\ \A p \in d.tracked : p \in Procs /\ Born(p) /\ Past(p, 1)
           /\ \A p \in Procs \ d.tracked : d.suspicious[p] = {} /\ d.latched[p] = {}
           /\ \A i \in Pids : d.pidIndex[i] # None =>
                 /\ d.pidIndex[i] \in d.tracked
                 /\ os[d.pidIndex[i]].pid = i
                 /\ ~Announces(1, d.pidIndex[i], i)
                 /\ i \in lost \/ Follows(d.pidIndex[i], i, 1)
  <1>1. /\ 1 \in Waiting /\ ev = log[1] /\ LineOK(1)
        /\ ev.proc \in Procs /\ ev.pid \in Pids /\ ev.hasId \in BOOLEAN
    BY DEF ReadBy, TookHead, HostInv, Events
  <1>2. /\ Born(ev.proc) /\ Past(ev.proc, 1) /\ Follows(ev.proc, ev.pid, 1)
        /\ os[ev.proc].pid = ev.pid /\ (ev.kind # "connect" => ev.hasId)
    BY <1>1 DEF LineOK
  <1>3. /\ corr \in CorrelatorStates /\ corr.tracked \subseteq Procs
        /\ d \in CorrelatorStates
        /\ d.tracked = (corr.tracked \ G) \cup (IF ev.hasId THEN {ev.proc} ELSE {})
    BY DEF ReadBy, Became, CorrOK, CorrelatorStates
  <1>4. \A p \in d.tracked : p \in Procs /\ Born(p) /\ Past(p, 1)
    BY <1>1, <1>2, <1>3 DEF CorrOK
  <1>5. ASSUME NEW p \in Procs \ d.tracked
        PROVE  d.suspicious[p] = {} /\ d.latched[p] = {}
    <2>1. /\ d.suspicious[p] = (IF p \in G THEN {} ELSE corr.suspicious[p])
                                 \cup (IF ev.hasId /\ p = ev.proc THEN Suspicion(ev) ELSE {})
          /\ d.latched[p] = IF p \in G THEN {} ELSE corr.latched[p]
      BY DEF ReadBy, Became
    <2>2. ~(ev.hasId /\ p = ev.proc) /\ (p \in G \/ p \notin corr.tracked)
      BY <1>3
    <2> QED
      BY <2>1, <2>2 DEF CorrOK
  <1>6. ASSUME NEW i \in Pids, d.pidIndex[i] # None
        PROVE  /\ d.pidIndex[i] \in d.tracked
               /\ os[d.pidIndex[i]].pid = i
               /\ ~Announces(1, d.pidIndex[i], i)
               /\ i \in lost \/ Follows(d.pidIndex[i], i, 1)
    <2>1. d.pidIndex[i] =
             IF ev.hasId /\ i = ev.pid /\ ev.kind # "exit" THEN ev.proc
             ELSE IF corr.pidIndex[i] \in G
                       \/ (ev.hasId /\ i = ev.pid /\ corr.pidIndex[i] = ev.proc)
                  THEN None ELSE corr.pidIndex[i]
      BY DEF ReadBy, Became
    <2>2. CASE ev.hasId /\ i = ev.pid /\ ev.kind # "exit"
      <3>1. d.pidIndex[i] = ev.proc
        BY <2>1, <2>2
      <3>2. ~Announces(1, ev.proc, i)
        BY <1>1, <2>2 DEF Announces
      <3> QED
        BY <1>2, <1>3, <2>2, <3>1, <3>2
    <2>3. CASE ~(ev.hasId /\ i = ev.pid /\ ev.kind # "exit")
      <3>1. PICK q : q = corr.pidIndex[i]
        OBVIOUS
      <3>2. /\ d.pidIndex[i] = q /\ q # None /\ q \notin G
            /\ ~(ev.hasId /\ i = ev.pid /\ q = ev.proc)
        BY <1>6, <2>1, <2>3, <3>1
      <3>3. q \in corr.tracked /\ os[q].pid = i /\ (i \in lost \/ Follows(q, i, 1))
        BY <3>1, <3>2 DEF CorrOK
      <3>4. q \in d.tracked
        BY <1>3, <3>2, <3>3
      <3>5. ~Announces(1, q, i)
        BY <1>1, <1>2, <2>3, <3>2 DEF Announces
      <3> QED
        BY <3>2, <3>3, <3>4, <3>5
    <2> QED
      BY <2>2, <2>3
  <1> QED
    BY <1>4, <1>5, <1>6

LEMMA ReadCorr ==
    ASSUME HostInv, CorrOK, NEW ev, NEW G, NEW d, ReadBy(ev, G, d),
           corr' \in CorrelatorStates, corr'.tracked = d.tracked,
           corr'.suspicious = d.suspicious, corr'.pidIndex = d.pidIndex,
           \A r \in Procs \ d.tracked : corr'.latched[r] = {}
    PROVE  CorrOK'
  <1>1. UNCHANGED <<os, now, lost>> /\ TookHead /\ log' \in Seq(Events)
    BY DEF ReadBy
  <1>2. /\ \A p \in Procs : Past(p, 1) => Past(p, 1)'
        /\ \A q \in Procs, i \in Pids :
              Follows(q, i, 1) /\ ~Announces(1, q, i) => Follows(q, i, 1)'
    BY <1>1, ReadHost
  <1>3. /\ \A p \in d.tracked : p \in Procs /\ Born(p) /\ Past(p, 1)
        /\ \A p \in Procs \ d.tracked : d.suspicious[p] = {} /\ d.latched[p] = {}
        /\ \A i \in Pids : d.pidIndex[i] # None =>
              /\ d.pidIndex[i] \in d.tracked
              /\ os[d.pidIndex[i]].pid = i
              /\ ~Announces(1, d.pidIndex[i], i)
              /\ i \in lost \/ Follows(d.pidIndex[i], i, 1)
    BY ReadIndex
  <1>4. \A p \in corr'.tracked : Born(p)' /\ Past(p, 1)'
    BY <1>1, <1>2, <1>3 DEF Born
  <1>5. ASSUME NEW i \in Pids, NEW q, q = d.pidIndex[i], q # None
        PROVE  q \in corr'.tracked /\ os'[q].pid = i /\ (i \in lost' \/ Follows(q, i, 1)')
    BY <1>1, <1>2, <1>3, <1>5
  <1> QED
    BY <1>3, <1>4, <1>5 DEF CorrOK

\* A process that has nothing left to say, or whose pid speaks for another, is
\* gone once the line is read.
LEMMA ReadOver ==
    ASSUME HostInv, NEW ev, NEW G, NEW d, ReadBy(ev, G, d), NEW p \in Procs
    PROVE  /\ Over(p) => Over(p)' /\ ev.proc # p
           /\ Past(p, 1) /\ os[p].pid = ev.pid /\ p # ev.proc => Over(p)'
           /\ p = ev.proc /\ ev.kind = "exit" => Over(p)'
  <1>1. /\ 1 \in Waiting /\ ev = log[1] /\ LineOK(1) /\ UNCHANGED os
        /\ \A k \in Waiting' : k + 1 \in Waiting /\ log'[k] = log[k + 1] /\ k \in Nat /\ k # 0
    BY DEF ReadBy, TookHead, HostInv, Waiting
  <1>2. \A k \in Waiting' : k + 1 > 1
    BY <1>1
  <1>3. ASSUME os[p].life # "live", \A l \in Waiting : l > 1 => log[l].proc # p
        PROVE  Over(p)'
    BY <1>1, <1>2, <1>3 DEF Over
  <1>4. Over(p) => Over(p)' /\ ev.proc # p
    BY <1>1, <1>3 DEF Over
  <1>5. Past(p, 1) /\ os[p].pid = ev.pid /\ p # ev.proc => Over(p)'
    BY <1>1, <1>3 DEF Past
  <1>6. p = ev.proc /\ ev.kind = "exit" => Over(p)'
    BY <1>1, <1>3 DEF LineOK
  <1> QED
    BY <1>4, <1>5, <1>6

\* What the history makes of the line.
ArmedBy(ev) ==
    (truth.armed \ {q \in truth.armed : truth.heard[q] + TTL < now})
       \cup (IF ev.hasId /\ Suspicion(ev) # {} THEN {ev.proc} ELSE {})

Learned(ev, raised, armed) ==
    /\ truth' \in Truths
    /\ truth'.armed = armed
    /\ \A q \in armed : truth'.heard[q] = IF q = ev.proc /\ ev.hasId THEN now
                                          ELSE truth.heard[q]
    /\ truth'.loaders = IF ev.kind = "bpf" THEN truth.loaders \cup {ev.proc}
                        ELSE truth.loaders
    /\ truth.reported \subseteq truth'.reported
    /\ raised => <<ev.proc, ev.dst>> \in truth'.reported
    /\ truth.crowded \/ Cardinality(armed) >= MaxProcs => truth'.crowded
    /\ truth'.missed =>
          \/ truth.missed
          \/ /\ ev.kind = "connect" /\ ev.proc \in armed
             /\ <<ev.proc, ev.dst>> \notin truth.reported
             /\ ~raised

LEMMA LearnIs ==
    ASSUME truth \in Truths, now \in Nat, NEW ev \in Events, NEW raised \in BOOLEAN,
           truth' = Learn(ev, raised)
    PROVE  Learned(ev, raised, ArmedBy(ev))
  <1>a. PICK armed : armed = ArmedBy(ev)
    OBVIOUS
  <1>0. /\ ev.proc \in Procs /\ ev.dst \in Dsts \cup {None} /\ armed \subseteq Procs
    BY <1>a DEF Truths, Events, ArmedBy
  <1> DEFINE heard    == [q \in Procs |-> IF q \notin armed THEN 0
                                          ELSE IF q = ev.proc /\ ev.hasId THEN now
                                          ELSE truth.heard[q]]
             loaders  == IF ev.kind = "bpf" THEN truth.loaders \cup {ev.proc} ELSE truth.loaders
             reported == IF raised THEN truth.reported \cup {<<ev.proc, ev.dst>>}
                         ELSE truth.reported
             crowded  == truth.crowded \/ Cardinality(armed) >= MaxProcs
             missed   == truth.missed \/ (/\ ev.kind = "connect"
                                          /\ ev.proc \in armed
                                          /\ <<ev.proc, ev.dst>> \notin truth.reported
                                          /\ ~raised)
  <1>1. truth' = [truth EXCEPT !.heard = heard, !.armed = armed, !.loaders = loaders,
                               !.reported = reported, !.crowded = crowded, !.missed = missed]
    BY <1>a DEF Learn, ArmedBy
  <1>2. /\ heard \in [Procs -> Nat] /\ loaders \subseteq Procs
        /\ reported \subseteq Procs \X (Dsts \cup {None})
        /\ crowded \in BOOLEAN /\ missed \in BOOLEAN
    BY <1>0 DEF Truths
  <1>3. \A q \in armed : heard[q] = IF q = ev.proc /\ ev.hasId THEN now ELSE truth.heard[q]
    BY <1>0
  <1>4. truth.reported \subseteq reported /\ (raised => <<ev.proc, ev.dst>> \in reported)
    OBVIOUS
  <1>5. PICK h, l, r, c, m : /\ h = heard /\ l = loaders /\ r = reported
                             /\ c = crowded /\ m = missed
    OBVIOUS
  <1> HIDE DEF heard, loaders, reported
  <1>6. truth' = [truth EXCEPT !.heard = h, !.armed = armed, !.loaders = l,
                               !.reported = r, !.crowded = c, !.missed = m]
    BY <1>1, <1>5
  <1>7. /\ h \in [Procs -> Nat] /\ l \subseteq Procs
        /\ r \subseteq Procs \X (Dsts \cup {None})
        /\ c \in BOOLEAN /\ m \in BOOLEAN
    BY <1>2, <1>5
  <1>8. /\ truth'.armed = armed /\ truth'.heard = h /\ truth'.loaders = l
        /\ truth'.reported = r /\ truth'.crowded = c /\ truth'.missed = m
    BY <1>6 DEF Truths
  <1>9. truth' \in Truths
    <2>1. /\ armed \in SUBSET Procs /\ l \in SUBSET Procs
          /\ r \in SUBSET (Procs \X (Dsts \cup {None}))
      BY <1>0, <1>7
    <2>2. PICK R : R = SUBSET (Procs \X (Dsts \cup {None}))
      OBVIOUS
    <2>3. truth \in [heard: [Procs -> Nat], armed: SUBSET Procs, loaders: SUBSET Procs,
                    reported: R, crowded: BOOLEAN, missed: BOOLEAN]
      BY <2>2 DEF Truths
    <2>4. truth' \in [heard: [Procs -> Nat], armed: SUBSET Procs, loaders: SUBSET Procs,
                     reported: R, crowded: BOOLEAN, missed: BOOLEAN]
      BY <1>6, <1>7, <2>1, <2>2, <2>3
    <2> QED
      BY <2>2, <2>4 DEF Truths
  <1> QED
    BY <1>a, <1>3, <1>4, <1>5, <1>8, <1>9 DEF loaders, Learned

LEMMA ReadTruth ==
    ASSUME HostInv, AgentInv, NEW ev, NEW G, NEW d, ReadBy(ev, G, d),
           NEW raised \in BOOLEAN, truth' = Learn(ev, raised),
           corr'.tracked = d.tracked, corr'.lastSeen = d.lastSeen,
           corr'.suspicious = d.suspicious, corr'.pidIndex = d.pidIndex,
           NEW r, r = Resolve(d, ev),
           \A p \in Procs : \A x \in corr'.latched[p] :
              \/ x \in d.latched[p]
              \/ x = ev.dst /\ p = r /\ (p = ev.proc => raised),
           Correlates(d, ev, now) /\ r = ev.proc => raised
    PROVE  TruthOK'
  <1>0. /\ ev \in Events /\ UNCHANGED <<os, now, lost>> /\ now \in Nat /\ truth \in Truths
        /\ G \subseteq corr.tracked /\ corr.tracked \subseteq Procs
        /\ ev = log[1] /\ 1 \in Waiting /\ LineOK(1)
        /\ ev.proc \in Procs /\ ev.pid \in Pids /\ ev.hasId \in BOOLEAN
    BY DEF HostInv, HostOK, AgentInv, CorrOK, CorrelatorStates, TruthOK, ReadBy, Events, TookHead
  <1>1. PICK armed : armed = ArmedBy(ev)
    OBVIOUS
  <1>2. Learned(ev, raised, armed)
    BY <1>0, <1>1, LearnIs
  <1>3. SUFFICES ASSUME ~truth'.crowded PROVE Knows'
    BY <1>2 DEF TruthOK, Learned
  <1>4. Knows /\ ~(Cardinality(armed) >= MaxProcs)
    BY <1>2, <1>3 DEF AgentInv, TruthOK, Learned
  <1>5. /\ d.tracked = (corr.tracked \ G) \cup (IF ev.hasId THEN {ev.proc} ELSE {})
        /\ \A p \in Procs :
              /\ d.lastSeen[p] = IF ev.hasId /\ p = ev.proc THEN now
                                 ELSE IF p \in G THEN 0 ELSE corr.lastSeen[p]
              /\ d.suspicious[p] = (IF p \in G THEN {} ELSE corr.suspicious[p])
                                     \cup (IF ev.hasId /\ p = ev.proc THEN Suspicion(ev) ELSE {})
              /\ d.latched[p] = IF p \in G THEN {} ELSE corr.latched[p]
    BY DEF ReadBy, Became
  <1>6. /\ \A p \in corr.tracked : Idle(corr, p, now) => p \in G
        /\ \A p \in G : ~Idle(corr, p, now) =>
              /\ Cardinality({q \in corr.tracked : ~Idle(corr, q, now)}) >= MaxProcs
              /\ corr.suspicious[p] # {} =>
                    \A q \in corr.tracked : ~Idle(corr, q, now) => corr.suspicious[q] # {}
    BY DEF ReadBy, Became
  <1>7. \A i \in Pids :
           d.pidIndex[i] =
              IF ev.hasId /\ i = ev.pid /\ ev.kind # "exit" THEN ev.proc
              ELSE IF corr.pidIndex[i] \in G
                        \/ (ev.hasId /\ i = ev.pid /\ corr.pidIndex[i] = ev.proc)
                   THEN None ELSE corr.pidIndex[i]
    BY DEF ReadBy, Became
  <1>8. \A p : p \in truth.armed <=> p \in corr.tracked /\ corr.suspicious[p] # {}
    BY <1>4 DEF Knows, Armed
  <1>9. \A p \in truth.armed : truth.heard[p] + TTL < now <=> Idle(corr, p, now)
    BY <1>4 DEF Knows, Idle
  (* Only an idle one is forgotten of the suspicious. *)
  <1>10. ASSUME NEW p \in G, corr.suspicious[p] # {} PROVE Idle(corr, p, now)
    <2>1. SUFFICES ASSUME ~Idle(corr, p, now) PROVE FALSE
      OBVIOUS
    <2>2. {q \in corr.tracked : ~Idle(corr, q, now)} \subseteq armed
      BY <2>1, <1>1, <1>6, <1>8, <1>9, <1>10 DEF ArmedBy
    <2>3. IsFiniteSet(armed)
      <3>1. armed \subseteq Procs
        BY <1>0, <1>1, <1>8 DEF ArmedBy
      <3> QED
        BY <3>1, CorrelatorAssumption, FS_Subset
    <2>4. PICK S : S = {q \in corr.tracked : ~Idle(corr, q, now)}
      OBVIOUS
    <2>5. Cardinality(S) <= Cardinality(armed) /\ Cardinality(armed) \in Nat /\ Cardinality(S) \in Nat
      BY <2>2, <2>3, <2>4, FS_Subset, FS_CardinalityType
    <2>6. Cardinality(S) >= MaxProcs
      BY <2>1, <2>4, <1>6
    <2> QED
      BY <2>5, <2>6, <1>4, CorrelatorAssumption
  <1>11. \A p : p \in armed <=>
            \/ p \in truth.armed /\ p \notin G
            \/ p = ev.proc /\ ev.hasId /\ Suspicion(ev) # {}
    <2>1. \A p \in truth.armed : p \in G <=> truth.heard[p] + TTL < now
      BY <1>6, <1>8, <1>9, <1>10
    <2> QED
      BY <1>1, <2>1 DEF ArmedBy
  <1>12. armed = Armed(corr)'
    <2>1. Armed(corr)' = {p \in d.tracked : d.suspicious[p] # {}}
      BY DEF Armed
    <2>2. ASSUME NEW p
          PROVE  p \in armed <=> p \in d.tracked /\ d.suspicious[p] # {}
      <3>1. CASE p \in Procs
        <4>1. d.suspicious[p] = (IF p \in G THEN {} ELSE corr.suspicious[p])
                                  \cup (IF ev.hasId /\ p = ev.proc THEN Suspicion(ev) ELSE {})
          BY <1>5, <3>1
        <4>2. p \notin corr.tracked => corr.suspicious[p] = {}
          BY <3>1 DEF AgentInv, CorrOK
        <4>3. p \in d.tracked <=> (p \in corr.tracked /\ p \notin G) \/ (ev.hasId /\ p = ev.proc)
          BY <1>5
        <4> QED
          BY <1>8, <1>11, <4>1, <4>2, <4>3
      <3>2. CASE p \notin Procs
        BY <3>2, <1>0, <1>5, <1>8, <1>11
      <3> QED
        BY <3>1, <3>2
    <2> QED
      BY <2>1, <2>2
  <1>13. ASSUME NEW p \in armed
         PROVE  truth'.heard[p] = corr'.lastSeen[p]
    <2>1. p \in Procs
      BY <1>0, <1>8, <1>11
    <2>2. CASE ev.hasId /\ p = ev.proc
      BY <1>2, <1>5, <2>1, <2>2 DEF Learned
    <2>3. CASE ~(ev.hasId /\ p = ev.proc)
      <3>1. p \in truth.armed /\ p \notin G
        BY <1>11, <2>3
      <3>2. d.lastSeen[p] = corr.lastSeen[p]
        BY <1>5, <2>1, <2>3, <3>1
      <3> QED
        BY <1>2, <1>4, <2>3, <3>1, <3>2 DEF Knows, Learned
    <2> QED
      BY <2>2, <2>3
  <1>14. \A p \in Procs : Over(p) => Over(p)' /\ ev.proc # p
    BY ReadOver
  <1>15. ASSUME NEW p \in armed
         PROVE  Over(p)' \/ d.pidIndex[os[p].pid] = p
    <2>1. p \in Procs /\ (p \in truth.armed => p \in corr.tracked)
      BY <1>0, <1>8, <1>11
    <2>2. CASE ev.hasId /\ p = ev.proc
      <3>1. os[p].pid = ev.pid
        BY <1>0, <2>2 DEF LineOK
      <3>2. ev.kind = "exit" => Over(p)'
        BY <2>1, <2>2, ReadOver
      <3> QED
        BY <1>0, <1>7, <2>2, <3>1, <3>2
    <2>3. CASE ~(ev.hasId /\ p = ev.proc)
      <3>1. p \in truth.armed /\ p \notin G /\ p # None
        BY <1>11, <2>1, <2>3, CorrelatorAssumption
      <3>2. Over(p) \/ corr.pidIndex[os[p].pid] = p
        BY <1>4, <3>1 DEF Knows
      <3>3. Born(p) /\ Past(p, 1) /\ os[p].pid \in Pids
        BY <2>1, <3>1 DEF AgentInv, CorrOK, HostInv, HostOK
      <3>4. CASE corr.pidIndex[os[p].pid] = p
        <4>1. CASE ev.hasId /\ os[p].pid = ev.pid
          BY <2>1, <2>3, <3>3, <4>1, ReadOver
        <4>2. CASE ~(ev.hasId /\ os[p].pid = ev.pid)
          BY <1>7, <3>1, <3>3, <3>4, <4>2
        <4> QED
          BY <4>1, <4>2
      <3> QED
        BY <1>14, <2>1, <3>2, <3>4
    <2> QED
      BY <2>2, <2>3
  <1>16. ASSUME NEW p \in Procs, NEW x \in corr'.latched[p]
         PROVE  <<p, x>> \in truth'.reported \/ Over(p)'
    <2>1. CASE x \in d.latched[p]
      <3>1. x \in corr.latched[p]
        BY <1>5, <2>1
      <3> QED
        BY <1>2, <1>4, <1>14, <3>1 DEF Knows, Learned
    <2>2. CASE x = ev.dst /\ p = ev.proc /\ raised
      BY <1>2, <2>2 DEF Learned
    <2>3. CASE p = r /\ p # ev.proc
      <3>1. p = d.pidIndex[ev.pid] /\ p # None
        BY <2>3, CorrelatorAssumption DEF Resolve, ById
      <3>2. CorrOK
        BY DEF AgentInv
      <3>3. p \in d.tracked /\ os[p].pid = ev.pid /\ Past(p, 1)
        BY <1>0, <3>1, <3>2, ReadIndex
      <3> QED
        BY <2>3, <3>3, ReadOver
    <2> QED
      BY <1>16, <2>1, <2>2, <2>3
  <1>17. ~truth'.missed
    <2>1. SUFFICES ASSUME truth'.missed PROVE FALSE
      OBVIOUS
    <2> DEFINE p == ev.proc
    <2>2. /\ ev.kind = "connect" /\ p \in armed
          /\ <<p, ev.dst>> \notin truth.reported /\ ~raised
      BY <1>2, <1>4, <2>1 DEF Knows, Learned
    <2>3. p \in truth.armed /\ p \notin G /\ p \in corr.tracked /\ corr.suspicious[p] # {}
      BY <1>8, <1>11, <2>2 DEF Suspicion
    <2>4. ~Over(p) /\ os[p].pid = ev.pid
      BY <1>0, <1>14 DEF LineOK
    <2>5. corr.pidIndex[ev.pid] = p
      BY <1>4, <2>3, <2>4 DEF Knows
    <2>6. r = p
      <3>1. d.pidIndex[ev.pid] = p
        BY <1>0, <1>7, <2>2, <2>3, <2>5
      <3>2. ev.hasId => p \in d.tracked
        BY <1>5
      <3> QED
        BY <3>1, <3>2 DEF Resolve, ById
    <2>7. ~Idle(d, p, now)
      <3>1. ~Idle(corr, p, now)
        BY <1>6, <2>3
      <3>2. d.lastSeen[p] = IF ev.hasId THEN now ELSE corr.lastSeen[p]
        BY <1>0, <1>5, <2>3
      <3>3. ~(now + TTL < now)
        BY <1>0, CorrelatorAssumption
      <3> QED
        BY <3>1, <3>2, <3>3 DEF Idle
    <2>8. ev.dst \notin d.latched[p]
      <3>1. d.latched[p] = corr.latched[p]
        BY <1>0, <1>5, <2>3
      <3> QED
        BY <1>0, <1>4, <2>2, <2>4, <3>1 DEF Knows
    <2>9. d.suspicious[p] # {}
      BY <1>0, <1>5, <2>3
    <2>10. r # None
      BY <1>0, <2>6, CorrelatorAssumption
    <2>11. Correlates(d, ev, now)
      BY <2>2, <2>6, <2>7, <2>8, <2>9, <2>10 DEF Correlates
    <2> QED
      BY <2>2, <2>6, <2>11
  <1>18. \A p \in truth'.armed : /\ truth'.heard[p] = corr'.lastSeen[p]
                                 /\ Over(p)' \/ corr'.pidIndex[os'[p].pid] = p
    BY <1>0, <1>2, <1>13, <1>15 DEF Learned
  <1> QED
    BY <1>2, <1>12, <1>16, <1>17, <1>18 DEF Knows, Learned

LEMMA ReadLoaders ==
    ASSUME HostInv, AgentInv, NEW ev, NEW G, NEW d, ReadBy(ev, G, d),
           corr'.suspicious = d.suspicious,
           truth'.loaders = IF ev.kind = "bpf" THEN truth.loaders \cup {ev.proc}
                            ELSE truth.loaders
    PROVE  LoadersOK'
  <1>1. /\ UNCHANGED os /\ ev = log[1] /\ 1 \in Waiting /\ LineOK(1) /\ ev.proc \in Procs
        /\ \A k \in Waiting' : k + 1 \in Waiting /\ log'[k] = log[k + 1] /\ k \in Nat /\ k # 0
    BY DEF HostInv, ReadBy, Events, TookHead, Waiting
  <1>2. \A k \in Waiting' : k + 1 > 1
    BY <1>1
  <1>3. \A p \in Procs :
           d.suspicious[p] = (IF p \in G THEN {} ELSE corr.suspicious[p])
                               \cup (IF ev.hasId /\ p = ev.proc THEN Suspicion(ev) ELSE {})
    BY DEF ReadBy, Became
  <1>4. ASSUME NEW p \in truth.loaders
        PROVE  /\ p \in Procs /\ Born(p)'
               /\ \A k \in Waiting' : log'[k].proc = p => log'[k].kind # "exec"
               /\ "T1620" \in d.suspicious[p] => "T1014" \in d.suspicious[p]
    <2>1. /\ p \in Procs /\ Born(p)
          /\ \A k \in Waiting : log[k].proc = p => log[k].kind # "exec"
          /\ "T1620" \in corr.suspicious[p] => "T1014" \in corr.suspicious[p]
      BY DEF AgentInv, LoadersOK
    <2>2. p = ev.proc => "T1620" \notin Suspicion(ev)
      BY <1>1, <2>1 DEF Suspicion
    <2>3. "T1620" \in d.suspicious[p] => "T1014" \in d.suspicious[p]
      BY <1>3, <2>1, <2>2
    <2>4. \A k \in Waiting' : log'[k].proc = p => log'[k].kind # "exec"
      BY <1>1, <2>1
    <2> QED
      BY <1>1, <2>1, <2>3, <2>4 DEF Born
  <1>5. ASSUME ev.kind = "bpf", NEW p, p = ev.proc
        PROVE  /\ p \in Procs /\ Born(p)'
               /\ \A k \in Waiting' : log'[k].proc = p => log'[k].kind # "exec"
               /\ "T1620" \in d.suspicious[p] => "T1014" \in d.suspicious[p]
    <2>1. Born(p) /\ ev.hasId
      BY <1>1, <1>5 DEF LineOK
    <2>2. "T1014" \in d.suspicious[p]
      BY <1>1, <1>3, <1>5, <2>1 DEF Suspicion
    <2>3. \A k \in Waiting' : log'[k].proc = p => log'[k].kind # "exec"
      BY <1>1, <1>2, <1>5 DEF LineOK
    <2> QED
      BY <1>1, <1>5, <2>1, <2>2, <2>3 DEF Born
  <1>6. \A p \in truth'.loaders : p \in truth.loaders \/ (ev.kind = "bpf" /\ p = ev.proc)
    OBVIOUS
  <1> QED
    BY <1>4, <1>5, <1>6 DEF LoadersOK

LEMMA ReadIncident ==
    ASSUME HostInv, AgentInv, NEW ev, NEW G, NEW d, ReadBy(ev, G, d),
           LoadersOK', corr'.suspicious = d.suspicious,
           truth.loaders \subseteq truth'.loaders,
           Correlates(d, ev, now),
           incident' = Incident(d, ev, StartTime(ev.pid)),
           origin' = [proc |-> ev.proc, image |-> ev.image,
                      loader |-> ev.proc \in truth.loaders,
                      handedOver |-> StartTime(ev.pid) # os[ev.proc].task]
    PROVE  IncidentOK'
  <1>0. /\ UNCHANGED <<os, lost>> /\ ev = log[1] /\ 1 \in Waiting /\ LineOK(1)
        /\ ev.proc \in Procs /\ ev.pid \in Pids /\ ev.hasId \in BOOLEAN
        /\ \A k \in Waiting : k \in Nat
    BY DEF HostInv, ReadBy, Events, TookHead
  <1>1. PICK q : q = Resolve(d, ev)
    OBVIOUS
  <1>2. /\ incident'.proc = q /\ incident'.byExecID = ById(d, ev)
        /\ incident'.techniques = d.suspicious[q] /\ incident'.pid = ev.pid
        /\ incident'.startTime = StartTime(ev.pid)
    BY <1>1 DEF Incident
  <1>3. /\ origin'.proc = ev.proc
        /\ origin'.loader = (ev.proc \in truth.loaders)
        /\ origin'.handedOver = (StartTime(ev.pid) # os[ev.proc].task)
    OBVIOUS
  <1>4. ev.kind = "connect" /\ q # None /\ Born(ev.proc)
    BY <1>0, <1>1 DEF Correlates, LineOK
  <1>5. ASSUME q # ev.proc PROVE ~ById(d, ev) /\ ev.pid \in lost
    <2>1. ~ById(d, ev) /\ q = d.pidIndex[ev.pid]
      BY <1>1, <1>5 DEF Resolve
    <2>2. ev.pid \in lost \/ Follows(q, ev.pid, 1)
      <3>1. CorrOK
        BY DEF AgentInv
      <3> QED
        BY <1>0, <1>4, <2>1, <3>1, ReadIndex
    <2>3. ~Follows(q, ev.pid, 1)
      BY <1>0, <1>4, <1>5 DEF Follows
    <2> QED
      BY <2>1, <2>2, <2>3
  <1>6. ASSUME ev.proc \in truth.loaders, ById(d, ev), "T1620" \in d.suspicious[q]
        PROVE  "T1014" \in d.suspicious[q]
    <2>1. q = ev.proc /\ q \in truth'.loaders
      BY <1>1, <1>6 DEF Resolve
    <2> QED
      BY <1>6, <2>1 DEF LoadersOK
  <1> QED
    BY <1>0, <1>2, <1>3, <1>4, <1>5, <1>6 DEF IncidentOK, Born

LEMMA CorrelateKeeps ==
    ASSUME HostInv, AgentInv, Correlate PROVE HostInv' /\ AgentInv'
  <1>1. /\ log # <<>> /\ log' = Tail(log) /\ log \in Seq(Events) /\ incident = None
        /\ UNCHANGED <<now, os, lines, lost, bridge, starts, acted>> /\ shadow' = None
        /\ now \in Nat /\ corr \in CorrelatorStates /\ truth \in Truths
    BY DEF Correlate, HostInv, HostOK, AgentInv, CorrOK, TruthOK
  <1>2. TookHead /\ log' \in Seq(Events) /\ Head(log) = log[1] /\ log[1] \in Events
    BY <1>1, LogTail
  <1>3. HostInv'
    BY <1>1, <1>2, ReadHost
  <1>4. PICK ev : ev = log[1]
    OBVIOUS
  <1>5. PICK d \in Processed(corr, ev, now) :
          IF Correlates(d, ev, now)
          THEN /\ corr' = Latch(d, Resolve(d, ev), ev.dst)
               /\ incident' = Incident(d, ev, StartTime(ev.pid))
               /\ origin' = [proc |-> ev.proc, image |-> ev.image,
                             loader |-> ev.proc \in truth.loaders,
                             handedOver |-> StartTime(ev.pid) # os[ev.proc].task]
               /\ truth' = Learn(ev, Resolve(d, ev) = ev.proc)
          ELSE /\ corr' = d
               /\ truth' = Learn(ev, FALSE)
               /\ UNCHANGED <<incident, origin>>
    BY <1>2, <1>4 DEF Correlate
  <1>6. PICK G \in SUBSET corr.tracked : Became(corr, ev, now, G, d)
    BY <1>1, <1>2, <1>4, ProcessedIs
  <1>7. ReadBy(ev, G, d)
    BY <1>1, <1>2, <1>4, <1>6 DEF ReadBy
  <1>8. d \in CorrelatorStates /\ CorrOK
    BY <1>6 DEF Became, AgentInv
  <1>9. \A p \in Procs \ d.tracked : d.suspicious[p] = {} /\ d.latched[p] = {}
    BY <1>7, <1>8, ReadIndex
  <1>10. ev \in Events /\ LineOK(1)
    BY <1>2, <1>4 DEF HostInv, TookHead
  <1>11. CASE Correlates(d, ev, now)
    <2>1. PICK r : r = Resolve(d, ev)
      OBVIOUS
    <2>2. ev.kind = "connect" /\ r # None /\ d.suspicious[r] # {} /\ ev.dst \in Dsts
      BY <1>4, <1>10, <1>11, <2>1 DEF Correlates, LineOK
    <2>3. r \in Procs
      <3>1. d.pidIndex \in [Pids -> Procs \cup {None}]
        BY <1>8 DEF CorrelatorStates
      <3> QED
        BY <1>10, <2>1, <2>2, <3>1 DEF Resolve, Events
    <2>4. r \in d.tracked
      BY <1>9, <2>2, <2>3
    <2>5. /\ corr' \in CorrelatorStates
          /\ corr'.tracked = d.tracked /\ corr'.lastSeen = d.lastSeen
          /\ corr'.suspicious = d.suspicious /\ corr'.pidIndex = d.pidIndex
          /\ \A p \in Procs : corr'.latched[p] \subseteq
                                 d.latched[p] \cup (IF p = r THEN {ev.dst} ELSE {})
      <3>1. corr' = Latch(d, r, ev.dst)
        BY <1>5, <1>11, <2>1
      <3> QED
        BY <1>8, <2>2, <2>3, <3>1, LatchIs
    <2>6. CorrOK'
      <3>1. \A p \in Procs \ d.tracked : corr'.latched[p] = {}
        BY <1>9, <2>4, <2>5
      <3> QED
        BY <1>7, <1>8, <2>5, <3>1, ReadCorr
    <2>7. PICK raised \in BOOLEAN : raised <=> r = ev.proc
      OBVIOUS
    <2>8. truth' = Learn(ev, raised)
      <3>1. raised = (r = ev.proc)
        BY <2>7
      <3> QED
        BY <1>5, <1>11, <2>1, <3>1
    <2>9. TruthOK'
      <3>1. \A p \in Procs : \A x \in corr'.latched[p] :
               \/ x \in d.latched[p]
               \/ x = ev.dst /\ p = r /\ (p = ev.proc => raised)
        BY <2>5, <2>7
      <3> QED
        BY <1>7, <2>1, <2>5, <2>7, <2>8, <3>1, ReadTruth
    <2>10. truth'.loaders = IF ev.kind = "bpf" THEN truth.loaders \cup {ev.proc}
                            ELSE truth.loaders
      BY <1>1, <1>10, <2>8, LearnIs DEF Learned
    <2>11. LoadersOK'
      BY <1>7, <2>5, <2>10, ReadLoaders
    <2>12. IncidentOK'
      <3>1. truth.loaders \subseteq truth'.loaders
        BY <2>10
      <3> QED
        BY <1>5, <1>7, <1>11, <2>5, <2>11, <3>1, ReadIncident
    <2> QED
      BY <1>1, <1>3, <2>6, <2>9, <2>11, <2>12 DEF AgentInv, ShadowOK
  <1>12. CASE ~Correlates(d, ev, now)
    <2>1. corr' = d /\ truth' = Learn(ev, FALSE) /\ incident' = None
      BY <1>1, <1>5, <1>12
    <2>2. CorrOK'
      BY <1>7, <1>8, <1>9, <2>1, ReadCorr
    <2>3. PICK raised \in BOOLEAN : raised = FALSE
      OBVIOUS
    <2>4. truth' = Learn(ev, raised)
      BY <2>1, <2>3
    <2>5. TruthOK'
      <3>1. PICK r : r = Resolve(d, ev)
        OBVIOUS
      <3> QED
        BY <1>7, <1>12, <2>1, <2>4, <3>1, ReadTruth
    <2>6. truth'.loaders = IF ev.kind = "bpf" THEN truth.loaders \cup {ev.proc}
                           ELSE truth.loaders
      BY <1>1, <1>10, <2>4, LearnIs DEF Learned
    <2>7. LoadersOK'
      BY <1>7, <2>1, <2>6, ReadLoaders
    <2> QED
      BY <1>1, <1>3, <2>1, <2>2, <2>5, <2>7 DEF AgentInv, ShadowOK, IncidentOK
  <1> QED
    BY <1>11, <1>12

-----------------------------------------------------------------------------
(* The agent decides; the agent starts anew.                                *)

LEMMA DecideKeeps ==
    ASSUME HostInv, AgentInv, Decide PROVE HostInv' /\ AgentInv'
  <1>1. /\ incident # None /\ incident' = None
        /\ UNCHANGED <<now, os, log, lines, lost, corr, truth, starts>>
    BY DEF Decide
  <1>2. HostInv' /\ Keeps
    BY <1>1, NothingSaid DEF HostInv, HostOK
  <1>3. CorrOK' /\ TruthOK' /\ LoadersOK'
    <2>1. \A p : Over(p) <=> Over(p)'
      BY <1>1 DEF Over, Waiting
    <2>2. CorrOK'
      BY <1>1 DEF AgentInv, CorrOK, Born, Past, Follows, Announces, Waiting
    <2>3. TruthOK'
      BY <1>1, <2>1 DEF AgentInv, TruthOK, Knows
    <2>4. LoadersOK'
      BY <1>1 DEF AgentInv, LoadersOK, Born, Waiting
    <2> QED
      BY <2>2, <2>3, <2>4
  <1>4. ShadowOK'
    <2>0. PICK target : target = ProcInfo(incident.pid)
      OBVIOUS
    <2>1. PICK disarmed \in BOOLEAN :
             shadow' = IF Consider(bridge, incident, target, now, disarmed).emitted = "shadow"
                       THEN [connector |-> origin.proc, image |-> origin.image,
                             loader |-> origin.loader, handedOver |-> origin.handedOver,
                             task |-> target.startTime, target |-> target.exe]
                       ELSE None
      BY <2>0 DEF Decide
    <2>2. SUFFICES ASSUME shadow' # None PROVE ShadowOK'
      BY DEF ShadowOK
    <2>3. Consider(bridge, incident, target, now, disarmed).emitted = "shadow"
      BY <2>1, <2>2
    <2>4. Eligible(incident, target, now)
      BY <2>3 DEF Consider
    <2>5. /\ incident.byExecID /\ target.startTime = incident.startTime
          /\ "T1620" \in incident.techniques /\ "T1014" \notin incident.techniques
      BY <2>4 DEF Eligible, Bound, SelectAction
    <2>6. /\ shadow'.connector = origin.proc /\ shadow'.loader = origin.loader
          /\ shadow'.handedOver = origin.handedOver /\ shadow'.task = target.startTime
      BY <2>1, <2>3
    <2> QED
      BY <1>1, <2>5, <2>6 DEF AgentInv, IncidentOK, ShadowOK, Born
  <1> QED
    BY <1>1, <1>2, <1>3, <1>4 DEF AgentInv, IncidentOK

LEMMA Fresh0 ==
    /\ NewCorrelator \in CorrelatorStates
    /\ NewCorrelator.tracked = {}
    /\ \A p \in Procs : NewCorrelator.suspicious[p] = {} /\ NewCorrelator.latched[p] = {}
    /\ \A i \in Pids : NewCorrelator.pidIndex[i] = None
    /\ Armed(NewCorrelator) = {}
  BY DEF NewCorrelator, CorrelatorStates, Armed

LEMMA RestartKeeps ==
    ASSUME HostInv, AgentInv, Restart PROVE HostInv' /\ AgentInv'
  <1>1. /\ corr' = NewCorrelator /\ incident' = None /\ shadow' = None
        /\ UNCHANGED <<now, os, log, lines, lost, acted>>
        /\ truth' = [truth EXCEPT !.heard = NoTruth.heard, !.armed = {}, !.reported = {}]
    BY DEF Restart
  <1>2. HostInv' /\ Keeps
    BY <1>1, NothingSaid DEF HostInv, HostOK
  <1>3. CorrOK'
    BY <1>1, Fresh0 DEF CorrOK
  <1>4. TruthOK'
    <2>1. NoTruth.heard \in [Procs -> Nat]
      BY DEF NoTruth
    <2>2. truth \in Truths
      BY DEF AgentInv, TruthOK
    <2>3. PICK h : h = NoTruth.heard
      OBVIOUS
    <2>4. /\ truth'.armed = {} /\ truth'.crowded = truth.crowded /\ truth'.missed = truth.missed
          /\ truth' \in Truths
      BY <1>1, <2>1, <2>2, <2>3 DEF Truths
    <2>5. Knows => Knows'
      BY <1>1, <2>4, Fresh0 DEF Knows
    <2> QED
      BY <2>4, <2>5 DEF AgentInv, TruthOK
  <1>5. LoadersOK'
    <2>1. truth'.loaders = truth.loaders
      BY <1>1 DEF AgentInv, TruthOK, Truths
    <2> QED
      BY <1>1, <2>1, Fresh0 DEF AgentInv, LoadersOK, Born, Waiting
  <1> QED
    BY <1>1, <1>2, <1>3, <1>4, <1>5 DEF AgentInv, IncidentOK, ShadowOK

LEMMA InvInit == Init => HostInv /\ AgentInv
  <1> SUFFICES ASSUME Init PROVE HostInv /\ AgentInv
    OBVIOUS
  <1>1. /\ now = 0 /\ os = [p \in Procs |-> Unborn] /\ log = <<>> /\ corr = NewCorrelator
        /\ incident = None /\ shadow = None /\ truth = NoTruth
    BY DEF Init
  <1>2. \A p \in Procs : os[p].life = "unborn"
    BY <1>1 DEF Unborn
  <1>3. Waiting = {}
    BY <1>1 DEF Waiting
  <1>4. HostInv
    <2>1. Unborn \in Processes
      BY DEF Unborn, Processes
    <2>2. log \in Seq(Events) /\ os \in [Procs -> Processes]
      BY <1>1, <2>1
    <2> QED
      BY <1>1, <1>2, <1>3, <2>2 DEF HostInv, HostOK, Live, Born
  <1>5. CorrOK
    BY <1>1, Fresh0 DEF CorrOK
  <1>6. TruthOK
    <2>1. truth \in Truths
      BY <1>1 DEF NoTruth, Truths
    <2>2. ~truth.missed /\ truth.armed = {}
      BY <1>1 DEF NoTruth
    <2> QED
      BY <1>1, <2>1, <2>2, Fresh0 DEF TruthOK, Knows
  <1>7. LoadersOK
    BY <1>1 DEF NoTruth, LoadersOK
  <1> QED
    BY <1>1, <1>4, <1>5, <1>6, <1>7 DEF AgentInv, IncidentOK, ShadowOK

LEMMA InvNext == HostInv /\ AgentInv /\ [Next]_vars => HostInv' /\ AgentInv'
  <1> SUFFICES ASSUME HostInv, AgentInv, [Next]_vars PROVE HostInv' /\ AgentInv'
    OBVIOUS
  <1>1. CASE HostStep
    <2>1. HostInv' /\ Keeps
      BY <1>1, HostStepKeeps
    <2>2. UNCHANGED <<corr, incident, origin, shadow, truth>>
      BY <1>1 DEF HostStep, Spawn, Fork, ReExec, LoadBPF, Exit, Connect, LoseLine, Tick, agent
    <2> QED
      BY <2>1, <2>2, AgentKept
  <1>2. CASE Correlate
    BY <1>2, CorrelateKeeps
  <1>3. CASE Decide
    BY <1>3, DecideKeeps
  <1>4. CASE Restart
    BY <1>4, RestartKeeps
  <1>5. CASE UNCHANGED vars
    <2>1. UNCHANGED <<now, os, log, lost, corr, incident, origin, shadow, truth>>
      BY <1>5 DEF vars
    <2>2. HostInv' /\ Keeps
      BY <2>1, NothingSaid DEF HostInv, HostOK
    <2> QED
      BY <2>1, <2>2, AgentKept
  <1> QED
    BY <1>1, <1>2, <1>3, <1>4, <1>5 DEF Next

LEMMA InvAlways == Spec => [](HostInv /\ AgentInv)
  BY InvInit, InvNext, PTL DEF Spec

\* However the host forks, execs again, exits and reuses pids, and however the log
\* lags and is rotated away, the correlator misses the first connection of no
\* process it has reason to suspect, as long as the suspicious processes fit.
THEOREM NeverMissed == Spec => []NoMissedIncident
  <1>1. HostInv /\ AgentInv => NoMissedIncident
    BY DEF AgentInv, TruthOK, Knows, NoMissedIncident
  <1> QED
    BY <1>1, InvAlways, PTL

\* An incident is about another process than the one that connected only when the
\* pid index answered, and a line about that pid was lost unread.
THEOREM RightProcess == Spec => []WrongOnlyAfterLoss
  <1>1. HostInv /\ AgentInv => WrongOnlyAfterLoss
    BY DEF AgentInv, IncidentOK, WrongOnlyAfterLoss
  <1> QED
    BY <1>1, InvAlways, PTL

\* A shadow decision names the task that connected, unless the pid had changed
\* hands before the correlator asked for its start time.
THEOREM RightTask == Spec => []TaskIsConnectorsUnlessHandedOver
  <1>1. HostInv /\ AgentInv => TaskIsConnectorsUnlessHandedOver
    BY DEF AgentInv, ShadowOK, TaskIsConnectorsUnlessHandedOver
  <1> QED
    BY <1>1, InvAlways, PTL

\* No process seen to load an eBPF program is ever a quarantine target.
THEOREM LoadersSpared == Spec => []LoaderNeverTargeted
  <1>1. HostInv /\ AgentInv => LoaderNeverTargeted
    BY DEF AgentInv, ShadowOK, LoaderNeverTargeted
  <1> QED
    BY <1>1, InvAlways, PTL

-----------------------------------------------------------------------------
(* The budget.                                                              *)

\* A decision leaves at most one trace in the window, of a key it never held.
Emitted(b, key, t, d) ==
    /\ IsBridge(d.bridge)
    /\ \/ /\ d.emitted # "shadow"
          /\ d.bridge.dedup = b.dedup
          /\ d.bridge.rate = b.rate \/ d.bridge.rate = InWindow(b.rate, t)
       \/ /\ d.emitted = "shadow"
          /\ key \notin b.dedup
          /\ ~OverBudget(InWindow(b.rate, t))
          /\ d.bridge.dedup = b.dedup \cup {key}
          /\ d.bridge.rate = InWindow(b.rate, t) \cup {[key |-> key, at |-> t]}

LEMMA EmitIs ==
    ASSUME NEW b, IsBridge(b), NEW inc, NEW target, NEW t, NEW disarmed
    PROVE  Emitted(b, DedupKey(inc), t, Consider(b, inc, target, t, disarmed))
  <1>1. PICK p : p = [b EXCEPT !.rate = InWindow(@, t)]
    OBVIOUS
  <1>2. PICK key : key = DedupKey(inc)
    OBVIOUS
  <1>3. PICK w : w = InWindow(b.rate, t)
    OBVIOUS
  <1>4. p = [dedup |-> b.dedup, rate |-> w,
             throttled |-> b.throttled, lastThrottle |-> b.lastThrottle]
    BY <1>1, <1>3 DEF IsBridge
  <1>5. PICK d : d = Consider(b, inc, target, t, disarmed)
    OBVIOUS
  <1>6. \/ d = [bridge |-> b, emitted |-> "nothing"]
        \/ d = Emit(b, inc, t, disarmed)
    BY <1>5 DEF Consider
  <1>7. \/ d = [bridge |-> b, emitted |-> "nothing"]
        \/ d = [bridge |-> p, emitted |-> "nothing"]
        \/ d = [bridge |-> [p EXCEPT !.throttled = TRUE, !.lastThrottle = t],
                emitted |-> "throttled"]
        \/ /\ key \notin b.dedup /\ ~OverBudget(p.rate)
           /\ d = [bridge |-> [p EXCEPT !.rate = @ \cup {[key |-> key, at |-> t]},
                                        !.dedup = @ \cup {key},
                                        !.throttled = FALSE],
                   emitted |-> "shadow"]
    BY <1>1, <1>2, <1>6 DEF Emit
  <1>8. CASE d = [bridge |-> b, emitted |-> "nothing"]
    BY <1>2, <1>5, <1>8 DEF Emitted
  <1>9. CASE d = [bridge |-> p, emitted |-> "nothing"]
    BY <1>2, <1>3, <1>4, <1>5, <1>9 DEF Emitted, IsBridge
  <1>10. CASE d = [bridge |-> [p EXCEPT !.throttled = TRUE, !.lastThrottle = t],
                   emitted |-> "throttled"]
    <2>1. d.bridge = [dedup |-> b.dedup, rate |-> w, throttled |-> TRUE, lastThrottle |-> t]
      BY <1>4, <1>10
    <2> QED
      <3>1. d.emitted # "shadow"
        BY <1>10
      <3>2. /\ IsBridge(d.bridge)
            /\ d.bridge.dedup = b.dedup /\ d.bridge.rate = InWindow(b.rate, t)
        BY <1>3, <2>1 DEF IsBridge
      <3> QED
        BY <1>2, <1>5, <3>1, <3>2 DEF Emitted
  <1>11. CASE /\ key \notin b.dedup /\ ~OverBudget(p.rate)
              /\ d = [bridge |-> [p EXCEPT !.rate = @ \cup {[key |-> key, at |-> t]},
                                           !.dedup = @ \cup {key},
                                           !.throttled = FALSE],
                      emitted |-> "shadow"]
    <2>1. d.bridge = [dedup |-> b.dedup \cup {key}, rate |-> w \cup {[key |-> key, at |-> t]},
                      throttled |-> FALSE, lastThrottle |-> b.lastThrottle]
      BY <1>4, <1>11
    <2>2. ~OverBudget(w)
      BY <1>4, <1>11
    <2> QED
      <3>1. d.emitted = "shadow"
        BY <1>11
      <3>2. /\ IsBridge(d.bridge)
            /\ d.bridge.dedup = b.dedup \cup {key}
            /\ d.bridge.rate = InWindow(b.rate, t) \cup {[key |-> key, at |-> t]}
        BY <1>3, <2>1 DEF IsBridge
      <3>3. key \notin b.dedup /\ ~OverBudget(InWindow(b.rate, t))
        BY <1>3, <1>11, <2>2
      <3> QED
        BY <1>2, <1>5, <3>1, <3>2, <3>3 DEF Emitted
  <1> QED
    BY <1>7, <1>8, <1>9, <1>10, <1>11

LEMMA WindowOf ==
    ASSUME NEW rate, IsFiniteSet(rate), NEW t
    PROVE  /\ IsFiniteSet(InWindow(rate, t))
           /\ Cardinality(InWindow(rate, t)) \in Nat /\ Cardinality(rate) \in Nat
           /\ Cardinality(InWindow(rate, t)) <= Cardinality(rate)
  <1>1. PICK w : w = InWindow(rate, t)
    OBVIOUS
  <1>2. w \subseteq rate
    BY <1>1 DEF InWindow
  <1>3. IsFiniteSet(w) /\ Cardinality(w) <= Cardinality(rate)
    BY <1>2, FS_Subset
  <1> QED
    BY <1>1, <1>3, FS_CardinalityType

BudgetInv == now \in Nat /\ BridgeOK /\ BudgetOK

LEMMA BudgetInit == Init => BudgetInv
  <1> SUFFICES ASSUME Init PROVE BudgetInv
    OBVIOUS
  <1>1. now = 0 /\ bridge = NewBridge /\ acted = {} /\ starts = 1
    BY DEF Init
  <1>2. bridge.rate = {} /\ IsBridge(bridge)
    BY <1>1 DEF NewBridge, IsBridge
  <1>3. IsFiniteSet({}) /\ Cardinality({}) = 0
    BY FS_EmptySet
  <1>4. BridgeOK
    BY <1>2, <1>3, BridgeAssumption DEF BridgeOK
  <1>5. \A t : ActedIn(t) = {} /\ InWindow(bridge.rate, t) = {}
    BY <1>1, <1>2 DEF ActedIn, InWindow
  <1>6. RateMax * (starts - 1) = 0
    BY <1>1, BridgeAssumption
  <1> QED
    BY <1>1, <1>3, <1>4, <1>5, <1>6 DEF BudgetInv, BudgetOK

\* While agentd runs, the decisions in any later window grow only as its own
\* window does.
LEMMA BudgetDecide ==
    ASSUME BudgetInv, Decide PROVE BudgetInv'
  <1>1. /\ now \in Nat /\ UNCHANGED <<now, starts>> /\ starts \in Nat \ {0}
        /\ IsBridge(bridge) /\ IsFiniteSet(bridge.rate)
        /\ Cardinality(bridge.rate) <= RateMax
        /\ \A x \in bridge.rate : x.at \in Nat /\ x.key \in bridge.dedup
        /\ IsFiniteSet(acted) /\ \A a \in acted : a.at \in Nat
    BY DEF BudgetInv, BridgeOK, BudgetOK, Decide
  <1>2. PICK disarmed \in BOOLEAN :
           LET d == Consider(bridge, incident, ProcInfo(incident.pid), now, disarmed) IN
           /\ bridge' = d.bridge
           /\ acted' = IF d.emitted = "shadow"
                       THEN acted \cup {[proc |-> origin.proc, dst |-> incident.dst, at |-> now]}
                       ELSE acted
    BY DEF Decide
  <1>3. PICK d, key : /\ d = Consider(bridge, incident, ProcInfo(incident.pid), now, disarmed)
                      /\ key = DedupKey(incident)
    OBVIOUS
  <1>4. Emitted(bridge, key, now, d)
    BY <1>1, <1>3, EmitIs
  <1>5. /\ bridge' = d.bridge
        /\ acted' = IF d.emitted = "shadow"
                    THEN acted \cup {[proc |-> origin.proc, dst |-> incident.dst, at |-> now]}
                    ELSE acted
    BY <1>2, <1>3
  <1>6. PICK w : w = InWindow(bridge.rate, now)
    OBVIOUS
  <1>7. /\ IsFiniteSet(w) /\ Cardinality(w) \in Nat /\ Cardinality(w) <= RateMax
        /\ w \subseteq bridge.rate
    <2>1. Cardinality(w) <= Cardinality(bridge.rate) /\ Cardinality(bridge.rate) \in Nat
          /\ IsFiniteSet(w) /\ Cardinality(w) \in Nat
      BY <1>1, <1>6, WindowOf
    <2> QED
      BY <1>1, <1>6, <2>1, BridgeAssumption DEF InWindow
  <1>8. ASSUME NEW t \in Nat, t >= now
        PROVE  /\ InWindow(w, t) = InWindow(bridge.rate, t)
               /\ Cardinality(ActedIn(t)) <=
                     Cardinality(InWindow(bridge.rate, t)) + RateMax * (starts - 1)
    <2>1. \A x \in bridge.rate : x.at + RateWindow > t => x.at + RateWindow > now
      BY <1>1, <1>8, BridgeAssumption
    <2>2. InWindow(w, t) = InWindow(bridge.rate, t)
      BY <1>6, <2>1 DEF InWindow
    <2> QED
      BY <1>8, <2>2 DEF BudgetInv, BudgetOK
  <1>9. CASE d.emitted # "shadow"
    <2>1. /\ IsBridge(bridge') /\ bridge'.dedup = bridge.dedup
          /\ bridge'.rate = bridge.rate \/ bridge'.rate = w
          /\ acted' = acted
      BY <1>4, <1>5, <1>6, <1>9 DEF Emitted
    <2>2. BridgeOK'
      BY <1>1, <1>7, <2>1 DEF BridgeOK
    <2>3. ASSUME NEW t \in Nat, t >= now'
          PROVE  Cardinality(ActedIn(t)') <=
                    Cardinality(InWindow(bridge'.rate, t)) + RateMax * (starts' - 1)
      <3>1. InWindow(bridge'.rate, t) = InWindow(bridge.rate, t)
        BY <1>1, <1>8, <2>1, <2>3
      <3>2. ActedIn(t)' = ActedIn(t)
        BY <2>1 DEF ActedIn
      <3> QED
        BY <1>1, <1>8, <2>3, <3>1, <3>2
    <2> QED
      BY <1>1, <2>1, <2>2, <2>3 DEF BudgetInv, BudgetOK
  <1>10. CASE d.emitted = "shadow"
    <2>1. PICK x, a : /\ x = [key |-> key, at |-> now]
                      /\ a = [proc |-> origin.proc, dst |-> incident.dst, at |-> now]
      OBVIOUS
    <2>2. /\ IsBridge(bridge') /\ bridge'.dedup = bridge.dedup \cup {key}
          /\ bridge'.rate = w \cup {x}
          /\ acted' = acted \cup {a}
          /\ key \notin bridge.dedup /\ ~(Cardinality(w) >= RateMax)
      BY <1>4, <1>5, <1>6, <1>10, <2>1 DEF Emitted, OverBudget
    <2>3. x \notin bridge.rate /\ x.at = now /\ x.key = key /\ a.at = now
      BY <1>1, <2>1, <2>2
    <2>4. BridgeOK'
      <3>1. IsFiniteSet(w \cup {x}) /\ Cardinality(w \cup {x}) = Cardinality(w) + 1
        BY <1>7, <2>3, FS_AddElement
      <3>2. Cardinality(w \cup {x}) <= RateMax
        BY <1>7, <2>2, <3>1, BridgeAssumption
      <3> QED
        BY <1>1, <1>7, <2>2, <2>3, <3>1, <3>2 DEF BridgeOK
    <2>5. ASSUME NEW t \in Nat, t >= now'
          PROVE  Cardinality(ActedIn(t)') <=
                    Cardinality(InWindow(bridge'.rate, t)) + RateMax * (starts' - 1)
      <3>1. PICK A, R, m : /\ A = ActedIn(t) /\ R = InWindow(bridge.rate, t)
                           /\ m = RateMax * (starts - 1)
        OBVIOUS
      <3>2. /\ IsFiniteSet(A) /\ Cardinality(A) \in Nat
            /\ IsFiniteSet(R) /\ Cardinality(R) \in Nat /\ R \subseteq bridge.rate
        <4>1. A \subseteq acted
          BY <3>1 DEF ActedIn
        <4>2. IsFiniteSet(A)
          BY <1>1, <4>1, FS_Subset
        <4>3. R \subseteq bridge.rate
          BY <3>1 DEF InWindow
        <4> QED
          BY <1>1, <3>1, <4>2, <4>3, WindowOf, FS_CardinalityType
      <3>3. Cardinality(A) <= Cardinality(R) + m /\ m \in Nat
        BY <1>1, <1>8, <2>5, <3>1, BridgeAssumption
      <3>4. CASE now + RateWindow > t
        <4>1. ActedIn(t)' = A \cup {a}
          BY <2>2, <2>3, <3>1, <3>4 DEF ActedIn
        <4>2. InWindow(bridge'.rate, t) = R \cup {x}
          <5>1. InWindow(w \cup {x}, t) = InWindow(w, t) \cup {x}
            BY <2>3, <3>4 DEF InWindow
          <5> QED
            BY <1>1, <1>8, <2>2, <2>5, <3>1, <5>1
        <4>3. Cardinality(R \cup {x}) = Cardinality(R) + 1
          BY <2>3, <3>2, FS_AddElement
        <4>4. Cardinality(A \cup {a}) <= Cardinality(A) + 1 /\ Cardinality(A \cup {a}) \in Nat
          <5>1. CASE a \in A
            <6>1. A \cup {a} = A
              BY <5>1
            <6>2. \A n \in Nat : n <= n + 1
              OBVIOUS
            <6> QED
              BY <3>2, <6>1, <6>2
          <5>2. CASE a \notin A
            <6>1. Cardinality(A \cup {a}) = Cardinality(A) + 1
              BY <3>2, <5>2, FS_AddElement
            <6>2. \A n \in Nat : n + 1 <= n + 1 /\ n + 1 \in Nat
              OBVIOUS
            <6> QED
              BY <3>2, <6>1, <6>2
          <5> QED
            BY <5>1, <5>2
        <4> QED
          BY <1>1, <3>1, <3>2, <3>3, <4>1, <4>2, <4>3, <4>4
      <3>5. CASE ~(now + RateWindow > t)
        <4>1. ActedIn(t)' = A
          BY <2>2, <2>3, <3>1, <3>5 DEF ActedIn
        <4>2. InWindow(bridge'.rate, t) = R
          <5>1. InWindow(w \cup {x}, t) = InWindow(w, t)
            BY <2>3, <3>5 DEF InWindow
          <5> QED
            BY <1>1, <1>8, <2>2, <2>5, <3>1, <5>1
        <4> QED
          BY <1>1, <3>1, <3>3, <4>1, <4>2
      <3> QED
        BY <3>4, <3>5
    <2>6. IsFiniteSet(acted') /\ \A b \in acted' : b.at \in Nat
      BY <1>1, <2>2, <2>3, FS_AddElement
    <2> QED
      BY <1>1, <2>4, <2>5, <2>6 DEF BudgetInv, BudgetOK
  <1> QED
    BY <1>9, <1>10

\* What a start of agentd forgets of its window, the next may spend again.
LEMMA BudgetRestart ==
    ASSUME BudgetInv, Restart PROVE BudgetInv'
  <1>1. /\ now \in Nat /\ UNCHANGED <<now, acted>> /\ starts \in Nat \ {0}
        /\ starts' = starts + 1 /\ bridge' = NewBridge
        /\ IsFiniteSet(bridge.rate) /\ Cardinality(bridge.rate) <= RateMax
    BY DEF BudgetInv, BridgeOK, BudgetOK, Restart
  <1>2. bridge'.rate = {} /\ IsBridge(bridge')
    BY <1>1 DEF NewBridge, IsBridge
  <1>3. IsFiniteSet({}) /\ Cardinality({}) = 0
    BY FS_EmptySet
  <1>4. BridgeOK'
    BY <1>2, <1>3, BridgeAssumption DEF BridgeOK
  <1>5. ASSUME NEW t \in Nat, t >= now'
        PROVE  Cardinality(ActedIn(t)') <=
                  Cardinality(InWindow(bridge'.rate, t)) + RateMax * (starts' - 1)
    <2>1. PICK A, R : A = ActedIn(t) /\ R = InWindow(bridge.rate, t)
      OBVIOUS
    <2>2. /\ Cardinality(R) \in Nat /\ Cardinality(R) <= RateMax
      BY <1>1, <2>1, WindowOf, BridgeAssumption
    <2>3. Cardinality(A) <= Cardinality(R) + RateMax * (starts - 1)
      BY <1>1, <1>5, <2>1 DEF BudgetInv, BudgetOK
    <2>4. IsFiniteSet(A) /\ Cardinality(A) \in Nat
      <3>1. A \subseteq acted /\ IsFiniteSet(acted)
        BY <2>1 DEF ActedIn, BudgetInv, BudgetOK
      <3> QED
        BY <3>1, FS_Subset, FS_CardinalityType
    <2>5. RateMax * (starts' - 1) = RateMax + RateMax * (starts - 1)
      BY <1>1, BridgeAssumption
    <2>6. PICK m \in Nat : m = RateMax * (starts - 1)
      BY <1>1, BridgeAssumption
    <2>7. InWindow(bridge'.rate, t) = {} /\ ActedIn(t)' = A
      BY <1>1, <1>2, <2>1 DEF InWindow, ActedIn
    <2>8. Cardinality(A) <= 0 + (RateMax + m)
      BY <2>2, <2>3, <2>4, <2>6, BridgeAssumption
    <2> QED
      BY <1>3, <2>5, <2>6, <2>7, <2>8
  <1> QED
    BY <1>1, <1>4, <1>5 DEF BudgetInv, BudgetOK

LEMMA BudgetNext == BudgetInv /\ [Next]_vars => BudgetInv'
  <1> SUFFICES ASSUME BudgetInv, [Next]_vars PROVE BudgetInv'
    OBVIOUS
  <1>1. ASSUME UNCHANGED <<bridge, starts, acted>>, now' \in Nat, now' >= now
        PROVE  BudgetInv'
    <2>1. \A t : ActedIn(t)' = ActedIn(t)
      BY <1>1 DEF ActedIn
    <2>2. \A t \in Nat : t >= now' => t >= now
      BY <1>1 DEF BudgetInv
    <2> QED
      BY <1>1, <2>1, <2>2 DEF BudgetInv, BridgeOK, BudgetOK
  <1>2. CASE HostStep
    <2>1. UNCHANGED <<bridge, starts, acted>>
      BY <1>2 DEF HostStep, Spawn, Fork, ReExec, LoadBPF, Exit, Connect, LoseLine, Tick, agent
    <2>2. now' = now \/ now' = now + 1
      BY <1>2 DEF HostStep, Spawn, Fork, ReExec, LoadBPF, Exit, Connect, LoseLine, Tick
    <2>3. now \in Nat
      BY DEF BudgetInv
    <2> QED
      BY <1>1, <2>1, <2>2, <2>3
  <1>3. CASE Correlate
    BY <1>1, <1>3 DEF Correlate, BudgetInv
  <1>4. CASE Decide
    BY <1>4, BudgetDecide
  <1>5. CASE Restart
    BY <1>5, BudgetRestart
  <1>6. CASE UNCHANGED vars
    BY <1>1, <1>6 DEF vars, BudgetInv
  <1> QED
    BY <1>2, <1>3, <1>4, <1>5, <1>6 DEF Next

\* No window holds more shadow decisions than one budget for each start of agentd.
THEOREM WithinBudget == Spec => []BudgetHolds
  <1>1. BudgetInv => BudgetHolds
    <2> SUFFICES ASSUME BudgetInv PROVE BudgetHolds
      OBVIOUS
    <2>1. /\ now \in Nat /\ starts \in Nat \ {0} /\ IsFiniteSet(bridge.rate)
          /\ Cardinality(bridge.rate) <= RateMax /\ IsFiniteSet(acted)
      BY DEF BudgetInv, BridgeOK, BudgetOK
    <2>2. PICK A, R : A = ActedIn(now) /\ R = InWindow(bridge.rate, now)
      OBVIOUS
    <2>3. Cardinality(R) \in Nat /\ Cardinality(R) <= RateMax
      BY <2>1, <2>2, WindowOf, BridgeAssumption
    <2>4. Cardinality(A) <= Cardinality(R) + RateMax * (starts - 1)
      BY <2>1, <2>2 DEF BudgetInv, BudgetOK
    <2>5. IsFiniteSet(A) /\ Cardinality(A) \in Nat
      <3>1. A \subseteq acted
        BY <2>2 DEF ActedIn
      <3> QED
        BY <2>1, <3>1, FS_Subset, FS_CardinalityType
    <2>6. RateMax * starts = RateMax + RateMax * (starts - 1)
      BY <2>1, BridgeAssumption
    <2>7. PICK m \in Nat : m = RateMax * (starts - 1)
      BY <2>1, BridgeAssumption
    <2>8. Cardinality(A) <= RateMax + m
      BY <2>3, <2>4, <2>5, <2>7, BridgeAssumption
    <2> QED
      BY <2>2, <2>6, <2>7, <2>8 DEF BudgetHolds, ActedIn
  <1> QED
    BY <1>1, BudgetInit, BudgetNext, PTL DEF Spec

-----------------------------------------------------------------------------
(* The type invariant: the root of a lineage.                               *)

LEMMA LeastOf ==
    ASSUME NEW S, S \subseteq Nat, S # {}
    PROVE  \E s \in S : \A t \in S : s <= t
  <1>1. PICK s \in S : \A t \in S : ~(<<t, s>> \in OpToRel(<, Nat))
    BY NatLessThanWellFounded, WFMin
  <1>2. \A m, n \in Nat : m < n => <<m, n>> \in OpToRel(<, Nat)
    BY DEF OpToRel
  <1>3. ASSUME NEW t \in S PROVE s <= t
    <2>1. s \in Nat /\ t \in Nat /\ ~(t < s)
      BY <1>1, <1>2
    <2> QED
      BY <2>1
  <1> QED
    BY <1>3

\* What lineage walks through, n steps up.
Walks(w, c, p, n) == w = [k \in 0 .. n |-> IF k = 0 THEN p ELSE Up(c, w[k - 1])]

LEMMA UpIs ==
    ASSUME NEW c \in CorrelatorStates, NEW q \in Procs
    PROVE  Up(c, q) \in Procs
  BY DEF Up, CorrelatorStates

\* There is such a walk: one that stops short of the first number of steps with none goes on.
LEMMA WalkExists ==
    ASSUME NEW c, NEW p, NEW n \in Nat
    PROVE  \E w : Walks(w, c, p, n)
  <1>1. PICK S : S = {m \in Nat : ~\E w : Walks(w, c, p, m)}
    OBVIOUS
  <1>2. SUFFICES ASSUME S # {} PROVE FALSE
    BY <1>1
  <1>3. PICK m \in S : \A k \in S : m <= k
    BY <1>1, <1>2, LeastOf
  <1>4. m \in Nat /\ ~\E w : Walks(w, c, p, m)
    BY <1>1
  <1>5. CASE m = 0
    <2>1. PICK w : w = [k \in 0 .. 0 |-> p]
      OBVIOUS
    <2>2. w = [k \in 0 .. 0 |-> IF k = 0 THEN p ELSE Up(c, w[k - 1])]
      BY <2>1
    <2> QED
      BY <1>4, <1>5, <2>2 DEF Walks
  <1>6. CASE m # 0
    <2>1. m - 1 \in Nat /\ ~(m <= m - 1)
      BY <1>4, <1>6
    <2>2. PICK v : Walks(v, c, p, m - 1)
      BY <1>1, <1>3, <2>1
    <2>3. PICK w : w = [k \in 0 .. m |-> IF k = 0 THEN p ELSE Up(c, v[k - 1])]
      OBVIOUS
    <2>4. ASSUME NEW k \in 0 .. m - 1 PROVE w[k] = v[k]
      <3>1. k \in 0 .. m
        BY <1>4, <2>4
      <3> QED
        BY <2>2, <2>3, <2>4, <3>1 DEF Walks
    <2>5. ASSUME NEW k \in 0 .. m
          PROVE  (IF k = 0 THEN p ELSE Up(c, v[k - 1])) = (IF k = 0 THEN p ELSE Up(c, w[k - 1]))
      <3>1. CASE k # 0
        <4>1. k - 1 \in 0 .. m - 1
          BY <1>4, <2>5, <3>1
        <4> QED
          BY <2>4, <4>1
      <3> QED
        BY <3>1
    <2>6. w = [k \in 0 .. m |-> IF k = 0 THEN p ELSE Up(c, w[k - 1])]
      BY <2>3, <2>5
    <2> QED
      BY <1>4, <2>6 DEF Walks
  <1> QED
    BY <1>5, <1>6

\* Every step of a walk from a process is a process: the first that is not would come after one.
LEMMA WalkIs ==
    ASSUME NEW c \in CorrelatorStates, NEW p \in Procs, NEW n \in Nat, NEW w, Walks(w, c, p, n)
    PROVE  \A k \in 0 .. n : w[k] \in Procs
  <1>1. PICK S : S = {k \in 0 .. n : w[k] \notin Procs}
    OBVIOUS
  <1>2. SUFFICES ASSUME S # {} PROVE FALSE
    BY <1>1
  <1>3. S \subseteq Nat
    BY <1>1
  <1>4. PICK k \in S : \A j \in S : k <= j
    BY <1>2, <1>3, LeastOf
  <1>5. k \in 0 .. n /\ w[k] \notin Procs /\ k \in Nat
    BY <1>1, <1>3
  <1>6. k # 0
    BY <1>5 DEF Walks
  <1>7. k - 1 \in 0 .. n /\ ~(k <= k - 1)
    BY <1>5, <1>6
  <1>8. w[k - 1] \in Procs
    BY <1>1, <1>4, <1>7
  <1>9. w[k] = Up(c, w[k - 1])
    BY <1>5, <1>6 DEF Walks
  <1> QED
    BY <1>5, <1>8, <1>9, UpIs

LEMMA RootIs ==
    ASSUME NEW c \in CorrelatorStates, NEW p \in Procs
    PROVE  LineageRoot(c, p) \in Procs \cup {None}
  <1>1. PICK n \in Nat : n = LineageDepth - 1
    BY CorrelatorAssumption
  <1>2. PICK w : w = Ancestry(c, p)
    OBVIOUS
  <1>3. w = CHOOSE v : v = [k \in 0 .. n |-> IF k = 0 THEN p ELSE Up(c, v[k - 1])]
    BY <1>1, <1>2 DEF Ancestry
  <1>4. w = CHOOSE v : Walks(v, c, p, n)
    BY <1>3 DEF Walks
  <1>5. Walks(w, c, p, n)
    BY <1>4, WalkExists
  <1>6. w[n] \in Procs
    BY <1>5, WalkIs
  <1> QED
    BY <1>1, <1>2, <1>6 DEF LineageRoot

-----------------------------------------------------------------------------
(* The type invariant: the caps and the kinds.                              *)

\* The correlator tracks no more than MaxProcs processes and latches no more than MaxDsts
\* destinations of one.
Capped(c) ==
    /\ Cardinality(c.tracked) <= MaxProcs
    /\ \A p \in Procs : IsFiniteSet(c.latched[p]) /\ Cardinality(c.latched[p]) <= MaxDsts

KindInv ==
    /\ lines \in 0 .. MaxLines /\ Len(log) <= MaxLog
    /\ Capped(corr)
    /\ bridge \in BridgeStates
    /\ \/ incident = None /\ origin = None
       \/ incident \in Incidents /\ origin \in Origins
    /\ shadow = None \/ shadow \in Shadows
    /\ starts \in 1 .. MaxStarts
    /\ acted \subseteq [proc: Procs, dst: Dsts, at: Nat]

LEMMA TrackedFinite ==
    ASSUME NEW c \in CorrelatorStates
    PROVE  IsFiniteSet(c.tracked) /\ Cardinality(c.tracked) \in Nat
  <1>1. c.tracked \subseteq Procs
    BY DEF CorrelatorStates
  <1> QED
    BY <1>1, CorrelatorAssumption, FS_Subset, FS_CardinalityType

LEMMA ForgetFits ==
    ASSUME NEW c \in CorrelatorStates, NEW S \in SUBSET Procs, Capped(c), NEW d, Forgot(c, S, d)
    PROVE  Capped(d)
  <1>1. d.tracked \subseteq c.tracked /\ \A p \in Procs : d.latched[p] \in {{}, c.latched[p]}
    BY DEF Forgot
  <1>2. /\ Cardinality(c.tracked) \in Nat /\ Cardinality(d.tracked) \in Nat
        /\ Cardinality(d.tracked) <= Cardinality(c.tracked)
    BY <1>1, TrackedFinite, FS_Subset DEF Forgot
  <1>3. IsFiniteSet({}) /\ Cardinality({}) <= MaxDsts
    BY FS_EmptySet, CorrelatorAssumption
  <1>4. Cardinality(d.tracked) <= MaxProcs
    BY <1>2, CorrelatorAssumption DEF Capped
  <1> QED
    BY <1>1, <1>3, <1>4 DEF Capped

\* Admit makes room before track adds a process.
LEMMA ProcessedFits ==
    ASSUME NEW c \in CorrelatorStates, Capped(c), NEW ev \in Events, NEW t \in Nat,
           NEW d \in Processed(c, ev, t)
    PROVE  Capped(d)
  <1>1. PICK S \in SUBSET Procs : S = {p \in c.tracked : Idle(c, p, t)}
    BY DEF CorrelatorStates
  <1>2. PICK e : e = Forget(c, S)
    OBVIOUS
  <1>3. Forgot(c, S, e)
    BY <1>2, ForgetIs
  <1>4. e \in CorrelatorStates /\ Capped(e)
    BY <1>3, ForgetFits DEF Forgot
  <1>5. \E x \in Track(e, ev, t) : d = Arm(x, ev)
    BY <1>1, <1>2 DEF Processed, EvictExpired
  <1>6. CASE ~ev.hasId
    BY <1>4, <1>5, <1>6 DEF Track, Arm
  <1>7. CASE ev.hasId
    <2>1. PICK x \in (IF ev.proc \in e.tracked THEN {e} ELSE Admit(e)) :
             d = Arm(Index(Touch(x, ev, t), ev), ev)
      BY <1>5, <1>7 DEF Track
    <2>2. /\ x \in CorrelatorStates /\ Capped(x)
          /\ ev.proc \in x.tracked \/ Cardinality(x.tracked) < MaxProcs
      <3>1. CASE x = e /\ (ev.proc \in e.tracked \/ Cardinality(e.tracked) < MaxProcs)
        BY <1>4, <3>1
      <3>2. CASE ~(ev.proc \in e.tracked) /\ ~(Cardinality(e.tracked) < MaxProcs)
        <4>1. PICK v \in Victims(e) : x = Forget(e, {v})
          BY <2>1, <3>2 DEF Admit
        <4>2. v \in e.tracked /\ {v} \in SUBSET Procs
          BY <1>4, <4>1 DEF Victims, Oldest, Armed, CorrelatorStates
        <4>3. Forgot(e, {v}, x)
          BY <1>4, <4>1, <4>2, ForgetIs
        <4>4. x \in CorrelatorStates /\ Capped(x)
          BY <1>4, <4>2, <4>3, ForgetFits DEF Forgot
        <4>5. Cardinality(x.tracked) = Cardinality(e.tracked) - 1
          <5>1. PICK T : T = e.tracked
            OBVIOUS
          <5>2. IsFiniteSet(T) /\ v \in T /\ x.tracked = T \ {v}
            BY <1>4, <4>2, <4>3, <5>1, TrackedFinite DEF Forgot
          <5>3. Cardinality(T \ {v}) = Cardinality(T) - 1
            BY <5>2, FS_RemoveElement
          <5> QED
            BY <5>1, <5>2, <5>3
        <4>6. Cardinality(e.tracked) \in Nat /\ Cardinality(e.tracked) <= MaxProcs
          BY <1>4, TrackedFinite DEF Capped
        <4> QED
          BY <4>4, <4>5, <4>6, CorrelatorAssumption
      <3> QED
        BY <2>1, <3>1, <3>2 DEF Admit
    <2>3. Touched(x, ev, t, d)
      BY <1>7, <2>1, <2>2, TouchIs
    <2>4. d.tracked = x.tracked \cup {ev.proc} /\ \A p \in Procs : d.latched[p] = x.latched[p]
      BY <2>3 DEF Touched
    <2>5. Cardinality(d.tracked) <= MaxProcs
      <3>1. CASE ev.proc \in x.tracked
        <4>1. d.tracked = x.tracked
          BY <2>4, <3>1
        <4> QED
          BY <2>2, <4>1 DEF Capped
      <3>2. CASE ev.proc \notin x.tracked
        <4>1. Cardinality(d.tracked) = Cardinality(x.tracked) + 1
          <5>1. PICK T : T = x.tracked
            OBVIOUS
          <5>2. IsFiniteSet(T) /\ ev.proc \notin T /\ d.tracked = T \cup {ev.proc}
            BY <2>2, <2>4, <3>2, <5>1, TrackedFinite
          <5> QED
            BY <5>1, <5>2, FS_AddElement
        <4>2. Cardinality(x.tracked) \in Nat
          BY <2>2, TrackedFinite
        <4> QED
          BY <2>2, <3>2, <4>1, <4>2, CorrelatorAssumption
      <3> QED
        BY <3>1, <3>2
    <2> QED
      BY <2>2, <2>4, <2>5 DEF Capped
  <1> QED
    BY <1>6, <1>7

LEMMA LatchFits ==
    ASSUME NEW c \in CorrelatorStates, Capped(c), NEW p \in Procs, NEW dst \in Dsts
    PROVE  Capped(Latch(c, p, dst))
  <1>1. PICK d : d = Latch(c, p, dst)
    OBVIOUS
  <1>2. CASE d = c
    BY <1>1, <1>2
  <1>3. CASE Cardinality(c.latched[p]) < MaxDsts /\ d = [c EXCEPT !.latched[p] = @ \cup {dst}]
    <2>1. PICK L : L = c.latched[p]
      OBVIOUS
    <2>2. IsFiniteSet(L) /\ Cardinality(L) \in Nat /\ Cardinality(L) < MaxDsts
      BY <1>3, <2>1, FS_CardinalityType DEF Capped
    <2>3. IsFiniteSet(L \cup {dst}) /\ Cardinality(L \cup {dst}) <= MaxDsts
      <3>1. CASE dst \in L
        <4>1. L \cup {dst} = L
          BY <3>1
        <4> QED
          BY <2>2, <4>1, CorrelatorAssumption
      <3>2. CASE dst \notin L
        <4>1. IsFiniteSet(L \cup {dst}) /\ Cardinality(L \cup {dst}) = Cardinality(L) + 1
          BY <2>2, <3>2, FS_AddElement
        <4> QED
          BY <2>2, <4>1, CorrelatorAssumption
      <3> QED
        BY <3>1, <3>2
    <2>4. d.tracked = c.tracked /\ d.latched = [c.latched EXCEPT ![p] = @ \cup {dst}]
      BY <1>3 DEF CorrelatorStates
    <2>5. c.latched \in [Procs -> SUBSET Dsts]
      BY DEF CorrelatorStates
    <2>6. \A r \in Procs : d.latched[r] = IF r = p THEN L \cup {dst} ELSE c.latched[r]
      BY <2>1, <2>4, <2>5
    <2> QED
      BY <1>1, <2>3, <2>4, <2>6 DEF Capped
  <1> QED
    BY <1>1, <1>2, <1>3 DEF Latch

\* The live process at a pid, as /proc tells it.
LEMMA HolderIs ==
    ASSUME HostOK, NEW i
    PROVE  /\ StartTime(i) \in Procs \cup {None}
           /\ ProcInfo(i).live => ProcInfo(i).startTime \in Procs /\ ProcInfo(i).exe \in Procs
  <1>1. CASE Holder(i) = {}
    BY <1>1 DEF StartTime, ProcInfo
  <1>2. CASE Holder(i) # {}
    <2>1. PICK p : p = CHOOSE q \in Holder(i) : TRUE
      OBVIOUS
    <2>2. p \in Procs /\ Born(p)
      BY <1>2, <2>1 DEF Holder, Live, Born
    <2>3. os[p].task \in Procs /\ os[p].exe \in Procs
      BY <2>2 DEF HostOK
    <2> QED
      BY <1>2, <2>1, <2>3 DEF StartTime, ProcInfo
  <1> QED
    BY <1>1, <1>2

LEMMA BridgeKind ==
    ASSUME NEW b \in BridgeStates, NEW inc \in Incidents, NEW target, NEW t \in Nat, NEW disarmed
    PROVE  Consider(b, inc, target, t, disarmed).bridge \in BridgeStates
  <1>1. PICK key \in DedupKeys : key = DedupKey(inc)
    BY DEF DedupKey, DedupKeys, Incidents
  <1>2. PICK w : w = InWindow(b.rate, t)
    OBVIOUS
  <1>3. PICK p : p = [b EXCEPT !.rate = InWindow(@, t)]
    OBVIOUS
  <1>4. /\ b.dedup \in SUBSET DedupKeys /\ b.throttled \in BOOLEAN /\ b.lastThrottle \in Nat
        /\ w \in SUBSET [key: DedupKeys, at: Nat]
    BY <1>2 DEF BridgeStates, InWindow
  <1>5. p = [dedup |-> b.dedup, rate |-> w, throttled |-> b.throttled, lastThrottle |-> b.lastThrottle]
    BY <1>2, <1>3 DEF BridgeStates
  <1>6. p \in BridgeStates
    BY <1>4, <1>5 DEF BridgeStates
  <1>7. [p EXCEPT !.throttled = TRUE, !.lastThrottle = t] \in BridgeStates
    BY <1>6 DEF BridgeStates
  <1>8. [p EXCEPT !.rate = @ \cup {[key |-> key, at |-> t]}, !.dedup = @ \cup {key}, !.throttled = FALSE]
           \in BridgeStates
    <2>1. PICK R, D : R = w \cup {[key |-> key, at |-> t]} /\ D = b.dedup \cup {key}
      OBVIOUS
    <2>2. R \in SUBSET [key: DedupKeys, at: Nat] /\ D \in SUBSET DedupKeys
      BY <1>4, <2>1
    <2>3. p.rate = w /\ p.dedup = b.dedup
      BY <1>5
    <2>4. [p EXCEPT !.rate = @ \cup {[key |-> key, at |-> t]}, !.dedup = @ \cup {key}, !.throttled = FALSE]
             = [p EXCEPT !.rate = R, !.dedup = D, !.throttled = FALSE]
      BY <1>5, <2>1, <2>3
    <2>5. [p EXCEPT !.rate = R, !.dedup = D, !.throttled = FALSE] \in BridgeStates
      BY <1>6, <2>2 DEF BridgeStates
    <2> QED
      BY <2>4, <2>5
  <1> QED
    BY <1>1, <1>3, <1>6, <1>7, <1>8 DEF Consider, Emit

LEMMA KindCorrelate == ASSUME HostInv, AgentInv, KindInv, Correlate PROVE KindInv'
  <1>1. /\ log # <<>> /\ log' = Tail(log) /\ log \in Seq(Events) /\ incident = None
        /\ UNCHANGED <<now, os, lines, bridge, starts, acted>> /\ shadow' = None
        /\ now \in Nat /\ corr \in CorrelatorStates
    BY DEF Correlate, HostInv, HostOK, AgentInv, CorrOK
  <1>2. Len(log') <= MaxLog
    BY <1>1, DetectionAssumption DEF KindInv
  <1>3. PICK ev \in Events : ev = Head(log) /\ ev = log[1]
    BY <1>1
  <1>4. /\ ev.proc \in Procs /\ ev.image \in Procs /\ ev.pid \in Pids /\ ev.at \in Nat
        /\ ev.hasId \in BOOLEAN /\ (ev.kind = "connect" => ev.dst \in Dsts)
    <2>1. 1 \in Waiting
      BY <1>1 DEF Waiting
    <2> QED
      BY <1>3, <2>1 DEF HostInv, LineOK, Events
  <1>5. PICK d \in Processed(corr, ev, now) :
          IF Correlates(d, ev, now)
          THEN /\ corr' = Latch(d, Resolve(d, ev), ev.dst)
               /\ incident' = Incident(d, ev, StartTime(ev.pid))
               /\ origin' = [proc |-> ev.proc, image |-> ev.image,
                             loader |-> ev.proc \in truth.loaders,
                             handedOver |-> StartTime(ev.pid) # os[ev.proc].task]
          ELSE corr' = d /\ UNCHANGED <<incident, origin>>
    BY <1>3 DEF Correlate
  <1>6. PICK G \in SUBSET corr.tracked : Became(corr, ev, now, G, d)
    BY <1>1, ProcessedIs
  <1>7. d \in CorrelatorStates /\ Capped(d)
    BY <1>1, <1>6, ProcessedFits DEF Became, KindInv
  <1>8. CASE Correlates(d, ev, now)
    <2>1. PICK q : q = Resolve(d, ev)
      OBVIOUS
    <2>2. q \in Procs /\ ev.dst \in Dsts
      BY <1>4, <1>7, <1>8, <2>1 DEF Correlates, Resolve, CorrelatorStates
    <2>3. Capped(corr')
      BY <1>5, <1>7, <1>8, <2>1, <2>2, LatchFits
    <2>4. PICK root, start : root = LineageRoot(d, q) /\ start = StartTime(ev.pid)
      OBVIOUS
    <2>5. root \in Procs \cup {None} /\ start \in Procs \cup {None}
      BY <1>7, <2>2, <2>4, RootIs, HolderIs DEF HostInv
    <2>6. d.suspicious[q] \in SUBSET Techniques /\ ById(d, ev) \in BOOLEAN
      BY <1>7, <2>2 DEF CorrelatorStates, ById
    <2>7. incident' = [proc |-> q, byExecID |-> ById(d, ev), techniques |-> d.suspicious[q],
                       dst |-> ev.dst, root |-> root, pid |-> ev.pid,
                       startTime |-> start, detectedAt |-> ev.at]
      BY <1>5, <1>8, <2>1, <2>4 DEF Incident
    <2>8. incident' \in Incidents
      BY <1>4, <2>2, <2>5, <2>6, <2>7 DEF Incidents
    <2>9. origin' \in Origins
      <3>1. (ev.proc \in truth.loaders) \in BOOLEAN /\ (StartTime(ev.pid) # os[ev.proc].task) \in BOOLEAN
        OBVIOUS
      <3>2. \A l, h \in BOOLEAN :
               [proc |-> ev.proc, image |-> ev.image, loader |-> l, handedOver |-> h] \in Origins
        BY <1>4 DEF Origins
      <3>3. origin' = [proc |-> ev.proc, image |-> ev.image, loader |-> ev.proc \in truth.loaders,
                       handedOver |-> StartTime(ev.pid) # os[ev.proc].task]
        BY <1>5, <1>8, Zenon
      <3> QED
        BY <3>1, <3>2, <3>3, Zenon
    <2> QED
      BY <1>1, <1>2, <2>3, <2>8, <2>9 DEF KindInv
  <1>9. CASE ~Correlates(d, ev, now)
    BY <1>1, <1>2, <1>5, <1>7, <1>9 DEF KindInv
  <1> QED
    BY <1>8, <1>9

LEMMA KindDecide == ASSUME HostInv, KindInv, Decide PROVE KindInv'
  <1>1. /\ incident # None /\ incident' = None /\ origin' = None
        /\ UNCHANGED <<now, os, log, lines, lost, corr, truth, starts>>
    BY DEF Decide
  <1>2. incident \in Incidents /\ origin \in Origins /\ now \in Nat /\ HostOK
    BY <1>1 DEF KindInv, HostInv, HostOK
  <1>3. PICK target : target = ProcInfo(incident.pid)
    OBVIOUS
  <1>4. PICK disarmed \in BOOLEAN :
           LET d == Consider(bridge, incident, target, now, disarmed) IN
           /\ bridge' = d.bridge
           /\ shadow' = IF d.emitted = "shadow"
                        THEN [connector |-> origin.proc, image |-> origin.image,
                              loader |-> origin.loader, handedOver |-> origin.handedOver,
                              task |-> target.startTime, target |-> target.exe]
                        ELSE None
           /\ acted' = IF d.emitted = "shadow"
                       THEN acted \cup {[proc |-> origin.proc, dst |-> incident.dst, at |-> now]}
                       ELSE acted
    BY <1>3 DEF Decide
  <1>5. PICK d : d = Consider(bridge, incident, target, now, disarmed)
    OBVIOUS
  <1>6. bridge' \in BridgeStates
    BY <1>2, <1>4, <1>5, BridgeKind DEF KindInv
  <1>7. acted' \subseteq [proc: Procs, dst: Dsts, at: Nat]
    <2>1. [proc |-> origin.proc, dst |-> incident.dst, at |-> now] \in [proc: Procs, dst: Dsts, at: Nat]
      BY <1>2 DEF Origins, Incidents
    <2> QED
      BY <1>4, <1>5, <2>1 DEF KindInv
  <1>8. shadow' = None \/ shadow' \in Shadows
    <2>1. SUFFICES ASSUME d.emitted = "shadow" PROVE shadow' \in Shadows
      BY <1>4, <1>5
    <2>2. Eligible(incident, target, now)
      BY <1>5, <2>1 DEF Consider
    <2>3. target.live
      BY <2>2 DEF Eligible, Bound
    <2>4. target.startTime \in Procs /\ target.exe \in Procs
      BY <1>2, <1>3, <2>3, HolderIs
    <2>5. shadow' = [connector |-> origin.proc, image |-> origin.image,
                     loader |-> origin.loader, handedOver |-> origin.handedOver,
                     task |-> target.startTime, target |-> target.exe]
      BY <1>4, <1>5, <2>1
    <2> QED
      BY <1>2, <2>4, <2>5 DEF Origins, Shadows
  <1> QED
    BY <1>1, <1>6, <1>7, <1>8 DEF KindInv

LEMMA KindHost == ASSUME HostInv, KindInv, HostStep PROVE KindInv'
  <1>1. UNCHANGED agent
    BY DEF HostStep, Spawn, Fork, ReExec, LoadBPF, Exit, Connect, LoseLine, Tick
  <1>2. /\ lines' = lines \/ (lines < MaxLines /\ lines' = lines + 1)
        /\ \/ log' = log
           \/ log # <<>> /\ log' = Tail(log)
           \/ Len(log) < MaxLog /\ \E x : log' = Append(log, x)
    <2>1. ASSUME NEW line, Write(line)
          PROVE  /\ Len(log) < MaxLog /\ \E x : log' = Append(log, x)
                 /\ lines < MaxLines /\ lines' = lines + 1
      BY <2>1 DEF Write
    <2>2. CASE \E p \in Procs, parent \in Live \cup {None}, i \in Pids : Spawn(p, parent, i)
      BY <2>1, <2>2 DEF Spawn
    <2>3. CASE \E p \in Procs, parent \in Live, i \in Pids : Fork(p, parent, i)
      BY <2>3 DEF Fork
    <2>4. CASE \E p \in Live, q \in Procs : ReExec(p, q)
      BY <2>1, <2>4 DEF ReExec
    <2>5. CASE \E p \in Live : LoadBPF(p) \/ Exit(p)
      BY <2>1, <2>5 DEF LoadBPF, Exit
    <2>6. CASE \E p \in Live, dst \in Dsts, hasId \in BOOLEAN : Connect(p, dst, hasId)
      BY <2>1, <2>6 DEF Connect
    <2>7. CASE LoseLine \/ Tick
      BY <2>7 DEF LoseLine, Tick
    <2> QED
      BY <2>2, <2>3, <2>4, <2>5, <2>6, <2>7 DEF HostStep
  <1>3. log \in Seq(Events) /\ Len(log) \in Nat /\ Len(log) <= MaxLog
    BY DEF HostInv, HostOK, KindInv
  <1>4. Len(log') <= MaxLog
    <2>1. CASE log # <<>> /\ log' = Tail(log)
      BY <1>3, <2>1, DetectionAssumption
    <2>2. ASSUME NEW x, Len(log) < MaxLog, log' = Append(log, x) PROVE Len(log') <= MaxLog
      <3>1. Len(log') = Len(log) + 1
        BY <1>3, <2>2
      <3> QED
        BY <1>3, <2>2, <3>1, DetectionAssumption
    <2> QED
      BY <1>2, <1>3, <2>1, <2>2
  <1>5. lines' \in 0 .. MaxLines
    BY <1>2, DetectionAssumption DEF KindInv
  <1> QED
    BY <1>1, <1>4, <1>5 DEF agent, KindInv

LEMMA NewCapped == Capped(NewCorrelator)
  <1>1. IsFiniteSet({}) /\ Cardinality({}) = 0
    BY FS_EmptySet
  <1> QED
    BY <1>1, CorrelatorAssumption DEF Capped, NewCorrelator

LEMMA KindNext == HostInv /\ AgentInv /\ KindInv /\ [Next]_vars => KindInv'
  <1> SUFFICES ASSUME HostInv, AgentInv, KindInv, [Next]_vars PROVE KindInv'
    OBVIOUS
  <1>1. CASE HostStep
    BY <1>1, KindHost
  <1>2. CASE Correlate
    BY <1>2, KindCorrelate
  <1>3. CASE Decide
    BY <1>3, KindDecide
  <1>4. CASE Restart
    <2>1. starts' \in 1 .. MaxStarts
      BY <1>4, DetectionAssumption DEF Restart, KindInv
    <2>2. NewBridge \in BridgeStates
      BY DEF NewBridge, BridgeStates
    <2> QED
      BY <1>4, <2>1, <2>2, NewCapped DEF Restart, KindInv
  <1>5. CASE UNCHANGED vars
    BY <1>5 DEF vars, KindInv
  <1> QED
    BY <1>1, <1>2, <1>3, <1>4, <1>5 DEF Next

\* The state of the detection path keeps its types.  Among them: the correlator tracks at most
\* DefaultMaxProcs processes and latches at most maxCorrelatedDsts destinations of each, and its pid
\* index points at tracked ones only; the root of a lineage is a process; whatever reaches the
\* bridge is of a tracked process and a real destination.
THEOREM TypeCorrect == Spec => []TypeOK
  <1>1. Init => KindInv
    <2> SUFFICES ASSUME Init PROVE KindInv
      OBVIOUS
    <2>1. NewBridge \in BridgeStates
      BY DEF NewBridge, BridgeStates
    <2> QED
      BY <2>1, NewCapped, DetectionAssumption DEF Init, KindInv
  <1>2. HostInv /\ AgentInv /\ KindInv => TypeOK
    <2> SUFFICES ASSUME HostInv, AgentInv, KindInv PROVE TypeOK
      OBVIOUS
    <2>1. now \in Nat /\ os \in [Procs -> Processes] /\ log \in Seq(Events)
      BY DEF HostInv, HostOK
    <2>2. corr \in CorrelatorStates /\ \A i \in Pids : corr.pidIndex[i] \in corr.tracked \cup {None}
      BY DEF AgentInv, CorrOK
    <2> QED
      BY <2>1, <2>2 DEF KindInv, Capped, TypeOK
  <1> QED
    BY InvInit, InvNext, KindNext, <1>1, <1>2, PTL DEF Spec

=============================================================================
