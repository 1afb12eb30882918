------------------------------ MODULE Detection ------------------------------
(***************************************************************************)
(* The detection path of agentd end to end: tasks of the host start, fork, *)
(* exec again, load eBPF programs, connect and exit; Tetragon logs what    *)
(* they do; the tail goroutine of cmdRun (agent/main.go) takes one line at *)
(* a time through the Correlator and then the Bridge.  The log lags, so    *)
(* what the agent reads from /proc is of another moment than the line.     *)
(***************************************************************************)
EXTENDS Bridge

CONSTANTS
    MaxTime,  \* bound on the clock, for model checking only
    MaxLog,   \* bound on the unread lines, for model checking only
    MaxLines, \* bound on the lines ever written, for model checking only
    MaxLost,  \* bound on the pids whose lines may be lost unread
    MaxStarts \* bound on the starts of agentd

ASSUME DetectionAssumption ==
    /\ MaxTime \in Nat
    /\ MaxLog \in Nat \ {0}
    /\ MaxLines \in Nat
    /\ MaxLost \in Nat
    /\ MaxStarts \in Nat \ {0}

VARIABLES
    now,      \* the clock
    os,       \* the processes: life, pid, task (its founding exec_id), exe, parent
    log,      \* lines of the event log not yet read
    lines,    \* how many lines were ever written
    lost,     \* history: the pids that lines never read were about
    corr,     \* the correlator
    incident, \* the correlated finding on its way to the bridge, or None
    bridge,   \* the bridge
    origin,   \* history: what truly caused the pending incident
    shadow,   \* the shadow decision on the line last read, or None
    truth,    \* history: what the lines read so far imply, see NoTruth
    starts,   \* history: starts of agentd
    acted     \* history: the shadow decisions, [proc, dst, at], of every start

vars == <<now, os, log, lines, lost, corr, incident, bridge, origin, shadow, truth, starts, acted>>

Processes ==
    [life: {"unborn", "live", "dead"}, pid: Pids \cup {None},
     task: Procs \cup {None}, exe: Procs \cup {None}, parent: Procs \cup {None}]

Unborn == [life |-> "unborn", pid |-> None, task |-> None, exe |-> None, parent |-> None]

\* armed: the processes a line spoke against and whose lines with an exec_id were
\* never read more than TTL apart since, nor by an agentd that has gone; heard: when the last of these was read;
\* loaders: those seen to load eBPF; reported: the incidents raised; crowded and
\* missed: see NoMissedIncident.
NoTruth == [heard |-> [p \in Procs |-> 0], armed |-> {}, loaders |-> {},
            reported |-> {}, crowded |-> FALSE, missed |-> FALSE]

Init ==
    /\ now = 0
    /\ os = [p \in Procs |-> Unborn]
    /\ log = <<>>
    /\ lines = 0
    /\ lost = {}
    /\ corr = NewCorrelator
    /\ incident = None
    /\ bridge = NewBridge
    /\ origin = None
    /\ shadow = None
    /\ truth = NoTruth
    /\ starts = 1
    /\ acted = {}

-----------------------------------------------------------------------------
(* The host and its event log.                                              *)

Live    == {p \in Procs : os[p].life = "live"}
Free(i) == \A p \in Live : os[p].pid # i
agent   == <<corr, incident, bridge, origin, shadow, truth, starts, acted>>

Line(kind, p, hasId, dst) ==
    [kind |-> kind, proc |-> p, hasId |-> hasId, pid |-> os'[p].pid,
     image |-> os'[p].exe, parent |-> os'[p].parent, dst |-> dst, at |-> now]

Write(line) ==
    /\ Len(log) < MaxLog
    /\ lines < MaxLines
    /\ log' = Append(log, line)
    /\ lines' = lines + 1

Start(p, i, task, exe, parent) ==
    /\ os[p] = Unborn
    /\ os' = [os EXCEPT ![p] = [life |-> "live", pid |-> i, task |-> task,
                                exe |-> exe, parent |-> parent]]

\* A task of its own with an image of its own; parent None is one never logged.
Spawn(p, parent, i) ==
    /\ Free(i)
    /\ Start(p, i, p, p, parent)
    /\ Write(Line("exec", p, TRUE, None))
    /\ UNCHANGED <<now, lost, agent>>

\* A child running its parent's image; nothing is logged.
Fork(p, parent, i) ==
    /\ Free(i)
    /\ Start(p, i, p, os[parent].exe, parent)
    /\ UNCHANGED <<now, log, lines, lost, agent>>

\* execve: the task goes on under exec_id q, with the same pid and start time.
ReExec(p, q) ==
    /\ os[q] = Unborn
    /\ os' = [os EXCEPT ![p].life = "dead", ![q] = [os[p] EXCEPT !.exe = q]]
    /\ Write(Line("exec", q, TRUE, None))
    /\ UNCHANGED <<now, lost, agent>>

LoadBPF(p) ==
    /\ UNCHANGED os
    /\ Write(Line("bpf", p, TRUE, None))
    /\ UNCHANGED <<now, lost, agent>>

\* Some export shapes carry no exec_id.
Connect(p, dst, hasId) ==
    /\ UNCHANGED os
    /\ Write(Line("connect", p, hasId, dst))
    /\ UNCHANGED <<now, lost, agent>>

Exit(p) ==
    /\ os' = [os EXCEPT ![p].life = "dead"]
    /\ Write(Line("exit", p, TRUE, None))
    /\ UNCHANGED <<now, lost, agent>>

\* A rotation takes away a line the tail has not read.
LoseLine ==
    /\ log # <<>>
    /\ lost' = lost \cup {Head(log).pid}
    /\ Cardinality(lost') <= MaxLost
    /\ log' = Tail(log)
    /\ UNCHANGED <<now, os, lines, agent>>

Tick ==
    /\ now < MaxTime
    /\ now' = now + 1
    /\ UNCHANGED <<os, log, lines, lost, agent>>

-----------------------------------------------------------------------------
(* The tail goroutine: correlator, then bridge.                             *)

\* /proc/<pid>, read live.
Holder(i)    == {p \in Live : os[p].pid = i}
StartTime(i) == IF Holder(i) = {} THEN None ELSE os[CHOOSE p \in Holder(i) : TRUE].task
ProcInfo(i)  ==
    IF Holder(i) = {} THEN [live |-> FALSE, startTime |-> None, exe |-> None]
    ELSE [live |-> TRUE, startTime |-> StartTime(i),
          exe |-> os[CHOOSE p \in Holder(i) : TRUE].exe]

\* What line ev adds to the history, given whether it raised an incident about
\* the process it happened to.
Learn(ev, raised) ==
    LET p     == ev.proc
        quiet == {q \in truth.armed : truth.heard[q] + TTL < now}
        armed == (truth.armed \ quiet)
                   \cup (IF ev.hasId /\ Suspicion(ev) # {} THEN {p} ELSE {})
    IN  [truth EXCEPT
           !.heard    = [q \in Procs |-> IF q \notin armed THEN 0
                                        ELSE IF q = p /\ ev.hasId THEN now
                                        ELSE @[q]],
           !.armed    = armed,
           !.loaders  = IF ev.kind = "bpf" THEN @ \cup {p} ELSE @,
           !.reported = IF raised THEN @ \cup {<<p, ev.dst>>} ELSE @,
           !.crowded  = @ \/ Cardinality(armed) >= MaxProcs,
           !.missed   = @ \/ (/\ ev.kind = "connect"
                              /\ p \in armed
                              /\ <<p, ev.dst>> \notin truth.reported
                              /\ ~raised)]

\* Correlator.Line on the next line of the log.
Correlate ==
    /\ log # <<>>
    /\ incident = None
    /\ log' = Tail(log)
    /\ LET ev == Head(log) IN
       \E c \in Processed(corr, ev, now) :
          IF Correlates(c, ev, now)
          THEN /\ corr' = Latch(c, Resolve(c, ev), ev.dst)
               /\ incident' = Incident(c, ev, StartTime(ev.pid))
               /\ origin' = [proc |-> ev.proc, image |-> ev.image,
                             loader |-> ev.proc \in truth.loaders,
                             handedOver |-> StartTime(ev.pid) # os[ev.proc].task]
               /\ truth' = Learn(ev, Resolve(c, ev) = ev.proc)
          ELSE /\ corr' = c
               /\ truth' = Learn(ev, FALSE)
               /\ UNCHANGED <<incident, origin>>
    /\ shadow' = None
    /\ UNCHANGED <<now, os, lines, lost, bridge, starts, acted>>

\* Bridge.Consider on what Line returned; the disarm file comes and goes.
Decide ==
    /\ incident # None
    /\ \E disarmed \in BOOLEAN :
          LET d == Consider(bridge, incident, ProcInfo(incident.pid), now, disarmed) IN
          /\ bridge' = d.bridge
          /\ shadow' = IF d.emitted = "shadow"
                       THEN [connector |-> origin.proc, image |-> origin.image,
                             loader |-> origin.loader, handedOver |-> origin.handedOver,
                             task |-> ProcInfo(incident.pid).startTime,
                             target |-> ProcInfo(incident.pid).exe]
                       ELSE None
          /\ acted' = IF d.emitted = "shadow"
                      THEN acted \cup {[proc |-> origin.proc, dst |-> incident.dst, at |-> now]}
                      ELSE acted
    /\ incident' = None
    /\ origin' = None
    /\ UNCHANGED <<now, os, log, lines, lost, corr, truth, starts>>

\* agentd crashes or is restarted and goes on at its checkpoint: a new correlator,
\* a new bridge, and the line in progress is not read again.
Restart ==
    /\ starts < MaxStarts
    /\ starts' = starts + 1
    /\ corr' = NewCorrelator
    /\ bridge' = NewBridge
    /\ incident' = None
    /\ origin' = None
    /\ shadow' = None
    /\ truth' = [truth EXCEPT !.heard = NoTruth.heard, !.armed = {}, !.reported = {}]
    /\ UNCHANGED <<now, os, log, lines, lost, acted>>

-----------------------------------------------------------------------------
HostStep ==
    \/ \E p \in Procs, parent \in Live \cup {None}, i \in Pids : Spawn(p, parent, i)
    \/ \E p \in Procs, parent \in Live, i \in Pids : Fork(p, parent, i)
    \/ \E p \in Live, q \in Procs : ReExec(p, q)
    \/ \E p \in Live : LoadBPF(p) \/ Exit(p)
    \/ \E p \in Live, dst \in Dsts, hasId \in BOOLEAN : Connect(p, dst, hasId)
    \/ LoseLine
    \/ Tick

Next == HostStep \/ Correlate \/ Decide \/ Restart

Spec == Init /\ [][Next]_vars

-----------------------------------------------------------------------------
(* Properties.                                                              *)

\* Every variable has its type, and the pid index names tracked processes only,
\* so that resolve never returns the state of a forgotten one.
\* The two histories of an incident: what caused it, and what a decision on it was about.
Origins == [proc: Procs, image: Procs, loader: BOOLEAN, handedOver: BOOLEAN]
Shadows == [connector: Procs, image: Procs, loader: BOOLEAN, handedOver: BOOLEAN,
            task: Procs, target: Procs]

\* The state keeps its types, and the correlator its two caps.
TypeOK ==
    /\ now \in Nat
    /\ os \in [Procs -> Processes]
    /\ log \in Seq(Events)
    /\ lines \in 0 .. MaxLines /\ Len(log) <= MaxLog
    /\ corr \in CorrelatorStates
    /\ \A i \in Pids : corr.pidIndex[i] \in corr.tracked \cup {None}
    /\ Cardinality(corr.tracked) <= MaxProcs
    /\ \A p \in Procs : Cardinality(corr.latched[p]) <= MaxDsts
    /\ bridge \in BridgeStates
    /\ \/ incident = None /\ origin = None
       \/ incident \in Incidents /\ origin \in Origins
    /\ shadow = None \/ shadow \in Shadows
    /\ starts \in 1 .. MaxStarts
    /\ acted \subseteq [proc: Procs, dst: Dsts, at: Nat]

\* As long as fewer processes are suspicious at a time than the correlator can
\* hold, however many clean ones start, the first connection to each destination
\* of a process whose last line was read no longer than TTL ago is reported
\* about that process, with or without an exec_id on the line (eviction pinning,
\* lastSeen ageing and the pid fallback together).
NoMissedIncident == truth.missed => truth.crowded

\* An incident is about the process that connected.  Only one attributed by the
\* pid fallback can be about another, and only after a line of that pid was lost.
WrongOnlyAfterLoss ==
    incident # None /\ incident.proc # origin.proc =>
        /\ ~incident.byExecID
        /\ incident.pid \in lost

\* The task a shadow decision names is the task that connected, whatever exits
\* and pid reuse happen after the correlator stamped the start time; only a pid
\* handed over before the stamp goes unnoticed.
TaskIsConnectorsUnlessHandedOver ==
    shadow # None /\ ~shadow.handedOver => shadow.task = os[shadow.connector].task

\* A process seen to load an eBPF program is never a quarantine target, whatever
\* it was suspected of before or after.
LoaderNeverTargeted == shadow # None => ~shadow.loader

\* No window holds more shadow decisions than the budget of the auto path, times
\* the starts of agentd, each of which begins with a fresh budget.
BudgetHolds ==
    Cardinality({a \in acted : a.at + RateWindow > now}) <= RateMax * starts

\* What the design says of the target: the image a shadow decision would
\* quarantine is the image that connected.
TargetIsConnector == shadow # None => shadow.target = shadow.image
=============================================================================
