----------------------------- MODULE Collector -----------------------------
(***************************************************************************)
(* The collector: the report store with its snapshot                       *)
(* (collector/internal/store/store.go), the handlers over it and the       *)
(* response proxy (collector/internal/server/server.go,                    *)
(* collector/internal/respond), and what main.go starts.  Every operation  *)
(* of the store is one locked section, so it is one step.                  *)
(*                                                                         *)
(* Reports other than heartbeats are numbered; a report carries at most    *)
(* one finding, called by the report's number.                             *)
(***************************************************************************)
EXTENDS Integers, Sequences, SequencesExt, FiniteSetsExt, Functions, TLC

CONSTANTS
    Configs,     \* sets of settings that may be given: token, socket, response token
    Sources,     \* pairs of tool and host
    Rank,        \* severity rank of each finding, 0 the worst
    MaxReports,  \* Config.MaxReports
    Retain,      \* Config.RetentionDays, in ticks; more than MaxTime for its 0, which keeps all
    StaleAfter,  \* DefaultStaleAfter, in ticks
    AppendCap,   \* appendCap
    Operators,   \* requests to POST /api/respond
    MaxTime,     \* bound on the clock, for model checking only
    MaxAccepted, \* bound on the reports that are not heartbeats
    MaxUnsaved,  \* bound on the snapshots that cannot be written
    MaxStarts    \* bound on the starts of the collector

\* What agentd says of a request: it carries it out, or not, or would, or would not.
Results == {"done", "not done", "would do", "would refuse"}

ASSUME CollectorAssumption ==
    /\ IsFiniteSet(Sources) /\ MaxReports > Cardinality(Sources)
    /\ Retain >= StaleAfter  \* days, and a minute and a half
    /\ {MaxReports, Retain, StaleAfter, AppendCap, MaxTime, MaxAccepted, MaxUnsaved, MaxStarts} \subseteq Nat
    /\ Rank \in [1 .. MaxAccepted -> 0 .. 5]

VARIABLES
    now,      \* the clock
    config,   \* the settings that are not empty: token, socket, response token
    starts,   \* history: starts of the process
    reports,  \* Store.reports
    disk,     \* reports.json
    accepted, \* history: the reports answered 202, but for heartbeats
    unsaved,  \* history: the numbers accepted since the snapshot was last written
    lost,     \* history: those that were unsaved at a restart
    unread,   \* history: those accepted before a start that could not read the
              \* snapshot, but for what a later start has read again
    heard,    \* history: when this process last accepted a post of each source, or Never
    proxy,    \* where each operator's request is
    result,   \* what agentd says of each, or "none"
    answer,   \* what the proxy has of each: a result, "error" or "none"
    executed, \* history: requests that agentd has acted on
    rows,     \* response-audit.jsonl: request and answer
    unwritten \* history: requests whose row could not be written

store == <<reports, disk, accepted, unsaved, lost, unread, heard>>
proxied == <<proxy, result, answer, executed, rows, unwritten>>
vars  == <<now, config, starts, store, proxied>>

Never == -1

Init ==
    /\ now = 0
    /\ config \in Configs
    /\ starts = 1
    /\ reports = <<>> /\ disk = <<>> /\ accepted = <<>> /\ unsaved = {} /\ lost = {}
    /\ unread = {}
    /\ heard = [s \in Sources |-> Never]
    /\ proxy = [o \in Operators |-> "idle"]
    /\ result = [o \in Operators |-> "none"] /\ answer = [o \in Operators |-> "none"]
    /\ executed = {} /\ rows = {} /\ unwritten = {}

-----------------------------------------------------------------------------
(* Store.                                                                   *)

IsHeartbeat(r) == r.append /\ r.finding = <<>>

\* The members of I, each after those that come before it: before the k-th are k - 1.
InOrder(I, before) ==
    LET ranked == {<<Cardinality(before[i]) + 1, i>> : i \in I}
    IN  [k \in 1 .. Cardinality(I) |-> (CHOOSE p \in ranked : p[1] = k)[2]]

Along(order, rs) == [k \in DOMAIN order |-> rs[order[k]]]

\* The reports at the places I, as they stand.
Picked(rs, I) == Along(InOrder(I, [i \in I |-> {j \in I : j < i}]), rs)

\* Oldest first by receive time; reports of one instant stay in their order.
Earlier(rs) == [i \in DOMAIN rs |->
    {j \in DOMAIN rs : rs[j].received < rs[i].received \/ (rs[j].received = rs[i].received /\ j < i)}]
ByTime(rs) == Along(InOrder(DOMAIN rs, Earlier(rs)), rs)

Newest(n, s) == IF Len(s) <= n THEN s ELSE SubSeq(s, Len(s) - n + 1, Len(s))

\* prune: by age, and then by number.
Trimmed_ByPlace(rs) == IF Len(rs) > MaxReports THEN Newest(MaxReports, rs) ELSE rs
Trimmed(rs) == IF Len(rs) > MaxReports THEN Newest(MaxReports, ByTime(rs)) ELSE rs
Young(rs) == {i \in DOMAIN rs : rs[i].received + Retain >= now}
Prune(rs) == Trimmed(Picked(rs, Young(rs)))

\* save replaces the snapshot, or fails and says nothing; n is what was stored.
Save(rs, n) ==
    \/ disk' = rs /\ unsaved' = {}
    \/ /\ Cardinality(unsaved \cup lost) < MaxUnsaved
       /\ unsaved' = unsaved \cup {n} /\ UNCHANGED disk

\* AddReport: a heartbeat is folded into the one of its source and not saved.
Beat_Appended(r) == reports' = Append(reports, r)
Beat(r) ==
    LET mine == {i \in DOMAIN reports : reports[i].source = r.source /\ IsHeartbeat(reports[i])}
    IN  reports' = IF mine = {} THEN Append(reports, r)
                   ELSE [i \in DOMAIN reports |-> IF i \in mine THEN r ELSE reports[i]]

AddReport(r) ==
    IF IsHeartbeat(r)
    THEN Beat(r) /\ UNCHANGED <<disk, accepted, unsaved>>
    ELSE /\ reports' = Prune(Append(reports, r))
         /\ Save(reports', r.n)
         /\ accepted' = Append(accepted, r)

\* current: what each source's reports come to, oldest first.
Accumulated_OverFull(fs, r) == Newest(AppendCap, fs \o r.finding)
Accumulated(fs, r) == IF r.append THEN Newest(AppendCap, fs \o r.finding) ELSE r.finding
Findings(rs) ==
    LET upTo[k \in 0 .. Len(rs)] == IF k = 0 THEN <<>> ELSE Accumulated(upTo[k - 1], rs[k])
    IN  upTo[Len(rs)]
OfSource(rs, s) == Picked(rs, {i \in DOMAIN rs : rs[i].source = s})
Current ==
    LET ordered == ByTime(reports)
    IN  [s \in {r.source : r \in ToSet(reports)} |->
            LET mine == OfSource(ordered, s)
            IN  [findings |-> Findings(mine), received |-> Last(mine).received]]

\* LatestFindings, worst first, over the sources and ranks of the filter.
LatestFindings(current, among, ranks) ==
    LET all   == UNION {ToSet(current[s].findings) : s \in among \cap DOMAIN current}
        shown == {f \in all : Rank[f] \in ranks}
    IN  InOrder(shown, [f \in shown |->
            {g \in shown : Rank[g] < Rank[f] \/ (Rank[g] = Rank[f] /\ g < f)}])

\* Recent: newest first.
Recent(limit) ==
    LET all == Reverse(ByTime(reports))
    IN  IF limit > 0 /\ Len(all) > limit THEN SubSeq(all, 1, limit) ELSE all

\* Summary: one status per source and the roll-up, which counts every finding of every source.
Worst(fs) == Min({Rank[f] : f \in ToSet(fs)} \cup {5})
ToolStatus_WorstOnly(p) == [count |-> Len(p.findings), worst |-> Worst(p.findings),
                            clean |-> Worst(p.findings) > 1, stale |-> now - p.received > StaleAfter]
ToolStatus(p) == [count |-> Len(p.findings), worst |-> Worst(p.findings),
                  clean |-> Worst(p.findings) > 2, stale |-> now - p.received > StaleAfter]
Summary(current) ==
    LET tools == [s \in DOMAIN current |-> ToolStatus(current[s])]
    IN  [tools |-> tools,
         clean |-> \A s \in DOMAIN tools : tools[s].worst > 2,
         count |-> Cardinality(UNION {{s} \X DOMAIN current[s].findings : s \in DOMAIN current})]

-----------------------------------------------------------------------------
(* Server.                                                                  *)

\* handleIngest, for a request with the right token and a readable report; any
\* other is refused and changes nothing.  A report may name its receive time; the
\* suite's tools leave it out, and the store then stamps it.
Ingest(s, append, some) ==
    /\ "token" \in config
    /\ (append /\ ~some) \/ Len(accepted) < MaxAccepted
    /\ AddReport([source |-> s, append |-> append, received |-> now,
                  n |-> IF append /\ ~some THEN 0 ELSE Len(accepted) + 1,
                  finding |-> IF some THEN <<Len(accepted) + 1>> ELSE <<>>])
    /\ heard' = [heard EXCEPT ![s] = now]
    /\ UNCHANGED <<now, config, starts, lost, unread, proxied>>

ProxyEnabled == {"socket", "response token"} \subseteq config

\* handleRespond: forward, record, answer.
Forward(o) ==
    /\ ProxyEnabled
    /\ proxy[o] = "idle"
    /\ proxy' = [proxy EXCEPT ![o] = "forwarded"]
    /\ UNCHANGED <<now, config, starts, store, result, answer, executed, rows, unwritten>>

\* agentd acts on the request, which it may do after the proxy gave up.
Execute(o) ==
    /\ proxy[o] # "idle" /\ result[o] = "none" /\ o \notin executed
    /\ executed' = executed \cup {o}
    /\ UNCHANGED <<now, config, starts, store, proxy, result, answer, rows, unwritten>>

\* agentd says what came of it: refusals, failures and plans are results too.
Respond(o, r) ==
    /\ proxy[o] # "idle" /\ result[o] = "none"
    /\ r = "done" => o \in executed
    /\ r \in {"would do", "would refuse"} => o \notin executed
    /\ result' = [result EXCEPT ![o] = r]
    /\ UNCHANGED <<now, config, starts, store, proxy, answer, executed, rows, unwritten>>

\* Forward returns that result, or an error: out of reach, another status, too late.
Returned(o, outcome) ==
    /\ proxy[o] = "forwarded"
    /\ outcome \in {result[o], "error"} \ {"none"}
    /\ proxy' = [proxy EXCEPT ![o] = "returned"]
    /\ answer' = [answer EXCEPT ![o] = outcome]
    /\ UNCHANGED <<now, config, starts, store, result, executed, rows, unwritten>>

\* The row is written before the operator hears; a failed write is ignored.
Recorded_ResultsOnly(outcome) == outcome \in Results
Recorded(outcome) == outcome \in Results \cup {"error"}
Record(o) ==
    /\ proxy[o] = "returned"
    /\ IF Recorded(answer[o])
       THEN \/ rows' = rows \cup {<<o, answer[o]>>} /\ UNCHANGED unwritten
            \/ unwritten' = unwritten \cup {o} /\ UNCHANGED rows
       ELSE UNCHANGED <<rows, unwritten>>
    /\ proxy' = [proxy EXCEPT ![o] = "recorded"]
    /\ UNCHANGED <<now, config, starts, store, result, answer, executed>>

Answer(o) ==
    /\ proxy[o] = "recorded"
    /\ proxy' = [proxy EXCEPT ![o] = "answered"]
    /\ UNCHANGED <<now, config, starts, store, result, answer, executed, rows, unwritten>>

-----------------------------------------------------------------------------
(* main.                                                                    *)

\* load: the snapshot, pruned; or it cannot be read or parsed, and the store
\* starts empty without a word while the file stays until the next save.
Load ==
    \/ reports' = Prune(disk) /\ unread' = unread \ {r.n : r \in {q \in ToSet(disk) : ~IsHeartbeat(q)}}
    \/ reports' = <<>> /\ unread' = unread \cup (1 .. Len(accepted))

\* The process ends, by a crash or a stop, which saves nothing either, and is
\* started again.
Restart ==
    /\ starts < MaxStarts
    /\ starts' = starts + 1
    /\ Load
    /\ lost' = lost \cup unsaved
    /\ unsaved' = {}
    /\ heard' = [s \in Sources |-> Never]
    /\ proxy' = [o \in Operators |->
                    IF proxy[o] \in {"idle", "answered"} THEN proxy[o] ELSE "cut off"]
    /\ UNCHANGED <<now, config, disk, accepted, result, answer, executed, rows, unwritten>>

Tick ==
    /\ now < MaxTime
    /\ now' = now + 1
    /\ UNCHANGED <<config, starts, store, proxied>>

Next ==
    \/ \E s \in Sources, append, some \in BOOLEAN : Ingest(s, append, some)
    \/ \E o \in Operators : \/ Forward(o) \/ Execute(o) \/ Record(o) \/ Answer(o)
                            \/ \E r \in Results : Respond(o, r)
                            \/ \E outcome \in Results \cup {"error"} : Returned(o, outcome)
    \/ Restart \/ Tick

Spec == Init /\ [][Next]_vars

-----------------------------------------------------------------------------
(* Properties.                                                              *)

Reports == [source: Sources, append: BOOLEAN, received: Nat,
            n: 0 .. MaxAccepted, finding: {<<>>} \cup {<<f>> : f \in 1 .. MaxAccepted}]

\* Every variable has its type, and a source has at most one heartbeat in the
\* store, or a quiet host would crowd the findings out.
TypeOK ==
    /\ reports \in Seq(Reports) /\ disk \in Seq(Reports) /\ accepted \in Seq(Reports)
    /\ unsaved \cup lost \cup unread \subseteq 1 .. MaxAccepted
    /\ heard \in [Sources -> Nat \cup {Never}]
    /\ proxy \in [Operators -> {"idle", "forwarded", "returned", "recorded", "answered", "cut off"}]
    /\ result \in [Operators -> Results \cup {"none"}]
    /\ answer \in [Operators -> Results \cup {"none", "error"}]
    /\ rows \subseteq Operators \X (Results \cup {"error"})
    /\ \A i, j \in DOMAIN reports :
          IsHeartbeat(reports[i]) /\ IsHeartbeat(reports[j])
          /\ reports[i].source = reports[j].source => i = j

\* How many reports, heartbeats aside, were accepted after number n.
After(n) == Len(accepted) - n

\* Report r is in the store, or what came after it took its place: it is too old,
\* or newer reports fill the store but for one place per quiet source.
InPlace(r) ==
    LET quiet == {q.source : q \in {h \in ToSet(reports) : IsHeartbeat(h)}}
    IN  \/ r \in ToSet(reports)
        \/ r.received + Retain < now
        \/ After(r.n) >= MaxReports - Cardinality(quiet)

\* An accepted report stays in the store over restarts, whatever heartbeats come
\* in between: it goes only by age or for newer ones, with a snapshot that could
\* not be written, or at a start that could not read the snapshot, and then until
\* a later start reads it again.
HistoryKept == \A r \in ToSet(accepted) : r.n \in lost \cup unread \/ InPlace(r)

\* What store.go:2-3 says, "persists an atomic JSON snapshot so the set survives a
\* restart", of the reports whose snapshot was written.  It fails: load passes over
\* a file that it cannot read or parse, and the next save replaces it.
SurvivesRestart == \A r \in ToSet(accepted) : r.n \in lost \/ InPlace(r)

\* A finding that a full report of its source superseded is not shown again,
\* whatever the store drops and reloads, unless that report was lost with its
\* snapshot.
NoResurrection ==
    LET current == Current IN
    \A s \in DOMAIN current : \A f \in ToSet(current[s].findings) :
        \A r \in ToSet(accepted) : r.source = s /\ ~r.append /\ r.n > f => r.n \in lost

\* A source this process heard within the threshold is listed and not stale, as
\* long as the reports of that time leave one place per source in the store: a
\* quiet agent does not vanish behind older reports of others.
LiveIsListed ==
    LET current == Current IN
    \A s \in Sources :
        /\ heard[s] # Never /\ heard[s] + StaleAfter >= now
        /\ Cardinality({r \in ToSet(accepted) : r.received >= heard[s]})
             + Cardinality(Sources) <= MaxReports
        => s \in DOMAIN current /\ ~ToolStatus(current[s]).stale

\* The views agree: the roll-up is clean exactly when the list holds nothing of
\* rank two or worse, and a source's status when the list filtered to it does.
ViewsAgree ==
    LET current == Current
        summary == Summary(current)
        bad     == 0 .. 2
    IN
    /\ summary.clean = (LatestFindings(current, Sources, bad) = <<>>)
    /\ summary.count = Len(LatestFindings(current, Sources, 0 .. 5))
    /\ \A s \in DOMAIN current :
          summary.tools[s].clean = (LatestFindings(current, {s}, bad) = <<>>)
    /\ ToSet(LatestFindings(current, Sources, 0 .. 5)) \subseteq
          UNION {ToSet(r.finding) : r \in ToSet(Recent(0))}

\* Every request that an operator was answered about has its row, with the answer
\* he was given and no other, or a row that could not be written; and the row is
\* true to what happened on the host: one that says done is of an action that ran,
\* one that says would of an action that never does.
AnswersAreRecorded ==
    \A o \in Operators :
        /\ proxy[o] = "answered" => <<o, answer[o]>> \in rows \/ o \in unwritten
        /\ \A outcome \in Results \cup {"error"} : <<o, outcome>> \in rows => outcome = answer[o]
        /\ <<o, "done">> \in rows => o \in executed
        /\ o \in executed => <<o, "would do">> \notin rows /\ <<o, "would refuse">> \notin rows
=============================================================================
