------------------------------ MODULE Delivery ------------------------------
(***************************************************************************)
(* How a finding travels from the tail callback of agentd to the collector:*)
(* the bounded Buffer (agent/internal/pipeline/pipeline.go), the flush of  *)
(* the ticker goroutine and the last flush of cmdRun (agent/main.go), and  *)
(* the on-disk Spool a failed POST goes to (agent/internal/spool/spool.go).*)
(*                                                                         *)
(* A finding is its number in the order the callback produced it; a report *)
(* is the sequence of findings one flush drained, empty for a heartbeat.   *)
(* The collector appears as the sequence of findings it has committed.     *)
(***************************************************************************)
EXTENDS Naturals, FiniteSets, SequencesExt, Functions

CONSTANTS
    Findings,    \* bound: findings are 1 .. Findings
    BufferMax,   \* cap of the Buffer (0 would be unbounded)
    SpoolMax,    \* count cap of the Spool
    MaxSeq,      \* bound: outages stop being prolonged at this spool sequence number
    MaxLostAcks, \* bound: POSTs the collector commits whose answer is lost
    MaxRestarts  \* bound: process starts after the first

ASSUME DeliveryAssumption ==
    /\ {Findings, BufferMax, SpoolMax, MaxSeq, MaxLostAcks, MaxRestarts} \subseteq Nat
    /\ BufferMax > 0 /\ SpoolMax > 0

VARIABLES
    produced, \* findings the callback has produced
    items,    \* Buffer.items
    dropped,  \* Buffer.dropped
    spool,    \* the spool directory: sequence number |-> report
    seq,      \* Spool.seq, in memory
    pc,       \* where each flush is
    batch,    \* the report of each flush
    todo,     \* the files its Replay has listed and not handled, by number
    sending,  \* the report its POST carries
    reg,      \* the sequence number its Write has loaded
    proc,     \* the process: running, stopping (context cancelled) or down
    up,       \* the collector answers
    received, \* findings the collector has committed, in order
    trimmed,  \* history: findings the Buffer's cap discarded
    warned,   \* history: how many of those the buffer warning has announced
    loud,     \* history: findings whose loss at the spool was logged
    crashed,  \* history: findings in memory when the process crashed
    lostAcks, \* history: answers lost
    restarts, \* history: process starts after the first
    overlap   \* history: two flushes were in progress together

mem  == <<items, dropped, seq>>
hist == <<trimmed, warned, loud, crashed, lostAcks, restarts>>
flush == <<pc, batch, todo, sending, reg>>
vars == <<produced, mem, spool, flush, proc, up, received, hist, overlap>>

\* The goroutine with the ticker, and the last flush of cmdRun.
Flushers == {"ticker", "final"}

Init ==
    /\ produced = 0
    /\ items = <<>> /\ dropped = 0
    /\ spool = <<>> /\ seq = 0
    /\ pc = [f \in Flushers |-> "idle"]
    /\ batch = [f \in Flushers |-> <<>>]
    /\ todo = [f \in Flushers |-> {}]
    /\ sending = [f \in Flushers |-> <<>>]
    /\ reg = [f \in Flushers |-> 0]
    /\ proc = "running" /\ up = TRUE
    /\ received = <<>>
    /\ trimmed = {} /\ warned = 0 /\ loud = {} /\ crashed = {}
    /\ lostAcks = 0 /\ restarts = 0
    /\ overlap = FALSE

-----------------------------------------------------------------------------
(* The tail callback and the Buffer.                                        *)

\* The newest BufferMax findings.
Newest(s) == IF Len(s) > BufferMax THEN SubSeq(s, Len(s) - BufferMax + 1, Len(s)) ELSE s

\* Buffer.Add.
Add ==
    LET all == Append(items, produced + 1) IN
    /\ proc = "running"
    /\ produced < Findings
    /\ produced' = produced + 1
    /\ items' = Newest(all)
    /\ dropped' = dropped + (Len(all) - Len(Newest(all)))
    /\ trimmed' = trimmed \cup (ToSet(all) \ ToSet(Newest(all)))
    /\ UNCHANGED <<spool, seq, pc, batch, todo, sending, reg, proc, up, received, warned,
                   loud, crashed, lostAcks, restarts, overlap>>

-----------------------------------------------------------------------------
(* flush.                                                                   *)

Goto(f, next) == pc' = [pc EXCEPT ![f] = next]

\* The ticker fires; after the cancellation it still may, the select choosing
\* either ready case.  The last flush starts once the tail has returned.
\* Dropped() is read and announced.
MayFlush(f) ==
    /\ pc[f] = "idle"
    /\ IF f = "ticker" THEN proc # "down" ELSE proc = "stopping"
    /\ up \/ seq < MaxSeq

FlushStart(f) ==
    /\ MayFlush(f)
    /\ warned' = warned + dropped
    /\ Goto(f, "warned")
    /\ overlap' = (overlap \/ \E g \in Flushers : pc[g] \notin {"idle", "done"})
    /\ UNCHANGED <<produced, mem, spool, batch, todo, sending, reg, proc, up, received,
                   trimmed, loud, crashed, lostAcks, restarts>>

\* Buffer.Drain.
Drain(f) ==
    /\ pc[f] = "warned"
    /\ batch' = [batch EXCEPT ![f] = items]
    /\ items' = <<>>
    /\ dropped' = 0
    /\ Goto(f, "drained")
    /\ UNCHANGED <<produced, spool, seq, todo, sending, reg, proc, up, received,
                   hist, overlap>>

\* Spool.Replay lists the backlog once ...
ReplayList(f) ==
    /\ pc[f] = "drained"
    /\ todo' = [todo EXCEPT ![f] = DOMAIN spool]
    /\ Goto(f, "replay")
    /\ UNCHANGED <<produced, mem, spool, batch, sending, reg, proc, up, received,
                   hist, overlap>>

\* ... and goes through it oldest first.
Oldest_Newest(f, s) == s \in todo[f] /\ \A t \in todo[f] : t <= s
Oldest(f, s) == s \in todo[f] /\ \A t \in todo[f] : s <= t

Without(s) == Restrict(spool, DOMAIN spool \ {s})

\* The file is read, or it is gone or unreadable: then it is removed with a
\* warning and replay goes on.  An exhausted list leads to the fresh report.
ReplayNext(f) ==
    /\ pc[f] = "replay"
    /\ \/ /\ todo[f] = {}
          /\ Goto(f, "fresh")
          /\ sending' = [sending EXCEPT ![f] = batch[f]]
          /\ UNCHANGED <<spool, todo, loud>>
       \/ \E s \in DOMAIN spool :
             /\ Oldest(f, s)
             /\ Goto(f, "resend")
             /\ sending' = [sending EXCEPT ![f] = spool[s]]
             /\ UNCHANGED <<spool, todo, loud>>
       \/ \E s \in todo[f] :
             /\ Oldest(f, s)
             /\ loud' = loud \cup IF s \in DOMAIN spool THEN ToSet(spool[s]) ELSE {}
             /\ spool' = Without(s)
             /\ todo' = [todo EXCEPT ![f] = @ \ {s}]
             /\ UNCHANGED <<pc, sending>>
    /\ UNCHANGED <<produced, mem, batch, reg, proc, up, received, trimmed, warned,
                   crashed, lostAcks, restarts, overlap>>

\* A flush that returns has let go of its report.
Finished_Once(f) == "done"
Finished(f) == IF f = "ticker" THEN "idle" ELSE "done"
Return(f) ==
    /\ Goto(f, Finished(f))
    /\ batch' = [batch EXCEPT ![f] = <<>>]
    /\ todo' = [todo EXCEPT ![f] = {}]

\* postReport answers nil: a spooled file is removed next, the fresh report is
\* done with.
PostOK(f) ==
    /\ pc[f] \in {"resend", "fresh"}
    /\ up
    /\ received' = received \o sending[f]
    /\ IF pc[f] = "resend"
       THEN Goto(f, "acked") /\ UNCHANGED <<batch, todo>>
       ELSE Return(f)
    /\ sending' = [sending EXCEPT ![f] = <<>>]
    /\ UNCHANGED <<produced, mem, spool, reg, proc, up, hist, overlap>>

\* postReport fails, in Replay or for the fresh report: the fresh report goes to
\* the spool.  The collector may have committed what was sent.
OnFailure(f) == Goto(f, "write") /\ UNCHANGED <<batch, todo>>

PostFail(f) ==
    /\ pc[f] \in {"resend", "fresh"}
    /\ \/ ~up /\ UNCHANGED <<received, lostAcks>>
       \/ /\ up /\ lostAcks < MaxLostAcks
          /\ received' = received \o sending[f]
          /\ lostAcks' = lostAcks + 1
    /\ OnFailure(f)
    /\ sending' = [sending EXCEPT ![f] = <<>>]
    /\ UNCHANGED <<produced, mem, spool, reg, proc, up, trimmed, warned, loud,
                   crashed, restarts, overlap>>

\* Replay removes the file it has delivered.
RemoveSent(f) ==
    /\ pc[f] = "acked"
    /\ \E s \in todo[f] :
          /\ Oldest(f, s)
          /\ spool' = Without(s)
          /\ todo' = [todo EXCEPT ![f] = @ \ {s}]
    /\ Goto(f, "replay")
    /\ UNCHANGED <<produced, mem, batch, sending, reg, proc, up, received, hist,
                   overlap>>

\* Spool.Write, unlocked: the counter is loaded ...
WriteLoad(f) ==
    /\ pc[f] = "write"
    /\ reg' = [reg EXCEPT ![f] = seq]
    /\ Goto(f, "store")
    /\ UNCHANGED <<produced, mem, spool, batch, todo, sending, proc, up, received,
                   hist, overlap>>

\* enforceBound: the files that stay, and the findings of those that do not.
Kept(files) == {s \in files : Cardinality({t \in files : t > s}) < SpoolMax}
Evicted(dir) == UNION {ToSet(dir[s]) : s \in DOMAIN dir \ Kept(DOMAIN dir)}

\* ... and stored, and the report renamed into place, replacing any file of that
\* name; then the bound is enforced.  A full disk loses the report, with a log.
WriteStore(f) ==
    LET n   == reg[f] + 1
        dir == [s \in DOMAIN spool \cup {n} |-> IF s = n THEN batch[f] ELSE spool[s]]
    IN
    /\ pc[f] = "store"
    /\ seq' = n
    /\ \/ /\ spool' = Restrict(dir, Kept(DOMAIN dir))
          /\ loud' = loud \cup Evicted(dir)
       \/ /\ loud' = loud \cup ToSet(batch[f])
          /\ UNCHANGED spool
    /\ Return(f)
    /\ reg' = [reg EXCEPT ![f] = 0]
    /\ UNCHANGED <<produced, items, dropped, sending, proc, up, received, trimmed,
                   warned, crashed, lostAcks, restarts, overlap>>

-----------------------------------------------------------------------------
(* The process and the collector.                                           *)

\* SIGTERM: the context is cancelled and the tail returns.
Stop ==
    /\ proc = "running"
    /\ proc' = "stopping"
    /\ UNCHANGED <<produced, mem, spool, flush, up, received, hist, overlap>>

\* Whatever only memory holds.
InMemory == ToSet(items) \cup UNION {ToSet(batch[f]) : f \in Flushers}

Wipe ==
    /\ proc' = "down"
    /\ items' = <<>> /\ dropped' = 0 /\ seq' = 0
    /\ pc' = [f \in Flushers |-> "idle"]
    /\ batch' = [f \in Flushers |-> <<>>]
    /\ todo' = [f \in Flushers |-> {}]
    /\ sending' = [f \in Flushers |-> <<>>]
    /\ reg' = [f \in Flushers |-> 0]

\* cmdRun returns after its flush, whatever the ticker goroutine is doing.
Exit ==
    /\ pc["final"] = "done"
    /\ Wipe
    /\ UNCHANGED <<produced, spool, up, received, hist, overlap>>

Crash ==
    /\ proc # "down"
    /\ restarts < MaxRestarts
    /\ crashed' = crashed \cup InMemory
    /\ Wipe
    /\ UNCHANGED <<produced, spool, up, received, trimmed, warned, loud, lostAcks,
                   restarts, overlap>>

\* Spool.New primes the counter past the files it finds.
Primed_Zero(n) == n = 0
Primed(n) == \A s \in DOMAIN spool : s <= n

Restart ==
    /\ proc = "down"
    /\ restarts < MaxRestarts
    /\ restarts' = restarts + 1
    /\ proc' = "running"
    /\ \E n \in DOMAIN spool \cup {0} : Primed(n) /\ seq' = n
    /\ UNCHANGED <<produced, items, dropped, spool, flush, up, received, trimmed,
                   warned, loud, crashed, lostAcks, overlap>>

CollectorDown ==
    /\ up /\ seq < MaxSeq
    /\ up' = FALSE
    /\ UNCHANGED <<produced, mem, spool, flush, proc, received, hist, overlap>>

CollectorUp ==
    /\ ~up
    /\ up' = TRUE
    /\ UNCHANGED <<produced, mem, spool, flush, proc, received, hist, overlap>>

FlushStep(f) ==
    \/ FlushStart(f)
    \/ Drain(f)
    \/ ReplayList(f)
    \/ ReplayNext(f)
    \/ PostOK(f)
    \/ PostFail(f)
    \/ RemoveSent(f)
    \/ WriteLoad(f)
    \/ WriteStore(f)

Next ==
    \/ Add
    \/ \E f \in Flushers : FlushStep(f)
    \/ Stop \/ Exit \/ Crash \/ Restart
    \/ CollectorDown \/ CollectorUp

Spec == Init /\ [][Next]_vars

\* The ticker keeps ticking and a flush that has begun is scheduled.  Nothing
\* obliges the collector to come back.
FairSpec == Spec /\ WF_vars(FlushStep("ticker"))

-----------------------------------------------------------------------------
(* Properties.                                                              *)

TypeOK ==
    /\ produced \in 0 .. Findings
    /\ items \in Seq(1 .. Findings) /\ Len(items) <= BufferMax
    /\ dropped \in Nat /\ seq \in Nat /\ warned \in Nat
    /\ DOMAIN spool \subseteq Nat \ {0} /\ Cardinality(DOMAIN spool) <= SpoolMax
    /\ Range(spool) \subseteq Seq(1 .. Findings)
    /\ pc \in [Flushers -> {"idle", "warned", "drained", "replay", "resend", "acked",
                            "fresh", "write", "store", "done"}]
    /\ batch \in [Flushers -> Seq(1 .. Findings)]
    /\ todo \in [Flushers -> SUBSET (Nat \ {0})]
    /\ sending \in [Flushers -> Seq(1 .. Findings)]
    /\ reg \in [Flushers -> Nat]
    /\ proc \in {"running", "stopping", "down"}
    /\ {up, overlap} \subseteq BOOLEAN
    /\ received \in Seq(1 .. Findings)
    /\ {trimmed, loud, crashed} \subseteq SUBSET (1 .. Findings)
    /\ lostAcks \in 0 .. MaxLostAcks /\ restarts \in 0 .. MaxRestarts

Spooled == UNION {ToSet(spool[s]) : s \in DOMAIN spool}

\* What became of a finding is settled: committed, discarded by a cap or a disk
\* error that was reported, or in memory at a crash.
Settled == ToSet(received) \cup trimmed \cup loud \cup crashed

\* No finding vanishes: a report whose POST failed is on disk, a report on disk
\* is delivered or its loss is logged, whatever the collector, the disk and a
\* restart do.
NoLoss == 1 .. produced \subseteq InMemory \cup Spooled \cup Settled

\* The same, as long as no two flushes are in progress together.
NoLossUnlessOverlap == overlap \/ NoLoss

\* No finding reaches the collector before an older one that is still to come:
\* the backlog goes first, oldest first, across outages and restarts.
InOrder ==
    overlap \/ \A i, j \in DOMAIN received :
        i < j /\ received[i] > received[j] =>
            \E k \in 1 .. i : received[k] = received[j]

Copies(n) == Cardinality({i \in DOMAIN received : received[i] = n})

\* At-least-once delivery repeats a finding only for an answer that was lost or
\* a process that died between the answer and the removal of the file.
DuplicatesExplained ==
    overlap \/ \A n \in 1 .. produced : Copies(n) <= 1 + lostAcks + restarts

\* What an operator relies on: every finding arrives, in order, and twice only
\* for a reason.
AtLeastOnceInOrder == NoLossUnlessOverlap /\ InOrder /\ DuplicatesExplained

\* Every discarded finding has been counted in a warning or still will be.
TrimsAnnounced == Cardinality(trimmed) <= warned + dropped

\* While agentd runs and the collector answers, the backlog drains: no finding
\* waits for ever.
BacklogDrains ==
    \A n \in 1 .. Findings :
        <>[](up /\ proc = "running") =>
            []((n <= produced) => <>(overlap \/ n \in Settled))
Delivered == ToSet(received)

\* Delivery implements the channel: what memory or the spool holds and the
\* collector has not is pending; the buffer's trims, logged losses and crashes
\* give findings up.
Chan == INSTANCE Channel WITH
    made      <- produced,
    pending   <- (InMemory \cup Spooled) \ Delivered,
    delivered <- Delivered,
    abandoned <- (trimmed \cup loud \cup crashed) \ Delivered

\* Every step of buffer, flush, spool and restart is a step of the channel or
\* invisible to it: no finding is lost silently or overtaken by a younger one, as
\* long as no two flushes overlap.
ImplementsChannel == Chan!Spec
=============================================================================
