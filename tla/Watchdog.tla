------------------------------ MODULE Watchdog ------------------------------
(***************************************************************************)
(* LockoutWatchdog over the RealExecutor: when the operator has been locked*)
(* out for a sustained interval, the inverses of the journaled actions run *)
(* newest first through RespondRescue, each is verified, and each failure  *)
(* raises a CRITICAL finding                                               *)
(* (agent/internal/respond/watchdog.go, undo_journal.go).                  *)
(*                                                                         *)
(* No code path of this build writes the journal or calls the watchdog.    *)
(* Here a forward action is journaled when it has succeeded, which is when *)
(* its inverse is known (Result.QuarantineDst); responses run live.        *)
(***************************************************************************)
EXTENDS Executor, Sequences

CONSTANTS
    WD,          \* the watchdog as a caller of the executor
    MinTicks,    \* debounce: consecutive lockout ticks
    MinDuration, \* debounce: time they must span
    MaxRollbacks \* bound: rollbacks, after which nothing is probed any more

ASSUME WatchdogAssumption ==
    /\ WD \notin Callers \cup {None}
    /\ MinTicks \in Nat \ {0}
    /\ MinDuration \in Nat /\ MaxRollbacks \in Nat

VARIABLES
    journal,   \* the forward calls journaled, oldest first
    lockedOut, \* what the probes report
    streak,    \* consecutive lockout ticks, counted up to MinTicks
    span,      \* time since the first of them, up to MinDuration
    walk,      \* the records CheckAndRollback has still to undo
    walking,   \* CheckAndRollback is running
    critical,  \* the records this rollback could not undo
    alerted,   \* history: the records some rollback could not undo
    disturbed, \* history: another call ran during this rollback
    seen,      \* history: the last MinTicks observations
    rollbacks  \* history: rollbacks begun

wdVars == <<journal, lockedOut, streak, span, walk, walking, critical, alerted, disturbed,
            seen, rollbacks>>
vars == <<execVars, wdVars>>

All == Callers \cup {WD}

Init ==
    /\ ExecInit(All)
    /\ journal = <<>>
    /\ lockedOut = FALSE
    /\ streak = 0 /\ span = 0
    /\ walk = <<>> /\ walking = FALSE
    /\ critical = {} /\ alerted = {} /\ disturbed = FALSE
    /\ seen = <<>> /\ rollbacks = 0

-----------------------------------------------------------------------------
(* Requests of other callers.                                               *)

\* A caller undoes only a quarantine whose destination it was told.
Requests == Forward \cup {RestoreKey, DeIsolate} \cup
            {Unquarantine(c) : c \in {d \in Callers : op[d] \in {Quarantine, QuarantineFD} /\ pc[d] = "ok"}}

Request(c) ==
    /\ pc[c] = "idle"
    /\ \E r \in Requests : Execute(c, r)
    /\ disturbed' = (disturbed \/ walking)
    /\ UNCHANGED <<journal, lockedOut, streak, span, walk, walking, critical, alerted, seen,
                   rollbacks>>

\* UndoJournal.Append.
Journaled(c) ==
    IF op[c] \in Forward /\ pc'[c] = "ok" /\ pc[c] # "ok" THEN Append(journal, c) ELSE journal

Run(c) ==
    /\ ExecStep(c)
    /\ journal' = Journaled(c)
    /\ disturbed' = (disturbed \/ walking)
    /\ UNCHANGED <<lockedOut, streak, span, walk, walking, critical, alerted, seen, rollbacks>>

-----------------------------------------------------------------------------
(* The watchdog.                                                            *)

\* The session's interface or the response socket goes down or comes back.
Probe ==
    /\ walking \/ rollbacks < MaxRollbacks
    /\ lockedOut' = ~lockedOut
    /\ UNCHANGED <<execVars, journal, streak, span, walk, walking, critical, alerted,
                   disturbed, seen, rollbacks>>

AtMost(n, max) == IF n > max THEN max ELSE n

\* observeLockout: a recovery resets the streak; d is the time since the
\* previous tick.
StreakAfterRecovery_Kept == streak
StreakAfterRecovery == 0

Observe(d) ==
    /\ streak' = IF lockedOut THEN AtMost(streak + 1, MinTicks) ELSE StreakAfterRecovery
    /\ span' = IF lockedOut /\ streak > 0 THEN AtMost(span + d, MinDuration) ELSE 0
    /\ seen' = LET s == Append(seen, lockedOut)
               IN IF Len(s) > MinTicks THEN Tail(s) ELSE s

\* The debounce is satisfied.
Sustained == lockedOut /\ streak' >= MinTicks /\ span' >= MinDuration

\* CheckAndRollback up to the walk.
Tick(d) ==
    /\ ~walking /\ rollbacks < MaxRollbacks
    /\ Observe(d)
    /\ IF Sustained
       THEN /\ walking' = TRUE
            /\ walk' = journal
            /\ critical' = {}
            /\ disturbed' = \E c \in Callers : Active(c)
            /\ rollbacks' = rollbacks + 1
       ELSE UNCHANGED <<walking, walk, critical, disturbed, rollbacks>>
    /\ UNCHANGED <<execVars, journal, lockedOut, alerted>>

\* The record being undone: the newest.
Current == walk[Len(walk)]

Undone == walk' = SubSeq(walk, 1, Len(walk) - 1)

InverseOf(c) ==
    CASE op[c].act = "revoke-key" -> RestoreKey
      [] op[c].act = "isolate"    -> DeIsolate
      [] op[c].act \in {"quarantine", "quarantine-fd"} -> Unquarantine(c)
      [] OTHER                    -> NoOp

\* The inverse is handed to RespondRescue.
Undo ==
    /\ walking /\ walk # <<>>
    /\ pc[WD] = "idle"
    /\ InverseOf(Current) # NoOp
    /\ Execute(WD, InverseOf(Current))
    /\ UNCHANGED wdVars

\* A kill and a block have no inverse: that is a failure to restore.
UndoIrreversible ==
    /\ walking /\ walk # <<>>
    /\ InverseOf(Current) = NoOp
    /\ Undone
    /\ critical' = critical \cup {Current} /\ alerted' = alerted \cup {Current}
    /\ UNCHANGED <<execVars, journal, lockedOut, streak, span, walking, disturbed,
                   seen, rollbacks>>

RunUndo ==
    /\ ExecStep(WD)
    /\ UNCHANGED wdVars

\* The Result is verified.
Alerts_Never == critical
Alerts == IF pc[WD] = "ok" THEN critical ELSE critical \cup {Current}

Verify ==
    /\ walking
    /\ pc[WD] \in {"ok", "failed"}
    /\ critical' = Alerts /\ alerted' = alerted \cup Alerts
    /\ Undone
    /\ pc' = [pc EXCEPT ![WD] = "idle"]
    /\ op' = [op EXCEPT ![WD] = NoOp]
    /\ data' = [data EXCEPT ![WD] = {}]
    /\ UNCHANGED <<host, todo, overlap, raced, journal, lockedOut, streak, span,
                   walking, disturbed, seen, rollbacks>>

\* The lockout is confirmed again after the walk.
Finish ==
    /\ walking /\ walk = <<>>
    /\ walking' = FALSE
    /\ IF lockedOut THEN UNCHANGED <<streak, span>> ELSE streak' = 0 /\ span' = 0
    /\ UNCHANGED <<execVars, journal, lockedOut, walk, critical, alerted, disturbed, seen,
                   rollbacks>>

Next ==
    \/ \E c \in Callers : Request(c) \/ Run(c)
    \/ Recreate /\ UNCHANGED wdVars
    \/ Probe
    \/ \E d \in 0 .. MinDuration : Tick(d)
    \/ Undo \/ UndoIrreversible \/ RunUndo \/ Verify \/ Finish

Spec == Init /\ [][Next]_vars

-----------------------------------------------------------------------------
(* Properties.                                                              *)

TypeOK ==
    /\ ExecTypeOK(All)
    /\ journal \in Seq(Callers)
    /\ walk \in Seq(Callers)
    /\ seen \in Seq(BOOLEAN) /\ rollbacks \in Nat
    /\ streak \in 0 .. MinTicks /\ span \in 0 .. MinDuration
    /\ critical \cup alerted \subseteq Callers
    /\ {lockedOut, walking, disturbed} \subseteq BOOLEAN

\* A rollback starts only if every one of the last MinTicks ticks saw the
\* operator locked out: a blip never lifts a containment.
NoRollbackOnBlip ==
    walking => Len(seen) = MinTicks /\ \A i \in DOMAIN seen : seen[i]

\* A host whose egress is dropped without its lifelines, or a file that is both
\* restored and in quarantine, or a rule cut short, is the doing of a call that
\* is still running or has reported failure, or of an inverse that raised a
\* CRITICAL finding: what reports success leaves none of them behind, unless
\* another call or program worked on the file meanwhile.
HalfDoneIsReported ==
    LET unfinished(act) == \E c \in All : op[c].act = act /\ pc[c] # "ok"
    IN
    /\ table = "dropping" /\ accept # Ifaces => unfinished("isolate")
    /\ rule = "torn" => unfinished("block-hash")
    /\ (\E c \in Callers : copies[c] # None /\ copies[c] = origin) =>
           \/ raced \/ "file" \in overlap
           \/ unfinished("quarantine") \/ unfinished("quarantine-fd")
           \/ unfinished("unquarantine")
           \/ alerted # {}

\* What the containment must not do to the host: leave things half done without
\* saying so, be lifted by a blip, shut the operator out of SSH, or move another
\* file than the one it checked; and a revocation that reported success sticks
\* until it is rolled back, unless two requests worked on the file at the same
\* time.
ContainmentIsSafe ==
    /\ HalfDoneIsReported
    /\ NoRollbackOnBlip
    /\ KeysNeverEmptied \/ alerted # {}
    /\ ActsOnChecked
    /\ RevokeSticks \/ "keys" \in overlap \/ rollbacks > 0

\* Everything the journaled call did to the host has been taken back.
Reversed(c) ==
    CASE op[c].act = "revoke-key" -> op[c].arg \in keys
      [] op[c].act = "isolate"    -> table = "absent"
      [] op[c].act \in {"quarantine", "quarantine-fd"} -> copies[c] = None
      [] OTHER                    -> FALSE

\* A rollback that ends without a CRITICAL finding, and during which nobody else
\* acted, has reversed every journaled action.
RollbackIsReal ==
    [][walking /\ ~walking' /\ critical = {} /\ ~disturbed =>
           \A i \in DOMAIN journal : Reversed(journal[i])]_vars

\* The same, as long as no more than one revoke-key has been requested: each
\* rewrites the only backup.
RollbackIsRealPerBackup ==
    [][walking /\ ~walking' /\ critical = {} /\ ~disturbed
         /\ (\A c, d \in Callers : op[c].act = "revoke-key" /\ op[d].act = "revoke-key" => c = d) =>
           \A i \in DOMAIN journal : Reversed(journal[i])]_vars
=============================================================================
