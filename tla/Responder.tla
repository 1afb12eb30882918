------------------------------ MODULE Responder ------------------------------
(***************************************************************************)
(* The guarded response path of agentd: Responder.Respond and              *)
(* Responder.RespondRescue (agent/internal/respond/responder.go) called by *)
(* concurrent requests, the sliding-window rate limiter they share, the    *)
(* file-backed kill switch, the append-only audit log, and the shutdown of *)
(* the socket that carries the requests (socket.go, cmdRun in main.go).    *)
(*                                                                         *)
(* Each request is one goroutine.  Respond takes no lock over its whole    *)
(* body, so every brake is a step of its own and the steps of different    *)
(* requests interleave; only the limiter and the audit writer are locked.  *)
(***************************************************************************)
EXTENDS Integers, Sequences, FiniteSets

CONSTANTS
    Requests,        \* identities of requests, each submitted at most once
    Shapes,          \* the request contents the environment may submit
    ResponderDry,    \* Responder.DryRun, the default of a request without override
    RateMax,         \* rateLimiter.max
    RateWindow,      \* rateLimiter.window, in clock ticks
    MaxLag,          \* longest time a live request spends between r.clock() and allow
    MaxClock,        \* bound on the clock, for model checking only
    MaxUnwritten     \* bound on the writes to the audit file that fail

RequestShapes ==
    [entry: {"respond", "rescue"}, reverse: BOOLEAN, valid: BOOLEAN,
     override: {"unset", "live", "dry"}]

ASSUME ResponderAssumption ==
    /\ IsFiniteSet(Requests)
    /\ Shapes \subseteq RequestShapes
    /\ ResponderDry \in BOOLEAN
    /\ RateMax \in Nat \ {0}
    /\ RateWindow \in Nat \ {0}
    /\ MaxLag \in Nat
    /\ MaxClock \in Nat
    /\ MaxUnwritten \in Nat

VARIABLES
    shape,      \* what each request asks for
    pc,         \* where each request's goroutine is in Respond or RespondRescue
    stamp,      \* the time the request captured with r.clock() on entry
    verdict,    \* how the request was decided
    events,     \* the requests whose stamps are in rateLimiter.events
    grantedAt,  \* when allow returned TRUE for the request, -1 if it never did
    clock,      \* the wall clock
    killSwitch, \* the kill-switch file: absent, present or not inspectable
    server,     \* the serving goroutine and the process around it
    auditOpen,  \* the audit file is open
    log,        \* the audit file
    shielded,   \* history: requests that entered after the kill switch last appeared
    unwritten,  \* history: the records that a write to the open file lost
    abandoned   \* history: the handlers that Serve left behind

past == <<unwritten, abandoned>>
vars == <<shape, pc, stamp, verdict, events, grantedAt, clock, killSwitch,
          server, auditOpen, log, shielded, past>>

Stages    == {"idle", "kill", "rate", "intent", "exec", "result", "done"}
Refusals  == {"invalid", "killed", "limited"}
Verdicts  == {"none", "planned"} \cup Refusals \cup {"executed"}
Records   == [stage: {"intent", "result"}, req: Requests]

\* statExists: only a file that is provably missing counts as no kill switch.
KillActive_OnlyPresent == killSwitch = "present"
KillActive == killSwitch # "absent"
Running    == server # "exited"

\* Request.dryRun: the per-request override when set, else the responder's default.
DryRun(r) == IF shape[r].override = "unset" THEN ResponderDry
                                            ELSE shape[r].override = "dry"

\* Respond is called by a handler, RespondRescue by agentd itself.
IsHandler(r) == shape[r].entry = "respond"
InFlight == {r \in Requests : pc[r] \notin {"idle", "done"}}
Handlers == {r \in InFlight : IsHandler(r)}
Granted  == {r \in Requests : grantedAt[r] >= 0}

Init ==
    /\ shape \in [Requests -> Shapes]
    /\ pc = [r \in Requests |-> "idle"]
    /\ stamp = [r \in Requests |-> 0]
    /\ verdict = [r \in Requests |-> "none"]
    /\ events = {}
    /\ grantedAt = [r \in Requests |-> -1]
    /\ clock = 0
    /\ killSwitch = "absent"
    /\ server = "up"
    /\ auditOpen = TRUE
    /\ log = <<>>
    /\ shielded = {} /\ unwritten = {} /\ abandoned = {}

-----------------------------------------------------------------------------
(* The steps of one request.                                               *)

Goto(r, stage)    == pc' = [pc EXCEPT ![r] = stage]
Decide(r, v)      == verdict' = [verdict EXCEPT ![r] = v]

\* The guards refuse, or the rescue path was asked for a containment action.
Refused(r) ==
    \/ ~shape[r].valid
    \/ shape[r].entry = "rescue" /\ ~shape[r].reverse

\* RespondRescue checks neither the kill switch nor the rate budget.
SkipsBrakes_Never(r) == FALSE
SkipsBrakes(r) == shape[r].entry = "rescue"

\* The handler accepted the request, or agentd wants a rescue: the clock is read,
\* the effective mode is fixed and the guards are run.
Begin(r) ==
    /\ IF IsHandler(r) THEN server = "up" ELSE Running
    /\ pc[r] = "idle"
    /\ stamp' = [stamp EXCEPT ![r] = clock]
    /\ shielded' = IF killSwitch = "absent" THEN shielded ELSE shielded \cup {r}
    /\ Goto(r, IF Refused(r) \/ SkipsBrakes(r) THEN "intent" ELSE "kill")
    /\ Decide(r, IF Refused(r) THEN "invalid" ELSE "none")
    /\ UNCHANGED <<shape, events, grantedAt, clock, killSwitch, server,
                   auditOpen, log, past>>

\* The kill switch refuses in every mode; without it a live request goes on to
\* the limiter and a dry-run straight to its audit record.
CheckKillSwitch(r) ==
    /\ Running
    /\ pc[r] = "kill"
    /\ IF KillActive
       THEN Decide(r, "killed") /\ Goto(r, "intent")
       ELSE /\ Goto(r, IF DryRun(r) THEN "intent" ELSE "rate")
            /\ UNCHANGED verdict
    /\ UNCHANGED <<shape, stamp, events, grantedAt, clock, killSwitch, server,
                   auditOpen, log, shielded, past>>

\* The events allow keeps for a request that entered at time t.
Kept_NoPrune(t) == events
Kept(t) == {e \in events : stamp[e] > t - RateWindow}

Exhausted_OffByOne(t) == Cardinality(Kept(t)) > RateMax
Exhausted(t) == Cardinality(Kept(t)) >= RateMax

\* rateLimiter.allow, atomic under its mutex: prune, then refuse or record.
\* A refusal records nothing.
Allow(r) ==
    /\ Running
    /\ pc[r] = "rate"
    /\ Goto(r, "intent")
    /\ IF Exhausted(stamp[r])
       THEN /\ events' = Kept(stamp[r])
            /\ Decide(r, "limited")
            /\ UNCHANGED grantedAt
       ELSE /\ events' = Kept(stamp[r]) \cup {r}
            /\ grantedAt' = [grantedAt EXCEPT ![r] = clock]
            /\ UNCHANGED verdict
    /\ UNCHANGED <<shape, stamp, clock, killSwitch, server, auditOpen, log,
                   shielded, past>>

\* AuditLog.write: one record under the log's mutex.  Every caller discards the
\* error of a write that fails, and so of any after Close.
Audit_ResultOnly(stage, r) ==
    /\ log' = IF stage = "result" THEN Append(log, [stage |-> stage, req |-> r]) ELSE log
    /\ UNCHANGED unwritten
Audit(stage, r) ==
    LET rec == [stage |-> stage, req |-> r] IN
    \/ auditOpen /\ log' = Append(log, rec) /\ UNCHANGED unwritten
    \/ /\ auditOpen /\ Cardinality(unwritten) < MaxUnwritten
       /\ unwritten' = unwritten \cup {rec} /\ UNCHANGED log
    \/ ~auditOpen /\ UNCHANGED <<log, unwritten>>

\* The intent record; then a refusal or a dry-run goes to its result record
\* and a live request to the executor.
WriteIntent(r) ==
    /\ Running
    /\ pc[r] = "intent"
    /\ Audit("intent", r)
    /\ IF verdict[r] # "none"
       THEN Goto(r, "result") /\ UNCHANGED verdict
       ELSE IF DryRun(r) THEN Goto(r, "result") /\ Decide(r, "planned")
                         ELSE Goto(r, "exec") /\ UNCHANGED verdict
    /\ UNCHANGED <<shape, stamp, events, grantedAt, clock, killSwitch, server,
                   auditOpen, shielded, abandoned>>

\* Executor.Execute.  Its error goes into the result record, and nothing else
\* here depends on it: a failed execution counts as one.
Execute(r) ==
    /\ Running
    /\ pc[r] = "exec"
    /\ Decide(r, "executed")
    /\ Goto(r, "result")
    /\ UNCHANGED <<shape, stamp, events, grantedAt, clock, killSwitch, server,
                   auditOpen, log, shielded, past>>

WriteResult(r) ==
    /\ Running
    /\ pc[r] = "result"
    /\ Audit("result", r)
    /\ Goto(r, "done")
    /\ UNCHANGED <<shape, stamp, verdict, events, grantedAt, clock, killSwitch,
                   server, auditOpen, shielded, abandoned>>

-----------------------------------------------------------------------------
(* The environment: time, the operator's kill switch, shutdown and crash.   *)

\* Time passes.  A live request reaches the limiter within MaxLag of reading
\* the clock: an assumption on scheduling, which the code does not enforce.
Tick ==
    /\ Running
    /\ clock < MaxClock
    /\ \A r \in Requests :
          pc[r] \in {"kill", "rate"} => clock + 1 - stamp[r] <= MaxLag
    /\ clock' = clock + 1
    /\ UNCHANGED <<shape, pc, stamp, verdict, events, grantedAt, killSwitch,
                   server, auditOpen, log, shielded, past>>

\* The operator touches or removes the kill-switch file, or its directory
\* becomes unreadable, which statExists treats as present.
SetKillSwitch(k) ==
    /\ Running
    /\ k # killSwitch
    /\ killSwitch' = k
    /\ shielded' = IF k = "absent" THEN {} ELSE shielded
    /\ UNCHANGED <<shape, pc, stamp, verdict, events, grantedAt, clock, server,
                   auditOpen, log, past>>

\* SIGTERM cancels the context: Serve calls srv.Shutdown, which accepts no more.
Shutdown ==
    /\ server = "up"
    /\ server' = "draining"
    /\ UNCHANGED <<shape, pc, stamp, verdict, events, grantedAt, clock,
                   killSwitch, auditOpen, log, shielded, past>>

\* Serve returns when no handler is left, or after five seconds without those that are.
ServeReturns ==
    /\ server = "draining"
    /\ server' = "stopped"
    /\ abandoned' = Handlers
    /\ UNCHANGED <<shape, pc, stamp, verdict, events, grantedAt, clock,
                   killSwitch, auditOpen, log, shielded, unwritten>>

CloseAudit_NoWait ==
    /\ server \in {"draining", "stopped"}
    /\ auditOpen
    /\ auditOpen' = FALSE
    /\ UNCHANGED <<shape, pc, stamp, verdict, events, grantedAt, clock,
                   killSwitch, server, log, shielded, past>>

\* The deferred function of cmdRun: serveWG.Wait, then the audit file is closed.
CloseAudit ==
    /\ server = "stopped"
    /\ auditOpen
    /\ auditOpen' = FALSE
    /\ UNCHANGED <<shape, pc, stamp, verdict, events, grantedAt, clock,
                   killSwitch, server, log, shielded, past>>

\* cmdRun returns after the close, or the process is killed at any moment.
Exit(crash) ==
    /\ Running
    /\ crash \/ ~auditOpen
    /\ server' = "exited"
    /\ UNCHANGED <<shape, pc, stamp, verdict, events, grantedAt, clock,
                   killSwitch, auditOpen, log, shielded, past>>

RequestStep(r) ==
    \/ CheckKillSwitch(r)
    \/ Allow(r)
    \/ WriteIntent(r)
    \/ Execute(r)
    \/ WriteResult(r)

Next ==
    \/ \E r \in Requests : Begin(r)
    \/ \E r \in Requests : RequestStep(r)
    \/ Tick
    \/ \E k \in {"absent", "present", "unreadable"} : SetKillSwitch(k)
    \/ Shutdown
    \/ ServeReturns
    \/ CloseAudit
    \/ \E crash \in BOOLEAN : Exit(crash)

Spec == Init /\ [][Next]_vars

\* Go schedules every runnable goroutine and an executor call returns, so each
\* request in progress keeps moving.  Nothing is assumed of the operator.
FairSpec == Spec /\ \A r \in Requests : WF_vars(RequestStep(r))

-----------------------------------------------------------------------------
(* Properties.                                                              *)

TypeOK ==
    /\ shape \in [Requests -> Shapes]
    /\ pc \in [Requests -> Stages]
    /\ stamp \in [Requests -> Nat]
    /\ verdict \in [Requests -> Verdicts]
    /\ events \subseteq Requests
    /\ grantedAt \in [Requests -> Nat \cup {-1}]
    /\ clock \in Nat
    /\ killSwitch \in {"absent", "present", "unreadable"}
    /\ server \in {"up", "draining", "stopped", "exited"}
    /\ auditOpen \in BOOLEAN
    /\ log \in Seq(Records)
    /\ shielded \subseteq Requests
    /\ unwritten \subseteq Records
    /\ abandoned \subseteq Requests

Logged(stage, r) == \E i \in DOMAIN log : log[i] = [stage |-> stage, req |-> r]

\* The limiter really is a sliding window up to the lag of the callers: in any
\* window shorter than RateWindow by MaxLag, whatever order concurrent requests
\* reach the limiter in and however stale their stamps, at most RateMax of them
\* are let through.
RateWindowBound ==
    Cardinality({r \in Granted : grantedAt[r] > clock - (RateWindow - MaxLag)})
        <= RateMax

\* A request is rate-limited only on account of RateMax live requests that were
\* really let through less than a window before it: refusals, dry-runs and
\* rescues never use up the budget, so a blocked storm cannot extend its lockout.
RefusalJustified ==
    \A r \in Requests : verdict[r] = "limited" =>
        Cardinality({g \in Granted : stamp[g] > stamp[r] - RateWindow}) >= RateMax

\* A request that came while the kill switch was up, and has seen it stay up, is
\* never planned or executed, live or dry, whatever other requests are doing:
\* through Respond not at all, and through the rescue path not for a containment
\* action.  (Only requests already past the check may still run.)
KillSwitchRefuses ==
    \A r \in shielded :
        shape[r].entry = "respond" \/ ~shape[r].reverse =>
            verdict[r] \notin {"planned", "executed"}

\* Request r is past writing the record of a stage.
Past(stage, r) == pc[r] = "done" \/ (stage = "intent" /\ pc[r] \in {"exec", "result"})

\* Nothing waits for r before the audit file is closed.
NotAwaited(r) == ~IsHandler(r) \/ r \in abandoned

\* What a request did is on record, its intent before anything ran, in every
\* interleaving with other requests, shutdown and crash: a record is missing only
\* if the open file did not take it, or if it came after the close from a handler
\* that outlived the drain, or from a rescue.
TrailComplete ==
    \A r \in Requests, stage \in {"intent", "result"} :
        Past(stage, r) =>
            \/ Logged(stage, r)
            \/ [stage |-> stage, req |-> r] \in unwritten
            \/ ~auditOpen /\ NotAwaited(r)

\* The audit file is closed behind the last handler, but for those that Serve gave
\* up waiting for: none enters, or goes on, that the close did not wait for.
CloseAfterLastWrite == ~auditOpen /\ Running => Handlers \subseteq abandoned

\* What main.go and respond.go say: nothing runs unaudited.
NothingRunsUnaudited == \A r \in Requests : verdict[r] = "executed" => Logged("intent", r)

\* What main.go says: the close happens after the last write of a handler.
ClosedBehindHandlers == ~auditOpen /\ Running => Handlers = {}

\* A valid live rescue is executed unless the process ends first, with the kill
\* switch up for ever and the rate budget exhausted by the burst before it.
RescueCompletes ==
    \A r \in Requests :
        (pc[r] # "idle" /\ shape[r].entry = "rescue" /\ shape[r].valid
            /\ shape[r].reverse /\ ~DryRun(r))
        ~> (verdict[r] = "executed" \/ server = "exited")
=============================================================================
