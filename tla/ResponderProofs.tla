--------------------------- MODULE ResponderProofs ---------------------------
(* Theorems about Responder, for every number of requests, budget, window,   *)
(* lag and clock bound.                                                      *)
EXTENDS Responder, FiniteSetTheorems, TLAPS

USE ResponderAssumption

(* A write to the audit file leaves a sequence of records.                   *)
LEMMA AuditType ==
  ASSUME log \in Seq(Records), unwritten \subseteq Records, NEW stage \in {"intent", "result"},
         NEW r \in Requests, Audit(stage, r)
  PROVE  log' \in Seq(Records) /\ unwritten' \subseteq Records
<1>1. [stage |-> stage, req |-> r] \in Records
  BY DEF Records
<1>2. /\ log' = Append(log, [stage |-> stage, req |-> r]) \/ log' = log
      /\ unwritten' = unwritten \cup {[stage |-> stage, req |-> r]} \/ unwritten' = unwritten
  BY DEF Audit
<1> QED
  BY <1>1, <1>2

(* Every reachable state of the response path is well typed.                 *)
THEOREM TypeCorrect == Spec => []TypeOK
<1>1. Init => TypeOK
  BY DEF Init, TypeOK, RequestShapes, Stages, Verdicts, Refusals, Records
<1>2. TypeOK /\ [Next]_vars => TypeOK'
  <2> SUFFICES ASSUME TypeOK, [Next]_vars PROVE TypeOK'
    OBVIOUS
  <2> USE DEF TypeOK, Stages, Verdicts, Refusals, Goto, Decide, past
  <2>1. ASSUME NEW r \in Requests, Begin(r) PROVE TypeOK'
    BY <2>1 DEF Begin
  <2>2. ASSUME NEW r \in Requests, CheckKillSwitch(r) PROVE TypeOK'
    BY <2>2 DEF CheckKillSwitch
  <2>3. ASSUME NEW r \in Requests, Allow(r) PROVE TypeOK'
    BY <2>3 DEF Allow, Kept
  <2>4. ASSUME NEW r \in Requests, WriteIntent(r) PROVE TypeOK'
    <3>1. log' \in Seq(Records) /\ unwritten' \subseteq Records
      BY <2>4, AuditType DEF WriteIntent
    <3> QED
      BY <2>4, <3>1 DEF WriteIntent
  <2>5. ASSUME NEW r \in Requests, Execute(r) PROVE TypeOK'
    BY <2>5 DEF Execute
  <2>6. ASSUME NEW r \in Requests, WriteResult(r) PROVE TypeOK'
    <3>1. log' \in Seq(Records) /\ unwritten' \subseteq Records
      BY <2>6, AuditType DEF WriteResult
    <3> QED
      BY <2>6, <3>1 DEF WriteResult
  <2>7. CASE Tick
    BY <2>7 DEF Tick
  <2>8. ASSUME NEW k \in {"absent", "present", "unreadable"}, SetKillSwitch(k)
        PROVE  TypeOK'
    BY <2>8 DEF SetKillSwitch
  <2>9. CASE Shutdown
    BY <2>9 DEF Shutdown
  <2>10. CASE ServeReturns
    BY <2>10 DEF ServeReturns, Handlers, InFlight
  <2>11. CASE CloseAudit
    BY <2>11 DEF CloseAudit
  <2>12. ASSUME NEW crash \in BOOLEAN, Exit(crash) PROVE TypeOK'
    BY <2>12 DEF Exit
  <2>13. CASE UNCHANGED vars
    BY <2>13 DEF vars
  <2> QED
    BY <2>1, <2>2, <2>3, <2>4, <2>5, <2>6, <2>7, <2>8, <2>9, <2>10, <2>11,
       <2>12, <2>13 DEF Next, RequestStep
<1> QED
  BY <1>1, <1>2, PTL DEF Spec

-----------------------------------------------------------------------------
(* The rate limiter.                                                         *)

(* What is true of the limiter in every state.  events remembers everything  *)
(* granted in the window shortened by MaxLag, because a stale stamp can both *)
(* age an event early and prune with an old cutoff, each by at most MaxLag.  *)
RateInv ==
    /\ \A r \in Requests : pc[r] \in {"kill", "rate"} =>
          stamp[r] <= clock /\ clock - stamp[r] <= MaxLag
    /\ \A r \in Requests : pc[r] \in {"idle", "kill", "rate"} => r \notin Granted
    /\ \A r \in Granted : /\ stamp[r] <= grantedAt[r]
                          /\ grantedAt[r] - stamp[r] <= MaxLag
                          /\ grantedAt[r] <= clock
    /\ events \subseteq Granted
    /\ Cardinality(events) <= RateMax
    /\ \A r \in Granted : grantedAt[r] > clock - (RateWindow - MaxLag) => r \in events

(* The inductive invariant of the limiter holds in every reachable state.    *)
THEOREM RateCorrect == Spec => []RateInv
<1>1. Init => RateInv
  <2> SUFFICES ASSUME Init PROVE RateInv
    OBVIOUS
  <2>1. Cardinality(events) = 0
    BY FS_EmptySet DEF Init
  <2> QED
    BY <2>1 DEF Init, RateInv, Granted
<1>2. TypeOK /\ RateInv /\ [Next]_vars => RateInv'
  <2> SUFFICES ASSUME TypeOK, RateInv, [Next]_vars PROVE RateInv'
    OBVIOUS
  <2> USE DEF RateInv, Granted, Goto, Decide
  <2>1. ASSUME NEW r \in Requests, Begin(r) PROVE RateInv'
    BY <2>1 DEF Begin, TypeOK
  <2>2. ASSUME NEW r \in Requests, CheckKillSwitch(r) PROVE RateInv'
    BY <2>2 DEF CheckKillSwitch, TypeOK
  <2>3. ASSUME NEW r \in Requests, Allow(r) PROVE RateInv'
    <3> DEFINE kept == Kept(stamp[r])
    <3>1. /\ IsFiniteSet(events) /\ IsFiniteSet(kept)
          /\ Cardinality(kept) \in Nat
          /\ Cardinality(kept) <= Cardinality(events)
          /\ Cardinality(events) \in Nat
      BY FS_Subset, FS_CardinalityType DEF TypeOK, Kept
    <3>2. kept \subseteq events /\ r \notin kept
      BY <2>3 DEF Kept, Allow
    <3>3. Cardinality(events') <= RateMax
      <4>1. CASE events' = kept
        BY <3>1, <4>1
      <4>2. CASE ~(Cardinality(kept) >= RateMax) /\ events' = kept \cup {r}
        <5>1. Cardinality(kept \cup {r}) = Cardinality(kept) + 1
          BY <3>1, <3>2, FS_AddElement
        <5> QED
          BY <3>1, <4>2, <5>1
      <4> QED
        BY <2>3, <4>1, <4>2 DEF Allow, Exhausted
    <3>4. ASSUME NEW g \in Granted, grantedAt[g] > clock - (RateWindow - MaxLag)
          PROVE  g \in kept
      <4>1. g \in events
        BY <3>4
      <4>2. grantedAt[g] - stamp[g] <= MaxLag
        BY <3>4
      <4>3. stamp[r] <= clock
        BY <2>3 DEF Allow
      <4>4. /\ stamp[g] \in Int /\ stamp[r] \in Int /\ grantedAt[g] \in Int
            /\ clock \in Int /\ MaxLag \in Int /\ RateWindow \in Int
        BY <3>4 DEF TypeOK
      <4>5. stamp[g] > stamp[r] - RateWindow
        BY <3>4, <4>2, <4>3, <4>4
      <4> QED
        BY <4>1, <4>5 DEF Kept
    <3>5. clock' = clock /\ stamp' = stamp /\ pc' = [pc EXCEPT ![r] = "intent"]
      BY <2>3 DEF Allow
    <3>6. CASE events' = kept /\ grantedAt' = grantedAt
      BY <3>2, <3>3, <3>4, <3>5, <3>6 DEF TypeOK
    <3>7. CASE /\ events' = kept \cup {r}
               /\ grantedAt' = [grantedAt EXCEPT ![r] = clock]
      <4>1. Granted' = Granted \cup {r}
        BY <3>7 DEF TypeOK
      <4>2. \A g \in Granted' : /\ stamp'[g] <= grantedAt'[g]
                                /\ grantedAt'[g] - stamp'[g] <= MaxLag
                                /\ grantedAt'[g] <= clock'
        BY <2>3, <3>5, <3>7, <4>1 DEF Allow, TypeOK
      <4>3. \A g \in Granted' :
              grantedAt'[g] > clock' - (RateWindow - MaxLag) => g \in events'
        BY <3>4, <3>5, <3>7, <4>1 DEF TypeOK
      <4>4. events' \subseteq Granted'
        BY <3>2, <3>7, <4>1
      <4>5. \A q \in Requests : pc'[q] \in {"kill", "rate"} =>
               stamp'[q] <= clock' /\ clock' - stamp'[q] <= MaxLag
        BY <3>5 DEF TypeOK
      <4>6. \A q \in Requests :
               pc'[q] \in {"idle", "kill", "rate"} => q \notin Granted'
        BY <3>5, <4>1 DEF TypeOK
      <4> HIDE DEF Granted
      <4> QED
        BY <3>3, <4>2, <4>3, <4>4, <4>5, <4>6
    <3> QED
      BY <2>3, <3>6, <3>7 DEF Allow
  <2>4. ASSUME NEW r \in Requests, WriteIntent(r) PROVE RateInv'
    BY <2>4 DEF WriteIntent, TypeOK
  <2>5. ASSUME NEW r \in Requests, Execute(r) PROVE RateInv'
    BY <2>5 DEF Execute, TypeOK
  <2>6. ASSUME NEW r \in Requests, WriteResult(r) PROVE RateInv'
    BY <2>6 DEF WriteResult, TypeOK
  <2>7. CASE Tick
    <3>1. /\ clock' = clock + 1 /\ clock \in Nat /\ RateWindow \in Nat /\ MaxLag \in Nat
          /\ UNCHANGED <<pc, stamp, events, grantedAt>>
      BY <2>7 DEF Tick, TypeOK
    <3>2. Granted' = Granted
      BY <3>1
    <3>3. \A r \in Requests : pc'[r] \in {"kill", "rate"} =>
             stamp'[r] <= clock' /\ clock' - stamp'[r] <= MaxLag
      BY <2>7, <3>1 DEF Tick, TypeOK
    <3>4. \A r \in Granted' : /\ stamp'[r] <= grantedAt'[r]
                              /\ grantedAt'[r] - stamp'[r] <= MaxLag
                              /\ grantedAt'[r] <= clock'
      BY <3>1 DEF TypeOK
    <3>5. \A r \in Granted' :
             grantedAt'[r] > clock' - (RateWindow - MaxLag) => r \in events'
      BY <3>1, SMTT(30) DEF TypeOK
    <3> HIDE DEF Granted
    <3> QED
      BY <3>1, <3>2, <3>3, <3>4, <3>5
  <2>8. ASSUME NEW k \in {"absent", "present", "unreadable"}, SetKillSwitch(k)
        PROVE  RateInv'
    BY <2>8 DEF SetKillSwitch
  <2>9. CASE Shutdown
    BY <2>9 DEF Shutdown
  <2>10. CASE ServeReturns
    BY <2>10 DEF ServeReturns
  <2>11. CASE CloseAudit
    BY <2>11 DEF CloseAudit
  <2>12. ASSUME NEW crash \in BOOLEAN, Exit(crash) PROVE RateInv'
    BY <2>12 DEF Exit
  <2>13. CASE UNCHANGED vars
    BY <2>13 DEF vars
  <2> QED
    BY <2>1, <2>2, <2>3, <2>4, <2>5, <2>6, <2>7, <2>8, <2>9, <2>10, <2>11,
       <2>12, <2>13 DEF Next, RequestStep
<1> QED
  BY <1>1, <1>2, TypeCorrect, PTL DEF Spec

(* However requests interleave between reading the clock and reaching the    *)
(* limiter, at most RateMax are let through in any window shorter than       *)
(* RateWindow by the longest such lag.                                       *)
THEOREM RateBound == Spec => []RateWindowBound
<1>1. TypeOK /\ RateInv => RateWindowBound
  <2> SUFFICES ASSUME TypeOK, RateInv PROVE RateWindowBound
    OBVIOUS
  <2> DEFINE recent ==
        {r \in Granted : grantedAt[r] > clock - (RateWindow - MaxLag)}
  <2>1. recent \subseteq events
    BY DEF RateInv
  <2>2. IsFiniteSet(events)
    BY FS_Subset DEF TypeOK
  <2>3. /\ Cardinality(recent) <= Cardinality(events)
        /\ Cardinality(recent) \in Nat /\ Cardinality(events) \in Nat
    BY <2>1, <2>2, FS_Subset, FS_CardinalityType
  <2>4. Cardinality(events) <= RateMax
    BY DEF RateInv
  <2>5. Cardinality(recent) <= RateMax
    BY <2>3, <2>4
  <2> QED
    BY <2>5 DEF RateWindowBound
<1> QED
  BY <1>1, TypeCorrect, RateCorrect, PTL

(* A refused request keeps its stamp and its reason.                         *)
RefusalInv ==
    /\ RefusalJustified
    /\ \A r \in Requests : pc[r] \in {"idle", "kill", "rate"} => verdict[r] = "none"

(* A request is rate-limited only because RateMax live requests were let     *)
(* through less than a window before it.                                     *)
THEOREM RefusalsJustified == Spec => []RefusalJustified
<1> DEFINE Causes(r) == {g \in Granted : stamp[g] > stamp[r] - RateWindow}
<1>1. Init => RefusalInv
  BY DEF Init, RefusalInv, RefusalJustified
<1>2. TypeOK /\ RateInv /\ RefusalInv /\ [Next]_vars => RefusalInv'
  <2> SUFFICES ASSUME TypeOK, RateInv, RefusalInv, [Next]_vars PROVE RefusalInv'
    OBVIOUS
  <2>1. \A r \in Requests :
           IsFiniteSet(Causes(r)) /\ IsFiniteSet(Causes(r)')
    BY FS_Subset DEF Granted
  <2>2. ASSUME NEW r \in Requests, verdict[r] = "limited", verdict'[r] = "limited",
               Causes(r) \subseteq Causes(r)'
        PROVE  Cardinality(Causes(r)') >= RateMax
    <3>1. Cardinality(Causes(r)) >= RateMax
      BY <2>2 DEF RefusalInv, RefusalJustified
    <3>2. /\ Cardinality(Causes(r)) <= Cardinality(Causes(r)')
          /\ Cardinality(Causes(r)) \in Nat /\ Cardinality(Causes(r)') \in Nat
      BY <2>1, <2>2, FS_Subset, FS_CardinalityType
    <3> QED
      BY <3>1, <3>2
  <2>3. ASSUME NEW r \in Requests, verdict'[r] = "limited", Allow(r)
        PROVE  Cardinality(Causes(r)') >= RateMax
    <3>1. verdict[r] = "none" /\ pc[r] = "rate"
      BY <2>3 DEF Allow, RefusalInv
    <3>2. /\ Cardinality(Kept(stamp[r])) >= RateMax
          /\ grantedAt' = grantedAt /\ stamp' = stamp
      BY <2>3, <3>1 DEF Allow, Exhausted
    <3>3. Kept(stamp[r]) \subseteq Causes(r)'
      BY <3>2 DEF Kept, RateInv, Granted
    <3>4. /\ Cardinality(Kept(stamp[r])) <= Cardinality(Causes(r)')
          /\ Cardinality(Kept(stamp[r])) \in Nat /\ Cardinality(Causes(r)') \in Nat
      BY <2>1, <3>3, FS_Subset, FS_CardinalityType
    <3> QED
      BY <3>2, <3>4
  <2>4. ASSUME NEW r \in Requests, UNCHANGED <<stamp, grantedAt>>
        PROVE  Causes(r)' = Causes(r)
    BY <2>4 DEF Granted
  <2> USE DEF RefusalInv, RefusalJustified, Goto, Decide
  <2>5. ASSUME NEW r \in Requests, Begin(r) PROVE RefusalInv'
    <3>1. ASSUME NEW q \in Requests, verdict'[q] = "limited"
          PROVE  verdict[q] = "limited" /\ Causes(q) \subseteq Causes(q)'
      <4>1. verdict[q] = "limited" /\ q # r
        BY <2>5, <3>1 DEF Begin, TypeOK
      <4>2. r \notin Granted /\ Granted' = Granted /\ stamp' = [stamp EXCEPT ![r] = clock]
        BY <2>5 DEF Begin, RateInv, Granted
      <4> QED
        BY <4>1, <4>2 DEF TypeOK, Granted
    <3>2. \A q \in Requests : pc'[q] \in {"idle", "kill", "rate"} => verdict'[q] = "none"
      BY <2>5 DEF Begin, TypeOK
    <3> QED
      BY <2>2, <3>1, <3>2
  <2>6. ASSUME NEW r \in Requests, Allow(r) PROVE RefusalInv'
    <3>1. ASSUME NEW q \in Requests, q # r, verdict'[q] = "limited"
          PROVE  verdict[q] = "limited" /\ Causes(q) \subseteq Causes(q)'
      <4>1. verdict[q] = "limited" /\ stamp' = stamp
        BY <2>6, <3>1 DEF Allow, TypeOK
      <4>2. Granted \subseteq Granted'
        <5>1. clock >= 0
          BY DEF TypeOK
        <5>2. CASE grantedAt' = grantedAt
          BY <5>2 DEF Granted
        <5>3. CASE grantedAt' = [grantedAt EXCEPT ![r] = clock]
          BY <5>1, <5>3 DEF Granted, TypeOK
        <5> QED
          BY <2>6, <5>2, <5>3 DEF Allow
      <4> QED
        BY <4>1, <4>2
    <3>2. \A q \in Requests : pc'[q] \in {"idle", "kill", "rate"} => verdict'[q] = "none"
      BY <2>6 DEF Allow, TypeOK
    <3> QED
      BY <2>2, <2>3, <2>6, <3>1, <3>2
  <2>7. ASSUME UNCHANGED <<stamp, grantedAt>>,
               \A q \in Requests : /\ verdict'[q] = "limited" => verdict[q] = "limited"
                                   /\ pc'[q] \in {"idle", "kill", "rate"} => verdict'[q] = "none"
        PROVE  RefusalInv'
    BY <2>2, <2>4, <2>7
  <2>8. ASSUME NEW r \in Requests, CheckKillSwitch(r) PROVE RefusalInv'
    BY <2>7, <2>8 DEF CheckKillSwitch, TypeOK
  <2>9. ASSUME NEW r \in Requests, WriteIntent(r) PROVE RefusalInv'
    BY <2>7, <2>9 DEF WriteIntent, TypeOK
  <2>10. ASSUME NEW r \in Requests, Execute(r) PROVE RefusalInv'
    BY <2>7, <2>10 DEF Execute, TypeOK
  <2>11. ASSUME NEW r \in Requests, WriteResult(r) PROVE RefusalInv'
    BY <2>7, <2>11 DEF WriteResult, TypeOK
  <2>12. CASE UNCHANGED <<pc, stamp, verdict, grantedAt>>
    BY <2>7, <2>12
  <2> QED
    BY <2>5, <2>6, <2>8, <2>9, <2>10, <2>11, <2>12
       DEF Next, RequestStep, Tick, SetKillSwitch, Shutdown, ServeReturns,
           CloseAudit, Exit, vars
<1>3. RefusalInv => RefusalJustified
  BY DEF RefusalInv
<1> QED
  BY <1>1, <1>2, <1>3, TypeCorrect, RateCorrect, PTL DEF Spec

-----------------------------------------------------------------------------
(* The kill switch.                                                          *)

(* A shielded request has not passed the check, or was refused; and requests *)
(* are shielded only while the file is there.                                *)
ShieldInv ==
    \A r \in shielded :
        /\ KillActive
        /\ pc[r] # "idle"
        /\ shape[r].entry = "respond" \/ ~shape[r].reverse =>
             \/ pc[r] = "kill" /\ verdict[r] = "none"
             \/ pc[r] \in {"intent", "result", "done"} /\ verdict[r] \in Refusals

(* No request that entered under a raised kill switch is planned or executed. *)
THEOREM KillSwitchHolds == Spec => []KillSwitchRefuses
<1>1. Init => ShieldInv
  BY DEF Init, ShieldInv
<1>2. TypeOK /\ ShieldInv /\ [Next]_vars => ShieldInv'
  <2> SUFFICES ASSUME TypeOK, ShieldInv, [Next]_vars PROVE ShieldInv'
    OBVIOUS
  <2> USE DEF ShieldInv, KillActive, Goto, Decide, Refusals
  <2>1. ASSUME NEW r \in Requests, Begin(r) PROVE ShieldInv'
    <3>1. shape[r].entry \in {"respond", "rescue"} /\ shape[r].reverse \in BOOLEAN
      BY DEF TypeOK, RequestShapes
    <3> QED
      BY <2>1, <3>1 DEF Begin, Refused, SkipsBrakes, TypeOK
  <2>2. ASSUME NEW r \in Requests, CheckKillSwitch(r) PROVE ShieldInv'
    BY <2>2 DEF CheckKillSwitch, TypeOK
  <2>3. ASSUME NEW r \in Requests, Allow(r) PROVE ShieldInv'
    BY <2>3 DEF Allow, TypeOK
  <2>4. ASSUME NEW r \in Requests, WriteIntent(r) PROVE ShieldInv'
    BY <2>4 DEF WriteIntent, TypeOK
  <2>5. ASSUME NEW r \in Requests, Execute(r) PROVE ShieldInv'
    BY <2>5 DEF Execute, TypeOK
  <2>6. ASSUME NEW r \in Requests, WriteResult(r) PROVE ShieldInv'
    BY <2>6 DEF WriteResult, TypeOK
  <2>7. ASSUME NEW k \in {"absent", "present", "unreadable"}, SetKillSwitch(k)
        PROVE  ShieldInv'
    BY <2>7 DEF SetKillSwitch
  <2>8. CASE UNCHANGED <<shape, pc, verdict, killSwitch, shielded>>
    BY <2>8
  <2> QED
    BY <2>1, <2>2, <2>3, <2>4, <2>5, <2>6, <2>7, <2>8
       DEF Next, RequestStep, Tick, Shutdown, ServeReturns, CloseAudit, Exit, vars
<1>3. TypeOK /\ ShieldInv => KillSwitchRefuses
  BY DEF ShieldInv, KillSwitchRefuses, Refusals, TypeOK
<1> QED
  BY <1>1, <1>2, <1>3, TypeCorrect, PTL DEF Spec

-----------------------------------------------------------------------------
(* The audit log and the shutdown.                                           *)

(* A write that succeeds adds its record, one that fails is noted, and no     *)
(* record is lost that was there.                                            *)
Noted(stage, r) == Logged(stage, r) \/ [stage |-> stage, req |-> r] \in unwritten

LEMMA AuditKeeps ==
  ASSUME log \in Seq(Records), NEW stage \in {"intent", "result"},
         NEW r \in Requests, Audit(stage, r)
  PROVE  /\ auditOpen => Noted(stage, r)'
         /\ \A s \in {"intent", "result"}, q \in Requests : Noted(s, q) => Noted(s, q)'
<1>1. CASE log' = Append(log, [stage |-> stage, req |-> r]) /\ unwritten' = unwritten
  <2>1. PICK rec : rec = [stage |-> stage, req |-> r]
    OBVIOUS
  <2>2. rec \in Records
    BY <2>1 DEF Records
  <2>3. /\ Len(log') = Len(log) + 1 /\ Len(log) \in Nat
        /\ log'[Len(log) + 1] = rec
        /\ \A i \in 1..Len(log) : log'[i] = log[i]
        /\ DOMAIN log = 1..Len(log) /\ DOMAIN log' = 1..Len(log')
    BY <1>1, <2>1, <2>2
  <2> QED
    BY <1>1, <2>1, <2>3 DEF Noted, Logged
<1>2. CASE auditOpen /\ unwritten' = unwritten \cup {[stage |-> stage, req |-> r]} /\ log' = log
  BY <1>2 DEF Noted, Logged
<1>3. CASE ~auditOpen /\ log' = log /\ unwritten' = unwritten
  BY <1>3 DEF Noted, Logged
<1> QED
  BY <1>1, <1>2, <1>3 DEF Audit

(* The file is open until Serve has returned; then the handlers in flight    *)
(* are those it gave up waiting for, and none enters any more.               *)
DrainInv ==
    /\ server \in {"stopped", "exited"} \/ auditOpen
    /\ server = "stopped" => Handlers \subseteq abandoned

LEMMA DrainAlways == Spec => []DrainInv
<1>1. Init => DrainInv
  BY DEF Init, DrainInv
<1>2. TypeOK /\ DrainInv /\ [Next]_vars => DrainInv'
  <2> SUFFICES ASSUME TypeOK, DrainInv, [Next]_vars PROVE DrainInv'
    OBVIOUS
  <2> USE DEF DrainInv, Handlers, InFlight, IsHandler
  <2>1. ASSUME NEW r \in Requests, Begin(r) PROVE DrainInv'
    <3>1. /\ server = "up" \/ shape[r].entry # "respond"
          /\ UNCHANGED <<shape, server, auditOpen, abandoned>>
          /\ \A q \in Requests : q # r => pc'[q] = pc[q]
      BY <2>1 DEF Begin, Goto, TypeOK, past
    <3> QED
      BY <3>1
  <2>2. ASSUME NEW r \in Requests, RequestStep(r) PROVE DrainInv'
    <3>1. /\ UNCHANGED <<shape, server, auditOpen, abandoned>>
          /\ pc[r] \notin {"idle", "done"}
          /\ \A q \in Requests : q # r => pc'[q] = pc[q]
      BY <2>2 DEF RequestStep, CheckKillSwitch, Allow, WriteIntent, Execute, WriteResult, Goto, TypeOK, past
    <3> QED
      BY <3>1
  <2>3. CASE UNCHANGED <<shape, pc, server, auditOpen, abandoned>>
    BY <2>3
  <2>4. CASE Shutdown \/ ServeReturns \/ CloseAudit
    BY <2>4 DEF Shutdown, ServeReturns, CloseAudit, past
  <2>5. ASSUME NEW crash \in BOOLEAN, Exit(crash) PROVE DrainInv'
    BY <2>5 DEF Exit, past
  <2> QED
    BY <2>1, <2>2, <2>3, <2>4, <2>5 DEF Next, Tick, SetKillSwitch, vars, past
<1> QED
  BY <1>1, <1>2, TypeCorrect, PTL DEF Spec

(* The audit file is closed behind the last handler but for those that Serve *)
(* gave up waiting for (Serve, cmdRun).                                      *)
THEOREM DrainCorrect == Spec => []CloseAfterLastWrite
<1>1. DrainInv => CloseAfterLastWrite
  BY DEF DrainInv, CloseAfterLastWrite, Running
<1> QED
  BY <1>1, DrainAlways, PTL

(* Whatever fails, times out or crashes: what a request did is on record,    *)
(* unless the open file did not take the record, or it came after the close  *)
(* from a request that nothing waited for (Respond, AuditLog.write, cmdRun). *)
THEOREM AuditCorrect == Spec => []TrailComplete
<1> DEFINE Known(stage, r) == Noted(stage, r) \/ (~auditOpen /\ NotAwaited(r))
<1>1. Init => TrailComplete
  BY DEF Init, TrailComplete, Past
<1>2. TypeOK /\ DrainInv /\ TrailComplete /\ [Next]_vars => TrailComplete'
  <2> SUFFICES ASSUME TypeOK, DrainInv, TrailComplete, [Next]_vars,
                      NEW q \in Requests, NEW s \in {"intent", "result"}, Past(s, q)'
               PROVE  Known(s, q)'
    BY DEF TrailComplete, Noted
  <2>1. Past(s, q) => Known(s, q)
    BY DEF TrailComplete, Noted
  <2>2. ASSUME NEW r \in Requests, NEW stage \in {"intent", "result"}, Audit(stage, r), Running,
               r \in InFlight, UNCHANGED <<shape, auditOpen, abandoned>>,
               (q = r /\ s = stage) \/ Past(s, q)
        PROVE  Known(s, q)'
    <3>1. /\ auditOpen => Noted(stage, r)'
          /\ Noted(s, q) => Noted(s, q)'
      BY <2>2, AuditKeeps DEF TypeOK
    <3>2. ~auditOpen => r \notin Handlers \/ r \in abandoned
      BY <2>2 DEF DrainInv, Running
    <3>3. ~auditOpen => NotAwaited(r)'
      BY <2>2, <3>2 DEF NotAwaited, Handlers, IsHandler
    <3>4. Past(s, q) => Known(s, q)'
      BY <2>1, <2>2, <3>1 DEF NotAwaited, IsHandler
    <3> QED
      BY <2>2, <3>1, <3>3, <3>4
  <2>3. ASSUME NEW r \in Requests, WriteIntent(r) PROVE Known(s, q)'
    <3>1. /\ Audit("intent", r) /\ Running /\ pc[r] = "intent"
          /\ UNCHANGED <<shape, auditOpen, abandoned>>
          /\ \E stage \in {"exec", "result"} : pc' = [pc EXCEPT ![r] = stage]
      BY <2>3 DEF WriteIntent, Goto
    <3>2. (q = r /\ s = "intent") \/ Past(s, q)
      BY <3>1 DEF Past, TypeOK
    <3> QED
      BY <2>2, <3>1, <3>2 DEF InFlight
  <2>4. ASSUME NEW r \in Requests, WriteResult(r) PROVE Known(s, q)'
    <3>1. /\ Audit("result", r) /\ Running /\ pc[r] = "result"
          /\ UNCHANGED <<shape, auditOpen, abandoned>>
          /\ pc' = [pc EXCEPT ![r] = "done"]
      BY <2>4 DEF WriteResult, Goto
    <3>2. (q = r /\ s = "result") \/ Past(s, q)
      BY <3>1 DEF Past, TypeOK
    <3> QED
      BY <2>2, <3>1, <3>2 DEF InFlight
  <2>5. ASSUME Past(s, q), UNCHANGED <<shape, log, unwritten>>, auditOpen' => auditOpen,
               abandoned' = abandoned \/ auditOpen
        PROVE  Known(s, q)'
    BY <2>1, <2>5 DEF Noted, Logged, NotAwaited, IsHandler
  <2>6. ASSUME NEW r \in Requests, Begin(r) \/ CheckKillSwitch(r) \/ Allow(r) \/ Execute(r)
        PROVE  Known(s, q)'
    <3>1. /\ UNCHANGED <<shape, log, auditOpen, past>>
          /\ \/ pc[r] = "exec" /\ pc' = [pc EXCEPT ![r] = "result"]
             \/ \E stage \in {"intent", "kill", "rate"} : pc' = [pc EXCEPT ![r] = stage]
      BY <2>6 DEF Begin, CheckKillSwitch, Allow, Execute, Goto
    <3>2. Past(s, q)
      BY <3>1 DEF Past, TypeOK
    <3> QED
      BY <2>5, <3>1, <3>2 DEF past
  <2>7. CASE \/ Tick \/ (\E k \in {"absent", "present", "unreadable"} : SetKillSwitch(k)) \/ Shutdown
            \/ CloseAudit \/ (\E crash \in BOOLEAN : Exit(crash)) \/ UNCHANGED vars
    <3>1. UNCHANGED <<pc, shape, log, past>> /\ (auditOpen' => auditOpen)
      BY <2>7 DEF Tick, SetKillSwitch, Shutdown, CloseAudit, Exit, vars
    <3> QED
      BY <2>5, <3>1 DEF Past, past
  <2>8. CASE ServeReturns
    <3>1. UNCHANGED <<pc, shape, log, auditOpen, unwritten>> /\ auditOpen
      BY <2>8 DEF ServeReturns, DrainInv
    <3> QED
      BY <2>5, <3>1 DEF Past
  <2> QED
    BY <2>3, <2>4, <2>6, <2>7, <2>8 DEF Next, RequestStep
<1> QED
  BY <1>1, <1>2, TypeCorrect, DrainAlways, PTL DEF Spec
=============================================================================
