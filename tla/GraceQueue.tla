----------------------------- MODULE GraceQueue -----------------------------
(***************************************************************************)
(* The grace window of an automatic action: AutoActuator.ActOn holds a     *)
(* live quarantine in the GraceQueue, a timer applies it through the       *)
(* Responder, and an operator's Cancel vetoes it, either before it runs or *)
(* by running its inverse afterwards                                       *)
(* (agent/internal/respond/grace_queue.go, autoactuator.go).               *)
(*                                                                         *)
(* The queue's mutex makes each locked section one step; the Responder     *)
(* runs outside it.  The Responder and the executor behind it appear as    *)
(* what they do to the file of an item: module Responder has their brakes. *)
(***************************************************************************)
EXTENDS Naturals, FiniteSets

CONSTANTS
    Items,   \* actions handed to ActOn, in some order
    Keys,    \* dedup keys, one file each
    Cancels, \* operator vetoes
    KeyOf,   \* the dedup key of each item
    None     \* no item

ASSUME GraceAssumption ==
    /\ KeyOf \in [Items -> Keys]
    /\ None \notin Items

VARIABLES
    mapped,   \* pendingByKey
    state,    \* lifecycle of each item
    timer,    \* the arming timer of each item
    firing,   \* the item the expiry callback of each timer is applying
    result,   \* the forward Result: moved (carries QuarantineDst), or refused or failed
    file,     \* where each key's file is: None at its origin, i in i's quarantine dst
    braked,   \* kill switch up or rate budget spent: the Responder refuses
    cpc,      \* where each Cancel call is
    target,   \* the item a Cancel is working on
    critical, \* the Cancels that raised a CRITICAL finding
    overlap   \* history: two Cancels of one key were in progress together

vars == <<mapped, state, timer, firing, result, file, braked, cpc, target,
          critical, overlap>>

ItemStates   == {"new", "unqueued", "pending", "applying", "applied"}
TimerStates  == {"unset", "armed", "stopped", "fired", "done"}
CancelStates == {"idle", "wait", "inverse", "landed", "failed", "nothing"}

Init ==
    /\ mapped = [k \in Keys |-> None]
    /\ state = [i \in Items |-> "new"]
    /\ timer = [i \in Items |-> "unset"]
    /\ firing = [i \in Items |-> None]
    /\ result = [i \in Items |-> "none"]
    /\ file = [k \in Keys |-> None]
    /\ braked = FALSE
    /\ cpc = [c \in Cancels |-> "idle"]
    /\ target = [c \in Cancels |-> None]
    /\ critical = {}
    /\ overlap = FALSE

-----------------------------------------------------------------------------
(* Enqueue and expiry.                                                      *)

\* ActOn: outside canary and armed mode, or for an action class that is not
\* armed, nothing is queued.  A live one is queued unless its key is held.
ActOn(i) ==
    /\ state[i] = "new"
    /\ \E live \in BOOLEAN :
          IF live /\ mapped[KeyOf[i]] = None
          THEN /\ mapped' = [mapped EXCEPT ![KeyOf[i]] = i]
               /\ state' = [state EXCEPT ![i] = "pending"]
               /\ timer' = [timer EXCEPT ![i] = "armed"]
          ELSE /\ state' = [state EXCEPT ![i] = "unqueued"]
               /\ UNCHANGED <<mapped, timer>>
    /\ UNCHANGED <<firing, result, file, braked, cpc, target, critical, overlap>>

\* The runtime starts the callback on a goroutine of its own.
Expire(i) ==
    /\ timer[i] = "armed"
    /\ timer' = [timer EXCEPT ![i] = "fired"]
    /\ UNCHANGED <<mapped, state, firing, result, file, braked, cpc, target,
                   critical, overlap>>

\* fire, first locked section.  The callback knows the key and not the item.
FireStart(i) ==
    LET p == mapped[KeyOf[i]] IN
    /\ timer[i] = "fired"
    /\ firing[i] = None
    /\ IF p # None /\ state[p] = "pending"
       THEN /\ state' = [state EXCEPT ![p] = "applying"]
            /\ firing' = [firing EXCEPT ![i] = p]
            /\ UNCHANGED timer
       ELSE /\ timer' = [timer EXCEPT ![i] = "done"]
            /\ UNCHANGED <<state, firing>>
    /\ UNCHANGED <<mapped, result, file, braked, cpc, target, critical, overlap>>

\* fire, outside the lock: the Responder may refuse, and the executor moves the
\* file only while it still is at its origin.  It may fail when it has moved it:
\* another inode arrived, and the file cannot be moved back.
FireRespond(i) ==
    LET p == firing[i] IN
    /\ p # None
    /\ result[p] = "none"
    /\ \/ /\ ~braked
          /\ file[KeyOf[p]] = None
          /\ file' = [file EXCEPT ![KeyOf[p]] = p]
          /\ \E r \in {"moved", "refused"} : result' = [result EXCEPT ![p] = r]
       \/ /\ result' = [result EXCEPT ![p] = "refused"]
          /\ UNCHANGED file
    /\ UNCHANGED <<mapped, state, timer, firing, braked, cpc, target, critical,
                   overlap>>

FireRecord_MovedOnly(i) ==
    LET p == firing[i] IN
    /\ p # None
    /\ result[p] = "moved"
    /\ state' = [state EXCEPT ![p] = "applied"]
    /\ firing' = [firing EXCEPT ![i] = None]
    /\ timer' = [timer EXCEPT ![i] = "done"]
    /\ UNCHANGED <<mapped, result, file, braked, cpc, target, critical, overlap>>

\* fire, second locked section: the Result is recorded and done is closed.
FireRecord(i) ==
    LET p == firing[i] IN
    /\ p # None
    /\ result[p] # "none"
    /\ state' = [state EXCEPT ![p] = "applied"]
    /\ firing' = [firing EXCEPT ![i] = None]
    /\ timer' = [timer EXCEPT ![i] = "done"]
    /\ UNCHANGED <<mapped, result, file, braked, cpc, target, critical, overlap>>

-----------------------------------------------------------------------------
(* The operator's veto.                                                     *)

InProgress(k) ==
    {c \in Cancels : cpc[c] \in {"wait", "inverse"} /\ KeyOf[target[c]] = k}

\* time.Timer.Stop: only a timer that has not fired can be stopped.
StopTimer(p) == timer[p] = "armed"

Stopped_LeftRunning(p) == timer
Stopped(p) == [timer EXCEPT ![p] = "stopped"]

Goto(c, pc, p) ==
    /\ cpc' = [cpc EXCEPT ![c] = pc]
    /\ target' = [target EXCEPT ![c] = p]

\* The forward is neither pending nor applied, or its timer has already fired:
\* Cancel must wait for done.
MustWait_NeverApplying(p) == state[p] = "pending" /\ ~StopTimer(p)
MustWait(p) ==
    \/ state[p] = "pending" /\ ~StopTimer(p)
    \/ state[p] = "applying"

\* Cancel, first locked section.
CancelStart(c, k) ==
    LET p == mapped[k] IN
    /\ cpc[c] = "idle"
    /\ \/ /\ p = None
          /\ Goto(c, "nothing", None)
          /\ UNCHANGED <<mapped, timer, overlap>>
       \/ /\ p # None /\ state[p] = "pending" /\ StopTimer(p)
          /\ timer' = Stopped(p)
          /\ mapped' = [mapped EXCEPT ![k] = None]
          /\ Goto(c, "landed", p)
          /\ UNCHANGED overlap
       \/ /\ p # None /\ MustWait(p)
          /\ Goto(c, "wait", p)
          /\ overlap' = (overlap \/ InProgress(k) # {})
          /\ UNCHANGED <<mapped, timer>>
       \/ /\ p # None /\ state[p] # "pending" /\ ~MustWait(p)
          /\ mapped' = [mapped EXCEPT ![k] = None]
          /\ Goto(c, "inverse", p)
          /\ overlap' = (overlap \/ InProgress(k) # {})
          /\ UNCHANGED timer
    /\ UNCHANGED <<state, firing, result, file, braked, critical>>

\* Cancel, woken by done: it deletes the key, whatever item holds it by now.
CancelWake(c) ==
    /\ cpc[c] = "wait"
    /\ state[target[c]] = "applied"
    /\ mapped' = [mapped EXCEPT ![KeyOf[target[c]]] = None]
    /\ cpc' = [cpc EXCEPT ![c] = "inverse"]
    /\ UNCHANGED <<state, timer, firing, result, file, braked, target, critical,
                   overlap>>

\* The executor's unquarantine finds the item's copy, or finds nothing to do
\* because the file is back at its origin.
Reversible(p) == file[KeyOf[p]] \in {p, None}

\* runInverse, outside the lock: without a recorded destination the inverse
\* cannot be addressed; otherwise it goes through the Responder and its brakes.
\* Whatever fails is alerted.
InverseLands(p) == result[p] = "moved" /\ ~braked /\ Reversible(p)

Alerted_Never(c) == critical
Alerted(c) == critical \cup {c}

RunInverse_TrustsResponder(c) ==
    LET p == target[c] IN
    /\ cpc[c] = "inverse"
    /\ \/ /\ result[p] = "moved"
          /\ file' = IF InverseLands(p) THEN [file EXCEPT ![KeyOf[p]] = None] ELSE file
          /\ cpc' = [cpc EXCEPT ![c] = "landed"]
          /\ UNCHANGED critical
       \/ /\ cpc' = [cpc EXCEPT ![c] = "failed"]
          /\ critical' = Alerted(c)
          /\ UNCHANGED file
    /\ UNCHANGED <<mapped, state, timer, firing, result, braked, target, overlap>>

RunInverse(c) ==
    LET p == target[c] IN
    /\ cpc[c] = "inverse"
    /\ \/ /\ InverseLands(p)
          /\ file' = [file EXCEPT ![KeyOf[p]] = None]
          /\ cpc' = [cpc EXCEPT ![c] = "landed"]
          /\ UNCHANGED critical
       \/ /\ cpc' = [cpc EXCEPT ![c] = "failed"]
          /\ critical' = Alerted(c)
          /\ UNCHANGED file
    /\ UNCHANGED <<mapped, state, timer, firing, result, braked, target, overlap>>

\* The kill switch comes or goes, the rate budget is spent or recovers.
SetBrake ==
    /\ braked' = ~braked
    /\ UNCHANGED <<mapped, state, timer, firing, result, file, cpc, target,
                   critical, overlap>>

Fire(i)      == FireStart(i) \/ FireRespond(i) \/ FireRecord(i)
CancelRun(c) == CancelWake(c) \/ RunInverse(c)

Next ==
    \/ \E i \in Items : ActOn(i)
    \/ \E i \in Items : Expire(i)
    \/ \E i \in Items : Fire(i)
    \/ \E c \in Cancels, k \in Keys : CancelStart(c, k)
    \/ \E c \in Cancels : CancelRun(c)
    \/ SetBrake

Spec == Init /\ [][Next]_vars

\* Timers expire, callbacks and Cancel calls are scheduled, and the Responder
\* returns.  No operator is obliged to veto anything.
FairSpec ==
    /\ Spec
    /\ \A i \in Items : WF_vars(Expire(i)) /\ WF_vars(Fire(i))
    /\ \A c \in Cancels : WF_vars(CancelRun(c))

-----------------------------------------------------------------------------
(* Properties.                                                              *)

TypeOK ==
    /\ mapped \in [Keys -> Items \cup {None}]
    /\ state \in [Items -> ItemStates]
    /\ timer \in [Items -> TimerStates]
    /\ firing \in [Items -> Items \cup {None}]
    /\ result \in [Items -> {"none", "moved", "refused"}]
    /\ file \in [Keys -> Items \cup {None}]
    /\ braked \in BOOLEAN
    /\ cpc \in [Cancels -> CancelStates]
    /\ target \in [Cancels -> Items \cup {None}]
    /\ critical \subseteq Cancels
    /\ overlap \in BOOLEAN

\* A veto that reports success is final: the action it vetoed is not in effect
\* then and never comes into effect later, whatever timers and callbacks are
\* still on their way.
VetoIsFinal ==
    \A c \in Cancels : cpc[c] = "landed" =>
        /\ file[KeyOf[target[c]]] # target[c]
        /\ state[target[c]] \in {"pending", "applied"}

\* The inverse never precedes the forward or runs beside it.
InverseAfterForward ==
    \A c \in Cancels : cpc[c] = "inverse" =>
        state[target[c]] = "applied" /\ result[target[c]] # "none"

\* An action is applied only by its own timer, after its own full window.
WindowRespected ==
    \A i \in Items : state[i] \in {"applying", "applied"} => timer[i] \in {"fired", "done"}

\* The same, as long as no two vetoes of one key have been in progress together.
WindowRespectedUnlessOverlap == overlap \/ WindowRespected

\* An action in effect can still be vetoed, or the veto that failed to reverse
\* it is on record, as long as no two vetoes of one key have overlapped.
NoSilentHalfAction ==
    \A i \in Items :
        file[KeyOf[i]] = i /\ mapped[KeyOf[i]] # i /\ ~overlap =>
            \E c \in Cancels : target[c] = i /\ (cpc[c] = "inverse" \/ c \in critical)

\* A held action is either applied or vetoed; it is never forgotten, unless two
\* vetoes of its key overlap.
HeldIsResolved ==
    \A i \in Items : state[i] = "pending" ~>
        \/ state[i] = "applied"
        \/ \E c \in Cancels : cpc[c] = "landed" /\ target[c] = i
        \/ overlap
=============================================================================
