--------------------------- MODULE GraceQueueProofs ---------------------------
(* Theorems about GraceQueue, for every set of items, keys and vetoes.       *)
EXTENDS GraceQueue, TLAPS

USE GraceAssumption

(* Every reachable state of the grace queue is well typed.                   *)
THEOREM TypeCorrect == Spec => []TypeOK
<1>1. Init => TypeOK
  <2> SUFFICES ASSUME Init PROVE TypeOK
    OBVIOUS
  <2>1. braked \in BOOLEAN /\ overlap \in BOOLEAN
    BY Zenon DEF Init
  <2> QED
    BY <2>1 DEF Init, TypeOK, ItemStates, TimerStates, CancelStates
<1>2. TypeOK /\ [Next]_vars => TypeOK'
  <2> SUFFICES ASSUME TypeOK, [Next]_vars PROVE TypeOK'
    OBVIOUS
  <2> USE DEF TypeOK, ItemStates, TimerStates, CancelStates
  <2>1. ASSUME NEW i \in Items, ActOn(i) PROVE TypeOK'
    BY <2>1 DEF ActOn
  <2>2. ASSUME NEW i \in Items, Expire(i) PROVE TypeOK'
    BY <2>2 DEF Expire
  <2>3. ASSUME NEW i \in Items, FireStart(i) PROVE TypeOK'
    BY <2>3 DEF FireStart
  <2>4. ASSUME NEW i \in Items, FireRespond(i) PROVE TypeOK'
    BY <2>4 DEF FireRespond
  <2>5. ASSUME NEW i \in Items, FireRecord(i) PROVE TypeOK'
    BY <2>5 DEF FireRecord
  <2>6. ASSUME NEW c \in Cancels, NEW k \in Keys, CancelStart(c, k) PROVE TypeOK'
    BY <2>6, ZenonT(30) DEF CancelStart, Goto, Stopped
  <2>7. ASSUME NEW c \in Cancels, CancelWake(c) PROVE TypeOK'
    BY <2>7 DEF CancelWake
  <2>8. ASSUME NEW c \in Cancels, RunInverse(c) PROVE TypeOK'
    BY <2>8 DEF RunInverse, Alerted
  <2>9. CASE SetBrake
    BY <2>9 DEF SetBrake
  <2>10. CASE UNCHANGED vars
    BY <2>10 DEF vars
  <2> QED
    BY <2>1, <2>2, <2>3, <2>4, <2>5, <2>6, <2>7, <2>8, <2>9, <2>10 DEF Next, Fire, CancelRun
<1> QED
  BY <1>1, <1>2, PTL DEF Spec

-----------------------------------------------------------------------------
(* The veto.                                                                 *)

(* What holds of items, callbacks and vetoes in every state.  A key holds an *)
(* item of its own that is in the queue; only a callback applies an item,    *)
(* and no two the same; a veto that has landed stopped an item no callback   *)
(* can find any more, or reversed one that has been applied.                 *)
KeysHoldQueued ==
    \A k \in Keys : mapped[k] # None =>
        /\ KeyOf[mapped[k]] = k
        /\ state[mapped[k]] \in {"pending", "applying", "applied"}

CallbacksApply ==
    /\ \A i \in Items : firing[i] # None => state[firing[i]] = "applying"
    /\ \A i, j \in Items : firing[i] # None /\ firing[i] = firing[j] => i = j

ResultsRecorded ==
    \A i \in Items :
        /\ state[i] = "applied" => result[i] # "none"
        /\ result[i] # "none" => state[i] \in {"applying", "applied"}

FilesMoved ==
    \A k \in Keys : file[k] # None =>
        /\ KeyOf[file[k]] = k
        /\ state[file[k]] \in {"applying", "applied"}

VetoesTarget ==
    \A c \in Cancels :
        /\ cpc[c] \in {"wait", "inverse", "landed"} => target[c] \in Items
        /\ cpc[c] = "inverse" => state[target[c]] = "applied"
        /\ c \in critical => cpc[c] = "failed"
        /\ cpc[c] = "landed" =>
              \/ state[target[c]] = "pending" /\ mapped[KeyOf[target[c]]] # target[c]
              \/ state[target[c]] = "applied" /\ file[KeyOf[target[c]]] # target[c]

QueueInv ==
    /\ KeysHoldQueued
    /\ CallbacksApply
    /\ ResultsRecorded
    /\ FilesMoved
    /\ VetoesTarget

(* The inductive invariant of the queue holds in every reachable state.      *)
THEOREM QueueCorrect == Spec => []QueueInv
<1>1. Init => QueueInv
  BY DEF Init, QueueInv, KeysHoldQueued, CallbacksApply, ResultsRecorded, FilesMoved,
         VetoesTarget
<1>2. TypeOK /\ QueueInv /\ [Next]_vars => QueueInv'
  <2> SUFFICES ASSUME TypeOK, QueueInv, [Next]_vars PROVE QueueInv'
    OBVIOUS
  <2> USE DEF TypeOK, QueueInv, KeysHoldQueued, CallbacksApply, ResultsRecorded,
              FilesMoved, VetoesTarget
  <2>1. ASSUME NEW i \in Items, ActOn(i) PROVE QueueInv'
    BY <2>1 DEF ActOn
  <2>2. ASSUME NEW i \in Items, Expire(i) PROVE QueueInv'
    BY <2>2 DEF Expire
  <2>3. ASSUME NEW i \in Items, FireStart(i) PROVE QueueInv'
    BY <2>3 DEF FireStart
  <2>4. ASSUME NEW i \in Items, FireRespond(i) PROVE QueueInv'
    BY <2>4 DEF FireRespond
  <2>5. ASSUME NEW i \in Items, FireRecord(i) PROVE QueueInv'
    BY <2>5 DEF FireRecord
  <2>6. ASSUME NEW c \in Cancels, NEW k \in Keys, CancelStart(c, k) PROVE QueueInv'
    BY <2>6 DEF CancelStart, Goto, MustWait
  <2>7. ASSUME NEW c \in Cancels, CancelWake(c) PROVE QueueInv'
    BY <2>7 DEF CancelWake
  <2>8. ASSUME NEW c \in Cancels, RunInverse(c) PROVE QueueInv'
    BY <2>8 DEF RunInverse, InverseLands, Alerted
  <2>9. CASE SetBrake
    BY <2>9 DEF SetBrake
  <2>10. CASE UNCHANGED vars
    BY <2>10 DEF vars
  <2> QED
    BY <2>1, <2>2, <2>3, <2>4, <2>5, <2>6, <2>7, <2>8, <2>9, <2>10 DEF Next, Fire, CancelRun
<1> QED
  BY <1>1, <1>2, TypeCorrect, PTL DEF Spec

(* A veto that reports success is final: whatever timers, callbacks and      *)
(* other vetoes are under way, what it vetoed is not in effect, then or      *)
(* later (GraceQueue.Cancel).                                                *)
THEOREM VetoFinal == Spec => []VetoIsFinal
<1>1. QueueInv => VetoIsFinal
  BY DEF QueueInv, VetoesTarget, FilesMoved, VetoIsFinal
<1> QED
  BY <1>1, QueueCorrect, PTL

(* The inverse of an action runs only after the action has been applied and  *)
(* its Result recorded (GraceQueue.Cancel, GraceQueue.runInverse).           *)
THEOREM ForwardFirst == Spec => []InverseAfterForward
<1>1. QueueInv => InverseAfterForward
  BY DEF QueueInv, VetoesTarget, ResultsRecorded, InverseAfterForward
<1> QED
  BY <1>1, QueueCorrect, PTL

-----------------------------------------------------------------------------
(* The window, and what a failed veto leaves behind.                         *)

(* What holds besides while no two vetoes of one key have been in progress   *)
(* together: a live timer belongs to the pending item its key holds, and its *)
(* callback applies that item; a waiting veto still finds its item.          *)
TimersOwn ==
    \A i \in Items :
        /\ timer[i] = "armed" => state[i] = "pending" /\ mapped[KeyOf[i]] = i
        /\ timer[i] = "fired" /\ firing[i] = None =>
              state[i] = "pending" /\ mapped[KeyOf[i]] = i
        /\ firing[i] # None => firing[i] = i /\ timer[i] = "fired"
        /\ state[i] = "applying" => firing[i] = i /\ mapped[KeyOf[i]] = i
        /\ state[i] = "applied" => timer[i] = "done"

VetoesSerial ==
    /\ \A c \in Cancels : cpc[c] = "wait" =>
          /\ mapped[KeyOf[target[c]]] = target[c]
          /\ timer[target[c]] # "armed"
    /\ \A c, d \in Cancels :
          /\ cpc[c] \in {"wait", "inverse"} /\ cpc[d] \in {"wait", "inverse"}
          /\ KeyOf[target[c]] = KeyOf[target[d]]
          => c = d

SerialParts == TimersOwn /\ VetoesSerial /\ NoSilentHalfAction
SerialInv == ~overlap => SerialParts

(* The inductive invariant of the unoverlapped queue holds in every          *)
(* reachable state.                                                          *)
THEOREM SerialCorrect == Spec => []SerialInv
<1>1. Init => SerialInv
  BY DEF Init, SerialInv, SerialParts, TimersOwn, VetoesSerial, NoSilentHalfAction,
         InProgress
<1>2. TypeOK /\ QueueInv /\ SerialInv /\ [Next]_vars => SerialInv'
  <2> SUFFICES ASSUME TypeOK, QueueInv, SerialInv, [Next]_vars, ~overlap'
               PROVE  SerialParts'
    BY DEF SerialInv
  <2> USE DEF TypeOK, QueueInv, KeysHoldQueued, CallbacksApply, ResultsRecorded,
              FilesMoved, VetoesTarget, SerialInv, SerialParts, TimersOwn, VetoesSerial,
              NoSilentHalfAction, InProgress
  <2>1. ASSUME NEW i \in Items, ActOn(i) PROVE SerialParts'
    BY <2>1 DEF ActOn
  <2>2. ASSUME NEW i \in Items, Expire(i) PROVE SerialParts'
    BY <2>2 DEF Expire
  <2>3. ASSUME NEW i \in Items, FireStart(i) PROVE SerialParts'
    BY <2>3 DEF FireStart
  <2>4. ASSUME NEW i \in Items, FireRespond(i) PROVE SerialParts'
    BY <2>4 DEF FireRespond
  <2>5. ASSUME NEW i \in Items, FireRecord(i) PROVE SerialParts'
    BY <2>5 DEF FireRecord
  <2>6. ASSUME NEW c \in Cancels, NEW k \in Keys, CancelStart(c, k) PROVE SerialParts'
    <3> DEFINE p == mapped[k]
    <3>1. /\ cpc[c] = "idle"
          /\ UNCHANGED <<state, firing, result, file, braked, critical>>
      BY <2>6 DEF CancelStart
    <3>2. ~overlap
      <4>1. CASE overlap' = overlap
        BY <4>1
      <4>2. CASE overlap' = (overlap \/ InProgress(k) # {})
        <5> HIDE DEF InProgress
        <5> QED
          BY Zenon, <4>2
      <4> QED
        BY <2>6, <4>1, <4>2 DEF CancelStart
    <3>3. ASSUME overlap' = (overlap \/ InProgress(k) # {})
          PROVE  \A d \in Cancels : cpc[d] \in {"wait", "inverse"} => KeyOf[target[d]] # k
      <4>1. InProgress(k) = {}
        <5> HIDE DEF InProgress
        <5> QED
          BY Zenon, <3>3
      <4> QED
        BY <4>1
    <3> HIDE DEF InProgress
    <3>4. CASE p = None /\ Goto(c, "nothing", None) /\ UNCHANGED <<mapped, timer, overlap>>
      <4>1. TimersOwn'
        BY <3>1, <3>2, <3>4 DEF Goto
      <4>2. VetoesSerial'
        BY <3>1, <3>2, <3>4 DEF Goto
      <4>3. NoSilentHalfAction'
        BY <3>1, <3>2, <3>4 DEF Goto
      <4> QED
        BY <4>1, <4>2, <4>3
    <3>5. CASE /\ p # None /\ state[p] = "pending" /\ StopTimer(p)
               /\ timer' = Stopped(p) /\ mapped' = [mapped EXCEPT ![k] = None]
               /\ Goto(c, "landed", p) /\ UNCHANGED overlap
      <4>1. TimersOwn'
        BY <3>1, <3>2, <3>5 DEF Goto, StopTimer, Stopped
      <4>2. VetoesSerial'
        BY <3>1, <3>2, <3>5 DEF Goto, StopTimer, Stopped
      <4>3. NoSilentHalfAction'
        BY <3>1, <3>2, <3>5 DEF Goto, StopTimer, Stopped
      <4> QED
        BY <4>1, <4>2, <4>3
    <3>6. CASE /\ p # None /\ MustWait(p) /\ Goto(c, "wait", p)
               /\ overlap' = (overlap \/ InProgress(k) # {}) /\ UNCHANGED <<mapped, timer>>
      <4>1. TimersOwn'
        BY <3>1, <3>2, <3>3, <3>6 DEF Goto, MustWait, StopTimer
      <4>2. VetoesSerial'
        BY <3>1, <3>2, <3>3, <3>6 DEF Goto, MustWait, StopTimer
      <4>3. NoSilentHalfAction'
        BY <3>1, <3>2, <3>3, <3>6 DEF Goto, MustWait, StopTimer
      <4> QED
        BY <4>1, <4>2, <4>3
    <3>7. CASE /\ p # None /\ state[p] # "pending" /\ ~MustWait(p)
               /\ mapped' = [mapped EXCEPT ![k] = None] /\ Goto(c, "inverse", p)
               /\ overlap' = (overlap \/ InProgress(k) # {}) /\ UNCHANGED timer
      <4>1. TimersOwn'
        BY <3>1, <3>2, <3>3, <3>7 DEF Goto, MustWait
      <4>2. VetoesSerial'
        BY <3>1, <3>2, <3>3, <3>7 DEF Goto, MustWait
      <4>3. NoSilentHalfAction'
        BY <3>1, <3>2, <3>3, <3>7 DEF Goto, MustWait
      <4> QED
        BY <4>1, <4>2, <4>3
    <3> QED
      BY <2>6, <3>4, <3>5, <3>6, <3>7 DEF CancelStart
  <2>7. ASSUME NEW c \in Cancels, CancelWake(c) PROVE SerialParts'
    BY <2>7 DEF CancelWake
  <2>8. ASSUME NEW c \in Cancels, RunInverse(c) PROVE SerialParts'
    BY <2>8 DEF RunInverse, InverseLands, Alerted
  <2>9. CASE SetBrake
    BY <2>9 DEF SetBrake
  <2>10. CASE UNCHANGED vars
    BY <2>10 DEF vars
  <2> HIDE DEF SerialParts
  <2> QED
    BY <2>1, <2>2, <2>3, <2>4, <2>5, <2>6, <2>7, <2>8, <2>9, <2>10 DEF Next, Fire, CancelRun
<1> QED
  BY <1>1, <1>2, TypeCorrect, QueueCorrect, PTL DEF Spec

(* An action is applied only by its own timer, after its whole window, as    *)
(* long as no two vetoes of one key overlap (GraceQueue.fire).               *)
THEOREM WindowKept == Spec => []WindowRespectedUnlessOverlap
<1>1. SerialInv => WindowRespectedUnlessOverlap
  BY DEF SerialInv, SerialParts, TimersOwn, WindowRespectedUnlessOverlap, WindowRespected
<1> QED
  BY <1>1, SerialCorrect, PTL

(* An action in effect can still be vetoed, is being reversed, or the veto   *)
(* that failed to reverse it raised a CRITICAL finding, as long as no two    *)
(* vetoes of one key overlap (GraceQueue.Cancel, alertInverseFailure).       *)
THEOREM HalfActionsKnown == Spec => []NoSilentHalfAction
<1>1. SerialInv => NoSilentHalfAction
  BY DEF SerialInv, SerialParts, NoSilentHalfAction
<1> QED
  BY <1>1, SerialCorrect, PTL
=============================================================================
