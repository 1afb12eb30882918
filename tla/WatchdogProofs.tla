--------------------------- MODULE WatchdogProofs ---------------------------
(* Theorems about Watchdog over Executor, for every set of requests, keys    *)
(* and interfaces, and any number of rollbacks.                              *)
EXTENDS Watchdog, SequenceTheorems, TLAPS

USE ExecutorAssumption, WatchdogAssumption

-----------------------------------------------------------------------------
(* Types and control.                                                        *)

(* Where a call can be, given what was requested of it; the watchdog asks for*)
(* inverses only, and a restore names a quarantine that has succeeded.       *)
QuarantineDone(c) ==
    c \in Callers /\ op[c].act \in {"quarantine", "quarantine-fd"} /\ pc[c] = "ok"

ControlOK ==
    \A c \in All :
        /\ pc[c] = "idle" => op[c].act = "none" /\ data[c] = {}
        /\ pc[c] \in {"read", "openBackup", "backup", "edit", "writeKeys"} => op[c].act = "revoke-key"
        /\ pc[c] \in {"readBackup", "openKeys", "rewrite"} => op[c].act = "restore-key"
        /\ pc[c] \in {"addTable", "addChain", "addRules"} => op[c].act = "isolate"
        /\ pc[c] = "delTable" => op[c].act = "de-isolate"
        /\ pc[c] \in {"openRule", "writeRule"} => op[c].act = "block-hash"
        /\ pc[c] = "move" => op[c].act = "quarantine"
        /\ pc[c] \in {"resolve", "fstat", "moveFD", "confirm", "rollBack"} => op[c].act = "quarantine-fd"
        /\ pc[c] = "removeSource" => op[c].act \in {"quarantine", "quarantine-fd"}
        /\ pc[c] \in {"check", "moveBack", "removeCopy"} => op[c].act = "unquarantine"
        /\ pc[c] = "signal" => op[c].act = "kill"
        /\ op[c].act = "unquarantine" => QuarantineDone(op[c].arg)
        /\ op[c].act = "revoke-key" => op[c].arg \in Keys
        /\ op[c].act \in {"revoke-key", "restore-key"} => data[c] \subseteq Keys
        /\ pc[c] \in {"removeSource", "removeCopy"} => crossFs
        /\ pc[c] \in {"confirm", "rollBack"} => ~crossFs
        /\ c = WD => op[c].act \in {"none", "restore-key", "de-isolate", "unquarantine"}

ExecOK == ExecTypeOK(All) /\ ControlOK

(* A request that a caller may make, or the watchdog.                        *)
Admissible(c, r) ==
    /\ r \in Forward \cup {RestoreKey, DeIsolate} \cup {Unquarantine(q) : q \in {d \in Callers : QuarantineDone(d)}}
    /\ c = WD => r.act \in {"restore-key", "de-isolate", "unquarantine"}

(* An admissible request of an idle call keeps types and control.            *)
LEMMA ExecuteOK ==
    ASSUME ExecOK, NEW c \in All, pc[c] = "idle", NEW r, Admissible(c, r), Execute(c, r)
    PROVE  ExecOK'
<1> USE DEF ExecOK, Forward, Inverses, host, network, files, Revoke, RestoreKey, Isolate, DeIsolate,
            Quarantine, QuarantineFD, BlockHash, Unquarantine, Kill, NoOp, Admissible, QuarantineDone
<1>1. /\ op' = [op EXCEPT ![c] = r]
      /\ pc' = [pc EXCEPT ![c] = First(r.act)]
      /\ UNCHANGED <<host, data, todo, raced>>
  BY DEF Execute, Step
<1>2. ExecTypeOK(All)'
  BY DEF ExecTypeOK, Execute, Step, First, Object, Steps
<1>3. /\ r.act \in {"revoke-key", "restore-key", "isolate", "de-isolate", "quarantine", "quarantine-fd",
                   "unquarantine", "block-hash", "kill"}
      /\ r.act = "revoke-key" => r.arg \in Keys
      /\ r.act = "unquarantine" => QuarantineDone(r.arg)
  OBVIOUS
<1>4. /\ op'[c] = r /\ pc'[c] = First(r.act)
      /\ \A d \in All \ {c} : op'[d] = op[d] /\ pc'[d] = pc[d]
      /\ data' = data /\ crossFs' = crossFs
  BY <1>1 DEF ExecTypeOK
<1>5. \A q : QuarantineDone(q) => QuarantineDone(q)'
  BY <1>4 DEF All
<1>6. data[c] = {}
  BY DEF ControlOK
<1>7. ControlOK'
  <2> SUFFICES ASSUME NEW d \in All PROVE ControlOK!(d)'
    BY DEF ControlOK
  <2>1. CASE d = c
    BY <2>1, <1>3, <1>4, <1>5, <1>6, ZenonT(30) DEF First
  <2>2. CASE d # c
    BY <2>2, <1>4, <1>5 DEF ControlOK
  <2> QED
    BY <2>1, <2>2
<1> QED
  BY <1>2, <1>7

(* So does every step of a call.                                             *)
LEMMA StepOK ==
    ASSUME ExecOK, NEW c \in All, ExecStep(c)
    PROVE  ExecOK'
<1> USE DEF ExecOK, ExecTypeOK, ControlOK, QuarantineDone, All, Step, Steps, host, network, files
<1>1. CASE Fail(c)
  BY <1>1 DEF Fail, Active
<1>2. CASE KillStep(c)
  BY <1>2 DEF KillStep
<1>3. CASE ReadKeys(c)
  BY <1>3 DEF ReadKeys
<1>4. CASE WriteBackup(c)
  BY <1>4 DEF WriteBackup
<1>5. CASE EditKeys(c)
  BY <1>5 DEF EditKeys, MayRemove, Return
<1>6. CASE ReadBackup(c)
  BY <1>6 DEF ReadBackup
<1>7. CASE RewriteKeys(c)
  BY <1>7 DEF RewriteKeys, Return
<1>8. CASE AddTable(c)
  BY <1>8 DEF AddTable
<1>9. CASE AddChain(c)
  BY <1>9 DEF AddChain
<1>10. CASE AddRule(c)
  BY <1>10 DEF AddRule
<1>11. CASE Isolated(c)
  BY <1>11 DEF Isolated
<1>12. CASE DeleteTable(c)
  BY <1>12 DEF DeleteTable
<1>13. CASE WriteRule(c)
  BY <1>13 DEF WriteRule
<1>14. CASE Move(c)
  BY <1>14 DEF Move
<1>15. CASE RemoveSource(c)
  BY <1>15 DEF RemoveSource
<1>16. CASE Resolve(c)
  BY <1>16 DEF Resolve, Held
<1>17. CASE Fstat(c)
  BY <1>17 DEF Fstat
<1>18. CASE MoveFD(c)
  BY <1>18 DEF MoveFD
<1>19. CASE Confirm(c)
  BY <1>19 DEF Confirm, Confirmed
<1>20. CASE RollBack(c)
  BY <1>20 DEF RollBack, Racing
<1>21. CASE CheckOrigin(c)
  BY <1>21 DEF CheckOrigin, MayRestore
<1>22. CASE MoveBack(c)
  BY <1>22 DEF MoveBack, Racing
<1>23. CASE RemoveCopy(c)
  BY <1>23 DEF RemoveCopy
<1> QED
  BY <1>1, <1>2, <1>3, <1>4, <1>5, <1>6, <1>7, <1>8, <1>9, <1>10, <1>11, <1>12, <1>13, <1>14, <1>15, <1>16, <1>17, <1>18, <1>19, <1>20, <1>21, <1>22, <1>23 DEF ExecStep

(* A step is one of its own call: requests stay, and the other calls too.    *)
LEMMA StepFrame ==
    ASSUME ExecOK, NEW c \in All, ExecStep(c)
    PROVE  /\ op' = op
           /\ Active(c)
           /\ pc'[c] # "idle"
           /\ \A d \in All \ {c} : pc'[d] = pc[d] /\ data'[d] = data[d] /\ todo'[d] = todo[d]
           /\ UNCHANGED <<overlap, crossFs>>
           /\ raced => raced'
<1> USE DEF ExecOK, ExecTypeOK, Step, Active, host
<1>1. CASE Fail(c)
  BY <1>1 DEF Fail
<1>2. CASE KillStep(c)
  BY <1>2 DEF KillStep
<1>3. CASE ReadKeys(c)
  BY <1>3 DEF ReadKeys
<1>4. CASE WriteBackup(c)
  BY <1>4 DEF WriteBackup
<1>5. CASE EditKeys(c)
  BY <1>5 DEF EditKeys, MayRemove, Return
<1>6. CASE ReadBackup(c)
  BY <1>6 DEF ReadBackup
<1>7. CASE RewriteKeys(c)
  BY <1>7 DEF RewriteKeys, Return
<1>8. CASE AddTable(c)
  BY <1>8 DEF AddTable
<1>9. CASE AddChain(c)
  BY <1>9 DEF AddChain
<1>10. CASE AddRule(c)
  BY <1>10 DEF AddRule
<1>11. CASE Isolated(c)
  BY <1>11 DEF Isolated
<1>12. CASE DeleteTable(c)
  BY <1>12 DEF DeleteTable
<1>13. CASE WriteRule(c)
  BY <1>13 DEF WriteRule
<1>14. CASE Move(c)
  BY <1>14 DEF Move
<1>15. CASE RemoveSource(c)
  BY <1>15 DEF RemoveSource
<1>16. CASE Resolve(c)
  BY <1>16 DEF Resolve, Held
<1>17. CASE Fstat(c)
  BY <1>17 DEF Fstat
<1>18. CASE MoveFD(c)
  BY <1>18 DEF MoveFD
<1>19. CASE Confirm(c)
  BY <1>19 DEF Confirm, Confirmed
<1>20. CASE RollBack(c)
  BY <1>20 DEF RollBack, Racing
<1>21. CASE CheckOrigin(c)
  BY <1>21 DEF CheckOrigin, MayRestore
<1>22. CASE MoveBack(c)
  BY <1>22 DEF MoveBack, Racing
<1>23. CASE RemoveCopy(c)
  BY <1>23 DEF RemoveCopy
<1> QED
  BY <1>1, <1>2, <1>3, <1>4, <1>5, <1>6, <1>7, <1>8, <1>9, <1>10, <1>11, <1>12, <1>13, <1>14, <1>15, <1>16, <1>17, <1>18, <1>19, <1>20, <1>21, <1>22, <1>23 DEF ExecStep

-----------------------------------------------------------------------------
(* The watchdog.                                                             *)

ForwardActs == {"revoke-key", "isolate", "quarantine", "quarantine-fd", "block-hash", "kill"}

Succeeded(c) == op[c].act \in ForwardActs /\ pc[c] = "ok"

(* The journal holds each forward call that succeeded once, the walk only    *)
(* such calls, and the watchdog's call is the inverse of the walk's last.    *)
JournalSound ==
    /\ \A i \in DOMAIN journal : Succeeded(journal[i])
    /\ \A i, j \in DOMAIN journal : journal[i] = journal[j] => i = j

WalkSound ==
    /\ \A i \in DOMAIN walk : Succeeded(walk[i])
    /\ pc[WD] # "idle" => /\ walking /\ walk # <<>>
                          /\ op[WD] = InverseOf(Current) /\ op[WD] # NoOp
    /\ pc[WD] = "idle" => op[WD] = NoOp

JournalOK == JournalSound /\ WalkSound

Inv == TypeOK /\ ControlOK /\ JournalOK

(* The invariant holds initially.                                            *)
LEMMA InvInit == Init => Inv
<1> USE DEF Init, ExecInit, Inv, TypeOK, ExecTypeOK, ControlOK, JournalOK, JournalSound, WalkSound, All, Steps, NoOp
<1> SUFFICES ASSUME Init PROVE Inv
  OBVIOUS
<1>1. ExecTypeOK(All)
  OBVIOUS
<1>2. TypeOK
  <2>1. {lockedOut, walking, disturbed} \subseteq BOOLEAN
    BY Zenon
  <2> QED
    BY <1>1, <2>1
<1>4. JournalOK
  BY DEF Current
<1>3. ControlOK
  OBVIOUS
<1> QED
  BY <1>2, <1>3, <1>4

(* The call of another caller or of the watchdog keeps what the journal and  *)
(* the walk say, whose calls have ended.                                     *)
LEMMA SucceededStays ==
    ASSUME Inv, NEW c \in All, Active(c) \/ pc[c] = "idle", op'[c] = op[c] \/ pc[c] = "idle",
           \A d \in All \ {c} : op'[d] = op[d] /\ pc'[d] = pc[d]
    PROVE  \A d \in Callers : Succeeded(d) => Succeeded(d)' /\ op'[d] = op[d]
BY DEF Inv, TypeOK, ExecTypeOK, ControlOK, Succeeded, ForwardActs, Active, All

(* A walk that nobody touches stays sound.                                   *)
LEMMA WalkStays ==
    ASSUME Inv, UNCHANGED <<walk, walking>>, op'[WD] = op[WD], pc'[WD] = pc[WD],
           \A d \in Callers : Succeeded(d) => Succeeded(d)' /\ op'[d] = op[d]
    PROVE  WalkSound'
<1>1. (\A i \in DOMAIN walk : Succeeded(walk[i]))'
  BY DEF Inv, JournalOK, WalkSound, TypeOK
<1>2. walk # <<>> => Current \in Callers /\ Succeeded(Current)
  BY DEF Inv, JournalOK, WalkSound, TypeOK, Current
<1>3. walk # <<>> => InverseOf(Current)' = InverseOf(Current)
  BY <1>2 DEF InverseOf, Current
<1> QED
  BY <1>1, <1>3 DEF Inv, JournalOK, WalkSound, NoOp

(* Every step keeps it: types, control, the journal and the walk.            *)
LEMMA InvNext == Inv /\ [Next]_vars => Inv'
<1> SUFFICES ASSUME Inv, [Next]_vars PROVE Inv'
  OBVIOUS
<1>0. ExecOK /\ ExecTypeOK(All) /\ Callers \subseteq All /\ WD \in All
  BY DEF Inv, TypeOK, ExecOK, All
<1> USE DEF Inv
<1>1. ASSUME NEW c \in Callers, Request(c) PROVE Inv'
  <2>1. PICK r \in Requests : Execute(c, r)
    BY <1>1 DEF Request
  <2>2. pc[c] = "idle" /\ c \in All /\ c # WD
    BY <1>1, <1>0 DEF Request
  <2>3. Admissible(c, r)
    BY <2>2 DEF Requests, Admissible, QuarantineDone, Quarantine, QuarantineFD
  <2>4. ExecOK'
    BY <1>0, <2>1, <2>2, <2>3, ExecuteOK
  <2>5. TypeOK'
    BY <1>1, <2>4 DEF Request, TypeOK, ExecOK
  <2>6. \A d \in All \ {c} : op'[d] = op[d] /\ pc'[d] = pc[d]
    BY <2>1, <1>0 DEF Execute, Step, ExecTypeOK
  <2>7. \A d \in Callers : Succeeded(d) => Succeeded(d)' /\ op'[d] = op[d]
    BY <2>2, <2>6, SucceededStays
  <2>8. UNCHANGED <<journal, walk, walking>> /\ op'[WD] = op[WD] /\ pc'[WD] = pc[WD]
    BY <1>1, <1>0, <2>2, <2>6 DEF Request
  <2>9. JournalOK'
    BY <2>7, <2>8, WalkStays DEF JournalOK, JournalSound, TypeOK
  <2> QED
    BY <2>4, <2>5, <2>9 DEF ExecOK
<1>2. ASSUME NEW c \in Callers, Run(c) PROVE Inv'
  <2>1. ExecStep(c) /\ c \in All /\ c # WD
    BY <1>2, <1>0 DEF Run
  <2>2. ExecOK'
    BY <1>0, <2>1, StepOK
  <2>3. TypeOK'
    BY <1>2, <2>2 DEF Run, Journaled, TypeOK, ExecOK
  <2>4. /\ op' = op /\ Active(c)
        /\ \A d \in All \ {c} : pc'[d] = pc[d]
    BY <1>0, <2>1, StepFrame
  <2>5. journal' = journal \/ (Succeeded(c)' /\ journal' = Append(journal, c))
    BY <1>2, <2>4 DEF Run, Journaled, Succeeded, Forward, ForwardActs, Revoke, Isolate, Quarantine,
       QuarantineFD, BlockHash, Kill
  <2>6. \A i \in DOMAIN journal : journal[i] # c
    BY <2>4 DEF JournalOK, JournalSound, WalkSound, Succeeded, Active
  <2>7. \A d \in Callers : Succeeded(d) => Succeeded(d)' /\ op'[d] = op[d]
    BY <2>1, <2>4, SucceededStays
  <2>8. UNCHANGED <<walk, walking>> /\ op'[WD] = op[WD] /\ pc'[WD] = pc[WD]
    BY <1>2, <1>0, <2>1, <2>4 DEF Run
  <2>9. JournalSound'
    <3>1. CASE journal' = journal
      BY <3>1, <2>7 DEF JournalOK, JournalSound, TypeOK
    <3>2. CASE Succeeded(c)' /\ journal' = Append(journal, c)
      <4>1. (\A i \in DOMAIN journal : Succeeded(journal[i]))'
        BY <3>2, <2>7 DEF JournalOK, JournalSound, TypeOK
      <4>2. (\A i, j \in DOMAIN journal : journal[i] = journal[j] => i = j)'
        BY <3>2, <2>6 DEF JournalOK, JournalSound, TypeOK
      <4> QED
        BY <4>1, <4>2 DEF JournalSound
    <3> QED
      BY <3>1, <3>2, <2>5
  <2>10. WalkSound'
    BY <2>4, <2>7, <2>8, WalkStays
  <2>11. JournalOK'
    BY <2>9, <2>10 DEF JournalOK
  <2> QED
    BY <2>2, <2>3, <2>11 DEF ExecOK
<1>3. CASE Recreate /\ UNCHANGED wdVars
  BY <1>3 DEF Recreate, wdVars, TypeOK, ExecTypeOK, ControlOK, JournalOK, JournalSound, WalkSound, QuarantineDone, Succeeded,
     InverseOf, Current, network
<1>4. CASE Probe
  BY <1>4 DEF Probe, execVars, host, network, files, TypeOK, ExecTypeOK, ControlOK, JournalOK, JournalSound, WalkSound, QuarantineDone,
     Succeeded, InverseOf, Current
<1>5. ASSUME NEW d \in 0 .. MinDuration, Tick(d) PROVE Inv'
  <2>1. UNCHANGED <<execVars, journal, lockedOut, alerted>> /\ ~walking /\ rollbacks < MaxRollbacks
    BY <1>5 DEF Tick
  <2>2. pc[WD] = "idle"
    BY <2>1 DEF JournalOK, JournalSound, WalkSound
  <2>3. ExecOK'
    BY <1>0, <2>1 DEF ExecOK, ExecTypeOK, ControlOK, QuarantineDone, execVars, host, network, files
  <2>4. Observe(d) /\ walk' \in {walk, journal} /\ critical' \in {critical, {}} /\ rollbacks' \in {rollbacks, rollbacks + 1}
         /\ walking' \in BOOLEAN /\ disturbed' \in BOOLEAN
    BY <1>5 DEF Tick, TypeOK
  <2>5. streak' \in 0 .. MinTicks /\ span' \in 0 .. MinDuration /\ seen' \in Seq(BOOLEAN)
    <3> USE DEF TypeOK
    <3>1. streak' \in 0 .. MinTicks
      BY <2>4 DEF Observe, AtMost, StreakAfterRecovery
    <3>2. span' \in 0 .. MinDuration
      BY <2>4 DEF Observe, AtMost
    <3>3. seen' \in Seq(BOOLEAN)
      <4> DEFINE s == Append(seen, lockedOut)
      <4>1. s \in Seq(BOOLEAN) /\ Len(s) = Len(seen) + 1
        OBVIOUS
      <4>2. Tail(s) \in Seq(BOOLEAN)
        BY <4>1
      <4> QED
        BY <2>4, <4>1, <4>2 DEF Observe
    <3> QED
      BY <3>1, <3>2, <3>3
  <2>6. TypeOK'
    BY <2>1, <2>3, <2>4, <2>5 DEF TypeOK, ExecOK
  <2>7. JournalOK'
    BY <2>1, <2>2, <2>4 DEF JournalOK, JournalSound, WalkSound, Succeeded, execVars
  <2> QED
    BY <2>3, <2>6, <2>7 DEF ExecOK
<1>6. CASE Undo
  <2>1. /\ pc[WD] = "idle" /\ walking /\ walk # <<>>
        /\ InverseOf(Current) # NoOp /\ Execute(WD, InverseOf(Current)) /\ UNCHANGED wdVars
    BY <1>6 DEF Undo
  <2>2. Current \in Callers /\ Succeeded(Current)
    BY <2>1 DEF Current, TypeOK, JournalOK, JournalSound, WalkSound
  <2>3. Admissible(WD, InverseOf(Current))
    BY <2>1, <2>2 DEF Admissible, InverseOf, Succeeded, ForwardActs, QuarantineDone, RestoreKey, DeIsolate,
       Unquarantine, NoOp
  <2>4. ExecOK'
    BY <1>0, <2>1, <2>3, ExecuteOK
  <2>5. TypeOK'
    BY <2>1, <2>4 DEF wdVars, TypeOK, ExecOK
  <2>6. /\ op'[WD] = InverseOf(Current) /\ pc'[WD] # "idle"
        /\ \A d \in All \ {WD} : op'[d] = op[d] /\ pc'[d] = pc[d]
    <3>1. op' = [op EXCEPT ![WD] = InverseOf(Current)] /\ pc' = [pc EXCEPT ![WD] = First(InverseOf(Current).act)]
      BY <2>1 DEF Execute, Step
    <3>2. InverseOf(Current).act \in {"restore-key", "de-isolate", "unquarantine"}
      BY <2>3 DEF Admissible
    <3>3. First(InverseOf(Current).act) # "idle"
      BY <3>2 DEF First
    <3> QED
      BY <3>1, <3>3, <1>0 DEF ExecTypeOK
  <2>7. \A d \in Callers : Succeeded(d) => Succeeded(d)' /\ op'[d] = op[d]
    BY <1>0, <2>1, <2>6, SucceededStays
  <2>8. InverseOf(Current)' = InverseOf(Current)
    BY <2>1, <2>2, <2>6, <1>0 DEF InverseOf, Current, wdVars
  <2>9. JournalOK'
    BY <2>1, <2>6, <2>7, <2>8 DEF JournalOK, JournalSound, WalkSound, wdVars, TypeOK
  <2> QED
    BY <2>4, <2>5, <2>9 DEF ExecOK
<1>7. CASE UndoIrreversible
  <2>1. Current \in Callers /\ walk' = SubSeq(walk, 1, Len(walk) - 1) /\ walk # <<>> /\ walking
    BY <1>7 DEF UndoIrreversible, Undone, Current, TypeOK
  <2>2. ExecOK'
    BY <1>7, <1>0 DEF UndoIrreversible, ExecOK, ExecTypeOK, ControlOK, QuarantineDone, execVars, host, network, files
  <2>3. TypeOK'
    BY <1>7, <2>1, <2>2 DEF UndoIrreversible, TypeOK, ExecOK
  <2>4. JournalOK'
    BY <1>7, <2>1 DEF UndoIrreversible, JournalOK, JournalSound, WalkSound, TypeOK, Succeeded, execVars
  <2> QED
    BY <2>2, <2>3, <2>4 DEF ExecOK
<1>8. CASE RunUndo
  <2>1. ExecStep(WD) /\ UNCHANGED wdVars
    BY <1>8 DEF RunUndo
  <2>2. ExecOK'
    BY <1>0, <2>1, StepOK
  <2>3. /\ op' = op /\ Active(WD) /\ pc'[WD] # "idle"
        /\ \A d \in All \ {WD} : pc'[d] = pc[d]
    BY <1>0, <2>1, StepFrame
  <2>4. \A d \in Callers : Succeeded(d) => Succeeded(d)' /\ op'[d] = op[d]
    BY <1>0, <2>3, SucceededStays
  <2>5. JournalOK'
    BY <2>1, <2>3, <2>4 DEF JournalOK, JournalSound, WalkSound, wdVars, TypeOK, InverseOf, Current, Active
  <2> QED
    BY <2>1, <2>2, <2>5 DEF ExecOK, TypeOK, wdVars
<1>9. CASE Verify
  <2>1. /\ walking /\ pc[WD] \in {"ok", "failed"} /\ walk' = SubSeq(walk, 1, Len(walk) - 1)
        /\ pc' = [pc EXCEPT ![WD] = "idle"] /\ op' = [op EXCEPT ![WD] = NoOp] /\ data' = [data EXCEPT ![WD] = {}]
        /\ UNCHANGED <<host, todo, overlap, raced, journal, lockedOut, streak, span, walking, disturbed, seen, rollbacks>>
    BY <1>9 DEF Verify, Undone
  <2>2. walk # <<>> /\ Current \in Callers
    BY <2>1 DEF JournalOK, JournalSound, WalkSound, Current, TypeOK
  <2>3. critical' \cup alerted' \subseteq Callers
    BY <1>9, <2>2 DEF Verify, Alerts, TypeOK
  <2>4. ExecTypeOK(All)'
    BY <2>1, <1>0 DEF ExecTypeOK, host, network, files, Steps
  <2>5. TypeOK'
    BY <2>1, <2>2, <2>3, <2>4 DEF TypeOK
  <2>6. \A d \in Callers : op'[d] = op[d] /\ pc'[d] = pc[d] /\ data'[d] = data[d]
    BY <2>1, <1>0 DEF ExecTypeOK
  <2>7. op'[WD] = NoOp /\ pc'[WD] = "idle" /\ data'[WD] = {}
    BY <2>1, <1>0 DEF ExecTypeOK
  <2>8. ControlOK'
    <3> SUFFICES ASSUME NEW c \in All PROVE ControlOK!(c)'
      BY DEF ControlOK
    <3>1. CASE c = WD
      BY <3>1, <2>7 DEF NoOp
    <3>2. CASE c # WD
      BY <3>2, <2>1, <2>6 DEF ControlOK, QuarantineDone, All, host
    <3> QED
      BY <3>1, <3>2
  <2>9. JournalOK'
    BY <2>1, <2>2, <2>6, <2>7 DEF JournalOK, JournalSound, WalkSound, TypeOK, Succeeded
  <2> QED
    BY <2>5, <2>8, <2>9
<1>10. CASE Finish
  <2>1. ExecOK'
    BY <1>10, <1>0 DEF Finish, ExecOK, ExecTypeOK, ControlOK, QuarantineDone, execVars, host, network, files
  <2>2. TypeOK'
    <3>1. {lockedOut, walking, disturbed}' \subseteq BOOLEAN
      BY <1>10, Zenon DEF Finish, TypeOK
    <3>2. streak' \in 0 .. MinTicks /\ span' \in 0 .. MinDuration
      BY <1>10 DEF Finish, TypeOK
    <3> QED
      BY <1>10, <2>1, <3>1, <3>2 DEF Finish, TypeOK, ExecOK
  <2>3. JournalOK'
    BY <1>10 DEF Finish, JournalOK, JournalSound, WalkSound, Succeeded, execVars
  <2> QED
    BY <2>1, <2>2, <2>3 DEF ExecOK
<1>11. CASE UNCHANGED vars
  BY <1>11 DEF vars, wdVars, execVars, host, network, files, TypeOK, ExecTypeOK, ControlOK, JournalOK, JournalSound, WalkSound,
     QuarantineDone, Succeeded, InverseOf, Current
<1> QED
  BY <1>1, <1>2, <1>3, <1>4, <1>5, <1>6, <1>7, <1>8, <1>9, <1>10, <1>11 DEF Next

(* Every reachable state is well typed, each call is where its request can   *)
(* take it, and the rollback walks over forward calls that succeeded.        *)
THEOREM InvCorrect == Spec => []Inv
BY InvInit, InvNext, PTL DEF Spec

(* Every reachable state is well typed.                                      *)
THEOREM TypeCorrect == Spec => []TypeOK
<1>1. Inv => TypeOK
  BY DEF Inv
<1> QED
  BY <1>1, InvCorrect, PTL

-----------------------------------------------------------------------------
(* What the steps of the system do to the executor.                          *)

(* A verified call of the watchdog is forgotten; a failure is alerted.       *)
Forget ==
    /\ pc[WD] \in {"ok", "failed"}
    /\ pc' = [pc EXCEPT ![WD] = "idle"]
    /\ op' = [op EXCEPT ![WD] = NoOp]
    /\ data' = [data EXCEPT ![WD] = {}]
    /\ UNCHANGED <<host, todo, overlap, raced>>
    /\ pc[WD] = "failed" => alerted' # {}

Requested(c, r) == pc[c] = "idle" /\ Admissible(c, r) /\ Execute(c, r)

HostNext ==
    \/ \E c \in All : \E r : Requested(c, r)
    \/ \E c \in All : ExecStep(c)
    \/ Recreate
    \/ Forget
    \/ UNCHANGED execVars

(* Every step is one of those, and alerts stay.                              *)
LEMMA NextIsHostNext ==
    ASSUME Inv, [Next]_vars
    PROVE  HostNext /\ alerted \subseteq alerted' /\ ExecOK /\ ExecOK'
<1>1. ExecOK /\ ExecOK'
  BY InvNext DEF Inv, TypeOK, ExecOK
<1>2. ASSUME NEW c \in Callers, Request(c) PROVE HostNext /\ alerted' = alerted
  <2>1. PICK r \in Requests : Execute(c, r)
    BY <1>2 DEF Request
  <2>2. pc[c] = "idle" /\ c \in All /\ c # WD /\ alerted' = alerted
    BY <1>2 DEF Request, All
  <2>3. Admissible(c, r)
    BY <2>1, <2>2 DEF Requests, Admissible, QuarantineDone, Quarantine, QuarantineFD
  <2> QED
    BY <2>1, <2>2, <2>3 DEF HostNext, Requested
<1>3. ASSUME NEW c \in Callers, Run(c) PROVE HostNext /\ alerted' = alerted
  BY <1>3 DEF Run, HostNext, All
<1>4. CASE Recreate /\ UNCHANGED wdVars
  BY <1>1, <1>4 DEF HostNext, wdVars
<1>5. CASE Probe
  BY <1>1, <1>5 DEF HostNext, Probe
<1>6. ASSUME NEW d \in 0 .. MinDuration, Tick(d) PROVE HostNext /\ alerted' = alerted
  BY <1>6 DEF HostNext, Tick
<1>7. CASE Undo
  <2>1. Current \in Callers /\ Succeeded(Current)
    BY <1>7 DEF Undo, Current, Inv, TypeOK, JournalOK, WalkSound
  <2>2. Admissible(WD, InverseOf(Current))
    BY <1>7, <2>1 DEF Undo, Admissible, InverseOf, Succeeded, ForwardActs, QuarantineDone, RestoreKey, DeIsolate,
       Unquarantine, NoOp
  <2> QED
    BY <1>1, <1>7, <2>2 DEF Undo, HostNext, Requested, All, wdVars
<1>8. CASE UndoIrreversible
  BY <1>1, <1>8 DEF UndoIrreversible, HostNext
<1>9. CASE RunUndo
  BY <1>1, <1>9 DEF RunUndo, HostNext, All, wdVars
<1>10. CASE Verify
  BY <1>1, <1>10 DEF Verify, Alerts, HostNext, Forget
<1>11. CASE Finish
  BY <1>1, <1>11 DEF Finish, HostNext
<1>12. CASE UNCHANGED vars
  BY <1>1, <1>12 DEF vars, wdVars, HostNext
<1> QED
  BY <1>1, <1>2, <1>3, <1>4, <1>5, <1>6, <1>7, <1>8, <1>9, <1>10, <1>11, <1>12 DEF Next

(* The steps of a call by what the call works on.                            *)
KeysStep(c) == Fail(c) \/ ReadKeys(c) \/ WriteBackup(c) \/ EditKeys(c) \/ ReadBackup(c) \/ RewriteKeys(c)

EgressStep(c) == Fail(c) \/ AddTable(c) \/ AddChain(c) \/ AddRule(c) \/ Isolated(c) \/ DeleteTable(c)

RuleStep(c) == Fail(c) \/ WriteRule(c)

FileStep(c) ==
    \/ Fail(c) \/ Move(c) \/ RemoveSource(c)
    \/ Resolve(c) \/ Fstat(c) \/ MoveFD(c) \/ Confirm(c) \/ RollBack(c)
    \/ CheckOrigin(c) \/ MoveBack(c) \/ RemoveCopy(c)

About(c) == Object(op[c].act)

(* A step of a call changes only what the call works on.                     *)
LEMMA StepSplit ==
    ASSUME ExecOK, NEW c \in All, ExecStep(c)
    PROVE  /\ IF About(c) = "keys" THEN KeysStep(c) ELSE UNCHANGED <<keys, backup>>
           /\ IF About(c) = "egress" THEN EgressStep(c) ELSE UNCHANGED <<table, accept>>
           /\ IF About(c) = "rule" THEN RuleStep(c) ELSE UNCHANGED rule
           /\ IF About(c) = "file" THEN FileStep(c) ELSE UNCHANGED <<origin, copies, raced>>
<1> DEFINE act == op[c].act
           Split == /\ IF About(c) = "keys" THEN KeysStep(c) ELSE UNCHANGED <<keys, backup>>
                    /\ IF About(c) = "egress" THEN EgressStep(c) ELSE UNCHANGED <<table, accept>>
                    /\ IF About(c) = "rule" THEN RuleStep(c) ELSE UNCHANGED rule
                    /\ IF About(c) = "file" THEN FileStep(c) ELSE UNCHANGED <<origin, copies, raced>>
<1>1. CASE Fail(c)
  BY <1>1 DEF Fail, KeysStep, EgressStep, RuleStep, FileStep, host, network, files
<1>2. CASE KillStep(c)
  <2>1. act = "kill"
    BY <1>2 DEF KillStep, ExecOK, ControlOK
  <2> QED
    BY <1>2, <2>1 DEF KillStep, About, Object, host, network, files
<1>3. CASE ReadKeys(c) \/ WriteBackup(c) \/ EditKeys(c) \/ ReadBackup(c) \/ RewriteKeys(c)
  <2>1. act \in {"revoke-key", "restore-key"}
    BY <1>3 DEF ReadKeys, WriteBackup, EditKeys, ReadBackup, RewriteKeys, ExecOK, ControlOK
  <2>2. UNCHANGED <<network, rule, files, raced>>
    BY <1>3 DEF ReadKeys, WriteBackup, EditKeys, ReadBackup, RewriteKeys, host
  <2> QED
    BY <1>3, <2>1, <2>2 DEF About, Object, KeysStep, network, files
<1>4. CASE AddTable(c) \/ AddChain(c) \/ AddRule(c) \/ Isolated(c) \/ DeleteTable(c)
  <2>1. act \in {"isolate", "de-isolate"}
    BY <1>4 DEF AddTable, AddChain, AddRule, Isolated, DeleteTable, ExecOK, ControlOK
  <2>2. UNCHANGED <<keys, backup, rule, files, raced>>
    BY <1>4 DEF AddTable, AddChain, AddRule, Isolated, DeleteTable, host
  <2> QED
    BY <1>4, <2>1, <2>2 DEF About, Object, EgressStep, files
<1>5. CASE WriteRule(c)
  <2>1. act = "block-hash"
    BY <1>5 DEF WriteRule, ExecOK, ControlOK
  <2> QED
    BY <1>5, <2>1 DEF WriteRule, About, Object, RuleStep, network, files
<1>6. CASE FileStep(c) /\ ~Fail(c)
  <2>1. act \in {"quarantine", "quarantine-fd", "unquarantine"}
    BY <1>6 DEF FileStep, Move, RemoveSource, Resolve, Fstat, MoveFD, Confirm, RollBack, CheckOrigin, MoveBack,
       RemoveCopy, ExecOK, ControlOK
  <2>2. UNCHANGED <<keys, backup, rule, network>>
    BY <1>6 DEF FileStep, Move, RemoveSource, Resolve, Fstat, MoveFD, Confirm, RollBack, CheckOrigin, MoveBack,
       RemoveCopy, host
  <2> QED
    BY <1>6, <2>1, <2>2 DEF About, Object, network
<1> QED
  BY <1>1, <1>2, <1>3, <1>4, <1>5, <1>6 DEF ExecStep, FileStep

(* At most one call in progress works on an object that no two calls have    *)
(* worked on together.                                                       *)
Serial(o) ==
    o \notin overlap => \A c, d \in All : Active(c) /\ Active(d) /\ About(c) = o /\ About(d) = o => c = d

(* Overlapping calls are recorded in overlap when the second one starts.     *)
LEMMA SerialNext ==
    ASSUME ExecOK, HostNext, NEW o, Serial(o)
    PROVE  Serial(o)'
<1> USE DEF ExecOK, ExecTypeOK
<1>1. ASSUME NEW c \in All, NEW r, Requested(c, r) PROVE Serial(o)'
  <2> SUFFICES ASSUME o \notin overlap', NEW d \in All, NEW e \in All, Active(d)', Active(e)',
                      About(d)' = o, About(e)' = o, d # e
               PROVE  FALSE
    BY DEF Serial
  <2>1. /\ op'[c] = r /\ \A x \in All \ {c} : op'[x] = op[x] /\ pc'[x] = pc[x]
        /\ overlap' = overlap \cup {y \in {Object(r.act)} : \E x \in All \ {c} : Active(x) /\ Object(op[x].act) = y}
    BY <1>1 DEF Requested, Execute, Step
  <2>2. ASSUME NEW x \in All \ {c}, Active(x)', About(x)' = o PROVE Active(x) /\ About(x) = o
    BY <2>1, <2>2 DEF Active, About
  <2>3. CASE d # c /\ e # c
    BY <2>1, <2>2, <2>3 DEF Serial
  <2>4. CASE d = c \/ e = c
    <3>1. PICK x \in All \ {c} : Active(x) /\ About(x) = o
      BY <2>2, <2>4
    <3>2. Object(r.act) = o
      BY <2>1, <2>4 DEF About
    <3> QED
      BY <2>1, <3>1, <3>2 DEF About
  <2> QED
    BY <2>3, <2>4
<1>2. ASSUME NEW c \in All, ExecStep(c) PROVE Serial(o)'
  <2>1. op' = op /\ overlap' = overlap /\ Active(c) /\ \A d \in All \ {c} : pc'[d] = pc[d]
    BY <1>2, StepFrame
  <2>2. \A d \in All : Active(d)' => Active(d)
    BY <2>1 DEF Active
  <2> QED
    BY <2>1, <2>2 DEF Serial, About
<1>3. CASE Recreate
  BY <1>3 DEF Recreate, Serial, Active, About
<1>4. CASE Forget
  <2>1. overlap' = overlap /\ pc'[WD] = "idle" /\ \A d \in All \ {WD} : pc'[d] = pc[d] /\ op'[d] = op[d]
    BY <1>4 DEF Forget, All
  <2> QED
    BY <2>1 DEF Serial, Active, About
<1>5. CASE UNCHANGED execVars
  BY <1>5 DEF execVars, Serial, Active, About
<1> QED
  BY <1>1, <1>2, <1>3, <1>4, <1>5 DEF HostNext

(* Nothing went wrong yet with an object: no two calls worked on it together,*)
(* none that did has failed, and no rollback has alerted.                    *)
Quiet(o) ==
    /\ o \notin overlap
    /\ alerted = {}
    /\ \A c \in All : About(c) = o => pc[c] # "failed"

(* What went wrong stays on record.                                          *)
LEMMA QuietBefore ==
    ASSUME ExecOK, HostNext, alerted \subseteq alerted', NEW o, Quiet(o)'
    PROVE  Quiet(o)
<1> USE DEF ExecOK, ExecTypeOK, Quiet, About
<1>1. ASSUME NEW c \in All, NEW r, Requested(c, r) PROVE Quiet(o)
  BY <1>1 DEF Requested, Execute, Step
<1>2. ASSUME NEW c \in All, ExecStep(c) PROVE Quiet(o)
  BY <1>2, StepFrame DEF Active
<1>3. CASE Recreate
  BY <1>3 DEF Recreate
<1>4. CASE Forget
  <2>1. overlap' = overlap /\ pc[WD] # "failed" /\ \A d \in All \ {WD} : pc'[d] = pc[d] /\ op'[d] = op[d]
    BY <1>4 DEF Forget, All
  <2> QED
    BY <2>1
<1>5. CASE UNCHANGED execVars
  BY <1>5 DEF execVars
<1> QED
  BY <1>1, <1>2, <1>3, <1>4, <1>5 DEF HostNext

(* A race stays on record too.                                               *)
LEMMA RacedStays ==
    ASSUME ExecOK, HostNext, raced
    PROVE  raced'
BY StepFrame DEF HostNext, Requested, Execute, Recreate, Forget, execVars

-----------------------------------------------------------------------------
(* Isolation and the deny rule.                                              *)

(* The lifelines that are missing are still to be added by a call that is at *)
(* it, or one that has failed.                                               *)
TableSound ==
    table = "dropping" =>
        \/ accept = Ifaces
        \/ \E c \in All : /\ op[c].act = "isolate"
                          /\ pc[c] = "failed" \/ (pc[c] = "addRules" /\ Ifaces \ accept \subseteq todo[c])

RuleSound == rule = "torn" => \E c \in All : op[c].act = "block-hash" /\ pc[c] \in {"writeRule", "failed"}

(* No step leaves a dropping table without lifelines and without a call to blame.*)
LEMMA TableNext ==
    ASSUME ExecOK, ExecOK', HostNext, TableSound
    PROVE  TableSound'
<1> USE DEF ExecOK, ExecTypeOK, TableSound
<1>0. ASSUME NEW x \in All, op[x].act = "isolate", pc[x] \in {"failed", "addRules"}, UNCHANGED <<table, accept, todo>>,
             \A d \in All : pc[d] \in {"failed", "addRules"} /\ op[d].act = "isolate" => pc'[d] = pc[d] /\ op'[d] = op[d]
      PROVE  TableSound'
  BY <1>0
<1>1. ASSUME NEW c \in All, NEW r, Requested(c, r) PROVE TableSound'
  <2>1. UNCHANGED <<host, todo>> /\ pc[c] = "idle" /\ \A d \in All \ {c} : pc'[d] = pc[d] /\ op'[d] = op[d]
    BY <1>1 DEF Requested, Execute, Step
  <2> QED
    BY <2>1 DEF host, network
<1>2. ASSUME NEW c \in All, ExecStep(c) PROVE TableSound'
  <2>1. op' = op /\ Active(c) /\ \A d \in All \ {c} : pc'[d] = pc[d] /\ todo'[d] = todo[d]
    BY <1>2, StepFrame
  <2>2. CASE About(c) # "egress"
    <3>1. UNCHANGED <<table, accept>>
      BY <1>2, <2>2, StepSplit
    <3> QED
      BY <2>1, <2>2, <3>1 DEF About, Object, Active
  <2>3. CASE Fail(c)
    <3>1. UNCHANGED <<table, accept>> /\ pc'[c] = "failed"
      BY <2>3 DEF Fail, Step, host, network
    <3>2. ASSUME NEW x \in All, op[x].act = "isolate",
                 pc[x] = "failed" \/ (pc[x] = "addRules" /\ Ifaces \ accept \subseteq todo[x])
          PROVE  TableSound'
      <4>1. CASE x = c
        <5>1. op'[x].act = "isolate" /\ pc'[x] = "failed"
          BY <4>1, <2>1, <3>1, <3>2
        <5> QED
          BY <5>1 DEF All
      <4>2. CASE x # c
        BY <4>2, <2>1, <3>1, <3>2
      <4> QED
        BY <4>1, <4>2
    <3> QED
      BY <3>1, <3>2
  <2>4. CASE AddTable(c)
    BY <2>4, <2>1 DEF AddTable
  <2>5. CASE AddChain(c)
    BY <2>5, <2>1 DEF AddChain, Step, ControlOK
  <2>6. CASE AddRule(c)
    <3>1. PICK i \in todo[c] : accept' = accept \cup {i} /\ todo' = [todo EXCEPT ![c] = @ \ {i}]
      BY <2>6 DEF AddRule
    <3>2. pc' = pc /\ pc[c] = "addRules" /\ table' = table /\ table = "dropping"
      BY <2>6 DEF AddRule
    <3>3. CASE accept = Ifaces
      BY <3>1, <3>3
    <3>4. ASSUME NEW x \in All, op[x].act = "isolate",
                 pc[x] = "failed" \/ (pc[x] = "addRules" /\ Ifaces \ accept \subseteq todo[x])
          PROVE  TableSound'
      <4>1. CASE x = c
        BY <4>1, <3>1, <3>2, <3>4, <2>1
      <4>2. CASE x # c
        BY <4>2, <3>1, <3>2, <3>4, <2>1
      <4> QED
        BY <4>1, <4>2
    <3> QED
      BY <3>2, <3>3, <3>4
  <2>7. CASE Isolated(c)
    <3>1. UNCHANGED <<table, accept>> /\ pc[c] = "addRules" /\ todo[c] = {}
      BY <2>7 DEF Isolated, host, network
    <3> QED
      BY <3>1, <2>1
  <2>8. CASE DeleteTable(c)
    BY <2>8 DEF DeleteTable
  <2> QED
    BY <1>2, <2>2, <2>3, <2>4, <2>5, <2>6, <2>7, <2>8, StepSplit DEF EgressStep
<1>3. CASE Recreate
  BY <1>3 DEF Recreate, network
<1>4. CASE Forget
  <2>1. UNCHANGED <<host, todo>> /\ \A d \in All \ {WD} : pc'[d] = pc[d] /\ op'[d] = op[d]
    BY <1>4 DEF Forget, All
  <2>2. op[WD].act # "isolate"
    BY DEF ControlOK, All
  <2> QED
    BY <2>1, <2>2 DEF host, network
<1>5. CASE UNCHANGED execVars
  BY <1>5 DEF execVars, host, network
<1> QED
  BY <1>1, <1>2, <1>3, <1>4, <1>5 DEF HostNext

(* No step leaves a torn rule without a call to blame.                       *)
LEMMA RuleNext ==
    ASSUME ExecOK, HostNext, RuleSound
    PROVE  RuleSound'
<1> USE DEF ExecOK, ExecTypeOK, RuleSound
<1>1. ASSUME NEW c \in All, NEW r, Requested(c, r) PROVE RuleSound'
  BY <1>1 DEF Requested, Execute, Step, host
<1>2. ASSUME NEW c \in All, ExecStep(c) PROVE RuleSound'
  <2>1. op' = op /\ Active(c) /\ \A d \in All \ {c} : pc'[d] = pc[d]
    BY <1>2, StepFrame
  <2>2. CASE About(c) # "rule"
    <3>1. rule' = rule
      BY <1>2, <2>2, StepSplit
    <3> QED
      BY <2>1, <2>2, <3>1 DEF About, Object
  <2>3. CASE Fail(c)
    BY <2>3, <2>1 DEF Fail, Step, host
  <2>4. CASE WriteRule(c)
    BY <2>4, <2>1 DEF WriteRule, Step, ControlOK
  <2> QED
    BY <1>2, <2>2, <2>3, <2>4, StepSplit DEF RuleStep
<1>3. CASE Recreate
  BY <1>3 DEF Recreate
<1>4. CASE Forget
  <2>1. rule' = rule /\ op[WD].act # "block-hash" /\ \A d \in All \ {WD} : pc'[d] = pc[d] /\ op'[d] = op[d]
    BY <1>4 DEF Forget, All, host, ControlOK
  <2> QED
    BY <2>1
<1>5. CASE UNCHANGED execVars
  BY <1>5 DEF execVars, host
<1> QED
  BY <1>1, <1>2, <1>3, <1>4, <1>5 DEF HostNext

-----------------------------------------------------------------------------
(* The keys.                                                                 *)

(* While nothing went wrong with the keys, an empty file or backup is one    *)
(* that a call is about to write, and what a call will write is not empty.   *)
KeysSound ==
    Quiet("keys") =>
        /\ keys = {} => \E c \in All : pc[c] \in {"writeKeys", "rewrite"}
        /\ backup = {} /\ backup # None => \E c \in All : pc[c] = "backup"
        /\ \A c \in All : /\ pc[c] \in {"openBackup", "backup", "edit", "openKeys", "rewrite"} => data[c] # {}
                          /\ pc[c] = "writeKeys" => data[c] \ {op[c].arg} # {}

(* Until somebody restores the backup, a key whose revocation has succeeded  *)
(* is gone, and gone from what any call has read and not yet written.        *)
NeverRestored == "keys" \notin overlap /\ rollbacks = 0 /\ \A d \in All : op[d].act # "restore-key"

RevokedSound ==
    NeverRestored =>
        \A c \in All : op[c].act = "revoke-key" /\ pc[c] = "ok" =>
            /\ op[c].arg \notin keys
            /\ \A d \in All : pc[d] \in {"openBackup", "backup", "edit", "writeKeys"} => op[c].arg \notin data[d]

(* No step empties the key file or its backup for good.                      *)
LEMMA KeysNext ==
    ASSUME ExecOK, ExecOK', HostNext, alerted \subseteq alerted', Serial("keys"), KeysSound
    PROVE  KeysSound'
<1> USE DEF ExecOK, ExecTypeOK
<1> SUFFICES ASSUME Quiet("keys")' PROVE KeysSound'
  BY DEF KeysSound
<1>0. Quiet("keys")
  BY QuietBefore
<1> USE DEF KeysSound
<1>1. ASSUME NEW c \in All, NEW r, Requested(c, r) PROVE KeysSound'
  <2>1. UNCHANGED <<keys, backup, data>> /\ pc[c] = "idle" /\ \A d \in All \ {c} : pc'[d] = pc[d] /\ op'[d] = op[d]
    BY <1>1 DEF Requested, Execute, Step, host
  <2>2. pc'[c] \notin {"openBackup", "backup", "edit", "openKeys", "rewrite", "writeKeys"}
    BY <1>1 DEF Requested, Execute, Step, First, Admissible, Forward, Revoke, Isolate, Quarantine, QuarantineFD,
       BlockHash, Kill, RestoreKey, DeIsolate, Unquarantine
  <2> QED
    BY <1>0, <2>1, <2>2
<1>2. ASSUME NEW c \in All, ExecStep(c) PROVE KeysSound'
  <2>1. op' = op /\ Active(c) /\ \A d \in All \ {c} : pc'[d] = pc[d] /\ data'[d] = data[d]
    BY <1>2, StepFrame
  <2>2. CASE About(c) # "keys"
    <3>1. UNCHANGED <<keys, backup>>
      BY <1>2, <2>2, StepSplit
    <3>2. pc[c] \notin {"openBackup", "backup", "edit", "openKeys", "rewrite", "writeKeys"}
      BY <2>2 DEF About, Object, ControlOK
    <3>3. pc'[c] \notin {"openBackup", "backup", "edit", "openKeys", "rewrite", "writeKeys"}
      BY <2>1, <2>2 DEF About, Object, ControlOK
    <3> QED
      BY <1>0, <2>1, <3>1, <3>2, <3>3
  <2>3. CASE About(c) = "keys"
    <3>1. \A d \in All \ {c} :
             pc[d] \notin {"openBackup", "backup", "edit", "openKeys", "rewrite", "writeKeys", "read", "readBackup"}
      BY <1>0, <2>1, <2>3 DEF Serial, Quiet, About, Object, Active, ControlOK
    <3>2. ~Fail(c)
      BY <2>1, <2>3 DEF Fail, Step, Quiet, About
    <3>3. CASE ReadKeys(c)
      BY <1>0, <2>1, <3>1, <3>3 DEF ReadKeys, Step, host
    <3>4. CASE WriteBackup(c)
      BY <1>0, <2>1, <3>1, <3>4 DEF WriteBackup, Step
    <3>5. CASE EditKeys(c)
      BY <1>0, <2>1, <3>1, <3>5 DEF EditKeys, MayRemove, Return, Step
    <3>6. CASE ReadBackup(c)
      BY <1>0, <2>1, <3>1, <3>6 DEF ReadBackup, Step, host
    <3>7. CASE RewriteKeys(c)
      BY <1>0, <2>1, <3>1, <3>7 DEF RewriteKeys, Return, Step
    <3> QED
      BY <1>2, <2>3, <3>2, <3>3, <3>4, <3>5, <3>6, <3>7, StepSplit DEF KeysStep
  <2> QED
    BY <2>2, <2>3
<1>3. CASE Recreate
  BY <1>0, <1>3 DEF Recreate
<1>4. CASE Forget
  <2>1. UNCHANGED <<keys, backup>> /\ pc'[WD] = "idle" /\ pc[WD] \in {"ok", "failed"}
        /\ \A d \in All \ {WD} : pc'[d] = pc[d] /\ op'[d] = op[d] /\ data'[d] = data[d]
    BY <1>4 DEF Forget, All, host
  <2> QED
    BY <1>0, <2>1
<1>5. CASE UNCHANGED execVars
  BY <1>0, <1>5 DEF execVars, host
<1> QED
  BY <1>1, <1>2, <1>3, <1>4, <1>5 DEF HostNext

(* No step brings a revoked key back, unless it restores the backup.         *)
LEMMA RevokedNext ==
    ASSUME ExecOK, ExecOK', HostNext, rollbacks \in Nat, rollbacks' \in {rollbacks, rollbacks + 1},
           rollbacks = 0 => op[WD] = NoOp, Serial("keys"), RevokedSound
    PROVE  RevokedSound'
<1> USE DEF ExecOK, ExecTypeOK
<1> SUFFICES ASSUME NeverRestored', NEW k \in All, op'[k].act = "revoke-key", pc'[k] = "ok"
             PROVE  /\ op'[k].arg \notin keys'
                    /\ \A d \in All : pc'[d] \in {"openBackup", "backup", "edit", "writeKeys"} =>
                                          op'[k].arg \notin data'[d]
  BY DEF RevokedSound
<1> DEFINE Reading == {"openBackup", "backup", "edit", "writeKeys"}
           Goal == /\ op'[k].arg \notin keys'
                   /\ \A d \in All : pc'[d] \in Reading => op'[k].arg \notin data'[d]
<1>0. rollbacks = 0 /\ "keys" \notin overlap'
  BY DEF NeverRestored
<1>1. ASSUME NEW c \in All, NEW r, Requested(c, r) PROVE Goal
  <2>1. UNCHANGED <<keys, data>> /\ pc[c] = "idle" /\ overlap \subseteq overlap'
        /\ \A d \in All \ {c} : pc'[d] = pc[d] /\ op'[d] = op[d]
    BY <1>1 DEF Requested, Execute, Step, host
  <2>2. pc'[c] \notin Reading \cup {"ok"}
    BY <1>1 DEF Requested, Execute, Step, First, Admissible, Forward, Revoke, Isolate, Quarantine, QuarantineFD,
       BlockHash, Kill, RestoreKey, DeIsolate, Unquarantine
  <2>3. op[c].act # "restore-key"
    BY <2>1 DEF ControlOK
  <2>4. NeverRestored
    BY <1>0, <2>1, <2>3 DEF NeverRestored
  <2> QED
    BY <2>1, <2>2, <2>4 DEF RevokedSound
<1>2. ASSUME NEW c \in All, ExecStep(c) PROVE Goal
  <2>1. op' = op /\ overlap' = overlap /\ Active(c) /\ \A d \in All \ {c} : pc'[d] = pc[d] /\ data'[d] = data[d]
    BY <1>2, StepFrame
  <2>2. NeverRestored
    BY <1>0, <2>1 DEF NeverRestored
  <2>3. CASE About(c) # "keys"
    <3>1. keys' = keys
      BY <1>2, <2>3, StepSplit
    <3>2. pc'[c] \notin Reading
      BY <2>1, <2>3 DEF About, Object, ControlOK
    <3>3. k # c
      BY <2>1, <2>3 DEF About, Object
    <3> QED
      BY <2>1, <2>2, <3>1, <3>2, <3>3 DEF RevokedSound
  <2>4. CASE About(c) = "keys"
    <3>1. \A d \in All \ {c} : pc[d] \notin Reading
      BY <2>1, <2>2, <2>4 DEF Serial, NeverRestored, About, Object, Active, ControlOK
    <3>2. pc[c] \notin {"readBackup", "openKeys", "rewrite"}
      BY <2>2 DEF NeverRestored, ControlOK
    <3>3. CASE Fail(c)
      BY <2>1, <2>2, <3>3 DEF Fail, Step, RevokedSound, host
    <3>4. CASE ReadKeys(c)
      BY <2>1, <2>2, <3>1, <3>4 DEF ReadKeys, Step, RevokedSound, host
    <3>5. CASE WriteBackup(c)
      BY <2>1, <2>2, <3>1, <3>5 DEF WriteBackup, Step, RevokedSound
    <3>6. CASE EditKeys(c)
      BY <2>1, <2>2, <3>1, <3>6 DEF EditKeys, MayRemove, Return, Step, RevokedSound
    <3>7. ~ReadBackup(c) /\ ~RewriteKeys(c)
      BY <3>2 DEF ReadBackup, RewriteKeys
    <3> QED
      BY <1>2, <2>4, <3>3, <3>4, <3>5, <3>6, <3>7, StepSplit DEF KeysStep
  <2> QED
    BY <2>3, <2>4
<1>3. CASE Recreate
  <2>1. UNCHANGED <<keys, data, pc, op, overlap>>
    BY <1>3 DEF Recreate
  <2> QED
    BY <1>0, <2>1 DEF NeverRestored, RevokedSound
<1>4. CASE Forget
  <2>1. UNCHANGED <<keys, overlap>> /\ pc'[WD] = "idle"
        /\ \A d \in All \ {WD} : pc'[d] = pc[d] /\ op'[d] = op[d] /\ data'[d] = data[d]
    BY <1>4 DEF Forget, All, host
  <2>2. NeverRestored
    BY <1>0, <2>1 DEF NeverRestored, NoOp
  <2> QED
    BY <2>1, <2>2 DEF RevokedSound
<1>5. CASE UNCHANGED execVars
  <2>1. UNCHANGED <<keys, data, pc, op, overlap>>
    BY <1>5 DEF execVars, host
  <2> QED
    BY <1>0, <2>1 DEF NeverRestored, RevokedSound
<1> QED
  BY <1>1, <1>2, <1>3, <1>4, <1>5 DEF HostNext

-----------------------------------------------------------------------------
(* The quarantined file.                                                     *)

(* What a quarantine by process holds is the file it has checked.            *)
CheckedSound ==
    \A c \in Callers : op[c].act = "quarantine-fd" /\ pc[c] \in {"removeSource", "ok"} =>
        copies[c] \in data[c] \cup {None}

(* No step puts another file into a destination than the one checked.        *)
LEMMA CheckedNext ==
    ASSUME ExecOK, HostNext, CheckedSound
    PROVE  CheckedSound'
<1> USE DEF ExecOK, ExecTypeOK
<1> SUFFICES ASSUME NEW k \in Callers, op'[k].act = "quarantine-fd", pc'[k] \in {"removeSource", "ok"}
             PROVE  copies'[k] \in data'[k] \cup {None}
  BY DEF CheckedSound
<1>0. k \in All /\ k # WD
  BY DEF All
<1> DEFINE Goal == copies'[k] \in data'[k] \cup {None}
<1>1. ASSUME NEW c \in All, NEW r, Requested(c, r) PROVE Goal
  <2>1. UNCHANGED <<copies, data>> /\ \A d \in All \ {c} : pc'[d] = pc[d] /\ op'[d] = op[d]
    BY <1>1 DEF Requested, Execute, Step, host, files
  <2>2. pc'[c] \notin {"removeSource", "ok"}
    BY <1>1 DEF Requested, Execute, Step, First, Admissible, Forward, Revoke, Isolate, Quarantine, QuarantineFD,
       BlockHash, Kill, RestoreKey, DeIsolate, Unquarantine
  <2> QED
    BY <1>0, <2>1, <2>2 DEF CheckedSound
<1>2. ASSUME NEW c \in All, ExecStep(c) PROVE Goal
  <2>1. op' = op /\ Active(c) /\ \A d \in All \ {c} : pc'[d] = pc[d] /\ data'[d] = data[d]
    BY <1>2, StepFrame
  <2>2. CASE About(c) # "file"
    <3>1. copies' = copies
      BY <1>2, <2>2, StepSplit
    <3>2. k # c
      BY <2>1, <2>2 DEF About, Object
    <3> QED
      BY <1>0, <2>1, <3>1, <3>2 DEF CheckedSound
  <2>3. CASE Fail(c) \/ Move(c) \/ Resolve(c) \/ Fstat(c)
    <3>1. k # c
      BY <2>1, <2>3 DEF Fail, Move, Resolve, Fstat, Step, ControlOK
    <3> QED
      BY <1>0, <2>1, <2>3, <3>1 DEF CheckedSound, Fail, Move, Resolve, Fstat, host, files
  <2>4. CASE RemoveSource(c)
    BY <1>0, <2>1, <2>4 DEF CheckedSound, RemoveSource
  <2>5. CASE MoveFD(c)
    BY <1>0, <2>1, <2>5 DEF CheckedSound, MoveFD, Step
  <2>6. CASE Confirm(c)
    BY <1>0, <2>1, <2>6 DEF CheckedSound, Confirm, Confirmed, Step, host, files
  <2>7. CASE RollBack(c)
    BY <1>0, <2>1, <2>7 DEF CheckedSound, RollBack, Step
  <2>8. CASE CheckOrigin(c) \/ MoveBack(c) \/ RemoveCopy(c)
    <3>1. op[c].act = "unquarantine" /\ op[c].arg \in Callers
      BY <2>8 DEF CheckOrigin, MoveBack, RemoveCopy, ControlOK, QuarantineDone
    <3>2. k # c
      BY <2>1, <3>1
    <3>3. copies'[k] \in {copies[k], None} /\ data' = data
      BY <2>8, <3>1 DEF CheckOrigin, MoveBack, RemoveCopy, host, files
    <3> QED
      BY <1>0, <2>1, <3>2, <3>3 DEF CheckedSound
  <2> QED
    BY <1>2, <2>2, <2>3, <2>4, <2>5, <2>6, <2>7, <2>8, StepSplit DEF FileStep
<1>3. CASE Recreate
  BY <1>3 DEF Recreate, CheckedSound
<1>4. CASE Forget
  <2>1. copies' = copies /\ pc'[k] = pc[k] /\ op'[k] = op[k] /\ data'[k] = data[k]
    BY <1>0, <1>4 DEF Forget, All, host, files
  <2> QED
    BY <2>1 DEF CheckedSound
<1>5. CASE UNCHANGED execVars
  BY <1>5 DEF execVars, host, files, CheckedSound
<1> QED
  BY <1>1, <1>2, <1>3, <1>4, <1>5 DEF HostNext

(* While nothing went wrong with the file, no content is in two quarantine   *)
(* destinations, and one that is also at the path is about to be removed from*)
(* there by its call, or from the destination by its restore.                *)
FileQuiet == ~raced /\ Quiet("file")

Removing(c) == pc[c] = "removeSource" \/ \E d \in All : pc[d] = "removeCopy" /\ op[d].arg = c

CopiesSound ==
    FileQuiet =>
        \A c \in Callers : copies[c] # None =>
            /\ \A d \in Callers : copies[c] = copies[d] => c = d
            /\ copies[c] = origin => Removing(c)

(* No step leaves a content twice without a call that is removing one of them.*)
LEMMA CopiesNext ==
    ASSUME ExecOK, ExecOK', HostNext, alerted \subseteq alerted', Serial("file"), CopiesSound
    PROVE  CopiesSound'
<1> USE DEF ExecOK, ExecTypeOK
<1> SUFFICES ASSUME FileQuiet' PROVE CopiesSound'
  BY DEF CopiesSound
<1>0. FileQuiet
  BY QuietBefore, RacedStays DEF FileQuiet
<1> DEFINE Working == {"removeSource", "removeCopy"}
<1> USE DEF CopiesSound
<1>a. ASSUME UNCHANGED <<origin, copies>>,
             \A d \in All : pc[d] \in Working => pc'[d] = pc[d] /\ op'[d] = op[d]
      PROVE  CopiesSound'
  <2> SUFFICES ASSUME NEW c \in Callers, copies[c] # None, copies[c] = origin PROVE Removing(c)'
    BY <1>0, <1>a
  <2> QED
    BY <1>0, <1>a DEF Removing, All
<1>1. ASSUME NEW c \in All, NEW r, Requested(c, r) PROVE CopiesSound'
  <2>1. UNCHANGED <<origin, copies>> /\ pc[c] = "idle" /\ \A d \in All \ {c} : pc'[d] = pc[d] /\ op'[d] = op[d]
    BY <1>1 DEF Requested, Execute, Step, host, files
  <2> QED
    BY <1>a, <2>1
<1>2. ASSUME NEW c \in All, ExecStep(c) PROVE CopiesSound'
  <2>1. op' = op /\ Active(c) /\ \A d \in All \ {c} : pc'[d] = pc[d]
    BY <1>2, StepFrame
  <2>2. CASE About(c) # "file"
    <3>1. UNCHANGED <<origin, copies>>
      BY <1>2, <2>2, StepSplit
    <3>2. pc[c] \notin Working
      BY <2>2 DEF About, Object, ControlOK
    <3> QED
      BY <1>a, <2>1, <3>1, <3>2
  <2>3. CASE About(c) = "file"
    <3>1. \A d \in All \ {c} : pc[d] \notin Working
      BY <1>0, <2>1, <2>3 DEF Serial, FileQuiet, Quiet, About, Object, Active, ControlOK
    <3>2. ~Fail(c) /\ ~RollBack(c)
      BY <2>1, <2>3 DEF Fail, RollBack, Step, FileQuiet, Quiet, About
    <3>3. CASE Move(c) \/ MoveFD(c)
      <4>1. /\ pc[c] \in {"move", "moveFD"} /\ c \in Callers /\ origin # None
            /\ copies' = [copies EXCEPT ![c] = origin]
            /\ \/ origin' = origin /\ pc'[c] = "removeSource"
               \/ origin' = None
        BY <3>3 DEF Move, MoveFD, Step, All, ControlOK
      <4>2. \A d \in Callers : copies[d] # origin
        BY <1>0, <3>1, <4>1 DEF Removing, All
      <4>3. \A d \in Callers : copies'[d] # None /\ copies'[d] = origin => d = c
        BY <4>1, <4>2
      <4>4. \A d, e \in Callers : copies'[d] # None /\ copies'[d] = copies'[e] => d = e
        BY <1>0, <4>1, <4>2
      <4>5. \A d \in Callers : copies'[d] # None /\ copies'[d] = origin' => Removing(d)'
        BY <4>1, <4>3 DEF Removing
      <4> QED
        BY <4>4, <4>5
    <3>4. CASE RemoveSource(c)
      BY <1>0, <3>4 DEF RemoveSource
    <3>5. CASE Resolve(c) \/ Fstat(c) \/ Confirm(c) \/ CheckOrigin(c)
      <4>1. UNCHANGED <<origin, copies>> /\ pc[c] \notin Working
        BY <3>5 DEF Resolve, Fstat, Confirm, CheckOrigin, host, files
      <4> QED
        BY <1>a, <2>1, <4>1
    <3>6. CASE MoveBack(c)
      <4> DEFINE q == op[c].arg
      <4>1. /\ q \in Callers /\ copies[q] # None /\ origin' = copies[q]
            /\ \/ copies' = copies /\ pc'[c] = "removeCopy"
               \/ copies' = [copies EXCEPT ![q] = None]
        BY <3>6 DEF MoveBack, Step, ControlOK, QuarantineDone
      <4>2. \A d \in Callers : copies[d] = origin' => d = q
        BY <1>0, <4>1
      <4>3. \A d, e \in Callers : copies'[d] # None /\ copies'[d] = copies'[e] => d = e
        BY <1>0, <4>1
      <4>4. \A d \in Callers : copies'[d] # None /\ copies'[d] = origin' => d = q /\ pc'[c] = "removeCopy"
        BY <4>1, <4>2
      <4>5. \A d \in Callers : copies'[d] # None /\ copies'[d] = origin' => Removing(d)'
        BY <2>1, <4>4 DEF Removing, All
      <4> QED
        BY <4>3, <4>5
    <3>7. CASE RemoveCopy(c)
      <4> DEFINE q == op[c].arg
      <4>1. q \in Callers /\ origin' = origin /\ copies' = [copies EXCEPT ![q] = None] /\ pc[c] = "removeCopy"
        BY <3>7 DEF RemoveCopy, ControlOK, QuarantineDone
      <4>2. \A d, e \in Callers : copies'[d] # None /\ copies'[d] = copies'[e] => d = e
        BY <1>0, <4>1
      <4>3. \A d \in Callers : copies'[d] # None /\ copies'[d] = origin' => Removing(d)'
        <5> SUFFICES ASSUME NEW d \in Callers, copies'[d] # None, copies'[d] = origin' PROVE Removing(d)'
          OBVIOUS
        <5>1. d # q /\ Removing(d)
          BY <1>0, <4>1
        <5> QED
          BY <2>1, <3>1, <4>1, <5>1 DEF Removing, All
      <4> QED
        BY <4>2, <4>3
    <3> QED
      BY <1>2, <2>3, <3>2, <3>3, <3>4, <3>5, <3>6, <3>7, StepSplit DEF FileStep
  <2> QED
    BY <2>2, <2>3
<1>3. CASE Recreate
  BY <1>0, <1>3 DEF Recreate, Removing
<1>4. CASE Forget
  <2>1. UNCHANGED <<origin, copies>> /\ pc[WD] \in {"ok", "failed"} /\ \A d \in All \ {WD} : pc'[d] = pc[d] /\ op'[d] = op[d]
    BY <1>4 DEF Forget, All, host, files
  <2> QED
    BY <1>a, <2>1
<1>5. CASE UNCHANGED execVars
  BY <1>a, <1>5 DEF execVars, host, files
<1> QED
  BY <1>1, <1>2, <1>3, <1>4, <1>5 DEF HostNext

-----------------------------------------------------------------------------
(* The debounce.                                                             *)

(* The streak counts observations that all saw a lockout, the last ones; a   *)
(* rollback runs on MinTicks of them.                                        *)
StreakSound ==
    /\ streak <= Len(seen) /\ Len(seen) <= MinTicks
    /\ \A i \in 1 .. Len(seen) : i > Len(seen) - streak => seen[i]
    /\ walking => streak = MinTicks /\ rollbacks > 0

(* A tick shifts the observations along with the streak.                     *)
LEMMA StreakNext ==
    ASSUME Inv, [Next]_vars, StreakSound
    PROVE  StreakSound'
<1> USE DEF Inv, TypeOK
<1>1. ASSUME NEW d \in 0 .. MinDuration, Tick(d) PROVE StreakSound'
  <2> DEFINE s == Append(seen, lockedOut)
  <2>1. /\ s \in Seq(BOOLEAN) /\ Len(s) = Len(seen) + 1 /\ s[Len(seen) + 1] = lockedOut
        /\ \A i \in 1 .. Len(seen) : s[i] = seen[i]
    OBVIOUS
  <2>2. /\ Tail(s) \in Seq(BOOLEAN) /\ Len(Tail(s)) = Len(seen) /\ \A i \in 1 .. Len(seen) : Tail(s)[i] = s[i + 1]
    BY <2>1
  <2>3. /\ ~walking /\ rollbacks' \in {rollbacks, rollbacks + 1}
        /\ walking' => lockedOut /\ streak' >= MinTicks /\ rollbacks' = rollbacks + 1
        /\ streak' = IF lockedOut THEN AtMost(streak + 1, MinTicks) ELSE 0
        /\ seen' = IF Len(s) > MinTicks THEN Tail(s) ELSE s
    BY <1>1 DEF Tick, Observe, Sustained, StreakAfterRecovery
  <2>4. CASE lockedOut
    <3>1. streak' = IF streak + 1 > MinTicks THEN MinTicks ELSE streak + 1
      BY <2>3, <2>4 DEF AtMost
    <3>2. CASE Len(s) > MinTicks
      <4>1. seen' = Tail(s) /\ Len(seen') = MinTicks /\ Len(seen) = MinTicks
        BY <2>1, <2>2, <2>3, <3>2 DEF StreakSound
      <4>3. streak' \in Nat /\ streak' <= MinTicks
        BY <3>1
      <4>2. \A i \in 1 .. MinTicks : i > MinTicks - streak' => seen'[i]
        BY <2>1, <2>2, <2>4, <3>1, <4>1 DEF StreakSound
      <4> QED
        BY <2>3, <4>1, <4>2, <4>3 DEF StreakSound
    <3>3. CASE Len(s) <= MinTicks
      <4>1. seen' = s /\ Len(seen') = Len(seen) + 1 /\ streak' = streak + 1
        BY <2>1, <2>3, <3>1, <3>3 DEF StreakSound
      <4>2. \A i \in 1 .. Len(seen') : i > Len(seen') - streak' => seen'[i]
        BY <2>1, <2>4, <4>1 DEF StreakSound
      <4> QED
        BY <2>1, <2>3, <3>3, <4>1, <4>2 DEF StreakSound
    <3> QED
      BY <2>1, <3>2, <3>3
  <2>5. CASE ~lockedOut
    <3>1. streak' = 0 /\ ~walking' /\ Len(seen') <= MinTicks /\ Len(seen') \in Nat
      BY <2>1, <2>2, <2>3, <2>5 DEF StreakSound
    <3> QED
      BY <3>1 DEF StreakSound
  <2> QED
    BY <2>4, <2>5
<1>2. CASE Finish
  BY <1>2 DEF Finish, StreakSound
<1>3. ASSUME UNCHANGED <<streak, seen, walking, rollbacks>> PROVE StreakSound'
  BY <1>3 DEF StreakSound
<1>4. ASSUME NEW c \in Callers, Request(c) \/ Run(c) PROVE StreakSound'
  BY <1>3, <1>4 DEF Request, Run
<1>5. CASE (Recreate /\ UNCHANGED wdVars) \/ Probe \/ Undo \/ UndoIrreversible \/ RunUndo \/ Verify \/ UNCHANGED vars
  BY <1>3, <1>5 DEF Probe, Undo, UndoIrreversible, RunUndo, Verify, wdVars, vars
<1> QED
  BY <1>1, <1>2, <1>4, <1>5 DEF Next

-----------------------------------------------------------------------------
(* The containment.                                                          *)

Safe ==
    /\ Serial("keys") /\ Serial("file")
    /\ TableSound /\ RuleSound
    /\ KeysSound /\ RevokedSound
    /\ CheckedSound /\ CopiesSound
    /\ StreakSound

(* The strengthening holds initially.                                        *)
LEMMA SafeInit == Init => Safe
<1> SUFFICES ASSUME Init PROVE Safe
  OBVIOUS
<1> USE DEF Init, ExecInit
<1>1. Serial("keys") /\ Serial("file")
  BY DEF Serial, Active
<1>2. TableSound /\ RuleSound
  BY DEF TableSound, RuleSound
<1>3. KeysSound /\ RevokedSound
  BY DEF KeysSound, RevokedSound
<1>4. CheckedSound /\ CopiesSound
  BY DEF CheckedSound, CopiesSound
<1>5. StreakSound
  BY DEF StreakSound
<1> QED
  BY <1>1, <1>2, <1>3, <1>4, <1>5 DEF Safe

(* Every step keeps the strengthening.                                       *)
LEMMA SafeNext == Inv /\ Safe /\ [Next]_vars => Safe'
<1> SUFFICES ASSUME Inv, Safe, [Next]_vars PROVE Safe'
  OBVIOUS
<1>1. HostNext /\ alerted \subseteq alerted' /\ ExecOK /\ ExecOK'
  BY NextIsHostNext
<1>2. Serial("keys")' /\ Serial("file")'
  BY <1>1, SerialNext DEF Safe
<1>3. TableSound' /\ RuleSound'
  BY <1>1, TableNext, RuleNext DEF Safe
<1>4. KeysSound'
  BY <1>1, KeysNext DEF Safe
<1>5. rollbacks \in Nat /\ rollbacks' \in {rollbacks, rollbacks + 1}
  BY DEF Inv, TypeOK, Next, Request, Run, Probe, Tick, Undo, UndoIrreversible, RunUndo, Verify, Finish, wdVars, vars
<1>6. rollbacks = 0 => op[WD] = NoOp
  BY DEF Safe, StreakSound, Inv, JournalOK, WalkSound
<1>7. RevokedSound'
  BY <1>1, <1>5, <1>6, RevokedNext DEF Safe
<1>8. CheckedSound' /\ CopiesSound'
  BY <1>1, CheckedNext, CopiesNext DEF Safe
<1>9. StreakSound'
  BY StreakNext DEF Safe
<1> QED
  BY <1>2, <1>3, <1>4, <1>7, <1>8, <1>9 DEF Safe

(* The strengthened invariant gives each part of the containment's safety.   *)
LEMMA SafeContains == Inv /\ Safe => ContainmentIsSafe
<1> SUFFICES ASSUME Inv, Safe PROVE ContainmentIsSafe
  OBVIOUS
<1> USE DEF Inv, TypeOK, ExecTypeOK
<1>0. DOMAIN pc = All /\ Callers \subseteq All
  BY DEF All
<1>1. HalfDoneIsReported
  <2> DEFINE unfinished(act) == \E c \in All : op[c].act = act /\ pc[c] # "ok"
  <2>1. table = "dropping" /\ accept # Ifaces => unfinished("isolate")
    BY DEF Safe, TableSound
  <2>2. rule = "torn" => unfinished("block-hash")
    BY DEF Safe, RuleSound
  <2>3. ASSUME NEW c \in Callers, copies[c] # None, copies[c] = origin
        PROVE  \/ raced \/ "file" \in overlap
               \/ unfinished("quarantine") \/ unfinished("quarantine-fd")
               \/ unfinished("unquarantine")
               \/ alerted # {}
    <3>1. CASE FileQuiet
      <4>1. Removing(c)
        BY <2>3, <3>1 DEF Safe, CopiesSound
      <4>2. CASE pc[c] = "removeSource"
        BY <1>0, <4>2 DEF ControlOK
      <4>3. CASE \E d \in All : pc[d] = "removeCopy" /\ op[d].arg = c
        BY <4>3 DEF ControlOK
      <4> QED
        BY <4>1, <4>2, <4>3 DEF Removing
    <3>2. CASE \E d \in All : About(d) = "file" /\ pc[d] = "failed"
      <4>1. PICK d \in All : About(d) = "file" /\ pc[d] = "failed"
        BY <3>2
      <4>2. op[d].act \in {"quarantine", "quarantine-fd", "unquarantine"}
        BY <4>1 DEF About, Object
      <4> QED
        BY <4>1, <4>2
    <3> QED
      BY <3>1, <3>2 DEF FileQuiet, Quiet
  <2> QED
    BY <2>1, <2>2, <2>3 DEF HalfDoneIsReported
<1>2. NoRollbackOnBlip
  <2> SUFFICES ASSUME walking PROVE Len(seen) = MinTicks /\ \A i \in DOMAIN seen : seen[i]
    BY DEF NoRollbackOnBlip
  <2>1. streak = MinTicks /\ Len(seen) = MinTicks /\ \A i \in 1 .. Len(seen) : i > Len(seen) - streak => seen[i]
    BY DEF Safe, StreakSound
  <2>2. \A i \in 1 .. Len(seen) : i > Len(seen) - streak
    BY <2>1
  <2> QED
    BY <2>1, <2>2
<1>3. KeysNeverEmptied \/ alerted # {}
  <2> SUFFICES ASSUME keys = {}, "keys" \notin overlap, alerted = {}
               PROVE  \E c \in All : /\ op[c].act \in {"revoke-key", "restore-key"}
                                     /\ pc[c] \in {"writeKeys", "rewrite", "failed"}
    BY <1>0 DEF KeysNeverEmptied
  <2>1. CASE Quiet("keys")
    BY <2>1 DEF Safe, KeysSound, ControlOK
  <2>2. CASE \E d \in All : About(d) = "keys" /\ pc[d] = "failed"
    BY <2>2 DEF About, Object
  <2> QED
    BY <2>1, <2>2 DEF Quiet
<1>4. ActsOnChecked
  BY DEF ActsOnChecked, Safe, CheckedSound
<1>5. RevokeSticks \/ "keys" \in overlap \/ rollbacks > 0
  BY <1>0 DEF RevokeSticks, Safe, RevokedSound, NeverRestored
<1> QED
  BY <1>1, <1>2, <1>3, <1>4, <1>5 DEF ContainmentIsSafe

(* The containment never leaves a half-done action, an emptied key file, a   *)
(* lifted isolation or a wrong file behind without saying so.                *)
THEOREM ContainmentSafe == Spec => []ContainmentIsSafe
<1>1. Init => Inv /\ Safe
  BY InvInit, SafeInit
<1>2. Inv /\ Safe /\ [Next]_vars => (Inv /\ Safe)'
  BY InvNext, SafeNext
<1> QED
  BY <1>1, <1>2, SafeContains, PTL DEF Spec

-----------------------------------------------------------------------------
(* No content is lost.                                                       *)

(* The calls that are about to remove or replace a file; those that have not *)
(* moved one yet.                                                            *)
Removers == {"removeSource", "confirm", "rollBack", "moveBack", "removeCopy"}
Unmoved == {"idle", "move", "resolve", "fstat", "moveFD"}

Leaving == {op[c].arg : c \in {d \in All : pc[d] = "removeCopy"}}

(* While no file appeared at the path under a call about to act on it: a     *)
(* destination is empty until its call moves; what a call is about to remove *)
(* from the path it also holds, and a call about to put a file there finds   *)
(* it vacant; what is leaving the quarantine is at the path, or elsewhere.   *)
HeldSound ==
    ~raced =>
        /\ \A c \in Callers : pc[c] \in Unmoved => copies[c] = None
        /\ \A c \in Callers : pc[c] = "removeSource" => origin \in {None, copies[c]}
        /\ \A c \in All : pc[c] \in {"confirm", "rollBack", "moveBack"} => origin = None
        /\ \A q \in Leaving : \/ copies[q] \in {None, origin}
                              \/ \E d \in Callers \ Leaving : copies[d] = copies[q]

(* A call that goes elsewhere than to a removal keeps it.                    *)
LEMMA HeldFrame ==
    ASSUME ExecOK, ExecOK', HeldSound, ~raced, UNCHANGED <<origin, copies>>, NEW c \in All,
           \A d \in All \ {c} : pc'[d] = pc[d] /\ op'[d] = op[d],
           pc'[c] \in Removers =>
               \/ pc'[c] = pc[c] /\ op'[c] = op[c]
               \/ pc'[c] \in {"rollBack", "moveBack"} /\ origin = None,
           pc'[c] \in Unmoved => pc[c] \in Unmoved \/ c = WD
    PROVE  HeldSound'
<1> USE DEF ExecOK, ExecTypeOK, HeldSound, Removers, Unmoved
<1>1. Leaving' \subseteq Leaving
  BY DEF Leaving
<1>2. (\A d \in Callers : pc[d] \in Unmoved => copies[d] = None)'
  BY DEF All
<1>3. (\A d \in Callers : pc[d] = "removeSource" => origin \in {None, copies[d]})'
  BY DEF All
<1>4. (\A d \in All : pc[d] \in {"confirm", "rollBack", "moveBack"} => origin = None)'
  OBVIOUS
<1>5. (\A q \in Leaving : \/ copies[q] \in {None, origin}
                          \/ \E d \in Callers \ Leaving : copies[d] = copies[q])'
  BY <1>1
<1> QED
  BY <1>2, <1>3, <1>4, <1>5

Kept == \A v \in {"old", "new"} : Held(v) => Held(v)'

(* Every step that raises no race keeps every content somewhere.             *)
LEMMA HeldNext ==
    ASSUME ExecOK, ExecOK', HostNext, HeldSound, ~raced'
    PROVE  HeldSound' /\ Kept
<1> USE DEF ExecOK, ExecTypeOK
<1>0. ~raced
  BY RacedStays
<1>a. ASSUME UNCHANGED <<origin, copies>> PROVE Kept
  BY <1>a DEF Kept, Held
<1>b. \A q \in Leaving : q \in Callers /\ pc[q] = "ok"
  BY DEF Leaving, ControlOK, QuarantineDone
<1>c. ~crossFs => Leaving = {}
  BY DEF Leaving, ControlOK
<1>1. ASSUME NEW c \in All, NEW r, Requested(c, r) PROVE HeldSound' /\ Kept
  <2>1. UNCHANGED <<origin, copies>> /\ pc[c] = "idle" /\ \A d \in All \ {c} : pc'[d] = pc[d] /\ op'[d] = op[d]
    BY <1>1 DEF Requested, Execute, Step, host, files
  <2>2. pc'[c] \notin Removers
    BY <1>1 DEF Requested, Execute, Step, First, Admissible, Forward, Revoke, Isolate, Quarantine, QuarantineFD,
       BlockHash, Kill, RestoreKey, DeIsolate, Unquarantine, Removers
  <2>3. pc[c] \in Unmoved
    BY <2>1 DEF Unmoved
  <2>4. HeldSound'
    BY <1>0, <2>1, <2>2, <2>3, HeldFrame
  <2> QED
    BY <1>a, <2>1, <2>4
<1>2. ASSUME NEW c \in All, ExecStep(c) PROVE HeldSound' /\ Kept
  <2>1. op' = op /\ crossFs' = crossFs /\ Active(c) /\ pc'[c] # "idle" /\ \A d \in All \ {c} : pc'[d] = pc[d]
    BY <1>2, StepFrame
  <2>2. ASSUME UNCHANGED <<origin, copies>>,
               pc'[c] \in Removers =>
                   \/ pc'[c] = pc[c]
                   \/ pc'[c] \in {"rollBack", "moveBack"} /\ origin = None,
               pc'[c] \in Unmoved => pc[c] \in Unmoved
        PROVE  HeldSound' /\ Kept
    <3>1. HeldSound'
      BY <1>0, <2>1, <2>2, HeldFrame
    <3> QED
      BY <1>a, <2>2, <3>1
  <2>3. CASE About(c) # "file"
    <3>1. UNCHANGED <<origin, copies>>
      BY <1>2, <2>3, StepSplit
    <3>2. pc'[c] \notin Removers /\ pc'[c] \notin Unmoved
      BY <2>1, <2>3 DEF About, Object, ControlOK, Removers, Unmoved
    <3> QED
      BY <2>2, <3>1, <3>2
  <2>4. CASE Fail(c) \/ Resolve(c) \/ Fstat(c)
    BY <2>2, <2>4 DEF Fail, Resolve, Fstat, Step, host, files, Removers, Unmoved
  <2>5. CASE Confirm(c)
    <3>1. origin = None
      BY <1>0, <2>5 DEF Confirm, HeldSound
    <3>2. UNCHANGED <<origin, copies>> /\ pc'[c] \in {"rollBack", "ok"}
      BY <2>5 DEF Confirm, Step, host, files
    <3> QED
      BY <2>2, <3>1, <3>2 DEF Removers, Unmoved
  <2>6. CASE CheckOrigin(c)
    <3>1. UNCHANGED <<origin, copies>> /\ (pc'[c] = "ok" \/ (pc'[c] = "moveBack" /\ origin = None))
      BY <2>6 DEF CheckOrigin, MayRestore, Step, host, files
    <3> QED
      BY <2>2, <3>1 DEF Removers, Unmoved
  <2>7. CASE Move(c) \/ MoveFD(c)
    <3>1. /\ pc[c] \in {"move", "moveFD"} /\ c \in Callers
          /\ copies[c] = None /\ origin # None /\ copies' = [copies EXCEPT ![c] = origin]
          /\ \/ crossFs /\ origin' = origin /\ pc'[c] = "removeSource"
             \/ ~crossFs /\ origin' = None /\ pc'[c] \in {"ok", "confirm"}
      BY <1>0, <2>7 DEF Move, MoveFD, Step, All, ControlOK, HeldSound, Unmoved
    <3>2. Kept
      BY <3>1 DEF Kept, Held
    <3>3. (\A d \in Callers : pc[d] \in Unmoved => copies[d] = None)'
      BY <1>0, <2>1, <3>1 DEF HeldSound, All, Unmoved
    <3>4. (\A d \in Callers : pc[d] = "removeSource" => origin \in {None, copies[d]})'
      BY <1>0, <2>1, <3>1 DEF HeldSound, All
    <3>5. (\A d \in All : pc[d] \in {"confirm", "rollBack", "moveBack"} => origin = None)'
      BY <1>0, <2>1, <3>1 DEF HeldSound
    <3>6. Leaving' = Leaving
      BY <2>1, <3>1 DEF Leaving
    <3>7. (\A q \in Leaving : \/ copies[q] \in {None, origin}
                              \/ \E d \in Callers \ Leaving : copies[d] = copies[q])'
      <4> SUFFICES ASSUME NEW q \in Leaving, copies'[q] \notin {None, origin'}
                   PROVE  \E d \in Callers \ Leaving : copies'[d] = copies'[q]
        BY <3>6
      <4>1. q # c /\ copies'[q] = copies[q] /\ q \in Callers /\ crossFs /\ origin' = origin
        BY <1>b, <1>c, <3>1
      <4>2. PICK d \in Callers \ Leaving : copies[d] = copies[q]
        BY <1>0, <4>1 DEF HeldSound
      <4> QED
        BY <3>1, <4>1, <4>2
    <3> QED
      BY <3>2, <3>3, <3>4, <3>5, <3>7 DEF HeldSound
  <2>8. CASE RemoveSource(c)
    <3>1. /\ pc[c] = "removeSource" /\ c \in Callers /\ origin = copies[c] /\ origin # None
          /\ origin' = None /\ copies' = copies /\ pc'[c] = "ok"
      BY <1>0, <2>8 DEF RemoveSource, Step, All, ControlOK, HeldSound
    <3>2. Kept
      BY <3>1 DEF Kept, Held
    <3>3. (\A d \in Callers : pc[d] \in Unmoved => copies[d] = None)'
      BY <1>0, <2>1, <3>1 DEF HeldSound, All, Unmoved
    <3>4. Leaving' = Leaving /\ c \notin Leaving
      BY <1>b, <2>1, <3>1 DEF Leaving
    <3>5. (\A q \in Leaving : \/ copies[q] \in {None, origin}
                              \/ \E d \in Callers \ Leaving : copies[d] = copies[q])'
      BY <1>0, <3>1, <3>4 DEF HeldSound
    <3> QED
      BY <3>1, <3>2, <3>3, <3>5 DEF HeldSound
  <2>9. CASE RollBack(c)
    <3>1. /\ pc[c] = "rollBack" /\ c \in Callers /\ ~crossFs /\ origin = None
          /\ origin' = copies[c] /\ copies' = [copies EXCEPT ![c] = None] /\ pc'[c] = "failed"
      BY <1>0, <2>9 DEF RollBack, Step, All, ControlOK, HeldSound
    <3>2. \A d \in All \ {c} : pc[d] \notin {"moveBack", "removeSource", "confirm", "rollBack"}
      BY <2>9 DEF RollBack, Racing
    <3>3. Kept
      BY <3>1 DEF Kept, Held
    <3>4. (\A d \in Callers : pc[d] \in Unmoved => copies[d] = None)'
      BY <1>0, <2>1, <3>1 DEF HeldSound, All, Unmoved
    <3>5. Leaving' = {}
      BY <1>c, <2>1, <3>1 DEF Leaving
    <3>6. \A d \in All : pc'[d] \notin {"moveBack", "removeSource", "confirm", "rollBack"}
      BY <2>1, <3>1, <3>2
    <3> QED
      BY <3>3, <3>4, <3>5, <3>6 DEF HeldSound, All
  <2>10. CASE MoveBack(c)
    <3> DEFINE p == op[c].arg
    <3>1. /\ pc[c] = "moveBack" /\ p \in Callers /\ pc[p] = "ok" /\ origin = None
          /\ copies[p] # None /\ origin' = copies[p]
          /\ \/ crossFs /\ pc'[c] = "removeCopy" /\ copies' = copies
             \/ ~crossFs /\ pc'[c] = "ok" /\ copies' = [copies EXCEPT ![p] = None]
      BY <1>0, <2>10 DEF MoveBack, Step, ControlOK, QuarantineDone, HeldSound
    <3>2. \A d \in All \ {c} : pc[d] \notin {"moveBack", "removeSource", "confirm", "rollBack"}
      BY <2>10 DEF MoveBack, Racing
    <3>3. Kept
      BY <3>1 DEF Kept, Held
    <3>4. (\A d \in Callers : pc[d] \in Unmoved => copies[d] = None)'
      BY <1>0, <2>1, <3>1 DEF HeldSound, All, Unmoved
    <3>5. \A d \in All : pc'[d] \notin {"moveBack", "removeSource", "confirm", "rollBack"}
      BY <2>1, <3>1, <3>2
    <3>6. CASE ~crossFs
      <4>1. Leaving' = {}
        BY <2>1, <3>6 DEF Leaving, ControlOK
      <4> QED
        BY <3>3, <3>4, <3>5, <4>1 DEF HeldSound, All
    <3>7. CASE crossFs
      <4>1. Leaving' = Leaving \cup {p}
        BY <2>1, <3>1, <3>7 DEF Leaving
      <4>2. (\A q \in Leaving : \/ copies[q] \in {None, origin}
                                \/ \E d \in Callers \ Leaving : copies[d] = copies[q])'
        BY <1>0, <3>1, <3>7, <4>1 DEF HeldSound
      <4> QED
        BY <3>3, <3>4, <3>5, <4>2 DEF HeldSound, All
    <3> QED
      BY <3>6, <3>7
  <2>11. CASE RemoveCopy(c)
    <3> DEFINE p == op[c].arg
    <3>1. /\ pc[c] = "removeCopy" /\ p \in Callers /\ p \in Leaving
          /\ origin' = origin /\ copies' = [copies EXCEPT ![p] = None] /\ pc'[c] = "ok"
      BY <2>11 DEF RemoveCopy, Step, ControlOK, QuarantineDone, Leaving
    <3>2. Leaving' \subseteq Leaving
      BY <2>1, <3>1 DEF Leaving
    <3>3. copies[p] = None \/ copies[p] = origin \/ \E d \in Callers \ {p} : copies[d] = copies[p]
      BY <1>0, <3>1 DEF HeldSound
    <3>4. Kept
      BY <3>1, <3>3 DEF Kept, Held
    <3>5. (\A d \in Callers : pc[d] \in Unmoved => copies[d] = None)'
      BY <1>0, <2>1, <3>1 DEF HeldSound, All, Unmoved
    <3>6. (\A d \in Callers : pc[d] = "removeSource" => origin \in {None, copies[d]})'
      BY <1>0, <1>b, <2>1, <3>1 DEF HeldSound, All
    <3>7. (\A d \in All : pc[d] \in {"confirm", "rollBack", "moveBack"} => origin = None)'
      BY <1>0, <2>1, <3>1 DEF HeldSound
    <3>8. (\A q \in Leaving : \/ copies[q] \in {None, origin}
                              \/ \E d \in Callers \ Leaving : copies[d] = copies[q])'
      BY <1>0, <3>1, <3>2 DEF HeldSound
    <3> QED
      BY <3>4, <3>5, <3>6, <3>7, <3>8 DEF HeldSound
  <2> QED
    BY <1>2, <2>3, <2>4, <2>5, <2>6, <2>7, <2>8, <2>9, <2>10, <2>11, StepSplit DEF FileStep
<1>3. CASE Recreate
  <2>1. /\ origin = None /\ origin' = "new" /\ UNCHANGED <<copies, op, pc>>
        /\ \A d \in All : pc[d] \notin {"moveBack", "removeSource", "confirm", "rollBack"}
    BY <1>3 DEF Recreate, Racing, All
  <2>2. Kept
    BY <2>1 DEF Kept, Held
  <2>3. Leaving' = Leaving
    BY <2>1 DEF Leaving
  <2> QED
    BY <1>0, <2>1, <2>2, <2>3 DEF HeldSound, All
<1>4. CASE Forget
  <2>1. UNCHANGED <<origin, copies>> /\ pc'[WD] = "idle" /\ WD \in All
        /\ \A d \in All \ {WD} : pc'[d] = pc[d] /\ op'[d] = op[d]
    BY <1>4 DEF Forget, All, host, files
  <2>2. HeldSound'
    BY <1>0, <2>1, HeldFrame DEF Removers
  <2> QED
    BY <1>a, <2>1, <2>2
<1>5. CASE UNCHANGED execVars
  <2>1. UNCHANGED <<origin, copies, op, pc>>
    BY <1>5 DEF execVars, host, files
  <2>2. HeldSound'
    BY <1>0, <2>1, HeldFrame DEF Removers, All
  <2> QED
    BY <1>a, <2>1, <2>2
<1> QED
  BY <1>1, <1>2, <1>3, <1>4, <1>5 DEF HostNext

(* No content is lost by moves, copies, failures half-way and restores,      *)
(* unless a file appeared at the path between a check and what it allowed.   *)
THEOREM DataKept == Spec => NothingLost
<1>1. Init => Inv /\ HeldSound
  BY InvInit DEF Init, ExecInit, HeldSound, Leaving, All
<1>2. Inv /\ HeldSound /\ [Next]_vars => (Inv /\ HeldSound)'
  BY InvNext, NextIsHostNext, HeldNext DEF HeldSound
<1>3. Inv /\ HeldSound /\ [Next]_vars => [\A v \in {"old", "new"} : Held(v) => Held(v)' \/ raced']_execVars
  BY NextIsHostNext, HeldNext DEF Kept
<1> QED
  BY <1>1, <1>2, <1>3, PTL DEF Spec, NothingLost

-----------------------------------------------------------------------------
(* A rollback is real.                                                       *)

(* No two requests revoke a key, and so write the backup.                    *)
Single == \A c, d \in Callers : op[c].act = "revoke-key" /\ op[d].act = "revoke-key" => c = d

(* The backup holds the key that the only revocation removes.                *)
BackupSound ==
    Single =>
        \A c \in Callers : op[c].act = "revoke-key" =>
            /\ pc[c] = "edit" => backup = data[c]
            /\ pc[c] = "writeKeys" => op[c].arg \in backup
            /\ pc[c] = "ok" => op[c].arg \in backup

(* While the rollback runs undisturbed, what it has walked over and not      *)
(* alerted is reversed, and what its call has restored reverses the current  *)
(* record.                                                                   *)
Undisturbed == walking /\ ~disturbed

Walked ==
    Undisturbed =>
        /\ \A c \in Callers : ~Active(c)
        /\ Len(walk) <= Len(journal)
        /\ \A i \in 1 .. Len(walk) : walk[i] = journal[i]

UndoSound ==
    Undisturbed /\ Single =>
        /\ critical = {} => \A i \in Len(walk) + 1 .. Len(journal) : Reversed(journal[i])
        /\ pc[WD] = "ok" => Reversed(Current)
        /\ pc[WD] \in {"openKeys", "rewrite"} => op[Current].act = "revoke-key" /\ op[Current].arg \in data[WD]

(* A second revocation, once requested, stays requested.                     *)
LEMMA SingleBefore ==
    ASSUME ExecOK, HostNext, Single'
    PROVE  Single
<1> USE DEF ExecOK, ExecTypeOK, Single
<1>1. ASSUME NEW c \in All, NEW r, Requested(c, r) PROVE Single
  <2>1. op[c].act # "revoke-key" /\ \A d \in All \ {c} : op'[d] = op[d]
    BY <1>1 DEF Requested, Execute, ControlOK
  <2> QED
    BY <2>1 DEF All
<1>2. ASSUME NEW c \in All, ExecStep(c) PROVE Single
  BY <1>2, StepFrame
<1>3. CASE Recreate \/ UNCHANGED execVars
  BY <1>3 DEF Recreate, execVars
<1>4. CASE Forget
  BY <1>4 DEF Forget, All
<1> QED
  BY <1>1, <1>2, <1>3, <1>4 DEF HostNext

(* The only revocation leaves its key in the backup.                         *)
LEMMA BackupNext ==
    ASSUME ExecOK, ExecOK', HostNext, BackupSound
    PROVE  BackupSound'
<1> USE DEF ExecOK, ExecTypeOK
<1> SUFFICES ASSUME Single', NEW k \in Callers, op'[k].act = "revoke-key"
             PROVE  /\ pc'[k] = "edit" => backup' = data'[k]
                    /\ pc'[k] = "writeKeys" => op'[k].arg \in backup'
                    /\ pc'[k] = "ok" => op'[k].arg \in backup'
  BY DEF BackupSound
<1>0. Single /\ k \in All /\ k # WD
  BY SingleBefore DEF All
<1> DEFINE Goal == /\ pc'[k] = "edit" => backup' = data'[k]
                   /\ pc'[k] = "writeKeys" => op'[k].arg \in backup'
                   /\ pc'[k] = "ok" => op'[k].arg \in backup'
<1>a. ASSUME UNCHANGED backup, pc'[k] = pc[k], op'[k] = op[k], data'[k] = data[k] PROVE Goal
  BY <1>0, <1>a DEF BackupSound
<1>1. ASSUME NEW c \in All, NEW r, Requested(c, r) PROVE Goal
  <2>1. UNCHANGED <<backup, data>> /\ \A d \in All \ {c} : pc'[d] = pc[d] /\ op'[d] = op[d]
    BY <1>1 DEF Requested, Execute, Step, host
  <2>2. pc'[c] \notin {"edit", "writeKeys", "ok"}
    BY <1>1 DEF Requested, Execute, Step, First, Admissible, Forward, Revoke, Isolate, Quarantine, QuarantineFD,
       BlockHash, Kill, RestoreKey, DeIsolate, Unquarantine
  <2> QED
    BY <1>0, <1>a, <2>1, <2>2
<1>2. ASSUME NEW c \in All, ExecStep(c) PROVE Goal
  <2>1. op' = op /\ \A d \in All \ {c} : pc'[d] = pc[d] /\ data'[d] = data[d]
    BY <1>2, StepFrame
  <2>2. CASE About(c) # "keys"
    <3>1. backup' = backup /\ k # c
      BY <1>2, <2>1, <2>2, StepSplit DEF About, Object
    <3> QED
      BY <1>0, <1>a, <2>1, <3>1
  <2>3. CASE WriteBackup(c)
    <3>1. k = c
      BY <1>0, <2>1, <2>3 DEF WriteBackup, ControlOK, Single, All
    <3> QED
      BY <2>3, <3>1 DEF WriteBackup, Step
  <2>4. CASE EditKeys(c)
    <3>1. backup' = backup
      BY <2>4 DEF EditKeys
    <3>2. CASE k # c
      BY <1>0, <1>a, <2>1, <3>1, <3>2
    <3>3. CASE k = c
      BY <1>0, <2>1, <2>4, <3>1, <3>3 DEF EditKeys, MayRemove, Return, Step, BackupSound
    <3> QED
      BY <3>2, <3>3
  <2>5. CASE Fail(c) \/ ReadKeys(c) \/ ReadBackup(c) \/ RewriteKeys(c)
    <3>1. backup' = backup
      BY <2>5 DEF Fail, ReadKeys, ReadBackup, RewriteKeys, host
    <3>2. CASE k # c
      BY <1>0, <1>a, <2>1, <3>1, <3>2
    <3>3. CASE k = c
      BY <2>1, <2>5, <3>3 DEF Fail, ReadKeys, ReadBackup, RewriteKeys, Step, ControlOK
    <3> QED
      BY <3>2, <3>3
  <2> QED
    BY <1>2, <2>2, <2>3, <2>4, <2>5, StepSplit DEF KeysStep
<1>3. CASE Recreate
  BY <1>a, <1>3 DEF Recreate
<1>4. CASE Forget
  <2>1. backup' = backup /\ pc'[k] = pc[k] /\ op'[k] = op[k] /\ data'[k] = data[k]
    BY <1>0, <1>4 DEF Forget, host
  <2> QED
    BY <1>a, <2>1
<1>5. CASE UNCHANGED execVars
  BY <1>a, <1>5 DEF execVars, host
<1> QED
  BY <1>1, <1>2, <1>3, <1>4, <1>5 DEF HostNext

(* Walking over a record takes it off the end.                               *)
LEMMA FrontOfSeq ==
    ASSUME NEW S, NEW s \in Seq(S), s # <<>>
    PROVE  LET f == SubSeq(s, 1, Len(s) - 1)
           IN  Len(f) = Len(s) - 1 /\ \A i \in 1 .. Len(s) - 1 : f[i] = s[i]
<1> DEFINE n == Len(s) - 1
<1>1. n \in Nat /\ n \in Int /\ 1 \in Int /\ \A i \in 1 .. n : s[i] \in S
  OBVIOUS
<1> HIDE DEF n
<1>2. /\ Len(SubSeq(s, 1, n)) = IF 1 <= n THEN n - 1 + 1 ELSE 0
      /\ \A i \in 1 .. n - 1 + 1 : SubSeq(s, 1, n)[i] = s[1 + i - 1]
  BY <1>1, SubSeqProperties
<1>3. Len(SubSeq(s, 1, n)) = n /\ \A i \in 1 .. n : SubSeq(s, 1, n)[i] = s[i]
  BY <1>1, <1>2
<1> QED
  BY <1>3 DEF n

(* An undisturbed rollback walks the journal from its end.                   *)
LEMMA WalkedNext ==
    ASSUME Inv, Walked, [Next]_vars
    PROVE  Walked'
<1> USE DEF Inv, TypeOK, Walked, Undisturbed
<1>1. ASSUME NEW c \in Callers, Request(c) \/ Run(c) PROVE Walked'
  BY <1>1 DEF Request, Run
<1>2. ASSUME NEW d \in 0 .. MinDuration, Tick(d) PROVE Walked'
  <2>1. walking' /\ ~disturbed' => walk' = journal' /\ ~\E c \in Callers : Active(c)
    BY <1>2 DEF Tick
  <2>2. pc' = pc
    BY <1>2 DEF Tick, execVars
  <2> QED
    BY <1>2, <2>1, <2>2 DEF Active, Tick
<1>3. CASE UndoIrreversible
  <2>1. pc' = pc /\ UNCHANGED <<journal, walking, disturbed>> /\ walk # <<>> /\ walk' = SubSeq(walk, 1, Len(walk) - 1)
    BY <1>3 DEF UndoIrreversible, Undone, execVars
  <2>2. Len(walk') = Len(walk) - 1 /\ \A i \in 1 .. Len(walk) - 1 : walk'[i] = walk[i]
    BY <2>1, FrontOfSeq
  <2>3. Walked => Len(walk') <= Len(walk) /\ 1 .. Len(walk') \subseteq 1 .. Len(walk)
    BY <2>2
  <2> QED
    BY <2>1, <2>2, <2>3 DEF Active
<1>4. CASE Verify
  <2>1. /\ UNCHANGED <<journal, walking, disturbed>> /\ walk # <<>> /\ walk' = SubSeq(walk, 1, Len(walk) - 1)
        /\ \A c \in Callers : pc'[c] = pc[c]
    BY <1>4 DEF Verify, Undone, JournalOK, WalkSound, ExecTypeOK, All
  <2>2. Len(walk') = Len(walk) - 1 /\ \A i \in 1 .. Len(walk) - 1 : walk'[i] = walk[i]
    BY <2>1, FrontOfSeq
  <2>3. Walked => Len(walk') <= Len(walk) /\ 1 .. Len(walk') \subseteq 1 .. Len(walk)
    BY <2>2
  <2> QED
    BY <2>1, <2>2, <2>3 DEF Active
<1>5. CASE Undo \/ RunUndo
  <2>1. UNCHANGED wdVars /\ \A c \in Callers : pc'[c] = pc[c]
    <3>1. CASE Undo
      BY <3>1 DEF Undo, Execute, Step, ExecTypeOK, All
    <3>2. CASE RunUndo
      BY <3>2, StepFrame DEF RunUndo, ExecOK, All
    <3> QED
      BY <1>5, <3>1, <3>2
  <2> QED
    BY <2>1 DEF wdVars, Active
<1>6. CASE (Recreate /\ UNCHANGED wdVars) \/ Probe \/ Finish \/ UNCHANGED vars
  <2>1. pc' = pc /\ UNCHANGED <<journal, walk, disturbed>> /\ (walking' => walking)
    BY <1>6 DEF Recreate, Probe, Finish, wdVars, vars, execVars
  <2> QED
    BY <2>1 DEF Active
<1> QED
  BY <1>1, <1>2, <1>3, <1>4, <1>5, <1>6 DEF Next

(* A step of the watchdog's own call takes back no reversal of another       *)
(* record, and one that succeeds has reversed its record.                    *)
LEMMA UndoStep ==
    ASSUME ExecOK, ExecOK', ExecStep(WD), NEW j \in Callers, Succeeded(j), NEW k \in Callers, Succeeded(k),
           op[WD] = InverseOf(k), op[WD] # NoOp, Single, BackupSound,
           pc[WD] \in {"openKeys", "rewrite"} => op[k].arg \in data[WD]
    PROVE  /\ Reversed(j) /\ j # k => Reversed(j)'
           /\ pc'[WD] = "ok" => Reversed(k)'
           /\ pc'[WD] \in {"openKeys", "rewrite"} => op[k].act = "revoke-key" /\ op[k].arg \in data'[WD]
<1> USE DEF ExecOK, ExecTypeOK
<1>1. WD \in All /\ op' = op /\ op[k].act \in ForwardActs /\ op[j].act \in ForwardActs /\ pc[j] = "ok" /\ pc[k] = "ok"
  BY StepFrame DEF All, Succeeded
<1>2. CASE op[k].act = "revoke-key"
  <2>1. op[WD] = RestoreKey /\ About(WD) = "keys"
    BY <1>2 DEF InverseOf, About, Object, RestoreKey
  <2>2. op[WD].act = "restore-key"
    BY <2>1 DEF RestoreKey
  <2>3. j # k => op[j].act # "revoke-key"
    BY <1>2 DEF Single
  <2>4. UNCHANGED <<table, copies>>
    BY <2>1, StepSplit, <1>1 DEF KeysStep, Fail, ReadKeys, WriteBackup, EditKeys, ReadBackup, RewriteKeys, host, network, files
  <2>5. Reversed(j) /\ j # k => Reversed(j)'
    BY <1>1, <2>3, <2>4 DEF Reversed
  <2>6. op[k].arg \in backup
    BY <1>1, <1>2 DEF BackupSound
  <2>7. CASE Fail(WD)
    BY <1>1, <2>5, <2>7 DEF Fail, Step
  <2>8. CASE ReadBackup(WD)
    BY <1>1, <1>2, <2>5, <2>6, <2>8 DEF ReadBackup, Step
  <2>9. CASE RewriteKeys(WD)
    BY <1>1, <1>2, <2>5, <2>9 DEF RewriteKeys, Step, Return, Reversed
  <2>10. ~ReadKeys(WD) /\ ~WriteBackup(WD) /\ ~EditKeys(WD)
    BY <1>1, <2>2 DEF ReadKeys, WriteBackup, EditKeys, ControlOK
  <2> QED
    BY <1>1, <2>1, <2>7, <2>8, <2>9, <2>10, StepSplit DEF KeysStep
<1>3. CASE op[k].act = "isolate"
  <2>1. op[WD] = DeIsolate /\ About(WD) = "egress"
    BY <1>3 DEF InverseOf, About, Object, DeIsolate
  <2>2. op[WD].act = "de-isolate"
    BY <2>1 DEF DeIsolate
  <2>3. UNCHANGED <<keys, copies>>
    BY <2>1, StepSplit, <1>1 DEF EgressStep, Fail, AddTable, AddChain, AddRule, Isolated, DeleteTable, host, files
  <2>4. pc'[WD] \notin {"openKeys", "rewrite"}
    BY <1>1, <2>2 DEF ControlOK
  <2>5. CASE Fail(WD)
    BY <1>1, <2>3, <2>4, <2>5 DEF Fail, Step, host, network, Reversed
  <2>6. CASE DeleteTable(WD)
    BY <1>1, <1>3, <2>3, <2>4, <2>6 DEF DeleteTable, Reversed
  <2>7. ~AddTable(WD) /\ ~AddChain(WD) /\ ~AddRule(WD) /\ ~Isolated(WD)
    BY <1>1, <2>2 DEF AddTable, AddChain, AddRule, Isolated, ControlOK
  <2> QED
    BY <1>1, <2>1, <2>5, <2>6, <2>7, StepSplit DEF EgressStep
<1>4. CASE op[k].act \in {"quarantine", "quarantine-fd"}
  <2>1. op[WD] = Unquarantine(k) /\ About(WD) = "file" /\ op[WD].arg = k
    BY <1>4 DEF InverseOf, About, Object, Unquarantine
  <2>2. op[WD].act = "unquarantine"
    BY <2>1 DEF Unquarantine
  <2>3. UNCHANGED <<keys, table>>
    BY <1>1, <2>1, StepSplit DEF FileStep, Fail, Move, RemoveSource, Resolve, Fstat, MoveFD, Confirm, RollBack,
       CheckOrigin, MoveBack, RemoveCopy, host, network
  <2>4. pc'[WD] \notin {"openKeys", "rewrite"}
    BY <1>1, <2>2 DEF ControlOK
  <2>5. CASE Fail(WD)
    BY <1>1, <2>3, <2>4, <2>5 DEF Fail, Step, host, files, Reversed
  <2>6. CASE CheckOrigin(WD)
    BY <1>1, <1>4, <2>1, <2>3, <2>4, <2>6 DEF CheckOrigin, Step, host, files, Reversed
  <2>7. CASE MoveBack(WD)
    BY <1>1, <1>4, <2>1, <2>3, <2>4, <2>7 DEF MoveBack, Step, Reversed
  <2>8. CASE RemoveCopy(WD)
    BY <1>1, <1>4, <2>1, <2>3, <2>4, <2>8 DEF RemoveCopy, Step, Reversed
  <2>9. ~Move(WD) /\ ~RemoveSource(WD) /\ ~Resolve(WD) /\ ~Fstat(WD) /\ ~MoveFD(WD) /\ ~Confirm(WD) /\ ~RollBack(WD)
    BY <1>1, <2>2 DEF Move, RemoveSource, Resolve, Fstat, MoveFD, Confirm, RollBack, ControlOK
  <2> QED
    BY <1>1, <2>1, <2>5, <2>6, <2>7, <2>8, <2>9, StepSplit DEF FileStep
<1>5. CASE op[k].act \in {"block-hash", "kill"}
  BY <1>5 DEF InverseOf
<1> QED
  BY <1>1, <1>2, <1>3, <1>4, <1>5 DEF ForwardActs

(* An undisturbed step of a rollback keeps what it has reversed.             *)
LEMMA UndoNext ==
    ASSUME Inv, Walked, Walked', BackupSound, UndoSound, [Next]_vars
    PROVE  UndoSound'
<1> USE DEF Inv, TypeOK
<1> SUFFICES ASSUME Undisturbed', Single'
             PROVE  /\ critical' = {} => \A i \in Len(walk') + 1 .. Len(journal') : Reversed(journal[i])'
                    /\ pc'[WD] = "ok" => Reversed(Current)'
                    /\ pc'[WD] \in {"openKeys", "rewrite"} =>
                          op'[Current'].act = "revoke-key" /\ op'[Current'].arg \in data'[WD]
  BY DEF UndoSound
<1> DEFINE Goal == /\ critical' = {} => \A i \in Len(walk') + 1 .. Len(journal') : Reversed(journal[i])'
                   /\ pc'[WD] = "ok" => Reversed(Current)'
                   /\ pc'[WD] \in {"openKeys", "rewrite"} =>
                         op'[Current'].act = "revoke-key" /\ op'[Current'].arg \in data'[WD]
<1>0. HostNext /\ ExecOK /\ ExecOK' /\ Single
  BY NextIsHostNext, SingleBefore
<1>a. \A i \in DOMAIN journal : journal[i] \in Callers /\ Succeeded(journal[i])
  BY DEF JournalOK, JournalSound
<1>b. walk # <<>> => Current \in Callers /\ Succeeded(Current)
  BY DEF JournalOK, WalkSound, Current
<1>1. ASSUME NEW c \in Callers, Request(c) \/ Run(c) PROVE Goal
  BY <1>1 DEF Request, Run, Undisturbed
<1>2. ASSUME NEW d \in 0 .. MinDuration, Tick(d) PROVE Goal
  <2>1. walk' = journal' /\ pc' = pc
    BY <1>2 DEF Tick, Undisturbed, execVars
  <2>2. pc[WD] = "idle"
    BY <1>2 DEF Tick, JournalOK, WalkSound
  <2>3. Len(walk') + 1 .. Len(journal') = {}
    BY <1>2, <2>1 DEF Tick
  <2> QED
    BY <2>1, <2>2, <2>3
<1>3. CASE UndoIrreversible
  <2>1. critical' # {} /\ pc' = pc /\ op' = op /\ walking /\ walk # <<>> /\ InverseOf(Current) = NoOp
    BY <1>3 DEF UndoIrreversible, execVars
  <2>2. pc[WD] = "idle"
    BY <2>1 DEF JournalOK, WalkSound
  <2> QED
    BY <2>1, <2>2
<1>4. CASE Undo
  <2>1. /\ pc' = [pc EXCEPT ![WD] = First(InverseOf(Current).act)] /\ pc[WD] = "idle" /\ walk # <<>>
        /\ op' = [op EXCEPT ![WD] = InverseOf(Current)] /\ UNCHANGED <<host, data>> /\ UNCHANGED wdVars
    BY <1>4 DEF Undo, Execute, Step
  <2>2. InverseOf(Current).act \in {"restore-key", "de-isolate", "unquarantine"}
    BY <1>4, <1>b DEF Undo, InverseOf, Succeeded, ForwardActs, RestoreKey, DeIsolate, Unquarantine
  <2>3. pc'[WD] \notin {"ok", "openKeys", "rewrite"}
    BY <2>1, <2>2 DEF First, ExecTypeOK, All
  <2>4. \A c \in Callers : op'[c] = op[c]
    BY <2>1 DEF ExecTypeOK, All
  <2>5. ASSUME critical = {}, NEW i \in Len(walk) + 1 .. Len(journal) PROVE Reversed(journal[i])'
    <3>1. Reversed(journal[i]) /\ journal[i] \in Callers
      BY <1>0, <1>a, <2>1, <2>5 DEF UndoSound, Undisturbed, wdVars
    <3> QED
      BY <2>1, <2>4, <3>1 DEF Reversed, host, network, files, wdVars
  <2> QED
    BY <2>1, <2>3, <2>5 DEF wdVars
<1>5. CASE RunUndo
  <2>1. ExecStep(WD) /\ UNCHANGED wdVars /\ Active(WD) /\ op' = op
    BY <1>0, <1>5, StepFrame DEF RunUndo, All
  <2>2. walk # <<>> /\ op[WD] = InverseOf(Current) /\ op[WD] # NoOp /\ Undisturbed
    BY <2>1 DEF Active, JournalOK, WalkSound, wdVars, Undisturbed
  <2>3. pc[WD] \in {"openKeys", "rewrite"} => op[Current].arg \in data[WD]
    BY <1>0, <2>2 DEF UndoSound
  <2>4. /\ pc'[WD] = "ok" => Reversed(Current)'
        /\ pc'[WD] \in {"openKeys", "rewrite"} => op[Current].act = "revoke-key" /\ op[Current].arg \in data'[WD]
        /\ \A j \in Callers : Succeeded(j) /\ Reversed(j) /\ j # Current => Reversed(j)'
    <3>1. PICK k \in Callers : k = Current
      BY <1>b, <2>2
    <3>2. Succeeded(k) /\ op[WD] = InverseOf(k) /\ (pc[WD] \in {"openKeys", "rewrite"} => op[k].arg \in data[WD])
      BY <1>b, <2>2, <2>3, <3>1
    <3>3. ASSUME NEW j \in Callers, Succeeded(j)
          PROVE  /\ Reversed(j) /\ j # k => Reversed(j)'
                 /\ pc'[WD] = "ok" => Reversed(k)'
                 /\ pc'[WD] \in {"openKeys", "rewrite"} => op[k].act = "revoke-key" /\ op[k].arg \in data'[WD]
      BY <1>0, <2>1, <2>2, <3>2, <3>3, UndoStep
    <3>4. Current' = k
      BY <2>1, <3>1 DEF Current, wdVars
    <3>5. Reversed(Current)' <=> Reversed(k)'
      BY <3>4 DEF Reversed
    <3> QED
      BY <3>1, <3>2, <3>3, <3>5
  <2>5. ASSUME critical = {}, NEW i \in Len(walk) + 1 .. Len(journal) PROVE Reversed(journal[i])'
    <3>1. /\ Reversed(journal[i]) /\ journal[i] \in Callers /\ Succeeded(journal[i])
          /\ i \in DOMAIN journal /\ Len(walk) \in 1 .. Len(journal)
      BY <1>0, <1>a, <2>2, <2>5 DEF UndoSound, Undisturbed, Walked
    <3>2. Current = journal[Len(walk)] /\ Len(walk) # i
      BY <2>2, <2>5, <3>1 DEF Current, Walked
    <3>3. journal[i] # Current
      BY <3>1, <3>2 DEF JournalOK, JournalSound
    <3>4. journal' = journal
      BY <2>1 DEF wdVars
    <3> QED
      BY <2>4, <3>1, <3>3, <3>4
  <2> QED
    BY <2>1, <2>4, <2>5 DEF wdVars, Current
<1>6. CASE Verify
  <2>1. /\ pc[WD] \in {"ok", "failed"} /\ pc' = [pc EXCEPT ![WD] = "idle"] /\ op' = [op EXCEPT ![WD] = NoOp]
        /\ critical' = Alerts /\ walk' = SubSeq(walk, 1, Len(walk) - 1)
        /\ UNCHANGED <<host, journal, walking, disturbed>>
    BY <1>6 DEF Verify, Undone
  <2>2. walk # <<>> /\ Undisturbed /\ pc'[WD] = "idle" /\ \A c \in Callers : op'[c] = op[c]
    BY <2>1 DEF JournalOK, WalkSound, Undisturbed, ExecTypeOK, All
  <2>3. ASSUME critical' = {}, NEW i \in Len(walk') + 1 .. Len(journal) PROVE Reversed(journal[i])'
    <3>1. pc[WD] = "ok" /\ critical = {}
      BY <2>1, <2>3 DEF Alerts
    <3>2. Len(walk') = Len(walk) - 1
      BY <2>1, <2>2, FrontOfSeq
    <3>3. Len(walk) \in 1 .. Len(journal) /\ Current = journal[Len(walk)]
      BY <2>2 DEF Walked, Current
    <3>4. i = Len(walk) \/ i \in Len(walk) + 1 .. Len(journal)
      BY <2>3, <3>2, <3>3
    <3>5. Reversed(journal[i])
      BY <1>0, <2>2, <3>1, <3>3, <3>4 DEF UndoSound
    <3>6. journal[i] \in Callers
      BY <1>a, <3>3, <3>4
    <3> QED
      BY <2>1, <2>2, <3>5, <3>6 DEF Reversed, host, network, files
  <2> QED
    BY <2>1, <2>2, <2>3
<1>7. CASE Recreate /\ UNCHANGED wdVars
  <2>1. UNCHANGED <<keys, table, copies, op, pc, data>> /\ UNCHANGED wdVars
    BY <1>7 DEF Recreate, network
  <2> QED
    BY <1>0, <2>1 DEF wdVars, UndoSound, Undisturbed, Reversed, Current
<1>8. CASE Probe \/ UNCHANGED vars
  <2>1. UNCHANGED execVars /\ UNCHANGED <<journal, walk, walking, disturbed, critical>>
    BY <1>8 DEF Probe, vars, wdVars
  <2> QED
    BY <1>0, <2>1 DEF execVars, host, network, files, UndoSound, Undisturbed, Reversed, Current
<1>9. CASE Finish
  BY <1>9 DEF Finish, Undisturbed
<1> QED
  BY <1>1, <1>2, <1>3, <1>4, <1>5, <1>6, <1>7, <1>8, <1>9 DEF Next

(* A rollback that ends without an alert, and during which nobody else acted,*)
(* has reversed every journaled action, if one key at most was revoked.      *)
THEOREM RollbackReal == Spec => RollbackIsRealPerBackup
<1> DEFINE RInv == Inv /\ BackupSound /\ Walked /\ UndoSound
           Ends == walking /\ ~walking' /\ critical = {} /\ ~disturbed /\ Single
<1>1. Init => RInv
  BY InvInit DEF Init, ExecInit, BackupSound, Walked, UndoSound, Undisturbed, NoOp, All
<1>2. RInv /\ [Next]_vars => RInv'
  BY InvNext, NextIsHostNext, BackupNext, WalkedNext, UndoNext
<1>3. RInv /\ [Next]_vars => [Ends => \A i \in DOMAIN journal : Reversed(journal[i])]_vars
  <2> SUFFICES ASSUME RInv, Next, Ends PROVE \A i \in DOMAIN journal : Reversed(journal[i])
    BY DEF vars
  <2>1. Finish
    BY DEF Next, Request, Run, Probe, Tick, Undo, UndoIrreversible, RunUndo, Verify, wdVars
  <2>2. walk = <<>> /\ Len(walk) = 0 /\ journal \in Seq(Callers)
    BY <2>1 DEF Finish, Inv, TypeOK
  <2>3. DOMAIN journal = 1 .. Len(journal)
    BY <2>2
  <2> QED
    BY <2>2, <2>3 DEF UndoSound, Undisturbed
<1>4. RollbackIsRealPerBackup <=> [][Ends => \A i \in DOMAIN journal : Reversed(journal[i])]_vars
  <2>1. [Ends => \A i \in DOMAIN journal : Reversed(journal[i])]_vars
          <=> [walking /\ ~walking' /\ critical = {} /\ ~disturbed
                 /\ (\A c, d \in Callers : op[c].act = "revoke-key" /\ op[d].act = "revoke-key" => c = d) =>
                   \A i \in DOMAIN journal : Reversed(journal[i])]_vars
    BY DEF Single
  <2> QED
    BY <2>1, PTL DEF RollbackIsRealPerBackup
<1> QED
  BY <1>1, <1>2, <1>3, <1>4, PTL DEF Spec

=============================================================================
