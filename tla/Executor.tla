------------------------------ MODULE Executor ------------------------------
(***************************************************************************)
(* RealExecutor: what the privileged response actions do to the host, step *)
(* by step, and how their inverses take it back                            *)
(* (agent/internal/respond/executor.go).  Requests arrive concurrently     *)
(* through the response socket and nothing serialises their execution.     *)
(*                                                                         *)
(* The host is one authorized_keys file with its .dsuite.bak, the nftables *)
(* isolation table, one fapolicyd rule, and one file that may be           *)
(* quarantined, the image of a process.  Any system call or command may    *)
(* fail.  os.WriteFile truncates and then writes: what a write that fails  *)
(* has left is taken to be an empty file.                                  *)
(***************************************************************************)
EXTENDS Naturals

CONSTANTS
    Callers, \* requests; each is executed once
    Keys,    \* key lines of the authorized_keys file
    Ifaces,  \* the lifelines isolate keeps up: lo and MgmtIfaces
    None     \* no file, no backup, no call

ASSUME ExecutorAssumption ==
    /\ None \notin Callers \cup {"old", "new"}
    /\ Keys # {}

VARIABLES
    crossFs, \* the quarantine directory is on another file system (EXDEV)
    keys,    \* the key lines of authorized_keys
    backup,  \* the key lines of its .dsuite.bak, or None
    table,   \* the isolation table: absent, empty (no chain yet) or dropping
    accept,  \* the interfaces its chain accepts
    rule,    \* the deny rule of block-hash: absent, torn or whole
    origin,  \* what the path of the file holds: None, "old", or "new" once recreated
    copies,  \* what the quarantine destination of each call holds
    op,      \* the request of each call
    pc,      \* where each call is
    data,    \* what each call has read: the key lines, or the file it has checked
    todo,    \* the interfaces each isolate call has still to accept
    overlap, \* history: what two calls in progress together have worked on
    raced    \* history: a file appeared at the path under a call about to move or remove

network == <<table, accept>>
files == <<origin, copies>>
host == <<crossFs, keys, backup, network, rule, files>>
execVars == <<host, op, pc, data, todo, overlap, raced>>

Revoke(k)       == [act |-> "revoke-key", arg |-> k]
RestoreKey      == [act |-> "restore-key", arg |-> None]
Isolate         == [act |-> "isolate", arg |-> None]
DeIsolate       == [act |-> "de-isolate", arg |-> None]
Quarantine      == [act |-> "quarantine", arg |-> None]
QuarantineFD    == [act |-> "quarantine-fd", arg |-> None]
BlockHash       == [act |-> "block-hash", arg |-> None]
Unquarantine(c) == [act |-> "unquarantine", arg |-> c]
Kill            == [act |-> "kill", arg |-> None]
NoOp            == [act |-> "none", arg |-> None]

Forward  == {Revoke(k) : k \in Keys} \cup {Isolate, Quarantine, QuarantineFD, BlockHash, Kill}
Inverses == {RestoreKey, DeIsolate} \cup {Unquarantine(c) : c \in Callers}

ExecInit(all) ==
    /\ crossFs \in BOOLEAN
    /\ keys = Keys /\ backup = None
    /\ table = "absent" /\ accept = {}
    /\ rule = "absent"
    /\ origin = "old" /\ copies = [c \in Callers |-> None]
    /\ op = [c \in all |-> NoOp]
    /\ pc = [c \in all |-> "idle"]
    /\ data = [c \in all |-> {}]
    /\ todo = [c \in all |-> {}]
    /\ overlap = {} /\ raced = FALSE

-----------------------------------------------------------------------------
Active(c) == pc[c] \notin {"idle", "ok", "failed"}

\* What an action works on.
Object(act) ==
    CASE act \in {"revoke-key", "restore-key"}                   -> "keys"
      [] act \in {"quarantine", "quarantine-fd", "unquarantine"} -> "file"
      [] act \in {"isolate", "de-isolate"}                       -> "egress"
      [] act = "block-hash"                                      -> "rule"
      [] OTHER                                                   -> "process"

Step(c, next) == pc' = [pc EXCEPT ![c] = next]

\* The call ends, and forgets what it has read.
Return(c) == Step(c, "ok") /\ data' = [data EXCEPT ![c] = {}]

\* Any step may fail; the call returns the error and takes nothing back.  A
\* confirmation that fails is dealt with below.
Fail(c) ==
    /\ Active(c) /\ pc[c] # "confirm"
    /\ Step(c, "failed")
    /\ data' = [data EXCEPT ![c] = {}] /\ todo' = [todo EXCEPT ![c] = {}]
    /\ UNCHANGED <<host, op, overlap, raced>>

\* Execute dispatches on the action.
First(act) ==
    CASE act = "revoke-key"    -> "read"
      [] act = "restore-key"   -> "readBackup"
      [] act = "isolate"       -> "addTable"
      [] act = "de-isolate"    -> "delTable"
      [] act = "quarantine"    -> "move"
      [] act = "quarantine-fd" -> "resolve"
      [] act = "unquarantine"  -> "check"
      [] act = "block-hash"    -> "openRule"
      [] act = "kill"          -> "signal"

Execute(c, r) ==
    /\ ~Active(c)
    /\ op' = [op EXCEPT ![c] = r]
    /\ Step(c, First(r.act))
    /\ overlap' = overlap \cup
           {o \in {Object(r.act)} :
                \E d \in DOMAIN pc \ {c} : Active(d) /\ Object(op[d].act) = o}
    /\ UNCHANGED <<host, data, todo, raced>>

KillStep(c) ==
    /\ pc[c] = "signal"
    /\ Step(c, "ok")
    /\ UNCHANGED <<host, op, data, todo, overlap, raced>>

-----------------------------------------------------------------------------
(* revoke-key: read, back up, edit; restore-key: read the backup, write.    *)

ReadKeys(c) ==
    /\ pc[c] = "read"
    /\ data' = [data EXCEPT ![c] = keys]
    /\ Step(c, "openBackup")
    /\ UNCHANGED <<host, op, todo, overlap, raced>>

\* The backup is rewritten before the fingerprint is looked for.
WriteBackup(c) ==
    /\ \/ pc[c] = "openBackup" /\ backup' = {} /\ Step(c, "backup")
       \/ pc[c] = "backup" /\ backup' = data[c] /\ Step(c, "edit")
    /\ UNCHANGED <<crossFs, keys, network, rule, files, op, data, todo, overlap, raced>>

\* No matching line, and an edit that would empty the file, are refused.
MayRemove(k, lines) == k \in lines /\ lines # {k}

EditKeys(c) ==
    LET k == op[c].arg IN
    /\ \/ pc[c] = "edit" /\ MayRemove(k, data[c]) /\ keys' = {} /\ Step(c, "writeKeys") /\ UNCHANGED data
       \/ pc[c] = "writeKeys" /\ keys' = data[c] \ {k} /\ Return(c)
    /\ UNCHANGED <<crossFs, backup, network, rule, files, op, todo, overlap, raced>>

ReadBackup(c) ==
    /\ pc[c] = "readBackup"
    /\ backup # None
    /\ data' = [data EXCEPT ![c] = backup]
    /\ Step(c, "openKeys")
    /\ UNCHANGED <<host, op, todo, overlap, raced>>

RewriteKeys(c) ==
    /\ \/ pc[c] = "openKeys" /\ keys' = {} /\ Step(c, "rewrite") /\ UNCHANGED data
       \/ pc[c] = "rewrite" /\ keys' = data[c] /\ Return(c)
    /\ UNCHANGED <<crossFs, backup, network, rule, files, op, todo, overlap, raced>>

-----------------------------------------------------------------------------
(* isolate: the chain drops before the first interface is accepted.         *)

AddTable(c) ==
    /\ pc[c] = "addTable"
    /\ table' = IF table = "absent" THEN "empty" ELSE table
    /\ Step(c, "addChain")
    /\ UNCHANGED <<crossFs, keys, backup, accept, rule, files, op, data, todo, overlap, raced>>

AddChain(c) ==
    /\ pc[c] = "addChain"
    /\ table # "absent"
    /\ table' = "dropping"
    /\ todo' = [todo EXCEPT ![c] = Ifaces]
    /\ Step(c, "addRules")
    /\ UNCHANGED <<crossFs, keys, backup, accept, rule, files, op, data, overlap, raced>>

AddRule(c) ==
    /\ pc[c] = "addRules"
    /\ table = "dropping"
    /\ \E i \in todo[c] :
          /\ accept' = accept \cup {i}
          /\ todo' = [todo EXCEPT ![c] = @ \ {i}]
    /\ UNCHANGED <<crossFs, keys, backup, table, rule, files, op, pc, data, overlap, raced>>

Isolated(c) ==
    /\ pc[c] = "addRules"
    /\ todo[c] = {}
    /\ Step(c, "ok")
    /\ UNCHANGED <<host, op, data, todo, overlap, raced>>

\* Deleting a table that is absent is a success.
DeleteTable(c) ==
    /\ pc[c] = "delTable"
    /\ table' = "absent"
    /\ accept' = {}
    /\ Step(c, "ok")
    /\ UNCHANGED <<crossFs, keys, backup, rule, files, op, data, todo, overlap, raced>>

-----------------------------------------------------------------------------
(* block-hash: write the rule.  Whether fapolicyd then loads it is not      *)
(* looked at.                                                               *)

WriteRule(c) ==
    /\ \/ pc[c] = "openRule" /\ rule' = "torn" /\ Step(c, "writeRule")
       \/ pc[c] = "writeRule" /\ rule' = "whole" /\ Step(c, "ok")
    /\ UNCHANGED <<crossFs, keys, backup, network, files, op, data, todo, overlap, raced>>

-----------------------------------------------------------------------------
(* quarantine, by path or by process, and their inverse: a rename, or       *)
(* across file systems a copy and then a removal.                           *)

\* Another call has looked at the path and not yet acted on it, or may still
\* put back what it took from there.
Racing(c) ==
    \E d \in DOMAIN pc \ {c} : pc[d] \in {"moveBack", "removeSource", "confirm", "rollBack"}

\* The destination's name is unique to the call.
Move(c) ==
    /\ pc[c] = "move"
    /\ origin # None
    /\ copies' = [copies EXCEPT ![c] = origin]
    /\ IF crossFs
       THEN Step(c, "removeSource") /\ UNCHANGED origin
       ELSE Step(c, "ok") /\ origin' = None
    /\ UNCHANGED <<crossFs, keys, backup, network, rule, op, data, todo, overlap, raced>>

RemoveSource(c) ==
    /\ pc[c] = "removeSource"
    /\ origin # None
    /\ origin' = None
    /\ Step(c, "ok")
    /\ UNCHANGED <<crossFs, keys, backup, network, rule, copies, op, data, todo, overlap, raced>>

Held(v) == v \in {origin} \cup {copies[c] : c \in Callers}

\* The process is the one attributed, and its image is below a staging
\* directory: a rename into the quarantine takes it out of there, a removal does
\* not, since the kernel's "(deleted)" is cut off the link.
Resolve(c) ==
    /\ pc[c] = "resolve"
    /\ origin = "old" \/ crossFs \/ ~Held("old")
    /\ Step(c, "fstat")
    /\ UNCHANGED <<host, op, data, todo, overlap, raced>>

Fstat(c) ==
    /\ pc[c] = "fstat"
    /\ origin # None
    /\ data' = [data EXCEPT ![c] = {origin}]
    /\ Step(c, "moveFD")
    /\ UNCHANGED <<host, op, todo, overlap, raced>>

\* A rename takes what is at the path by now; a copy is of the file that was
\* checked, or refused.
MoveFD(c) ==
    /\ pc[c] = "moveFD"
    /\ origin # None
    /\ copies' = [copies EXCEPT ![c] = origin]
    /\ IF crossFs
       THEN origin \in data[c] /\ Step(c, "removeSource") /\ UNCHANGED origin
       ELSE Step(c, "confirm") /\ origin' = None
    /\ UNCHANGED <<crossFs, keys, backup, network, rule, op, data, todo, overlap, raced>>

Confirmed(c) == copies[c] \in data[c]

\* A file that is another, or cannot be opened, is put back.
Confirm(c) ==
    /\ pc[c] = "confirm"
    /\ \/ Step(c, "rollBack")
       \/ Confirmed(c) /\ Step(c, "ok")
    /\ UNCHANGED <<host, op, data, todo, overlap, raced>>

\* The rename replaces what has appeared at the path since.
RollBack(c) ==
    /\ pc[c] = "rollBack"
    /\ origin' = copies[c]
    /\ copies' = [copies EXCEPT ![c] = None]
    /\ raced' = (raced \/ Racing(c))
    /\ Step(c, "failed")
    /\ data' = [data EXCEPT ![c] = {}]
    /\ UNCHANGED <<crossFs, keys, backup, network, rule, op, todo, overlap>>

\* Nothing in quarantine and a file at the origin: already restored.  A file at
\* the origin otherwise is refused (see Fail).
MayRestore_AnyOrigin == TRUE
MayRestore == origin = None

CheckOrigin(c) ==
    /\ pc[c] = "check"
    /\ \/ copies[op[c].arg] = None /\ origin # None /\ Step(c, "ok")
       \/ copies[op[c].arg] # None /\ MayRestore /\ Step(c, "moveBack")
    /\ UNCHANGED <<host, op, data, todo, overlap, raced>>

\* A rename replaces what appeared at the origin since the check; the copy
\* across file systems is exclusive.
MoveBack(c) ==
    LET q == op[c].arg IN
    /\ pc[c] = "moveBack"
    /\ copies[q] # None
    /\ crossFs => origin = None
    /\ origin' = copies[q]
    /\ raced' = (raced \/ Racing(c))
    /\ IF crossFs
       THEN Step(c, "removeCopy") /\ UNCHANGED copies
       ELSE Step(c, "ok") /\ copies' = [copies EXCEPT ![q] = None]
    /\ UNCHANGED <<crossFs, keys, backup, network, rule, op, data, todo, overlap>>

RemoveCopy(c) ==
    /\ pc[c] = "removeCopy"
    /\ copies' = [copies EXCEPT ![op[c].arg] = None]
    /\ Step(c, "ok")
    /\ UNCHANGED <<crossFs, keys, backup, network, rule, origin, op, data, todo, overlap, raced>>

\* Another program creates a file at the vacated path.
Recreate ==
    /\ origin = None
    /\ \A c \in Callers : copies[c] # "new"
    /\ origin' = "new"
    /\ raced' = (raced \/ Racing(None))
    /\ UNCHANGED <<crossFs, keys, backup, network, rule, copies, op, pc, data, todo, overlap>>

ExecStep(c) ==
    \/ Fail(c) \/ KillStep(c)
    \/ ReadKeys(c) \/ WriteBackup(c) \/ EditKeys(c)
    \/ ReadBackup(c) \/ RewriteKeys(c)
    \/ AddTable(c) \/ AddChain(c) \/ AddRule(c) \/ Isolated(c) \/ DeleteTable(c)
    \/ WriteRule(c)
    \/ Move(c) \/ RemoveSource(c)
    \/ Resolve(c) \/ Fstat(c) \/ MoveFD(c) \/ Confirm(c) \/ RollBack(c)
    \/ CheckOrigin(c) \/ MoveBack(c) \/ RemoveCopy(c)

-----------------------------------------------------------------------------
(* Properties.                                                              *)

Steps == {"idle", "ok", "failed", "read", "openBackup", "backup", "edit", "writeKeys", "readBackup",
          "openKeys", "rewrite", "addTable", "addChain", "addRules", "delTable", "openRule", "writeRule",
          "move", "removeSource", "resolve", "fstat", "moveFD", "confirm", "rollBack", "check", "moveBack",
          "removeCopy", "signal"}

ExecTypeOK(all) ==
    /\ keys \subseteq Keys
    /\ backup = None \/ backup \subseteq Keys
    /\ table \in {"absent", "empty", "dropping"}
    /\ accept \subseteq Ifaces
    /\ table # "dropping" => accept = {}
    /\ rule \in {"absent", "torn", "whole"}
    /\ origin \in {None, "old", "new"}
    /\ copies \in [Callers -> {None, "old", "new"}]
    /\ op \in [all -> Forward \cup Inverses \cup {NoOp}]
    /\ pc \in [all -> Steps]
    /\ data \in [all -> SUBSET (Keys \cup {"old", "new"})]
    /\ todo \in [all -> SUBSET Ifaces]
    /\ {crossFs, raced} \subseteq BOOLEAN
    /\ overlap \subseteq {"keys", "file", "egress", "rule", "process"}

\* No content is ever lost: the quarantined file exists somewhere through moves,
\* copies, failures half-way and restores, and a file recreated at its path is
\* not overwritten, unless it appeared between a check and the move it allowed.
NothingLost ==
    [][\A v \in {"old", "new"} : Held(v) => Held(v)' \/ raced']_execVars

\* A key whose revocation was reported is gone from the file, as long as nobody
\* restores it.
RevokeSticks ==
    \A c \in DOMAIN pc :
        /\ op[c].act = "revoke-key" /\ pc[c] = "ok"
        /\ \A d \in DOMAIN pc : op[d].act # "restore-key"
        => op[c].arg \notin keys

\* No sequence of revocations and restores, however they interleave, empties
\* authorized_keys: the last line is never removed, and what a write that failed
\* has left empty, the file or its backup, was reported.
KeysNeverEmptied ==
    keys = {} => "keys" \in overlap \/ \E c \in DOMAIN pc :
                    /\ op[c].act \in {"revoke-key", "restore-key"}
                    /\ pc[c] \in {"writeKeys", "rewrite", "failed"}

\* A quarantine by process that reports success has moved the very file it has
\* checked, whatever was put at the path in between ("checked==acted").
ActsOnChecked ==
    \A c \in Callers : op[c].act = "quarantine-fd" /\ pc[c] = "ok" => copies[c] \in data[c] \cup {None}

\* What it moves is the image of the process it was asked about ("NEVER trusts a
\* path string as the target").  TLC refutes it: an image that was removed still
\* passes for its path, and what is at the path by then is moved.
MovesOnlyTheImage ==
    \A c \in Callers : op[c].act = "quarantine-fd" /\ pc[c] = "ok" => copies[c] # "new"
=============================================================================
