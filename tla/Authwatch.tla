----------------------------- MODULE Authwatch -----------------------------
(***************************************************************************)
(* authwatch: one pass over the files a login trusts                       *)
(* (authwatch/main.go, internal/check and the checks it runs), and the     *)
(* capture of the hashes it compares them with.  Every file read and every *)
(* command is a step of its own; packages, administrators and X servers    *)
(* change what is read in between, and a command may be missing, fail, or  *)
(* be killed by the deadline, which the runner does not tell from an exit  *)
(* code.                                                                   *)
(***************************************************************************)
EXTENDS Severities, FiniteSetsExt, TLC

CONSTANTS
    Machines,   \* package families and installed commands: [family, tools]
    Binaries,   \* config.AuthBinaries
    Modules,    \* what may be below config.SecurityDirs
    Contents,   \* contents of a file
    Absent,     \* no file
    Packaged,   \* the content the package database has for each path, or Absent
    KeyLines,   \* lines of authorized_keys: [key, listed]
    InitLines,  \* lines that may preload: [file, comment, assigns]
    Watches,    \* auditd.ExpectedWatches: the permissions to be watched, by path
    Pids, UIDs, \* processes
    MaxChanges  \* bound on changes of the host, for model checking only

Paths == Binaries \cup Modules

ASSUME AuthwatchAssumption ==
    /\ Absent \notin Contents
    /\ Packaged \in [Paths -> Contents \cup {Absent}]
    /\ Pids \subseteq Nat \ {0} /\ Pids # {}
    /\ UIDs \subseteq Nat /\ UIDs # {}
    /\ MaxChanges \in Nat

VARIABLES
    disk,     \* the content at each path, or Absent
    family,   \* the package manager's family
    tools,    \* the commands that are installed
    base,     \* the baseline's file: its state and the content of each path in it
    procs,    \* the processes: the X server's user, or Other, or Nobody
    lock,     \* /tmp/.X0-lock: what it is, and the process it names
    uids,     \* config.XServerUIDs
    pc,       \* where the command is
    todo,     \* paths it has still to look at
    at,       \* the binary or module it is about to verify
    draft,    \* the hashes captured so far
    table,    \* readProcs' result, or NoTable
    worst,    \* the severest finding so far
    told,     \* paths with a finding of Medium or above
    accused,  \* whether the lock has such a finding
    exit,     \* the exit code, or Running
    altered,  \* history: paths that have differed from the baseline ever since the start
    foreign,  \* history: modules that have differed from every package ever since the start
    unsure,   \* history: paths about which a command gave no answer
    genuine,  \* history: the lock has been a running server's since it was listed
    changes   \* history: changes of the host so far

machine == <<family, tools, uids>>
desktop == <<procs, lock>>
results == <<worst, told, accused, exit>>
history == <<altered, foreign, unsure, genuine>>
vars    == <<disk, machine, base, desktop, pc, todo, at, draft, table, results, history, changes>>

Other == -1
Nobody == -2
NoPid == 0
NoTable == <<>>

-----------------------------------------------------------------------------
(* What the checks make of what they read *)

\* What a verifier says of a file, if it answers; debsums says nothing of a file that is gone.
Verdict_Masked(p) == IF disk[p] = Absent /\ family = "rpm" THEN "missing" ELSE "same"
Verdict(p) ==
    IF Packaged[p] = Absent \/ disk[p] = Packaged[p] THEN "same"
    ELSE IF disk[p] # Absent THEN "digest"
    ELSE IF family = "deb" /\ "debsums" \in tools THEN "same" ELSE "missing"

\* The commands VerifyFile runs: it can answer when they are there.
CanVerify == IF family = "rpm" THEN "rpm" \in tools ELSE tools \cap {"debsums", "dpkg"} # {}
CanFindOwner == (IF family = "rpm" THEN "rpm" ELSE "dpkg") \in tools

\* A command that is killed, or fails and says so only on stderr, counts as one with nothing to say.
Verifier(p) == IF CanVerify THEN {"error", "silent", Verdict(p)} ELSE {"notfound"}

\* The owner is found by content for rpm only as long as the file is there.
Owned(p) == Packaged[p] # Absent /\ (family = "rpm" => disk[p] # Absent)

Owner(p) ==
    IF CanFindOwner THEN {"error", "silent", IF Owned(p) THEN "owned" ELSE "unowned"} ELSE {"notfound"}

Tampered(answer) == answer \in {"digest", "missing"}

\* The paths Diff hashes: the binaries, the modules there are, and whatever else is in the baseline.
DiffPaths_Live == Binaries \cup {m \in Modules : disk[m] # Absent}
DiffPaths == DiffPaths_Live \cup DOMAIN base.entries

DiffOne(p) ==
    LET known == p \in DOMAIN base.entries
    IN  CASE disk[p] = Absent /\ known -> High
          [] disk[p] = Absent /\ ~known -> Info
          [] disk[p] # Absent /\ ~known -> Low
          [] OTHER -> IF disk[p] = base.entries[p] THEN Info ELSE Critical

\* Severities for the keys, with an allowlist, without one, or with one that cannot be read.
AuditKeys(allow, lines) ==
    CASE allow = "unreadable" -> {Low}
      [] allow = "none" -> {Info}
      [] OTHER -> {High : l \in {k \in lines : k.key /\ ~k.listed}}

ScanPreload(lines) ==
    {IF l.file = "ld.so.preload" THEN Critical ELSE High :
        l \in {i \in lines : ~i.comment /\ (i.assigns \/ i.file = "ld.so.preload")}}

\* A watch counts as loaded when the permissions of all rules for its path cover it.
MissingWatches(rules) ==
    {w \in DOMAIN Watches : w \notin {r.path : r \in rules}
                              \/ ~(Watches[w] \subseteq UNION {r.perms : r \in {q \in rules : q.path = w}})}

CheckWatches(answers, rules) == IF answers /\ MissingWatches(rules) = {} THEN Info ELSE Low

\* aide: an exit code that is not 0, a killed command's too, is a difference.
Aide(answer) ==
    CASE answer = "notfound" -> Info [] answer = "error" -> Low [] answer = "same" -> Info [] OTHER -> High

\* Whether a lock is suspicious, given the process table.
Evaluate_AnyUIDs(l, t) == l.pid = NoPid \/ t[l.pid] = Nobody \/ t[l.pid] = Other \/ t[l.pid] \notin uids
Evaluate(l, t) ==
    \/ l.pid = NoPid
    \/ t[l.pid] \in {Nobody, Other}
    \/ uids # {} /\ t[l.pid] \notin uids

-----------------------------------------------------------------------------
(* The host *)

\* Changes matter while a pass may still read what they change.
Change == pc # "done" /\ changes < MaxChanges /\ changes' = changes + 1
Command == <<machine, base, pc, todo, at, draft, table, results, unsure>>

\* A file is installed, edited, renamed away or removed.
Edit(p, c) ==
    /\ Change /\ c # disk[p]
    /\ disk' = [disk EXCEPT ![p] = c]
    /\ altered' = IF p \in DOMAIN base.entries /\ base.entries[p] = c THEN altered \ {p} ELSE altered
    /\ foreign' = IF c \in {Absent, Packaged[p]} THEN foreign \ {p} ELSE foreign
    /\ UNCHANGED <<Command, desktop, genuine>>

\* An X server starts, and takes over the lock of one that is gone.
StartServer(p, u) ==
    /\ Change /\ procs[p] = Nobody
    /\ lock.kind = "regular" /\ lock.pid # NoPid => procs[lock.pid] = Nobody
    /\ procs' = [procs EXCEPT ![p] = u]
    /\ lock' = [kind |-> "regular", pid |-> p]
    /\ genuine' = FALSE
    /\ UNCHANGED <<Command, disk, altered, foreign>>

\* A process ends, and removes its lock or not.
ExitProcess(p) ==
    /\ Change /\ procs[p] # Nobody
    /\ procs' = [procs EXCEPT ![p] = Nobody]
    /\ lock' \in {lock} \cup (IF procs[p] # Other /\ lock.pid = p THEN {[kind |-> "none", pid |-> NoPid]} ELSE {})
    /\ genuine' = (genuine /\ lock.pid # p)
    /\ UNCHANGED <<Command, disk, altered, foreign>>

\* Another program starts, and may leave a file where a server's lock would be.
StartOther(p) ==
    /\ Change /\ procs[p] = Nobody
    /\ procs' = [procs EXCEPT ![p] = Other]
    /\ lock' \in {lock} \cup {[kind |-> "regular", pid |-> q] : q \in {NoPid, p}} \cup {[kind |-> "link", pid |-> NoPid]}
    /\ genuine' = (genuine /\ lock' = lock)
    /\ UNCHANGED <<Command, disk, altered, foreign>>

-----------------------------------------------------------------------------
(* authwatch check *)

Init ==
    /\ disk \in {d \in [Paths -> Contents \cup {Absent}] : \A p \in Paths : Packaged[p] \in {d[p], Absent}}
    /\ \E m \in Machines : family = m.family /\ tools = m.tools
    /\ base = [state |-> "absent", entries |-> <<>>]
    /\ procs \in [Pids -> {Nobody, Min(UIDs)}] /\ procs[Max(Pids)] = Nobody
    /\ lock = IF procs[Min(Pids)] = Nobody THEN [kind |-> "none", pid |-> NoPid] ELSE [kind |-> "regular", pid |-> Min(Pids)]
    /\ uids \in {{}, {Min(UIDs)}}
    /\ pc = "idle" /\ todo = {} /\ table = procs
    /\ at = CHOOSE m \in Modules : TRUE
    /\ draft = <<>>
    /\ worst = Info /\ told = {} /\ accused = FALSE /\ exit = Running
    /\ altered = {} /\ foreign = {} /\ unsure = {} /\ genuine = FALSE
    /\ changes = 0

\* Add findings: their severities, about a path when they have one.
Find(ss, ps) ==
    /\ worst' = Max(ss \cup {worst})
    /\ told' = IF \E s \in ss : s >= Medium THEN told \cup ps ELSE told

\* The next path to look at: the order is the configuration's and the directories'.
First == CHOOSE p \in todo : TRUE

\* What a pass leaves alone: the host, the machine's configuration and the baseline.
Host == <<disk, machine, desktop, changes, base, draft>>

Start ==
    /\ pc = "idle"
    /\ pc' = "verify" /\ todo' = Binaries
    /\ altered' = {p \in DOMAIN base.entries : disk[p] # base.entries[p]}
    /\ foreign' = {m \in Modules : disk[m] \notin {Absent, Packaged[m]}}
    /\ UNCHANGED <<Host, at, table, results, unsure, genuine>>

\* pkgverify: whether a binary is there is asked first, then its verifier runs.
StatBinary ==
    /\ pc = "verify" /\ todo # {}
    /\ todo' = todo \ {First}
    /\ IF family = "unknown" \/ disk[First] = Absent THEN UNCHANGED <<pc, at>> ELSE pc' = "binary" /\ at' = First
    /\ UNCHANGED <<Host, table, results, history>>

VerifyBinary ==
    /\ pc = "binary" /\ pc' = "verify"
    /\ \E a \in Verifier(at) :
         /\ Find({CASE a = "error" -> Low [] Tampered(a) -> Critical [] OTHER -> Info}, {at})
         /\ unsure' = IF Tampered(a) \/ a = "same" THEN unsure ELSE unsure \cup {at}
    /\ UNCHANGED <<Host, todo, at, table, accused, exit, altered, foreign, genuine>>

ListModules ==
    /\ pc = "verify" /\ todo = {}
    /\ pc' = "owner"
    /\ todo' = IF family = "unknown" THEN {} ELSE {m \in Modules : disk[m] # Absent}
    /\ UNCHANGED <<Host, at, table, results, history>>

\* pam: a module that no package owns is Critical, and so is one whose owner was not named in time.
FindOwner ==
    /\ pc = "owner" /\ todo # {}
    /\ todo' = todo \ {First} /\ at' = First
    /\ \E a \in Owner(First) :
         /\ Find({CASE a = "error" -> Low [] a \in {"unowned", "silent"} -> Critical [] OTHER -> Info}, {First})
         /\ pc' = IF a = "owned" THEN "module" ELSE "owner"
         /\ unsure' = IF a \in {"notfound", "error"} THEN unsure \cup {First} ELSE unsure
    /\ UNCHANGED <<Host, table, accused, exit, altered, foreign, genuine>>

\* pam: the content of an owned module; a verifier that gives no answer is passed over.
VerifyModule ==
    /\ pc = "module"
    /\ \E a \in Verifier(at) :
         /\ Find({IF Tampered(a) THEN Critical ELSE Info}, {at})
         /\ unsure' = IF Tampered(a) \/ a = "same" THEN unsure ELSE unsure \cup {at}
    /\ pc' = "owner"
    /\ UNCHANGED <<Host, todo, at, table, accused, exit, altered, foreign, genuine>>

\* baseline: without a configured file that can be read, or without entries in it, nothing is hashed.
LoadBaseline ==
    /\ pc = "owner" /\ todo = {}
    /\ \E s \in (CASE base.state = "torn" -> {Low} [] base.state = "absent" -> {Info, Low} [] OTHER -> {Info}) : Find({s}, {})
    /\ IF base.state = "good" /\ DOMAIN base.entries # {} THEN pc' = "hash" /\ todo' = DiffPaths
       ELSE pc' = "text" /\ UNCHANGED todo
    /\ UNCHANGED <<Host, at, table, accused, exit, history>>

HashFile ==
    /\ pc = "hash"
    /\ todo' = todo \ {First}
    /\ pc' = IF todo' = {} THEN "text" ELSE "hash"
    /\ Find({DiffOne(First)}, {First})
    /\ UNCHANGED <<Host, at, table, accused, exit, history>>

\* authkeys and preload: what is in the files of the users, the shell and systemd
ScanText ==
    /\ pc = "text" /\ pc' = "glob"
    /\ \E allow \in {"none", "unreadable", "listed"}, keys \in SUBSET KeyLines, init \in SUBSET InitLines :
           Find(AuditKeys(allow, keys) \cup ScanPreload(init), {})
    /\ UNCHANGED <<Host, todo, at, table, accused, exit, history>>

\* The lock names an X server that runs, as an allowed user where users are listed.
Served == /\ lock.kind = "regular" /\ lock.pid # NoPid /\ procs[lock.pid] \in UIDs
          /\ uids # {} => procs[lock.pid] \in uids

\* x11lock: the lock is listed first, then the processes, then the lock is read.
ListLocks ==
    /\ pc = "glob"
    /\ pc' = IF lock.kind = "none" THEN "audit" ELSE "procs"
    /\ genuine' = Served
    /\ UNCHANGED <<Host, todo, at, table, results, altered, foreign, unsure>>

ReadProcs ==
    /\ pc = "procs" /\ pc' = "lock"
    /\ table' \in {procs, NoTable}
    /\ UNCHANGED <<Host, todo, at, results, history>>

ReadLock ==
    /\ pc = "lock" /\ pc' = "audit"
    /\ LET suspicious == lock.kind = "link" \/ (lock.kind = "regular" /\ table # NoTable /\ Evaluate(lock, table))
           severity == IF lock.kind = "link" \/ lock.pid = NoPid THEN Medium ELSE High
       IN  /\ accused' = suspicious
           /\ Find({IF suspicious THEN severity ELSE Info}, {})
    /\ UNCHANGED <<Host, todo, at, table, exit, history>>

\* auditd and AIDE, which without -aide adds as little as one that is not found; then the exit code
Conclude ==
    /\ pc = "audit" /\ pc' = "done"
    /\ \E answers \in BOOLEAN, perms \in {{"r"}, {"r", "w", "a"}}, aide \in {"notfound", "error", "same", "differs", "silent"} :
           worst' = Max({worst, Aide(aide), CheckWatches(answers, [path : DOMAIN Watches, perms : {perms}])})
    /\ exit' = IF worst' < Medium THEN 0 ELSE 2
    /\ UNCHANGED <<Host, todo, at, table, told, accused, history>>

-----------------------------------------------------------------------------
(* authwatch baseline: Capture hashes one file after another, as far as they can be read, then *)
(* os.WriteFile truncates the file and writes it.                                              *)

Captor == <<disk, machine, desktop, changes, at, table, results, history>>

StartCapture ==
    /\ pc = "idle" /\ pc' = "capture"
    /\ todo' = Binaries \cup {m \in Modules : disk[m] # Absent} /\ draft' = <<>>
    /\ UNCHANGED <<Captor, base>>

CaptureFile ==
    /\ pc = "capture" /\ todo # {}
    /\ todo' = todo \ {First}
    /\ draft' = IF disk[First] = Absent THEN draft
                ELSE [p \in DOMAIN draft \cup {First} |-> IF p = First THEN disk[p] ELSE draft[p]]
    /\ UNCHANGED <<Captor, pc, base>>

Truncate ==
    /\ pc = "capture" /\ todo = {}
    /\ pc' = "writing" /\ base' = [state |-> "torn", entries |-> <<>>]
    /\ UNCHANGED <<Captor, todo, draft>>

\* The write, or a crash that leaves the file empty
Save ==
    /\ pc = "writing" /\ pc' = "idle"
    /\ base' \in {base, [state |-> "good", entries |-> draft]} /\ draft' = <<>>
    /\ UNCHANGED <<Captor, todo>>

Next ==
    \/ \E p \in Paths, c \in Contents \cup {Absent} : Edit(p, c)
    \/ \E p \in Pids : ExitProcess(p) \/ StartOther(p) \/ \E u \in UIDs : StartServer(p, u)
    \/ StartCapture \/ CaptureFile \/ Truncate \/ Save
    \/ Start
    \/ StatBinary \/ VerifyBinary \/ ListModules \/ FindOwner \/ VerifyModule
    \/ LoadBaseline \/ HashFile
    \/ ScanText \/ ListLocks \/ ReadProcs \/ ReadLock \/ Conclude

Spec == Init /\ [][Next]_vars

-----------------------------------------------------------------------------
(* Properties *)

\* A file that differed from the baseline throughout a pass, being edited, renamed away or gone
\* from the directories that are listed, has a finding that makes the exit code 2.
ChangedIsTold ==
    exit # Running /\ base.state = "good" => altered \subseteq told /\ (told # {} => exit = 2)

\* A PAM module that was there throughout a pass and that no package installed, or not with this
\* content, has such a finding too, unless a command gave no answer about it.
ForeignIsTold == exit # Running /\ family # "unknown" => foreign \subseteq told \cup unsure

\* The lock of an X server is not suspected as long as that server runs, as an allowed user where
\* users are listed, and held the lock when the locks were listed: whatever else starts or exits.
\* A server that takes the lock over in mid-pass is outside: see OnlyFakesAreAccused
\* (Scan, readProcs, Evaluate).
ServerIsNotSuspected == genuine => ~accused

\* What authwatch/README.md says is detected, "a /tmp/.X*-lock whose PID is not a running X server":
\* no lock is suspected while its process is one.  It fails: the processes are read before the lock,
\* and a server that starts in between is not among them.
OnlyFakesAreAccused == [][accused' /\ ~accused => ~Served]_vars
=============================================================================
