----------------------------- MODULE Instguard -----------------------------
(***************************************************************************)
(* instguard: vetting an npm project before an install, and the pass over  *)
(* npm's logs after one (instguard/main.go, internal/check and the checks  *)
(* it runs, internal/verdict, internal/auditlog).  Each file is read, and  *)
(* OSV is asked, in a step of its own, while others may rewrite the        *)
(* project's files.                                                        *)
(*                                                                         *)
(* A copy of a package in a lock is where it is installed, as the names of *)
(* the nested node_modules directories (none for the root and a workspace, *)
(* which have a path of their own), what it really is, and its version.    *)
(***************************************************************************)
EXTENDS Severities, Sequences, SequencesExt, FiniteSetsExt, TLC

CONSTANTS
    Copies,      \* copies a lock may hold: [path, package, version]
    Malicious,   \* packages and versions with a MAL- advisory
    Vulnerable,  \* packages and versions with another advisory
    Manifests,   \* what package.json may hold: [deps, scripts]
    Published,   \* days since the publication of each version known to -release-meta
    CooldownDays,
    BuildLines,  \* lines of AUR build files: [comment, tool, quoted, pipe]
    LogLines,    \* lines of npm's logs: [hook, named, lifecycle, early]
    MaxRewrites  \* bound on rewrites of the project's files, for model checking only

ASSUME InstguardAssumption ==
    /\ \A c \in Copies : c.path \in Seq(STRING)
    /\ \A pair \in Malicious : pair[1] # ""
    /\ \A m \in Manifests : \A s \in m.scripts : s.matches \in 0 .. 4  \* the severity of the patterns it matches
    /\ MaxRewrites \in Nat

VARIABLES
    packageJson, \* package.json: its state and what it holds
    packageLock, \* package-lock.json
    others,      \* lock files of other managers that are there
    online,      \* whether OSV may be asked
    step,        \* where the command is
    found,       \* findings: the package and the severity
    declared,    \* AllDeps of the manifest as parsed: not the peers
    present,     \* whether a package-lock.json was there
    locked,      \* Result.Locked, as pairs of name and version
    queries,     \* versions OSV has not been asked about
    exitStatus,  \* the exit code
    seen,        \* history: the copies of the lock that was parsed
    unasked,     \* history: versions OSV has not answered for
    rewrites     \* history: rewrites so far

files  == <<packageJson, packageLock, others>>
igVars == <<files, online, step, found, declared, present, locked, queries, exitStatus, seen, unasked, rewrites>>

Project == "<project>"
NoVersion == ""

\* A file that is missing, cannot be read, exceeds the cap, is not JSON, or is as it should be.
States == {"missing", "unreadable", "large", "garbled", "good"}
ManifestFiles == [state : States \ {"good"}, holds : {[deps |-> {}, scripts |-> {}]}]
                    \cup [state : {"good"}, holds : Manifests]
LockFiles == [state : States \ {"good"}, copies : {{}}] \cup [state : {"good"}, copies : SUBSET Copies]

-----------------------------------------------------------------------------
(* The checks *)

\* depNameFromPath: the name of the directory, whatever package is in it; none outside node_modules.
DepName(copy) == IF copy.path = <<>> THEN "" ELSE Last(copy.path)

Named(copies) == {c \in copies : DepName(c) # ""}

\* A variant that keeps one version of each name.
LockedVersions_OnePerName(copies) ==
    {CHOOSE pair \in {<<DepName(c), c.version>> : c \in copies} : pair[1] = DepName(d) : d \in Named(copies)}

\* Every distinct version of each name, nested ones included; a copy without a name is skipped.
LockedVersions(copies) == {<<DepName(c), c.version>> : c \in Named(copies)}

NamesOf(pairs) == {pair[1] : pair \in pairs}

\* A variant that has nothing to compare with when the lock gave no version.
Drift_EmptyIsFine(deps, pairs, lockPresent) ==
    IF lockPresent /\ pairs # {} THEN {<<d, High>> : d \in deps \ NamesOf(pairs)}
    ELSE IF lockPresent THEN {} ELSE {<<Project, High>> : d \in deps}

Drift(deps, pairs, lockPresent) ==
    IF lockPresent THEN {<<d, High>> : d \in deps \ NamesOf(pairs)}
    ELSE {<<Project, High>> : d \in deps}

CompetingLockfiles(lockPresent) ==
    IF Cardinality(others) + (IF lockPresent THEN 1 ELSE 0) > 1 THEN {<<Project, Medium>>} ELSE {}

InstallLifecycle == {"preinstall", "install", "postinstall", "prepare"}

\* Only the scripts npm runs by itself are matched against the patterns.
ScanScripts(scripts) ==
    {<<Project, Info>> : s \in {t \in scripts : t.name \in InstallLifecycle}}
        \cup {<<Project, s.matches>> : s \in {t \in scripts : t.name \in InstallLifecycle /\ t.matches >= High}}

\* A date in the future is fresh too; without a window, or a date, nothing is.
TooFresh(pair) == CooldownDays > 0 /\ pair \in DOMAIN Published /\ Published[pair] < CooldownDays

Cooldown(pairs) == {<<pair[1], Medium>> : pair \in {q \in pairs : TooFresh(q)}}

Advisories(pair) ==
    (IF pair \in Malicious THEN {<<pair[1], Critical>>} ELSE {})
        \cup (IF pair \in Vulnerable THEN {<<pair[1], Medium>>} ELSE {})

\* Each line is decoded before it is matched; a tool that only the decoded file shows, in a
\* comment, is reported once.
ScanBuildFile(lines) ==
    LET code == {l \in lines : ~l.comment}
        calls == {l \in code : l.tool # "none"}
        obfuscated == {l \in calls : l.tool = "hidden" \/ l.quoted}
        revealed == (\E l \in lines : l.tool = "hidden") /\ (\A l \in lines : l.tool # "plain")
    IN  {<<Project, Critical>> : l \in obfuscated \cup {m \in code : m.pipe}}
            \cup {<<Project, High>> : l \in calls \ obfuscated}
            \cup (IF revealed /\ calls = {} THEN {<<Project, Medium>>} ELSE {})

-----------------------------------------------------------------------------
(* Verdicts *)

Worst(findings, package) == Max({Info} \cup {f[2] : f \in {g \in findings : g[1] = package}})
Decide(worst) == IF worst >= High THEN "BLOCK" ELSE IF worst >= Medium THEN "REVIEW" ELSE "SAFE"

Build(findings, pairs) ==
    [p \in {f[1] : f \in findings} \cup NamesOf(pairs) |-> Decide(Worst(findings, p))]

\* 1 for a BLOCK, before 2 for anything of Medium or more.
GateCode(findings, pairs) ==
    LET verdicts == Build(findings, pairs)
    IN  IF \E p \in DOMAIN verdicts : verdicts[p] = "BLOCK" THEN 1
        ELSE IF \E f \in findings : f[2] >= Medium THEN 2 ELSE 0

-----------------------------------------------------------------------------
(* The check command *)

IGInit ==
    /\ packageJson \in ManifestFiles /\ packageLock \in LockFiles
    /\ others \in SUBSET {"yarn.lock", "pnpm-lock.yaml"}
    /\ online \in BOOLEAN
    /\ step = "manifest"
    /\ found = {} /\ declared = {} /\ present = FALSE /\ locked = {} /\ queries = {} /\ exitStatus = 0
    /\ seen = {} /\ unasked = {} /\ rewrites = 0

\* Scan: without a manifest there is nothing to guard, and no lock is read.
ReadManifest ==
    /\ step = "manifest"
    /\ found' = CASE packageJson.state = "missing" -> {<<Project, Info>>}
                  [] packageJson.state = "unreadable" -> {<<Project, Low>>}
                  [] packageJson.state \in {"large", "garbled"} -> {<<Project, Medium>>}
                  [] packageJson.state = "good" -> ScanScripts(packageJson.holds.scripts)
    /\ declared' = packageJson.holds.deps
    /\ step' = IF packageJson.state = "good" THEN "stat" ELSE "ask"
    /\ UNCHANGED <<files, online, present, locked, queries, exitStatus, seen, unasked, rewrites>>

StatLocks ==
    /\ step = "stat"
    /\ present' = (packageLock.state # "missing")
    /\ found' = found \cup CompetingLockfiles(packageLock.state # "missing")
    /\ step' = "lock"
    /\ UNCHANGED <<files, online, declared, locked, queries, exitStatus, seen, unasked, rewrites>>

\* A lock that cannot be read leaves no finding of its own.
ReadPackageLock ==
    /\ step = "lock"
    /\ locked' = IF present THEN LockedVersions(packageLock.copies) ELSE {}
    /\ seen' = IF present THEN packageLock.copies ELSE {}
    /\ found' = found \cup Drift(declared, locked', present)
                      \cup (IF present /\ packageLock.state \in {"large", "garbled"} THEN {<<Project, Medium>>} ELSE {})
    /\ queries' = {pair \in locked' : pair[2] # NoVersion}
    /\ step' = "ask"
    /\ UNCHANGED <<files, online, declared, present, exitStatus, unasked, rewrites>>

\* One query for each version; one that fails, or comes after the deadline, is a Low finding.
Ask(pair) ==
    /\ step = "ask" /\ online /\ pair \in queries
    /\ queries' = queries \ {pair}
    /\ \/ found' = found \cup Advisories(pair) /\ UNCHANGED unasked
       \/ found' = found \cup {<<pair[1], Low>>} /\ unasked' = unasked \cup {pair}
    /\ UNCHANGED <<files, online, step, declared, present, locked, exitStatus, seen, rewrites>>

Judge ==
    /\ step = "ask" /\ (queries = {} \/ ~online)
    /\ \E lines \in SUBSET BuildLines :
           found' = found \cup Cooldown(locked) \cup ScanBuildFile(lines)
                          \cup (IF online THEN {} ELSE {<<Project, Info>>})
    /\ unasked' = unasked \cup queries
    /\ exitStatus' = GateCode(found', locked)
    /\ step' = "done"
    /\ UNCHANGED <<files, online, declared, present, locked, queries, seen, rewrites>>

Check == ReadManifest \/ StatLocks \/ ReadPackageLock \/ (\E pair \in queries : Ask(pair)) \/ Judge

-----------------------------------------------------------------------------
(* The audit command: what ran during an install, from npm's logs *)

\* A line past the cap is not read; without "lifecycle" in it, a line that names no package is prose.
Event(line) == line.early /\ line.hook # "none" /\ (line.named \/ line.lifecycle)

\* The events of the logs that could be opened; without them, as without a logs directory, one Info
\* finding.  A directory, or a configuration, that cannot be read ends the command with 1.
Audit ==
    /\ step = "manifest"
    /\ \/ \E lines \in SUBSET LogLines :
              LET events == {l \in lines : Event(l)}
              IN  /\ found' = IF events = {} THEN {<<Project, Info>>} ELSE {<<l.hook, Medium>> : l \in events}
                  /\ exitStatus' = IF events = {} THEN 0 ELSE 2
       \/ found' = {} /\ exitStatus' = 1
    /\ step' = "audited"
    /\ UNCHANGED <<files, online, declared, present, locked, queries, seen, unasked, rewrites>>

\* npm, or anybody else, writes the project's files while they are read.
Rewrite ==
    /\ step \in {"stat", "lock"} /\ rewrites < MaxRewrites
    /\ rewrites' = rewrites + 1
    /\ \/ packageJson' \in ManifestFiles /\ UNCHANGED packageLock
       \/ packageLock' \in LockFiles /\ UNCHANGED packageJson
    /\ UNCHANGED <<others, online, step, found, declared, present, locked, queries, exitStatus, seen, unasked>>

IGNext == Check \/ Audit \/ Rewrite

IGSpec == IGInit /\ [][IGNext]_igVars

-----------------------------------------------------------------------------
(* Properties *)

Passed == step = "done" /\ exitStatus # 1

\* The gate opens (an exit code other than 1) only for a lock in which no copy, however deep,
\* is a release OSV answers is malicious.  Excepted are a copy with no version in the lock, one
\* OSV gave no answer for, one installed under another package's name, and one outside
\* node_modules, which has no name to ask about (LockedVersions, osvCheck, Build and the CI gate).
KnownMaliciousIsBlocked ==
    Passed => \A c \in seen :
        <<c.package, c.version>> \in Malicious =>
            \/ c.version = NoVersion
            \/ <<c.package, c.version>> \in unasked
            \/ DepName(c) # c.package

\* The gate opens only for a manifest each of whose dependencies is in the lock under its name, at
\* any depth: also when the lock cannot be read or parsed, or changes under the command (Scan, Drift).
PassMeansPinned ==
    Passed => \A d \in declared : \E c \in seen : DepName(c) = d

\* Every copy in the lock that is malicious is blocked, once OSV has answered for every version
\* it was asked about: "every (name, version) actually installed is checked"
\* (internal/lockfile/lockfile.go).  The query goes by the directory's name.
EveryCopyIsChecked ==
    Passed /\ unasked = {} => \A c \in seen : c.version # NoVersion => <<c.package, c.version>> \notin Malicious
=============================================================================
