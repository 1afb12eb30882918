---------------------------- MODULE Honeytoken ----------------------------
(***************************************************************************)
(* credsentinel: planting decoys, watching them, and the exposure scan     *)
(* that folds the watch into its report (credsentinel/main.go,             *)
(* internal/honeytoken, internal/scan and the scanners it calls).  A       *)
(* command is a process of its own; the files are what the commands and    *)
(* everybody else share, and each system call on a decoy is a step.        *)
(*                                                                         *)
(* The content of a file is a number: the deployment that wrote it, or one *)
(* of the constants below.                                                 *)
(***************************************************************************)
EXTENDS Severities, Sequences, SequencesExt, FiniteSetsExt, TLC

CONSTANTS
    Decoys,     \* the decoys, in the order Decoys() lists them
    Lines,      \* lines a credential file may hold: see LineSeverity
    Gitleaks,   \* ways a run of gitleaks may end
    Trufflehog, \* ways a run of trufflehog may end
    Commands,   \* commands that may run at the same time
    MaxTime, MaxDeploys, MaxRuns, MaxForeign, MaxCrashes \* bounds, for model checking only

ASSUME HoneytokenAssumption ==
    /\ Decoys \in Seq(Range(Decoys)) \ {<<>>} /\ IsInjective(Decoys)
    /\ Gitleaks \subseteq {"absent", "clean", "hits", "error", "garbled", "failed"}
    /\ Trufflehog \subseteq {"absent", "clean", "verified", "error", "failed"}
    /\ {MaxTime, MaxDeploys, MaxRuns, MaxForeign, MaxCrashes} \subseteq Nat

VARIABLES
    now,          \* the clock, in ticks of the file system's time stamps
    file,         \* what is at each decoy's path
    manifest,     \* honeytokens.json: whether it can be parsed, and its records
    deploy,       \* the deploy command
    cmd,          \* the watch and scan commands
    spent,        \* history: deployments, runs, foreign acts and crashes so far
    evidence,     \* history: decoys read by others since their baseline, out of reach of a restore
    foreignReads, \* history: decoys read by others
    left          \* history: decoys whose access time a command of the suite has moved, or will move, past a baseline

htVars == <<now, file, manifest, deploy, cmd, spent, evidence, foreignReads, left>>

Names == Range(Decoys)

Own == -1 Alien == -2 Cut == -3  \* the operator's file; altered; cut short
Generations == 1 .. MaxDeploys
DecoyContents == {Own, Alien, Cut} \cup Generations

NoFile == [there |-> FALSE, sum |-> Cut, big |-> FALSE, at |-> 0, mt |-> 0]
File(sum) == [there |-> TRUE, sum |-> sum, big |-> FALSE, at |-> now, mt |-> now]

Unreadable == [ok |-> FALSE, records |-> <<>>]

NoDeploy == [pc |-> "idle", todo |-> <<>>, records |-> <<>>]
NoStat == [there |-> FALSE, at |-> 0, mt |-> 0, evidence |-> FALSE, altered |-> FALSE, excused |-> FALSE]
NoRun == [pc |-> "idle", readonly |-> FALSE, roots |-> FALSE, worst |-> Info, exposed |-> FALSE,
          todo |-> <<>>, stat |-> NoStat, back |-> <<0, 0>>, hash |-> "none", seen |-> <<>>]

HTInit ==
    /\ now = 0
    /\ file \in [Names -> {NoFile, File(Own)}]
    /\ manifest = Unreadable
    /\ deploy = NoDeploy
    /\ cmd = [c \in Commands |-> NoRun]
    /\ spent = [deploys |-> 0, runs |-> 0, foreign |-> 0, crashes |-> 0]
    /\ evidence = {} /\ foreignReads = {} /\ left = {}

Record(c) == Head(cmd[c].todo)
At(c) == file[Record(c).name]

\* c is about to move the decoy's access time, or to put an older one back.
Holds(c, d) == cmd[c].pc \in {"read", "restore"} /\ ~cmd[c].readonly /\ Record(c).name = d
Busy(c, d) == \E other \in Commands \ {c} : Holds(other, d)

\* The baselines that somebody may still compare with.
Baselines == ToSet(manifest.records) \cup ToSet(deploy.records) \cup UNION {ToSet(cmd[c].todo) : c \in Commands}

-----------------------------------------------------------------------------
(* Deploy: O_EXCL, write, stat the baseline, then the manifest, which is   *)
(* truncated before it is written.                                         *)

Decoy == Head(deploy.todo)
NextDecoy(d) == [d EXCEPT !.todo = Tail(@), !.pc = IF Len(d.todo) = 1 THEN "save" ELSE "create"]

DeployStart ==
    /\ deploy.pc = "idle" /\ spent.deploys < MaxDeploys
    /\ spent' = [spent EXCEPT !.deploys = @ + 1]
    /\ deploy' = [pc |-> "create", todo |-> Decoys, records |-> <<>>]
    /\ UNCHANGED <<now, file, manifest, cmd, evidence, foreignReads, left>>

\* A variant without O_EXCL.
DeployCreate_Truncates ==
    /\ deploy.pc = "create"
    /\ deploy' = [deploy EXCEPT !.pc = "write"]
    /\ file' = [file EXCEPT ![Decoy] = File(Cut)]
    /\ UNCHANGED <<now, manifest, cmd, spent, evidence, foreignReads, left>>

\* A path that exists is skipped, and so is one that cannot be made.
DeployCreate ==
    /\ deploy.pc = "create"
    /\ IF file[Decoy].there
       THEN deploy' = NextDecoy(deploy) /\ UNCHANGED file
       ELSE /\ deploy' = [deploy EXCEPT !.pc = "write"]
            /\ file' = [file EXCEPT ![Decoy] = File(Cut)]
    /\ UNCHANGED <<now, manifest, cmd, spent, evidence, foreignReads, left>>

\* A failed write leaves the file it has made.
DeployWrite ==
    /\ deploy.pc = "write"
    /\ \/ deploy' = NextDecoy(deploy) /\ UNCHANGED file
       \/ /\ deploy' = [deploy EXCEPT !.pc = "stat"]
          /\ file' = IF file[Decoy].there
                     THEN [file EXCEPT ![Decoy].sum = spent.deploys, ![Decoy].mt = now]
                     ELSE file
    /\ UNCHANGED <<now, manifest, cmd, spent, evidence, foreignReads, left>>

DeployStat ==
    /\ deploy.pc = "stat"
    /\ deploy' = NextDecoy(
           IF file[Decoy].there
           THEN [deploy EXCEPT !.records = Append(@, [name |-> Decoy, sum |-> spent.deploys,
                                                       at |-> file[Decoy].at, mt |-> file[Decoy].mt])]
           ELSE deploy)
    /\ evidence' = evidence \ {Decoy} /\ foreignReads' = foreignReads \ {Decoy}
    /\ left' = IF \E c \in Commands : Holds(c, Decoy) /\ cmd[c].back[1] > file[Decoy].at
               THEN left \cup {Decoy} ELSE left \ {Decoy}
    /\ UNCHANGED <<now, file, manifest, cmd, spent>>

\* With no decoy the old manifest stays; otherwise it is replaced by the new records.
DeploySave ==
    /\ \/ deploy.pc = "save" /\ deploy.records = <<>> /\ deploy' = NoDeploy /\ UNCHANGED manifest
       \/ deploy.pc = "save" /\ deploy.records # <<>> /\ manifest' = Unreadable /\ deploy' = [deploy EXCEPT !.pc = "write out"]
       \/ deploy.pc = "write out" /\ manifest' = [ok |-> TRUE, records |-> deploy.records] /\ deploy' = NoDeploy
       \/ deploy.pc = "write out" /\ deploy' = NoDeploy /\ UNCHANGED manifest
    /\ UNCHANGED <<now, file, cmd, spent, evidence, foreignReads, left>>

DeployCrash ==
    /\ deploy.pc # "idle" /\ spent.crashes < MaxCrashes
    /\ spent' = [spent EXCEPT !.crashes = @ + 1]
    /\ deploy' = NoDeploy
    /\ UNCHANGED <<now, file, manifest, cmd, evidence, foreignReads, left>>

DeployStep == DeployStart \/ DeployCreate \/ DeployWrite \/ DeployStat \/ DeploySave \/ DeployCrash

-----------------------------------------------------------------------------
(* The exposure scan: gitleaks and trufflehog over the roots, trufflehog   *)
(* and the built-in scanner over the stealer targets (one file of one line *)
(* here).  No decoy is among the stealer targets, so the scan's exclusion  *)
(* of decoys changes nothing.                                              *)

Worse(c, s) == [cmd EXCEPT ![c].worst = Max({@, s})]

\* Only the output is read: a run that fails without output counts as clean.
GitleaksSeverity(ended) ==
    CASE ended = "hits" -> High
      [] ended \in {"error", "garbled"} -> Low
      [] ended \in {"absent", "clean", "failed"} -> Info

TrufflehogSeverity(ended) ==
    CASE ended = "verified" -> Critical
      [] ended = "error" -> Low
      [] ended \in {"absent", "clean", "failed"} -> Info

\* A provider's key shape, or an assignment of a long random-looking token that no rule has matched.
LineSeverity(line) ==
    CASE line.shape -> High
      [] ~line.shape /\ line.assigned /\ line.random -> Medium
      [] OTHER -> Info

StartRun(c) ==
    /\ cmd[c].pc \in {"idle", "done"} /\ spent.runs < MaxRuns
    /\ spent' = [spent EXCEPT !.runs = @ + 1]
    /\ \E scan, roots, readonly \in BOOLEAN :
           cmd' = [cmd EXCEPT ![c] = [NoRun EXCEPT !.pc = IF scan THEN "roots" ELSE "load",
                                                   !.roots = roots /\ scan, !.readonly = readonly]]
    /\ UNCHANGED <<now, file, manifest, deploy, evidence, foreignReads, left>>

Present == {d \in Names : file[d].there}

\* The tools read what is under a root, the decoys too; a read-only mount keeps access times.
ScanRoots(c) ==
    /\ cmd[c].pc = "roots"
    /\ IF ~cmd[c].roots
       THEN cmd' = [cmd EXCEPT ![c].pc = "targets"] /\ UNCHANGED <<file, left>>
       ELSE \E g \in Gitleaks, t \in Trufflehog :
            /\ cmd' = [Worse(c, Max({GitleaksSeverity(g), TrufflehogSeverity(t)})) EXCEPT ![c].pc = "targets", ![c].roots = FALSE]
            /\ IF (g = "absent" /\ t = "absent") \/ cmd[c].readonly
               THEN UNCHANGED <<file, left>>
               ELSE /\ file' = [d \in Names |-> IF file[d].there THEN [file[d] EXCEPT !.at = now] ELSE file[d]]
                    /\ left' = left \cup Present
    /\ UNCHANGED <<now, manifest, deploy, spent, evidence, foreignReads>>

ScanTargets(c) ==
    /\ cmd[c].pc = "targets"
    /\ \E line \in Lines, present, readable, fold \in BOOLEAN, t \in Trufflehog :
           LET builtin == IF readable THEN LineSeverity(line) ELSE Low
               severities == IF present THEN {builtin, TrufflehogSeverity(t)} ELSE {Info}
           IN  cmd' = [Worse(c, Max(severities)) EXCEPT
                           ![c].pc = IF fold THEN "load" ELSE "done",
                           ![c].exposed = present /\ readable /\ builtin >= Medium]
    /\ UNCHANGED <<now, file, manifest, deploy, spent, evidence, foreignReads, left>>

-----------------------------------------------------------------------------
(* The watch: one stat of each decoy, and for those whose access time has  *)
(* not moved a second stat, a read and the times put back.                 *)

\* A manifest that is missing or cannot be parsed leaves nothing to watch.
LoadManifest(c) ==
    /\ cmd[c].pc = "load"
    /\ cmd' = [cmd EXCEPT ![c].pc = IF manifest.ok THEN "stat" ELSE "done", ![c].todo = manifest.records]
    /\ UNCHANGED <<now, file, manifest, deploy, spent, evidence, foreignReads, left>>

\* CheckRecord, for a hash that is right, wrong, or not known.
CheckRecord(record, there, at, mt, hash) ==
    CASE ~there -> "missing"
      [] there /\ hash = "differs" -> "modified"
      [] there /\ hash # "differs" /\ at > record.at -> "tripped"
      [] there /\ hash # "differs" /\ at <= record.at /\ mt > record.mt -> "touched"
      [] OTHER -> "quiet"

Severity(verdict) ==
    CASE verdict \in {"modified", "tripped", "ballooned"} -> Critical
      [] verdict = "missing" -> High
      [] verdict = "touched" -> Low
      [] verdict = "quiet" -> Info

Altered(record) == file[record.name].sum # record.sum \/ file[record.name].big

\* The finding of the record, the summary's if it is Medium or worse, and the next record.
Found(c, stat, verdict, hash) ==
    LET worst == IF Severity(verdict) >= Medium THEN Critical ELSE Severity(verdict)
        finding == [verdict |-> verdict, hash |-> hash, evidence |-> stat.evidence,
                    altered |-> stat.altered, excused |-> stat.excused]
    IN  [Worse(c, worst) EXCEPT
            ![c].todo = Tail(@), ![c].seen = Append(@, finding), ![c].stat = NoStat,
            ![c].back = <<0, 0>>, ![c].hash = "none",
            ![c].pc = IF Len(cmd[c].todo) = 1 THEN "done" ELSE "stat"]

\* An access time that has moved is reported without reading the file again.
Stat(c) ==
    /\ cmd[c].pc = "stat"
    /\ LET name == Record(c).name
           stat == [there |-> At(c).there, at |-> At(c).at, mt |-> At(c).mt,
                    evidence |-> name \in evidence, altered |-> At(c).there /\ Altered(Record(c)),
                    excused |-> name \in foreignReads \cup left \/ Busy(c, name)]
           verdict == IF At(c).there /\ At(c).big THEN "ballooned"
                      ELSE CheckRecord(Record(c), stat.there, stat.at, stat.mt, "none")
       IN  cmd' = IF ~stat.there \/ At(c).big \/ stat.at > Record(c).at
                  THEN Found(c, stat, verdict, "none")
                  ELSE [cmd EXCEPT ![c].stat = stat, ![c].pc = "hash"]
    /\ UNCHANGED <<now, file, manifest, deploy, spent, evidence, foreignReads, left>>

HashVerdict(c, hash) == CheckRecord(Record(c), TRUE, cmd[c].stat.at, cmd[c].stat.mt, hash)

\* A variant that will put back the times of the manifest.
HashStat_Baseline(c) ==
    /\ cmd[c].pc = "hash" /\ At(c).there
    /\ cmd' = [cmd EXCEPT ![c].back = <<Record(c).at, Record(c).mt>>, ![c].pc = "read"]
    /\ UNCHANGED <<now, file, manifest, deploy, spent, evidence, foreignReads, left>>

\* hashFileNoLeak: the times to put back.  A file that has gone has no hash, and no finding either.
HashStat(c) ==
    /\ cmd[c].pc = "hash"
    /\ cmd' = IF At(c).there
              THEN [cmd EXCEPT ![c].back = <<At(c).at, At(c).mt>>, ![c].pc = "read"]
              ELSE Found(c, cmd[c].stat, HashVerdict(c, "none"), "none")
    /\ left' = IF Busy(c, Record(c).name) THEN left \cup {Record(c).name} ELSE left
    /\ UNCHANGED <<now, file, manifest, deploy, spent, evidence, foreignReads>>

HashRead(c) ==
    /\ cmd[c].pc = "read"
    /\ IF At(c).there
       THEN /\ cmd' = [cmd EXCEPT ![c].hash = IF Altered(Record(c)) THEN "differs" ELSE "same", ![c].pc = "restore"]
            /\ file' = IF cmd[c].readonly THEN file ELSE [file EXCEPT ![Record(c).name].at = now]
       ELSE cmd' = Found(c, cmd[c].stat, HashVerdict(c, "none"), "none") /\ UNCHANGED file
    /\ UNCHANGED <<now, manifest, deploy, spent, evidence, foreignReads, left>>

\* A variant without Chtimes.
Restore_Never(c) ==
    /\ cmd[c].pc = "restore"
    /\ cmd' = Found(c, cmd[c].stat, HashVerdict(c, cmd[c].hash), cmd[c].hash)
    /\ UNCHANGED <<now, file, manifest, deploy, spent, evidence, foreignReads, left>>

\* Chtimes; when it fails the hash is thrown away with the error.
Restore(c) ==
    /\ cmd[c].pc = "restore"
    /\ IF At(c).there /\ ~cmd[c].readonly
       THEN /\ file' = [file EXCEPT ![Record(c).name].at = cmd[c].back[1], ![Record(c).name].mt = cmd[c].back[2]]
            /\ cmd' = Found(c, cmd[c].stat, HashVerdict(c, cmd[c].hash), cmd[c].hash)
       ELSE cmd' = Found(c, cmd[c].stat, HashVerdict(c, "none"), "none") /\ UNCHANGED file
    /\ UNCHANGED <<now, manifest, deploy, spent, evidence, foreignReads, left>>

Kill(c) ==
    /\ cmd[c].pc \notin {"idle", "done"} /\ spent.crashes < MaxCrashes
    /\ spent' = [spent EXCEPT !.crashes = @ + 1]
    /\ cmd' = [cmd EXCEPT ![c] = NoRun]
    /\ left' = left \cup {d \in Names : Holds(c, d) /\ cmd[c].pc = "restore"}
    /\ UNCHANGED <<now, file, manifest, deploy, evidence, foreignReads>>

Step(c) == StartRun(c) \/ ScanRoots(c) \/ ScanTargets(c) \/ LoadManifest(c) \/ Stat(c) \/ HashStat(c)
              \/ HashRead(c) \/ Restore(c) \/ Kill(c)

-----------------------------------------------------------------------------
(* Everybody else. *)

Foreign(d) ==
    /\ file[d].there /\ spent.foreign < MaxForeign
    /\ spent' = [spent EXCEPT !.foreign = @ + 1]
    /\ UNCHANGED <<now, manifest, deploy, cmd, left>>

Read(d) ==
    /\ Foreign(d)
    /\ file' = [file EXCEPT ![d].at = now]
    /\ foreignReads' = foreignReads \cup {d}
    /\ evidence' = IF (\A r \in Baselines : r.name = d => now > r.at) /\ (\A c \in Commands : ~Holds(c, d))
                   THEN evidence \cup {d} ELSE evidence

Write(d) ==
    /\ Foreign(d)
    /\ \E big \in BOOLEAN : file' = [file EXCEPT ![d].sum = Alien, ![d].big = big, ![d].mt = now]
    /\ UNCHANGED <<evidence, foreignReads>>

Delete(d) ==
    /\ Foreign(d)
    /\ file' = [file EXCEPT ![d] = NoFile]
    /\ UNCHANGED <<evidence, foreignReads>>

Tick ==
    /\ now < MaxTime
    /\ now' = now + 1
    /\ UNCHANGED <<file, manifest, deploy, cmd, spent, evidence, foreignReads, left>>

HTNext ==
    \/ DeployStep
    \/ \E c \in Commands : Step(c)
    \/ \E d \in Names : Read(d) \/ Write(d) \/ Delete(d)
    \/ Tick

HTSpec == HTInit /\ [][HTNext]_htVars

-----------------------------------------------------------------------------
(* Properties *)

Finished(c) == cmd[c].pc = "done"
ExitCode(c) == IF cmd[c].worst >= Medium THEN 2 ELSE 0

\* A command that has finished and exits with 0 has looked at no decoy that somebody had read
\* since its baseline, or altered, and has read no credential file with a secret's shape in it.
\* Excepted are a read that falls between a watch's own stat and the times it puts back, one in
\* the tick of the baseline, and an altered decoy whose hash was lost (Watch, CheckRecord and the
\* exit codes of the command line).
CleanIsTrue ==
    \A c \in Commands : Finished(c) /\ ExitCode(c) = 0 =>
        /\ ~cmd[c].exposed
        /\ \A i \in DOMAIN cmd[c].seen :
               LET f == cmd[c].seen[i] IN ~f.evidence /\ (f.altered => f.hash = "none")

\* A decoy is reported as read only if somebody read it, or altered or replaced it, or a command
\* of the suite moved its access time and could not put it back: a scan of a root the decoy is
\* under, a watch killed before the restore, or two watches of the decoy at the same time
\* (hashFileNoLeak: "only a foreign read (the attacker) moves atime").
NoSelfTrip ==
    \A c \in Commands : \A i \in DOMAIN cmd[c].seen :
        LET f == cmd[c].seen[i] IN f.verdict = "tripped" => f.excused \/ f.altered

\* An altered decoy is reported as modified, as read or as swollen, never as less: what CheckRecord
\* says of a content change.  Under the shipped unit the home directory is read-only, the times
\* cannot be put back, and the hash is dropped with the error.
AlteredIsCritical ==
    \A c \in Commands : \A i \in DOMAIN cmd[c].seen :
        LET f == cmd[c].seen[i] IN f.altered => Severity(f.verdict) = Critical

\* Deploying never changes a file it has not made (the O_EXCL in Deploy): what a command does to
\* the operator's own file at a decoy's path is at most to read it and put its times back.
OwnFileKept ==
    [][\A d \in Names : file[d].sum = Own => file'[d].sum = Own \/ spent'.foreign > spent.foreign]_htVars

\* Every decoy a finished deployment has planted is in the manifest.
AllPlantedAreWatched ==
    deploy.pc = "idle" /\ manifest.ok =>
        \A d \in Names : file[d].there /\ file[d].sum \in Generations
            => \E i \in DOMAIN manifest.records : manifest.records[i].name = d
=============================================================================
