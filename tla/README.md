# TLA+ specifications of the defensive suite

The suite watches single-operator Linux hosts. `agent` follows Tetragon's event
export, raises findings, posts them to a `collector`, and, when armed, contains
what it finds; six one-shot scanners (`authwatch`, `bpfsentry`, `credsentinel`,
`egresswatch`, `instguard`, `posturescan`) report to the same collector. The
specifications here cover the agent, which acts and must not lose what it saw,
the collector, which must not lose what it was sent, and the four scanners whose
answers depend on what others do while they look. `PROJECT.json` ties every
definition to source lines.

## 1. The system

### Inventory

| Component | State it keeps | Operations | What makes it correct |
|---|---|---|---|
| manual response (`agent/internal/respond/{responder,audit,http,socket}.go`) | rate events, kill-switch file, audit file, listener, in-flight handlers | `Respond`, `RespondRescue`, `Serve`, audit `Intent`/`Result` | at most the budget per window; a refusal is justified; nothing runs past the kill switch; intent is on record before execution; rescue always gets through |
| executor (`executor.go`, `guard.go`) | none; acts on processes, authorized_keys and its backup, the nft table, files | kill, isolate, de-isolate, quarantine, unquarantine, revoke-key, restore-key, block-hash, quarantine-fd | a failing system call leaves a state that is reported and recoverable; data is never destroyed; the operator is not locked out |
| lockout watchdog (`watchdog.go`, `undo_journal.go`) | debounce streak, undo journal | `CheckAndRollback` | no rollback on a blip; a rollback that claims success did put the host back; a failure is CRITICAL |
| grace queue, auto-actuator (`grace_queue.go`, `autoactuator.go`) | items by dedup key, timers, `done` channels | `ActOn`, `Enqueue`, `fire`, `Cancel` | a veto is final; no action before its window is over; every half-done action stays vetoable or is alerted |
| correlator and rules (`correlate.go`, `rules.go`) | tracked processes, pid index, suspicions, seen destinations | `Process` | an armed process that connects out is an incident; a wrong process is named only when the log is incomplete |
| auto-response bridge (`auto.go`, `autoguards.go`) | dedup map, rate window, latch, throttle | `Consider` | decisions stay inside the budget; the target is the process that connected |
| delivery (`pipeline.go` Buffer, `spool.go`, `main.go` flush) | buffer and its drop counter, spool files and sequence number | `Add`, `flush`, `Replay`, `Write`, restart | no finding is lost silently; oldest first; at-least-once; the backlog drains |
| log tail and checkpoint (`pipeline.go` `TailWithState`) | inode, offset, partial line, checkpoint file | poll, rotate, save, restore | a line is processed once unless a rotation or restart explains otherwise |
| collector store (`collector/internal/store`) | reports, snapshot | `AddReport`, `prune`, `save`, `load`, `LatestFindings`, `Summary`, `Recent` | an accepted report goes only by age or by the caps; what is shown is current; a quiet agent is listed |
| collector server and response proxy (`collector/internal/{server,respond}`) | tokens, audit rows | ingest, query, respond | every answer an operator got has its row |
| credsentinel (`honeytoken`, `scan`) | decoys, manifest, the decoys' own times | deploy, watch, scan | a clean watch is true; the suite does not trip its own decoys |
| instguard (`lockfile`, `osv`, `verdict`) | none | check, audit | the gate does not open for what is known to be malicious or is not pinned |
| bpfsentry (`enumerate`, `baseline`) | allowlist, memory image | baseline, diff, status | a clean diff means an unchanged set; a hidden program is told |
| authwatch (`baseline`, `pkgverify`, `pam`, `x11lock`) | baseline | baseline, check | a changed or foreign file is told; a running X server is not suspected |
| egresswatch, posturescan | none | one sequential pass | the table of what is expected |
| Tetragon parser, arming gate, configuration, preflight, dashboard, console, scripts | none or files | read-only | see PROJECT.json, `components` |

### How the parts interact

```
Tetragon log --> tail --> correlator --> findings --> buffer --> flush --> collector
 (kernel)                     |                                   |  ^
                              v                                   v  |
                           bridge --> actuator --> grace queue   spool
                                                       |
 operator --> socket/collector proxy --> Responder <---+<--- lockout watchdog
                                             |
                                        audit, executor --> host
```

One goroutine tails the log and calls correlator, bridge and `Buffer.Add` for
each line. A ticker goroutine flushes; `cmdRun` flushes once more on its own
goroutine after the tail has returned. HTTP handlers call `Respond`
concurrently. Each grace timer fires on a goroutine of its own, and operator
vetoes come on others. The kernel changes pids and images while all of them
read `/proc`. The scanners are started by timers, each a process of its own that
reads files and calls commands one after the other and posts one report.

### What is hard here

- *Windows between locked sections*: limiter stamp and limiter lock; `Dropped`
  and `Drain`; `fire`'s two sections and `Cancel`'s; three system calls of a key
  edit. The modules split steps exactly where the code releases a lock or makes
  a system call.
- *Identity*: exec_id, pid and start time, pid reuse, fork, execve, exec_ids
  missing from some event shapes, lines that arrive late.
- *Failure*: system calls that fail half way, a collector that commits and does
  not answer, crashes between POST and removal, disk errors.
- *Bounds*: rate budget, tracked processes, buffer and spool caps.
- *Shutdown*: drain time-outs, two flushes at once.
- *Snapshots that are not*: the log behind an offset, a lock file between two
  reads, the kernel's programs between two queries, a baseline from before, the
  access times a watch itself disturbs.
- *Silence taken for an answer*: commands killed by a deadline, errors dropped.

`PROJECT.json` lists each at its line, with the properties that watch it.

## 2. The modules

| Module | Models | Built on |
|---|---|---|
| `Responder` | the response path from handler to audit, and the shutdown of the socket | |
| `ResponderProofs` | theorems about it | `Responder` |
| `Executor` | `RealExecutor`, one system call per step, each may fail | |
| `Watchdog` | other callers' requests, the journal, the debounced rollback | `Executor` |
| `WatchdogProofs` | theorems about both | `Watchdog` |
| `GraceQueue` | timers, expiry callbacks and vetoes of held actions | |
| `GraceQueueProofs` | theorems about it | `GraceQueue` |
| `Channel` | abstract specification: what delivery promises | |
| `Delivery` | buffer, flush, spool, restart, collector; implements `Channel` | `Channel` (INSTANCE) |
| `DeliveryProofs` | theorems about it, the refinement among them | `Delivery` |
| `Correlator` | the correlator as operators over its state record | |
| `Bridge` | the bridge as operators over its state record | `Correlator` |
| `Detection` | the host, its event log and the tail goroutine that runs both | `Bridge` |
| `DetectionProofs` | theorems about all three | `Detection` |
| `Tail` | the log tail, its checkpoint and what writes and rotates the log | |
| `TailProofs` | theorems about it | `Tail` |
| `Collector` | the store, its snapshot, the handlers and the response proxy | |
| `CollectorProofs` | theorems about it | `Collector` |
| `Severities` | the ranks of findings, of a package that is copied from scanner to scanner | |
| `Honeytoken` | credsentinel: deploying and watching decoys, the scans beside it | `Severities` |
| `Instguard` | instguard's gate and its pass over the logs | `Severities` |
| `Bpfsentry` | bpfsentry's three commands and the kernel they look at | `Severities` |
| `Authwatch` | authwatch's pass and baseline, and the host that changes under it | `Severities` |
| `HostProofs` | theorems about the four of them | the four |
| `MC*` | values for TLC and symmetry | the module named |

### Responder

A request has a *shape* (entry point, reverse or forward action, valid or not,
dry-run override); a shape is all of a request the brakes look at. `Begin` is
the handler's entry with the time stamp `Respond` takes before the limiter's
lock; `CheckKillSwitch`, `Allow`, `WriteIntent`, `Execute`, `WriteResult` follow
the order of `Responder.Respond`. `RespondRescue` takes the same path without
the two brakes. The stamp may be older than the moment `allow` runs by at most
`MaxLag`. `Shutdown`, `ServeReturns`, `CloseAudit` and `Exit` are the stop
sequence of `cmdRun`. Both failures that void the audit guarantee are in the model:
a write of a record may fail, and `Serve` may return with handlers still running.
The history says which records a write lost (`unwritten`) and whom `Serve` left
behind (`abandoned`), and `TrailComplete` and `CloseAfterLastWrite` name the records
and handlers that can be missing; that nothing runs unaudited is refuted. `grantedAt`
and `shielded` are history too. A rescue is no handler: nothing at the stop waits
for it (and nothing in this build calls it).

### Executor and Watchdog

The host is the key lines of one authorized_keys file and its single backup, the
nft table and its accepted interfaces, one fapolicyd rule, and one quarantinable
file (its origin and the copies of it), the image of a process. Every call has a
program counter naming the system call it is about to make; a step performs it or
fails. A file written with `os.WriteFile` or `O_TRUNC` is truncated in one step and
written in the next. `quarantine-fd` is `Resolve`, `Fstat`, `MoveFD`, and either
`Confirm` or `RollBack`: `data` holds the file whose inode it has noted. That an
image which was removed still resolves to its path is the disjunct `~Held("old")`
of `Resolve`. Whether fapolicyd reloads its rules is not looked at, by the code or
by the model. `Recreate` is another program that
writes at the origin. In `Watchdog`, a forward action that succeeded is
journaled (nothing in this build calls the watchdog or writes the journal, so
this is the reading of `undo_journal.go` under which an inverse is known), the
probes change freely, and `Tick` walks the journal in reverse, one inverse call
at a time, interleaved with requests.

### GraceQueue

Items are `ActOn` calls, `KeyOf` their dedup keys. The queue's mutex makes each
locked section of `fire` and `Cancel` one step; the Responder runs between them.
A callback knows its key and not its item, as in the code: `firing[i]` is the
item the callback of item i's timer found under the key. `file` and `result`
stand for the executor and its Result, which may be a refusal or an error although
the file was moved; `braked` for the kill switch and budget.

### Channel and Delivery

Findings are numbered in the order they are produced; a report is the sequence
a flush drained. `Delivery` steps through `flush` statement by statement for
both flushers: warning, drain, replay of the spool, POST, removal, write. POST
may be refused, committed with the answer lost, or answered. Spool files may be
unreadable, a write may find the disk full, the process may crash anywhere and
restart. `Channel` says only: pending findings are delivered oldest first, or
given up on record. `ImplementsChannel` is the refinement, under the mapping

    pending   <- in memory or spooled, and not yet committed
    delivered <- committed by the collector
    abandoned <- trimmed, lost with a log entry, or in memory at a crash

### Correlator, Bridge, Detection

`Correlator` and `Bridge` are pure: `Processed(c, ev, now, start)` and
`Consider(b, ...)` return the next state records. The bridge's rate window is the
set of its decisions, each with its key and time: a key is emitted once in the
life of agentd (`dedup`), so no two are the same. `Detection` makes them run: the
host spawns, forks, executes, loads eBPF, connects and exits, writing lines; the
tail takes the oldest line, reads the start time of its pid *then*, and the
bridge reads `/proc` one step later. A rotation can take unread lines. `origin`,
`shadow` and `truth` are history: what the line at hand really happened to, what
the bridge would target, and who is suspicious by the log alone.

### Tail

The log is a sequence of *units*, the pieces of a line that may be on disk
without the rest; an offset counts units. `WriteUnit`, `RenameAway`, `Create` and
`Truncate` are Tetragon and logrotate. The tail's loop is three steps, split
where somebody else can come between: `Stat` (rotation, shrinking, nothing new),
`Read` (a bounded read, whole lines to the callback, the rest kept unless it is
too long) and `Save` (the checkpoint, which may fail). `Start` resumes from the
checkpoint when the inode number matches and the file is long enough. `gen` and
its like are history: which content a position is a position in, which the code
cannot know. A truncation may fall between `Stat` and `Read`: the read then starts
at an offset of the content before, in the middle of a line for all the code can
tell. `Mixed` counts the lines behind that offset as `blurred`, and with them the
line that the leftover of another content runs into. A rotation may fall there too:
`Read` then seeks the old offset in the file that is at the path by now, and the
callback gets a piece of a line of it behind the old file's last piece; `crossed`
counts the lines at that seam. A checkpoint that cannot be read or parsed counts as
none, and the tail starts at the end (`blind`).

### Collector

Every operation of the store is one critical section, so each is one step:
`Ingest` (with the coalescing of heartbeats, pruning and the snapshot), `Restart`,
and the read operations as operators over the state. `Load` reads the snapshot, or
cannot, and then starts with nothing while the file stays until the next save;
`unread` holds what such a start did not read, until a later one does. A report is
received when it is posted: the `received` a client may put in it is not modelled,
the suite's tools send none. The proxy's request is `Forward`, `Execute` and
`Respond` in agentd, `Returned`, `Record` and `Answer`, with the process stopping
anywhere. A result says what agentd did, did not do, would do or would refuse: it
answers refusals and plans with 200 and a result as well, and may act and answer
after the proxy has given up. The environment gives the tokens; a collector without
one refuses.

### Honeytoken

A deployment and the watch and scan commands are processes; each system call on
a decoy is a step. A file has its content, its access and change time, and what
`lstat` shows of it. A watch of one decoy is `Stat`, `HashStat`, `HashRead`,
`Restore`; the scans read the decoys that lie below their roots without putting
anything back. `evidence` and `left` are history: what a later look could still
see of a foreign read, and which times the suite itself moved. A foreign read is
evidence when its time is past that of every baseline somebody may still compare with
(`Baselines`: those of the manifest, of the deployment that is running and of the
watches that have loaded an older one) and no watch is about to put another back.

### Instguard, Bpfsentry, Authwatch

Each is one command after the other over a state that others change: npm's
files, the kernel's programs, the host's files, processes and locks. Between two
reads of the command any change may fall. What the command compares is an
operator named as in the code (`Drift`, `LockedVersions`, `Decide`; `Signature`,
`ScanHelpers`, `Missing`; `DiffOne`, `Verdict`, `Evaluate`), what it waits for
(OSV, bpftool, rpm, debsums, dpkg, aide, auditctl) answers, fails, or, in
`Authwatch`, is killed by the deadline and then looks like an answer. A baseline
or an allowlist is truncated and then written, in two steps, as `os.WriteFile`
does; a crash in between leaves it torn. A copy of a package outside `node_modules`
(a workspace) has no name in the lock, so `Instguard` asks nothing about it.
`Authwatch` captures a baseline file by file, before the truncation, and asks whether
a binary is there before it runs the verifier.

The proofs about the four scanners are in one module that extends them all, so
`Instguard`, `Bpfsentry` and `Honeytoken` name their initial states, steps, variables
and specifications with a prefix (`IGNext`, `BPNext`, `HTNext`).

## 3. Runs

| Run | Asks | Bounds |
|---|---|---|
| `responder_brakes` | do the brakes and rescue hold with two concurrent requests of every kind, a moving kill switch, shutdown and crash; which records can be missing, and whom does the close of the file wait for, when a write fails and the drain gives up? | 2 requests, budget 1 in 2 ticks, lag 1, clock 2, 1 write lost |
| `grace_veto` | is a veto final, and every held action resolved, whatever timers and vetoes race? | 3 items on one key, 2 vetoes |
| `delivery_outage` | is anything lost, overtaken or unexplainedly repeated across outages, disk errors, one crash; does the backlog drain; is the channel implemented? | 3 findings, buffer 2, spool 2, 1 lost answer, 1 restart |
| `watchdog_containment` | what can failing system calls, concurrent requests and a rollback leave behind? | 3 callers, 2 keys, 2 interfaces, 1 rollback |
| `detection_host` | is every suspicious connection reported, about the right process, within the budget? | 3 processes, 2 pids, 2 tracked, 4 lines, 1 lost, 2 starts |
| `tail_rotation` | is every line handed over, whole, whatever rotates and restarts? | 3 lines of 1, 3 and 2 units, 2 inode numbers, 3 contents, 2 starts |
| `collector_store` | what do the caps, the heartbeats, failing snapshots and a restart take away; is every answer on record? | 2 sources, 3 reports held, 3 accepted, 1 snapshot lost, 2 starts, 1 operator |
| `honeytoken_decoys` | is a clean watch true, and a trip somebody's doing, with two commands at once? | 1 decoy, 1 deployment, 2 commands, 2 foreign acts, 1 crash |
| `honeytoken_readonly` (violation) | an altered decoy below a read-only mount is reported as touched | the same, 1 foreign act |
| `instguard_gate` | what does the gate let through while the files change and OSV fails? | 5 copies, every lock and manifest over them, 1 rewrite |
| `bpfsentry_diff` | what does a diff that exits with 0 say of the kernel? | 5 programs, 2 changes |
| `authwatch_check` | is every change told, and the lock of no X server suspected that keeps running? | 3 files, 2 contents, 5 machines, 2 processes, 2 changes |

### Bounds

- *Two requests* are enough for every race of the limiter and the audit file:
  each step touches one request and the shared state; a budget of one makes the
  second the excess one. One write fails (`MaxUnwritten`): any record of either
  request, before or after any other. The proofs remove the bounds.
- *Three callers* let two requests race while a third's success is in the
  journal; two keys tell a removed key from a kept one. Nothing is probed after
  the one rollback (`MaxRollbacks`); requests go on.
- *Three items, two vetoes*: an item vetoed, one enqueued after it under the
  same key, and one more that a stray timer could apply. Different keys share
  nothing but the brakes. The proofs remove the bound.
- *Buffer 2, spool 2, three findings*: one more than each cap. `MaxSeq` stops an
  outage from filling the spool for ever: while the collector is down no flush
  starts past it, and the collector does not go down past it. The run stops
  exploring where two flushes overlap (`CONSTRAINT Serial`). `AtLeastOnceInOrder`
  and `BacklogDrains` say so themselves with an `overlap` disjunct;
  `ImplementsChannel` is claimed up to the first overlap only.
- *Three processes on two pids* allow reuse; two tracked entries make the third
  one evict; `TTL` 1 and time 3 let entries age; four lines are the shortest
  story with parent, child, connection and one more. `MaxLog` bounds how far the
  tail lags behind. Symmetry over pids and the two suspicious images is sound:
  no definition tells them apart.
- *Lines of 1, 3 and 2 units* with reads of 2 and a cap of 1 on what is kept: a
  line that no read splits, one over the cap, which a truncation can leave cut at
  the offset, and one that spans reads. Two inode
  numbers make the third content reuse one.
- *Store of three for two sources*: one report of each and one more, so that a
  heartbeat or a delta pushes something out. `Retain` 1 and `StaleAfter` 0 put
  both edges of each threshold within the clock. Two starts are one start over a
  snapshot, read or not; the proofs are about any number. Ingest and proxy share
  nothing but the process and its settings, so a run configures one or the other.
- *One decoy, two commands*: every race is about one file; a second decoy only
  repeats it, except for a deployment cut between two, which
  `AllPlantedAreWatched` is about.
- *Five copies*: a good one, a poisoned one nested below another, one without a
  version, one under an alias, and the poisoned one in a workspace.
- *Five programs*: the same program twice, other code under its name, one without
  name and tag, and one that is at no hook and uses a suspicious helper. Two
  changes are one that hides a difference and one that could make it.
- *Two changes of the host* in `Authwatch`: one that must be told and one that
  could hide it. Two processes let a lock change hands.
- History variables (`grantedAt`, `unwritten`, `abandoned`, `trimmed`, `loud`, `crashed`, `overlap`,
  `raced`, `disturbed`, `truth`, `gone`, `blind`, `crossed`, `lost`, `unread`,
  `evidence`, `steady`,
  `altered`, ...) are only written by actions and read by properties.

Deadlock checking is off except in `bpfsentry_diff`: the other models stop when
their bounded inputs are used up, and the real programs when they are done or
told to.

### What the properties say

Each run names few properties, and some are conjunctions of named parts, each
with its own comment in the module:

- `ContainmentIsSafe` (Watchdog): what is half done is reported, a blip rolls
  nothing back, authorized_keys is never empty but under a write that is going on,
  or failed and said so; a quarantine by process moves the file it has checked;
  and a revocation reported as done sticks until it is rolled back or restored.
  The two about keys except requests that worked on the file at once; that of an
  empty file and that of a file both restored and quarantined also a rollback that
  has raised a CRITICAL finding (`alerted`, which a later rollback does not clear).
- `AtLeastOnceInOrder` (Delivery): nothing is lost, overtaken, or repeated
  without a lost answer or a crash.
- What a reader of the `Collector` sees is three properties: `NoResurrection` (no
  superseded finding comes back), `LiveIsListed` (a source heard from lately is listed
  and not stale) and `ViewsAgree` (the summary says clean and counts as the listing
  does, and what is listed is in the history).

The type invariants of `Responder`, `GraceQueue`, `Watchdog`, `Delivery`, `Detection`,
`Tail` and `Collector` are proved, so no run spends a property on them.

### Properties qualified by a history, and what TLC refutes

Where the code does break a property in one known situation, the passing runs
check it outside that situation. The unqualified form is in the module too; put
in the place of the qualified one in the run's cfg it gives the counterexample,
and `PROJECT.json`, `findings`, quotes both sides.

| Refuted | Checked instead | What happens |
|---|---|---|
| `WindowRespected` (GraceQueue) | `WindowRespectedUnlessOverlap` | two vetoes of one key overlap and a later action's window is cut |
| `NoLoss` (Delivery, without `Serial`) | `AtLeastOnceInOrder` | the last flush beside the ticker's loses the drained report |
| `TrimsAnnounced` (Delivery) | | a trim between `Dropped` and `Drain` is never announced |
| `RollbackIsReal` (Watchdog) | `RollbackIsRealPerBackup` | a second revocation replaces the only backup |
| `MovesOnlyTheImage` (Watchdog) | `ActsOnChecked` | `quarantine-fd` takes what is at the image's path by now for the image |
| `RevokeSticks` without its exception (Watchdog, three keys) | `ContainmentIsSafe` | concurrent revocations: the later write restores a removed key |
| `TargetIsConnector` (Detection) | `TaskIsConnectorsUnlessHandedOver` | the identity bind accepts a process that has executed another image |
| `NothingRunsUnaudited` (Responder) | `TrailComplete` | a write of the intent fails and the action goes on |
| `ClosedBehindHandlers` (Responder) | `CloseAfterLastWrite` | a handler outlives the five seconds of the drain |
| `InodeGuardsOffset` (Tail) | `LinesIntact` | the path is opened after the inode was compared, and names another file |
| `SurvivesRestart` (Collector) | `HistoryKept` | a snapshot cannot be read at a start, and the next save replaces it |
| `OnlyFakesAreAccused` (Authwatch) | `ServerIsNotSuspected` | a server starts after the processes were read and takes over the lock |
| `CrashLosesNothing` (Tail) | `NoSilentSkip` | the checkpoint is saved before the findings leave the buffer |
| `AllPlantedAreWatched` (Honeytoken, two decoys or two deployments) | | a second deployment writes a manifest of its own decoys only |
| `EveryCopyIsChecked` (Instguard) | `KnownMaliciousIsBlocked` | a package under an alias is asked about under the alias |
| `AccusedAreHidden` (Bpfsentry) | `HiddenIsTold` | an unloaded or untagged program is called a rootkit's |

`AlteredIsCritical` (Honeytoken) has a run that ends in its counterexample,
`honeytoken_readonly`.
What a qualified property excuses it does not catch: the records and handlers named by
`unwritten` and `abandoned`, the overlaps, a second revocation, a handed over identity,
another content of the log, a lost snapshot, a package tool that gives no answer.

`NoMissedIncident` is about tracked processes that the correlator had room for;
`WrongOnlyAfterLoss` says the correlator names another process only for a pid
whose line a rotation took. The exceptions of `NoSilentSkip` (`Excused`) are a
line rotated away before it was read (`gone`); one in a file agentd started at the end
of, because it knew no such file, the file came by a rotation while agentd was down, or
the checkpoint could not be read (`blind`); an offset the file system gives no way to
tell from its own (`blurred`); and a line over the cap. `LinesIntact` excuses the seam
of a read that hit another file besides (`crossed`). `HistoryKept` excuses what a
snapshot that could not be written held (`lost`), or one that could not be read
(`unread`).

### Fairness

- `Responder!FairSpec`: weak fairness per request. A handler that has begun is a
  goroutine the Go scheduler runs; the executor is bounded by its own time-outs.
  `RescueCompletes` needs no more.
- `GraceQueue!FairSpec`: armed timers expire, their callbacks run, a Cancel that
  has begun goes on. Nothing obliges an operator to veto.
- `Delivery!FairSpec`: the ticker goroutine ticks and its flush goes on.
  `BacklogDrains` assumes in its premise that the collector stays up and the
  process is not stopped; neither is assumed of the environment.
- `Tail!FairSpec`: the service is restarted and the loop goes on (`TailStep`);
  nothing is asked of Tetragon, of logrotate or of the flush.
- `Watchdog`, `Detection`, `Collector` and the scanners state safety only: a scan is
  a sequence of bounded steps, and nothing in them waits for another actor but
  under a time-out.

## 4. Proofs

TLAPS checks these for every value of the constants that satisfies the modules'
assumptions: each module states its own, named `...Assumption`, and they ask no
more than the code does. The ones a proof needs beyond types: the watchdog is not
one of the callers and no caller is called `None`; authorized_keys has a line
(`Keys # {}`); buffer and spool caps are positive, and so are the budget, its
window, the debounce and the read size; process ids and user ids are numbers, and
there is at least one; a report is kept at least as long as its source counts as
live (days, and a minute and a half); an install script's patterns rank from 0 to 4, and no advisory is about a package
without a name;
there are finitely many eBPF programs, with different ids; there is a decoy, and none
is listed twice; gitleaks and trufflehog end in one of the ways their callers tell
apart. Bounds that only keep TLC finite (`MaxSeq`, `MaxLog`, `MaxFiles`,
`MaxChanges`, ...) may have any value. Every inductive invariant was checked by TLC on
the run's instance before it was proved.

`ResponderProofs`

- `TypeCorrect`: the type invariant.
- `RateBound`: at most `RateMax` requests pass in any window shorter than
  `RateWindow` by `MaxLag`. The property is not inductive: it speaks of requests
  granted, the code remembers `events`. `RateInv` adds that `events` holds every
  request granted inside the shortened window. A caller's stamp may be older
  than the moment it holds the lock, which both ages its own event early and
  prunes with an old cutoff; each costs at most `MaxLag`.
- `RefusalsJustified`: a rate refusal means the budget was spent in the window.
- `KillSwitchHolds`: nothing that entered under a raised switch runs.
- `AuditCorrect`: `TrailComplete`, whatever writes fail and whenever the drain ends: a
  request that is past a record has it in the file, or the open file lost that very
  record, or the record came after the close, from a rescue or from a handler that
  `Serve` had left behind. A handler that was waited for cannot be past the close.
- `DrainCorrect`: `CloseAfterLastWrite`, without an assumption on the drain: handlers
  that run behind the close are those `Serve` gave up waiting for. `DrainInv` says
  that the file is open until `Serve` has returned, and that the handlers in flight
  from then on are the ones it left behind.

`GraceQueueProofs`

- `TypeCorrect`: the type invariant.
- `VetoFinal`, `ForwardFirst`: a veto that has landed is final, and an inverse
  never precedes its forward, with any number of items, keys and vetoes and
  without any assumption on overlaps. `QueueInv` says why: a key holds only an
  item of its own that is in the queue; no two callbacks apply one item; a
  recorded result belongs to an item being applied or applied; a landed veto has
  either taken a pending item from its key, where no callback can find it any
  more, or reversed an applied one, which is never applied again.
- `WindowKept`, `HalfActionsKnown`: what holds while no two vetoes of one key
  overlap. `SerialInv` adds that a live timer belongs to the pending item its key
  holds, that its callback applies that item and no other, and that a waiting veto
  still finds its item under the key. The first of these fails as soon as two
  vetoes overlap (`WindowRespected`).

`WatchdogProofs`

- `TypeCorrect`, `InvCorrect`: the types; every call is at a system call its request
  can take it to, the journal holds each forward call that succeeded once, and the
  watchdog is running the inverse of the record its walk is at.
- `ContainmentSafe`: `ContainmentIsSafe`, for any number of callers, keys and
  rollbacks. Its invariant `Safe` says for each object whose doing its state is: a
  table that drops without its lifelines belongs to an `isolate` that is not over, an
  empty key file to a write that is between truncation and content, a moved image to
  the `quarantine-fd` that noted it; that calls on one object were alone with it or
  are known not to have been (`Serial`); and that the streak counts observations that
  all saw a lockout (`StreakSound`).
- `DataKept`: no content of the file is ever lost, unless another program wrote at
  its path between a check and the move the check allowed (`raced`).
- `RollbackReal`: a rollback that ends undisturbed and without a CRITICAL finding has
  reversed each record of the journal, if at most one revocation was requested. The
  invariant goes along the walk: what is still to be walked is the journal's
  beginning, the rest of it is reversed, and the backup holds the key of the only
  revocation.

`DeliveryProofs`

- `TypeCorrect`: the type invariant, the spool's count cap included.
- `AtLeastOnce`: `AtLeastOnceInOrder`. `Orderly` is its invariant: while no two
  flushes have overlapped, a flush in progress is the only one, its list is the
  directory (`Replaying`), findings are spooled, drained and buffered in the order
  they were made (`Ordered`), what the collector has is older than what it still
  lacks and every finding is accounted for (`Sound`), and a file has arrived more
  often than answers lost and restarts explain by one at most, when its answer has
  just come or the process died then (`Counted`).
- `Implements`: every step is a step of `Channel` or a stutter under the mapping
  above, for behaviours with `[]~overlap`. `Channel` delivers in ascending order,
  so each POST that commits needs `Ordered` and `Sound`.

To make these provable `todo` became the set of the files to replay, from which
`Oldest` takes the first (`Replay` sorts the directory's listing and walks it).

`DetectionProofs`

- `NeverMissed`, `RightProcess`, `RightTask`, `LoadersSpared`: the four invariants
  about whom the correlator and the bridge act on. They follow from one inductive
  invariant, `HostInv /\ AgentInv`. `HostInv` is about the lines still in the log:
  behind a line of a process nobody but it speaks at its pid before a line says that
  the pid has changed hands (`Follows`), and a process whose pid is another's has
  nothing more to say (`Past`). `AgentInv` says that an index entry still follows
  its pid, or a line about the pid was lost; that the correlator knows what the
  history `truth` knows while the suspicious processes fit; and what an incident and
  a decision on the way say of the process that connected.
- `WithinBudget`: `BudgetHolds`. Its invariant counts, for every later time, the
  decisions in the window: what this start's rate window still holds, and one
  budget for each start before it.
- `TypeCorrect`: the type invariant, with the two caps of the correlator (processes
  tracked, destinations latched of one) and the kinds of what crosses from correlator
  to bridge. The root of a lineage is a recursive function up the parents; that it is
  a process is shown by the least step at which a walk would not exist (`WalkExists`),
  or would leave the processes (`WalkIs`).

`TailProofs`

- `NoLineSkipped`, `LinesWhole`: `NoSilentSkip` and `LinesIntact`, for lines of any
  length, any read size and cap, any number of rotations and restarts. The log is a
  run of lines without gaps (`Run`), so what a buffer holds can be said by position:
  every line with a unit at or before the offset less the leftover is handed over or
  excused (`Clear`), and the position is at a line's end, or in one that is excused
  (`Cut`). The same holds of a checkpoint in the content it is a position in. The
  central lemmas are about one buffer: a newline ends a whole line unless the buffer
  begins in the middle of it (`PieceOf`), every line before the last newline ends in
  the buffer (`EndOf`), what follows is of one line (`RestOf`). A read of another file
  than `Stat` saw runs two contents together; what the callback gets of it in pieces
  lies at the seam (`crossed`).
- `TypeCorrect`: the type invariant; the partial line is never longer than its cap nor
  than what was read, so what `Save` records is a position in the file.

Preparing this proof showed that `LinesIntact` did not hold of lines longer than
the run's: after a truncation between `Stat` and `Read` the offset may be in the
middle of a line of the new content, of which the callback then gets a piece. The
code has no way to know, the excuse `blurred` had not covered it, and now does
(`Mixed`); the run's lines are such that it happens.

`CollectorProofs`

- `HistoryIsKept`: `HistoryKept`, for any number of sources and reports: what was
  accepted leaves the store only by age, for newer reports under the caps, with a
  snapshot that could not be written, or at a start that could not read it. By itself this is not inductive: pruning sorts by
  time, and a heartbeat keeps its place while its time moves on. `StoreInv` says of
  the reports in memory, and of those in the snapshot, that they are accepted ones in
  the order of their numbers with a heartbeat per source at most (`Consistent`), and
  that a report which has gone went with all that came before it, and is too old, has
  a full store of later ones behind it, or is one of those that a start did not read
  (`Kept`).
- `LiveSourceIsListed`: `LiveIsListed`, by the same argument for the last post of a
  source (`Heard`); its premise, that the reports accepted since leave each source a
  place, is the property's.
- `SupersededStaysAway`: `NoResurrection`. Pruning takes the older first, so what is
  left of a source's reports begins after whatever is gone, and no finding from before
  its last full report is among what they come to.
- `ViewsTellTheSame`: `ViewsAgree`. What each source's reports come to is in ascending
  order (`SourceAscends`) and of that source alone (`ListedIs`), so no finding is
  counted twice; the places counted and the findings listed are in bijection
  (`CountIs`).
- `AnswersHaveRows`: every answer of the response proxy has its row or a row that
  could not be written; the row says what the operator was told, and if it says done
  the request ran, if it says would it never does (`ProxyInv`). A row of an error says
  nothing of what agentd did.
- `TypeCorrect`: the type invariant, with one heartbeat per source.

The store sorts and filters sequences, and its operations say declaratively what comes
of that: the members of a set, each after those that come before it (`InOrder`), and a
roll-up as the number of places counted. The lemmas say of the result which reports it has and that it is in order.
Where reports have to be gone through one by one, as `current` does, the proof takes
the least place at which the claim would fail (`LeastOf`, from the well-foundedness of
the numbers) in the place of an induction theorem.

`HostProofs`, about `Authwatch`

- `ChangesTold`, `ForeignersTold`: `ChangedIsTold` and `ForeignIsTold`, for any number
  of paths and changes. A path that has differed all along is still to be hashed or
  has its finding, and every finding is in the exit code; a foreign module is still
  to be looked at, is the one at hand, or has its finding.
- `ServersSpared`: `ServerIsNotSuspected`. While the server that held the lock when the
  locks were listed keeps running, the process table that was read either has it as it
  is or could not be read. A server that takes the lock over later is outside it.

about `Instguard`

- `OpenMeansPinned`, `MaliciousStopped`: `PassMeansPinned` and
  `KnownMaliciousIsBlocked`, for any project, lock and advisories, rewritten while they
  are read or not. `ProjectInv` says that a declared dependency is in the lock or has
  its finding as soon as the lock has been read; that a malicious copy is still to be
  asked about, got no answer, or has its finding; and that a gate that opened has
  weighed each finding, by package, below High.

about `Bpfsentry`

- `CleanMeansCounted`: `CleanMeansUnchanged`, for any set of programs and any changes
  while a command runs: what bpftool lists lies between what was there throughout and
  what was there at some time (`SeenInv`), and a count of a signature that differs from
  the allowlist's is in the worst finding (`ToldInv`). Its last step compares the two
  bounds: counts over subsets of a finite set.
- `ImageAccounted`: `HiddenIsTold`. After a clean comparison with a memory image each
  of its programs has a counterpart in the enumeration, by its tag or, without one, by
  type and name, and none of them uses a suspicious helper.

about `Honeytoken`

- `CleanIsMeant`: `CleanIsTrue`, for any number of decoys, deployments, commands at
  once, foreign acts and crashes.
- `OwnReadsAreQuiet`: `NoSelfTrip`.
- `OperatorsFileKept`: `OwnFileKept`, an action property: an operator's file at a
  decoy's path is there (`OwnThere`), and only a write that follows an `O_EXCL`
  creation of that path changes a content.

The first two follow from `DecoyInv`. Its core is about one access time that several
commands move and put back: the time of a decoy read by a stranger is past every
baseline, and so is any time that a watch will put back (`EvidenceInv`); the time of an
unread decoy is past its baseline only while a watch is between its read and its
restore, and no watch holds a later one (`TimesInv`). A redeployment disturbs neither,
because the decoy it makes has a content no older baseline is of (`GenerationInv`,
`MakingInv`). `Knows` carries what a watch saw over its four steps to the finding.

Preparing this proof showed two mistakes in the history variables of the model, with a
second deployment, which the run does not have: a foreign read in the tick of a newer
baseline was evidence although no time tells it from the deployment's own, and a
watch that held a later time when a new baseline was taken put it back afterwards,
without its being in `left`.
The definitions of `evidence` and `left` now say so. TLC has checked `DecoyInv` on two
deployments and two commands besides.

Every safety invariant and action property that a passing run checks is a theorem above.
Only model-checked:

- the liveness properties `RescueCompletes`, `HeldIsResolved`, `BacklogDrains` and
  `LinesAreRead`: TLAPS does not reason about ENABLED, so not about weak fairness.

No module here declares a RECURSIVE operator.

## 5. Not modelled

- The executor's guards (`guard.go`): checks of paths and arguments that refuse a
  request before anything is done. The requests modelled are those they let
  through. The reuse of an inode number, which the comment at `confirmMovedInode`
  owns up to.
- The write rules, confidence and dwell time of the rules engine; address classes
  and path prefixes (sets in `Bridge`); JSON shapes of events.
- The arming gate: a conjunction over the configuration and one attestation file
  at start, two conditions of which this build never meets.
- `egresswatch` and `posturescan`: one sequential pass each that keeps no state
  and compares with a table; the patterns of `instguard`'s and `credsentinel`'s
  scanners, which are members of small sets; what `authwatch` parses out of its
  tools' output, but for what it concludes.
- A report that a live collector rejects for good (400), which stays at the head of the
  spool; receive times that a client sends; file systems without access times
  (`noatime`), on which a decoy's read leaves no trace.
- Configuration, preflight, reports and their posting by the scanners, the
  acquisition of memory images, the console, the dashboard and the scripts.

The data of a finding (wording, and severity where only one is possible) is left
out wherever no property depends on it.

## 6. Plan

In order of importance:

1. `Delivery` composed with `Tail` and with `Collector`: a line read is a finding
   stored, with the two snapshots between them.
2. `egresswatch`: the raw sockets and the processes that come and go between the
   reads of `/proc`.
