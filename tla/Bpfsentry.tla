----------------------------- MODULE Bpfsentry -----------------------------
(***************************************************************************)
(* bpfsentry: the eBPF programs of a host against an allowlist captured    *)
(* at boot and against a memory image (bpfsentry/cmd/bpfsentry/main.go,    *)
(* internal/enumerate, internal/baseline, internal/status).  bpftool's     *)
(* three queries, the save and the two comparisons are steps of their own, *)
(* between which programs are loaded, unloaded and hidden from bpftool.    *)
(***************************************************************************)
EXTENDS Severities, FiniteSets, FiniteSetsExt

CONSTANTS
    Programs,      \* programs that may be loaded: [id, name, type, tag, helpers]
    Nameless,      \* the name of a program that has none
    Tagless,       \* the tag of a program that bpftool shows none for
    Suspicious,    \* config.SuspiciousHelpers
    MaxAlterations \* bound on changes of the kernel's programs, for model checking only

ASSUME BpfsentryAssumption ==
    /\ MaxAlterations \in Nat
    /\ IsFiniteSet(Programs)  \* their ids are of 32 bits
    /\ \A p, q \in Programs : p.id = q.id => p = q

VARIABLES
    loaded,     \* programs in the kernel
    hidden,     \* those bpftool is not shown
    configured, \* whether the config names an allowlist
    allowlist,  \* the allowlist's file: its state and the programs it lists
    image,      \* the out-of-band enumeration: its state and its programs
    command,    \* the command that runs, or ran last
    phase,      \* where it is
    live,       \* Enumerate's result: its state and its programs
    severest,   \* the severest finding so far
    exitCode,   \* the exit code, or Running
    divergent,  \* programs reported as hidden from the live kernel
    compared,   \* history: this diff has compared the image with the live view
    steady,     \* history: programs visible ever since the enumeration
    ever,       \* history: programs visible at some time since
    unseen,     \* history: programs hidden ever since before the enumeration
    alterations \* history: changes of the kernel's programs so far

kernel      == <<loaded, hidden>>
inputs      == <<configured, image>>
viewHistory == <<steady, ever, unseen>>
bpVars      == <<kernel, inputs, allowlist, command, phase, live, severest, exitCode, divergent, compared, viewHistory, alterations>>

Visible == loaded \ hidden
Worsen(s) == severest' = Max({severest, s})

-----------------------------------------------------------------------------
(* The comparisons *)

\* The identity of a program across captures and views: ids change, names are borrowed.
Key(p) == IF p.tag # Tagless THEN <<"tag", p.tag>> ELSE <<"nt", p.type, p.name>>

Keys(ps) == {Key(p) : p \in ps}
Ids(ps) == {p.id : p \in ps}

WithKey(ps, k) == {p \in ps : Key(p) = k}

\* The signature: how many programs have which key.
Signature_Keys(ps) == Keys(ps)
Signature(ps) == [k \in Keys(ps) |-> Cardinality(WithKey(ps, k))]

HookTypes == {"kprobe", "kretprobe", "tracepoint", "raw_tracepoint", "raw_tp", "perf_event", "lsm", "lsm_mac",
              "fentry", "fexit", "tracing", "xdp", "sched_cls", "sched_act", "cgroup_skb", "sk_skb"}

Unallowlisted(p) ==
    CASE p.name = Nameless /\ p.type \in {"kretprobe", "xdp"} -> Critical
      [] p.type \in HookTypes -> High
      [] OTHER -> Low

ScanHelpers(ps) == {High : p \in {q \in ps : q.helpers \cap Suspicious # {}}}

\* Severities of the findings; an empty allowlist ends the comparison, the helpers' scan included.
Diff(entries, ps) ==
    IF entries = {} THEN {Info}
    ELSE (IF Signature(ps) = Signature(entries) THEN {} ELSE {Medium})
           \cup {Unallowlisted(p) : p \in {q \in ps : Key(q) \notin Keys(entries)}}
           \cup ScanHelpers(ps)

\* The programs of ps that have no counterpart in qs.
Missing_ByName(ps, qs) == {p \in ps : p.name \notin {q.name : q \in qs}}
Missing(ps, qs) == {p \in ps : Key(p) \notin Keys(qs)}

Divergence(shown, oob) == {Critical : p \in Missing(oob, shown)} \cup {Low : p \in Missing(shown, oob)}

-----------------------------------------------------------------------------
(* The kernel *)

Alter == alterations < MaxAlterations /\ alterations' = alterations + 1

Load(p) ==
    /\ Alter /\ p \notin loaded
    /\ loaded' = loaded \cup {p}
    /\ ever' = ever \cup {p}
    /\ UNCHANGED <<hidden, inputs, allowlist, command, phase, live, severest, exitCode, divergent, compared, steady, unseen>>

Unload(p) ==
    /\ Alter /\ p \in loaded
    /\ loaded' = loaded \ {p} /\ hidden' = hidden \ {p}
    /\ steady' = steady \ {p} /\ unseen' = unseen \ {p}
    /\ UNCHANGED <<inputs, allowlist, command, phase, live, severest, exitCode, divergent, compared, ever>>

\* The bpf system call no longer shows a program.
Hide(p) ==
    /\ Alter /\ p \in Visible
    /\ hidden' = hidden \cup {p}
    /\ steady' = steady \ {p}
    /\ UNCHANGED <<loaded, inputs, allowlist, command, phase, live, severest, exitCode, divergent, compared, ever, unseen>>

\* A memory image is taken from outside, and oob_parser lists its programs: with their tags, or
\* without where the plugin that read the image prints none.
Snapshot ==
    /\ phase = "idle"
    /\ \E ps \in {loaded, {[p EXCEPT !.tag = Tagless] : p \in loaded}} :
           image' = [state |-> "good", programs |-> ps]
    /\ UNCHANGED <<kernel, configured, allowlist, command, phase, live, severest, exitCode, divergent, compared, viewHistory, alterations>>

\* The host goes down, in the middle of a command too, and its programs with it.
Reboot ==
    /\ alterations < MaxAlterations /\ alterations' = alterations + 1
    /\ loaded' = {} /\ hidden' = {} /\ steady' = {} /\ ever' = {} /\ unseen' = {}
    /\ phase' = "idle" /\ exitCode' = Running /\ severest' = Info /\ divergent' = {} /\ compared' = FALSE
    /\ live' = [state |-> "none", programs |-> {}]
    /\ UNCHANGED <<inputs, allowlist, command>>

-----------------------------------------------------------------------------
(* The commands *)

BPInit ==
    /\ loaded \in SUBSET Programs /\ hidden = {}
    /\ configured \in BOOLEAN
    /\ allowlist = [state |-> "absent", programs |-> {}]
    /\ image = [state |-> "absent", programs |-> {}]
    /\ command = "status" /\ phase = "idle"
    /\ live = [state |-> "none", programs |-> {}]
    /\ severest = Info /\ exitCode = Running /\ divergent = {} /\ compared = FALSE
    /\ steady = {} /\ ever = {} /\ unseen = {}
    /\ alterations = 0

\* A command starts: bpftool shows its programs, or there is no bpftool, it fails, or the JSON is bad.
ShowPrograms(c) ==
    /\ phase = "idle"
    /\ command' = c
    /\ severest' = Info /\ exitCode' = Running /\ divergent' = {} /\ compared' = FALSE
    /\ \/ live' = [state |-> "good", programs |-> Visible] /\ phase' = "rest"
       \/ live' = [state |-> "failed", programs |-> {}] /\ phase' = "enumerated"
    /\ steady' = Visible /\ ever' = Visible /\ unseen' = hidden
    /\ UNCHANGED <<kernel, inputs, allowlist, alterations>>

\* bpftool shows the maps and the links; an error there loses the programs as well.
ShowMapsAndLinks ==
    /\ phase = "rest"
    /\ \/ live' = live
       \/ live' = [state |-> "failed", programs |-> {}]
    /\ phase' = "enumerated"
    /\ UNCHANGED <<kernel, inputs, allowlist, command, severest, exitCode, divergent, compared, viewHistory, alterations>>

Finish(code) == exitCode' = code /\ phase' = "done"

CodeOf(w) == IF w < Medium THEN 0 ELSE 2

\* baseline: without an enumeration nothing is written; without a path it goes to the output.
Capture ==
    /\ phase = "enumerated" /\ command = "baseline"
    /\ IF live.state = "failed" THEN Finish(1) ELSE IF ~configured THEN Finish(0)
       ELSE phase' = "saving" /\ UNCHANGED exitCode
    /\ UNCHANGED <<kernel, inputs, allowlist, command, live, severest, divergent, compared, viewHistory, alterations>>

\* os.WriteFile truncates the file, unless it cannot be opened, and then writes it.
TruncateAllowlist ==
    /\ phase = "saving"
    /\ \/ allowlist' = [state |-> "torn", programs |-> {}] /\ phase' = "writing" /\ UNCHANGED exitCode
       \/ UNCHANGED allowlist /\ Finish(1)
    /\ UNCHANGED <<kernel, inputs, command, live, severest, divergent, compared, viewHistory, alterations>>

SaveAllowlist ==
    /\ phase = "writing"
    /\ \/ allowlist' = [state |-> "good", programs |-> live.programs] /\ Finish(0)
       \/ UNCHANGED allowlist /\ Finish(1)
    /\ UNCHANGED <<kernel, inputs, command, live, severest, divergent, compared, viewHistory, alterations>>

\* Whether Diff compared the live programs with an allowlist that lists some.
Diffed ==
    /\ command = "diff" /\ configured /\ live.state = "good"
    /\ allowlist.state = "good" /\ allowlist.programs # {}

\* diff: what the enumeration and the allowlist give; each failure is a Low finding.
DiffAllowlist ==
    /\ phase = "enumerated" /\ command = "diff"
    /\ severest' = Max({severest}
         \cup (IF live.state = "failed" THEN {Low} ELSE {})
         \cup (CASE ~configured -> {Info}
                 [] configured /\ allowlist.state # "good" -> {Low}
                 [] OTHER -> IF live.state = "good" THEN Diff(allowlist.programs, live.programs) ELSE {}))
    /\ phase' = "oob"
    /\ UNCHANGED <<kernel, inputs, allowlist, command, live, exitCode, divergent, compared, viewHistory, alterations>>

\* diff without -oob, or with a file that cannot be loaded
NoImage ==
    /\ phase = "oob"
    /\ \E w \in {Info, Low} : Worsen(w) /\ Finish(CodeOf(Max({severest, w})))
    /\ UNCHANGED <<kernel, inputs, allowlist, command, live, divergent, compared, viewHistory, alterations>>

\* diff with -oob: the helpers of the image's programs, and the two views against each other
CompareImage ==
    /\ phase = "oob" /\ image.state = "good"
    /\ compared' = (live.state = "good")
    /\ divergent' = IF live.state = "good" THEN Missing(image.programs, live.programs) ELSE {}
    /\ LET w == Max({severest} \cup ScanHelpers(image.programs)
                  \cup IF live.state = "good" THEN Divergence(live.programs, image.programs) ELSE {Low})
       IN  severest' = w /\ Finish(CodeOf(w))
    /\ UNCHANGED <<kernel, inputs, allowlist, command, live, viewHistory, alterations>>

\* status: nothing it can find is above Low.
Status ==
    /\ phase = "enumerated" /\ command = "status"
    /\ LET w == IF ~configured \/ allowlist.state = "absent" \/ live.state = "failed" THEN Low ELSE Info
       IN  severest' = w /\ Finish(CodeOf(w))
    /\ UNCHANGED <<kernel, inputs, allowlist, command, live, divergent, compared, viewHistory, alterations>>

\* The report has been read.
Report ==
    /\ phase = "done"
    /\ phase' = "idle" /\ exitCode' = Running /\ severest' = Info /\ divergent' = {} /\ compared' = FALSE
    /\ live' = [state |-> "none", programs |-> {}]
    /\ steady' = {} /\ ever' = {} /\ unseen' = {}
    /\ UNCHANGED <<kernel, inputs, allowlist, command, alterations>>

BPNext ==
    \/ \E p \in Programs : Load(p) \/ Unload(p) \/ Hide(p)
    \/ Snapshot \/ Reboot
    \/ \E c \in {"baseline", "diff", "status"} : ShowPrograms(c)
    \/ ShowMapsAndLinks
    \/ Capture \/ TruncateAllowlist \/ SaveAllowlist
    \/ DiffAllowlist \/ NoImage \/ CompareImage
    \/ Status \/ Report

BPSpec == BPInit /\ [][BPNext]_bpVars

-----------------------------------------------------------------------------
(* Properties *)

\* When a diff against an allowlist exits 0, whatever was loaded and unloaded while it ran, every
\* key has at least as many programs in the allowlist as stayed visible throughout, and at most
\* as many as were visible at some time: nothing was added, doubled or taken away unnoticed.
CleanMeansUnchanged ==
    exitCode = 0 /\ Diffed => \A k \in Keys(steady \cup allowlist.programs) :
        /\ Cardinality(WithKey(steady, k)) <= Cardinality(WithKey(allowlist.programs, k))
        /\ Cardinality(WithKey(allowlist.programs, k)) <= Cardinality(WithKey(ever, k))

\* When a diff that has compared the memory image with the live view exits 0, no program of the
\* image uses a suspicious helper, and each that bpftool was not shown throughout runs the very
\* code, or, where no tag is known, bears the very type and name of a program it was shown.
HiddenIsTold ==
    exitCode = 0 /\ compared => \A p \in image.programs :
        /\ p.helpers \cap Suspicious = {}
        /\ p.id \in Ids(unseen) => \E q \in live.programs : q.tag = p.tag /\ (q.tag = Tagless => q.type = p.type /\ q.name = p.name)

\* Only a program that is in the kernel and hidden is reported as the work of a rootkit.  TLC
\* refutes it: a program that was unloaded after the image was taken, or that the image lists
\* without the tag bpftool shows, is reported in the same words.
AccusedAreHidden == Ids(divergent) \subseteq Ids(unseen)
=============================================================================
