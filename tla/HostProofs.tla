----------------------------- MODULE HostProofs -----------------------------
(***************************************************************************)
(* Proofs about the tools that look at one host.  Authwatch: for any       *)
(* number of paths, contents, processes and changes of the host while a    *)
(* pass or a capture runs, a change and a foreign module are told, and the *)
(* lock of a server that runs is not suspected.  Instguard: for any        *)
(* project, the gate opens only for what is pinned and not known to be     *)
(* malicious.  Bpfsentry: for any set of programs, a clean diff is about   *)
(* an unchanged set, and the program of a memory image that the system     *)
(* hides is told.  Honeytoken: for any number of decoys, deployments and   *)
(* commands at once, a clean watch is true, a command of the suite's trips *)
(* no decoy, and an operator's file is neither replaced nor lost.          *)
(***************************************************************************)
EXTENDS Authwatch, Instguard, Bpfsentry, Honeytoken,
        NaturalsInduction, WellFoundedInduction, FiniteSetTheorems, TLAPS

-----------------------------------------------------------------------------
(* Authwatch: the inductive invariant *)

\* The types the proofs need; an unsaved baseline has no entries.
TypeInv ==
    /\ disk \in [Paths -> Contents \cup {Absent}]
    /\ base.state \in {"absent", "torn", "good"}
    /\ base.state # "good" => base.entries = <<>>
    /\ DOMAIN base.entries \subseteq Paths
    /\ procs \in [Pids -> UIDs \cup {Other, Nobody}]
    /\ lock.pid \in Pids \cup {NoPid}
    /\ todo \subseteq Paths /\ DOMAIN draft \subseteq Paths /\ worst \in 0 .. 4
    /\ pc \in {"idle", "capture", "writing", "verify", "binary", "owner", "module", "hash", "text", "glob", "procs", "lock", "audit", "done"}

Compared == {"text", "glob", "procs", "lock", "audit", "done"}

\* A path has differed ever since the start only while it still does, and is hashed before the
\* pass goes on; every finding about a path is in the exit code.
ChangedInv ==
    /\ altered \subseteq {p \in DOMAIN base.entries : disk[p] # base.entries[p]}
    /\ pc \in {"idle", "capture", "writing"} => altered = {}
    /\ pc = "hash" => todo # {} /\ altered \subseteq todo \cup told
    /\ pc \in Compared /\ base.state = "good" => altered \subseteq told
    /\ told # {} => worst >= Medium
    /\ exit # Running => pc = "done" /\ (told # {} => exit = 2)

\* A foreign module is still to be looked at, is the one being looked at, or has its finding.
ForeignInv ==
    /\ foreign \subseteq {m \in Modules : disk[m] \notin {Absent, Packaged[m]}}
    /\ pc = "module" => Packaged[at] # Absent
    /\ family # "unknown" =>
         /\ pc = "owner" => foreign \subseteq told \cup unsure \cup todo
         /\ pc = "module" => foreign \subseteq told \cup unsure \cup todo \cup {at}
         /\ pc \in Compared \cup {"hash"} => foreign \subseteq told \cup unsure

\* A running server's lock names a process that runs as the table says, if there is one.
Serving == lock.kind = "regular" /\ lock.pid \in Pids /\ procs[lock.pid] \in UIDs /\ (uids # {} => procs[lock.pid] \in uids)
ServerInv ==
    /\ genuine => Serving
    /\ genuine /\ pc = "lock" => table = NoTable \/ table[lock.pid] = procs[lock.pid]
    /\ pc \notin {"audit", "done"} => ~accused
    /\ genuine => ~accused

Inv == TypeInv /\ ChangedInv /\ ForeignInv /\ ServerInv

-----------------------------------------------------------------------------
(* Lemmas about the operators *)

Grades == 0 .. 4

LEMMA MaxOf ==
    ASSUME NEW S, S \subseteq Grades, S # {}
    PROVE  Max(S) \in S /\ \A y \in S : Max(S) >= y
  <1>1. \E x \in S : \A y \in S : x >= y
    <2>1. CASE 4 \in S BY <2>1 DEF Grades
    <2>2. CASE 4 \notin S /\ 3 \in S BY <2>2 DEF Grades
    <2>3. CASE 4 \notin S /\ 3 \notin S /\ 2 \in S BY <2>3 DEF Grades
    <2>4. CASE 4 \notin S /\ 3 \notin S /\ 2 \notin S /\ 1 \in S BY <2>4 DEF Grades
    <2>5. CASE S \subseteq {0}
      <3>1. S = {0}
        BY <2>5
      <3> QED
        BY <3>1
    <2> QED BY <2>1, <2>2, <2>3, <2>4, <2>5 DEF Grades
  <1> QED
    BY <1>1 DEF Max

LEMMA MinIn ==
    ASSUME NEW S, S \subseteq Nat, S # {}
    PROVE  Min(S) \in S
  <1>1. PICK x \in S : \A y \in S : ~(<<y, x>> \in OpToRel(<, Nat))
    BY NatLessThanWellFounded, WFMin
  <1>2. \A y \in S : x <= y
    <2>1. SUFFICES ASSUME NEW y \in S PROVE x <= y
      OBVIOUS
    <2>2. ~(y < x)
      BY <1>1 DEF OpToRel
    <2> QED
      BY <2>2
  <1> QED
    BY <1>2 DEF Min

\* What findings change: nothing is untold, a finding of Medium or above is told with its paths.
FoundTold(ss, ps) ==
    /\ worst' \in Grades
    /\ told \subseteq told'
    /\ (\E s \in ss : s >= Medium) => ps \subseteq told'
    /\ (told # {} => worst >= Medium) => (told' # {} => worst' >= Medium)

LEMMA FindFinds ==
    ASSUME NEW ss, NEW ps, ss \subseteq Grades, worst \in Grades, Find(ss, ps)
    PROVE  FoundTold(ss, ps)
  <1>1. worst' \in Grades /\ worst' >= worst /\ \A s \in ss : worst' >= s
    BY MaxOf DEF Find
  <1>2. told \subseteq told' /\ ((\E s \in ss : s >= Medium) => ps \subseteq told')
    BY DEF Find
  <1>3. CASE \E s \in ss : s >= Medium
    BY <1>1, <1>2, <1>3 DEF FoundTold, Grades, Medium
  <1>4. CASE ~ \E s \in ss : s >= Medium
    <2>1. told' = told
      BY <1>4 DEF Find
    <2> QED
      BY <1>1, <1>2, <1>4, <2>1 DEF FoundTold, Grades, Medium
  <1> QED
    BY <1>3, <1>4

\* The command leaves the host alone, and the baseline it compares with.
Held == UNCHANGED <<disk, family, tools, uids, procs, lock, base, draft>>

-----------------------------------------------------------------------------
(* The initial states *)

LEMMA InvInit == Init => Inv
  <1> SUFFICES ASSUME Init PROVE Inv
    OBVIOUS
  <1>1. Min(UIDs) \in UIDs
    BY MinIn, AuthwatchAssumption
  <1>2. Min(Pids) \in Pids
    BY MinIn, AuthwatchAssumption
  <1>3. TypeInv
    BY <1>1, <1>2, AuthwatchAssumption DEF Init, TypeInv, Info, NoPid
  <1>4. ChangedInv /\ ForeignInv /\ ServerInv
    BY DEF Init, ChangedInv, ForeignInv, ServerInv, Compared, Running
  <1> QED
    BY <1>3, <1>4 DEF Inv

-----------------------------------------------------------------------------
(* Changes of the host *)

LEMMA EditStep ==
    ASSUME Inv, NEW p \in Paths, NEW c \in Contents \cup {Absent}, Edit(p, c)
    PROVE  Inv'
  <1>1. UNCHANGED <<family, tools, uids, procs, lock, base, pc, todo, at, draft, table, worst, told,
          accused, exit, unsure, genuine>>
    BY DEF Edit, Command, machine, desktop, results
  <1>2. disk' = [disk EXCEPT ![p] = c] /\ disk' \in [Paths -> Contents \cup {Absent}]
    BY DEF Inv, TypeInv, Edit
  <1>3. TypeInv'
    BY <1>1, <1>2 DEF Inv, TypeInv
  <1>4. altered' \subseteq {q \in DOMAIN base.entries : disk'[q] # base.entries[q]}
    BY <1>2 DEF Inv, TypeInv, ChangedInv, Edit
  <1>5. altered' \subseteq altered /\ foreign' \subseteq foreign
    BY DEF Edit
  <1>6. ChangedInv'
    BY <1>1, <1>4, <1>5 DEF Inv, ChangedInv, Compared
  <1>7. foreign' \subseteq {m \in Modules : disk'[m] \notin {Absent, Packaged[m]}}
    BY <1>2 DEF Inv, TypeInv, ForeignInv, Edit, Paths
  <1>8. ForeignInv'
    BY <1>1, <1>5, <1>7 DEF Inv, ForeignInv, Compared
  <1>9. ServerInv'
    BY <1>1 DEF Inv, ServerInv, Serving
  <1> QED
    BY <1>3, <1>6, <1>8, <1>9 DEF Inv

\* What the host's processes do disturbs the last part of the invariant only.
LEMMA DesktopStep ==
    ASSUME Inv, UNCHANGED <<Command, disk, altered, foreign>>,
           procs' \in [Pids -> UIDs \cup {Other, Nobody}], lock'.pid \in Pids \cup {NoPid},
           genuine' => /\ genuine /\ lock' = lock /\ procs'[lock.pid] = procs[lock.pid]
    PROVE  Inv'
  <1>1. UNCHANGED <<disk, family, tools, uids, base, pc, todo, at, draft, table, worst, told, accused,
          exit, unsure, altered, foreign>>
    BY DEF Command, machine, results
  <1>2. TypeInv' /\ ChangedInv' /\ ForeignInv'
    BY <1>1 DEF Inv, TypeInv, ChangedInv, ForeignInv, Compared
  <1>3. ServerInv'
    BY <1>1 DEF Inv, ServerInv, Serving
  <1> QED
    BY <1>2, <1>3 DEF Inv

LEMMA ProcessStep ==
    ASSUME Inv, NEW p \in Pids,
           ExitProcess(p) \/ StartOther(p) \/ \E u \in UIDs : StartServer(p, u)
    PROVE  Inv'
  <1>1. procs \in [Pids -> UIDs \cup {Other, Nobody}] /\ lock.pid \in Pids \cup {NoPid}
    BY DEF Inv, TypeInv
  <1>2. genuine => lock.pid \in Pids /\ procs[lock.pid] # Nobody
    BY AuthwatchAssumption DEF Inv, ServerInv, Serving, Nobody
  <1>3. CASE ExitProcess(p)
    <2>1. procs' \in [Pids -> UIDs \cup {Other, Nobody}] /\ lock'.pid \in Pids \cup {NoPid}
      BY <1>1, <1>3 DEF ExitProcess
    <2>2. genuine' => genuine /\ lock' = lock /\ procs'[lock.pid] = procs[lock.pid]
      BY <1>1, <1>2, <1>3 DEF ExitProcess
    <2> QED
      BY <1>3, <2>1, <2>2, DesktopStep DEF ExitProcess
  <1>4. CASE StartOther(p)
    <2>1. procs' \in [Pids -> UIDs \cup {Other, Nobody}] /\ lock'.pid \in Pids \cup {NoPid}
      BY <1>1, <1>4 DEF StartOther
    <2>2. genuine' => genuine /\ lock' = lock /\ procs'[lock.pid] = procs[lock.pid]
      BY <1>1, <1>2, <1>4 DEF StartOther
    <2> QED
      BY <1>4, <2>1, <2>2, DesktopStep DEF StartOther
  <1>5. ASSUME NEW u \in UIDs, StartServer(p, u)
        PROVE  Inv'
    <2>1. procs' \in [Pids -> UIDs \cup {Other, Nobody}] /\ lock'.pid \in Pids \cup {NoPid}
      BY <1>1, <1>5 DEF StartServer
    <2> QED
      BY <1>5, <2>1, DesktopStep DEF StartServer
  <1> QED
    BY <1>3, <1>4, <1>5

-----------------------------------------------------------------------------
(* Steps of the command.  One that is not about the lock keeps ServerInv.    *)

LEMMA LockUntouched ==
    ASSUME Inv, Held, UNCHANGED <<table, accused, genuine>>,
           pc \notin {"lock", "audit", "done"}, pc' # "lock", pc' \notin {"audit", "done"}
    PROVE  ServerInv'
  BY DEF Inv, ServerInv, Serving, Held

LEMMA FirstIn == ASSUME todo # {} PROVE First \in todo
  BY DEF First

LEMMA StartStep == ASSUME Inv, Start PROVE Inv'
  <1>1. Held /\ UNCHANGED <<table, worst, told, accused, exit, unsure, genuine>>
    BY DEF Start, Host, machine, desktop, results, Held
  <1>2. pc = "idle" /\ pc' = "verify" /\ todo' = Binaries
    BY DEF Start
  <1>3. TypeInv'
    BY <1>1, <1>2 DEF Inv, TypeInv, Held, Paths
  <1>4. ChangedInv'
    BY <1>1, <1>2 DEF Inv, ChangedInv, Held, Start, Compared
  <1>5. ForeignInv'
    BY <1>1, <1>2 DEF ForeignInv, Held, Start, Compared
  <1>6. ServerInv'
    BY <1>1, <1>2, LockUntouched
  <1> QED
    BY <1>3, <1>4, <1>5, <1>6 DEF Inv

LEMMA StatBinaryStep == ASSUME Inv, StatBinary PROVE Inv'
  <1>1. Held /\ UNCHANGED <<table, worst, told, accused, exit, altered, foreign, unsure, genuine>>
    BY DEF StatBinary, Host, machine, desktop, results, history, Held
  <1>2. pc = "verify" /\ pc' \in {"verify", "binary"} /\ todo' \subseteq todo
    BY DEF StatBinary
  <1>3. TypeInv' /\ ChangedInv' /\ ForeignInv'
    BY <1>1, <1>2 DEF Inv, TypeInv, ChangedInv, ForeignInv, Held, Compared
  <1>4. ServerInv'
    BY <1>1, <1>2, LockUntouched
  <1> QED
    BY <1>3, <1>4 DEF Inv

LEMMA VerifyBinaryStep == ASSUME Inv, VerifyBinary PROVE Inv'
  <1>1. Held /\ UNCHANGED <<todo, at, table, accused, exit, altered, foreign, genuine>>
    BY DEF VerifyBinary, Host, machine, desktop, Held
  <1>2. pc = "binary" /\ pc' = "verify"
    BY DEF VerifyBinary
  <1>3. PICK s \in Grades : Find({s}, {at})
    BY DEF VerifyBinary, Grades, Low, Critical, Info
  <1>4. FoundTold({s}, {at})
    BY <1>3, FindFinds DEF Inv, TypeInv, Grades
  <1>5. TypeInv'
    BY <1>1, <1>2, <1>4 DEF Inv, TypeInv, Held, FoundTold, Grades
  <1>6. ChangedInv'
    BY <1>1, <1>2, <1>4 DEF Inv, ChangedInv, Held, Compared, FoundTold
  <1>7. ForeignInv'
    BY <1>1, <1>2 DEF Inv, ForeignInv, Held, Compared
  <1>8. ServerInv'
    BY <1>1, <1>2, LockUntouched
  <1> QED
    BY <1>5, <1>6, <1>7, <1>8 DEF Inv

LEMMA ListModulesStep == ASSUME Inv, ListModules PROVE Inv'
  <1>1. Held /\ UNCHANGED <<at, table, worst, told, accused, exit, altered, foreign, unsure, genuine>>
    BY DEF ListModules, Host, machine, desktop, results, history, Held
  <1>2. /\ pc = "verify" /\ pc' = "owner"
        /\ todo' = IF family = "unknown" THEN {} ELSE {m \in Modules : disk[m] # Absent}
    BY DEF ListModules
  <1>3. TypeInv'
    BY <1>1, <1>2 DEF Inv, TypeInv, Held, Paths
  <1>4. ChangedInv'
    BY <1>1, <1>2 DEF Inv, ChangedInv, Held, Compared
  <1>5. family # "unknown" => foreign \subseteq todo'
    BY <1>2 DEF Inv, ForeignInv
  <1>6. ForeignInv'
    BY <1>1, <1>2, <1>5 DEF Inv, ForeignInv, Held, Compared
  <1>7. ServerInv'
    BY <1>1, <1>2, LockUntouched
  <1> QED
    BY <1>3, <1>4, <1>6, <1>7 DEF Inv

\* A module is passed on to its verifier only when a package owns it.
LEMMA FindOwnerStep == ASSUME Inv, FindOwner PROVE Inv'
  <1>1. Held /\ UNCHANGED <<table, accused, exit, altered, foreign, genuine>>
    BY DEF FindOwner, Host, machine, desktop, Held
  <1>2. pc = "owner" /\ First \in todo /\ todo' = todo \ {First} /\ at' = First
    BY FirstIn DEF FindOwner
  <1>3. PICK a \in Owner(First) :
          /\ Find({CASE a = "error" -> Low [] a \in {"unowned", "silent"} -> Critical [] OTHER -> Info}, {First})
          /\ pc' = IF a = "owned" THEN "module" ELSE "owner"
          /\ unsure' = IF a \in {"notfound", "error"} THEN unsure \cup {First} ELSE unsure
    BY DEF FindOwner
  <1>4. PICK s \in Grades :
          s = CASE a = "error" -> Low [] a \in {"unowned", "silent"} -> Critical [] OTHER -> Info
    BY DEF Grades, Low, Critical, Info
  <1>5. FoundTold({s}, {First})
    BY <1>3, <1>4, FindFinds DEF Inv, TypeInv, Grades
  <1>6. a \in {"error", "silent", "owned", "unowned", "notfound"} /\ (a = "owned" => Packaged[First] # Absent)
    BY DEF Owner, Owned
  <1>7. a = "owned" \/ First \in told' \cup unsure'
    BY <1>3, <1>4, <1>5, <1>6 DEF FoundTold, Critical, Medium
  <1>8. TypeInv'
    BY <1>1, <1>2, <1>3, <1>5 DEF Inv, TypeInv, Held, FoundTold, Grades
  <1>9. ChangedInv'
    BY <1>1, <1>2, <1>3, <1>5 DEF Inv, ChangedInv, Held, Compared, FoundTold
  <1>10. ForeignInv'
    <2>1. told \subseteq told' /\ unsure \subseteq unsure'
      BY <1>3, <1>5 DEF FoundTold
    <2> QED
      BY <1>1, <1>2, <1>3, <1>6, <1>7, <2>1 DEF Inv, ForeignInv, Held, Compared
  <1>11. ServerInv'
    BY <1>1, <1>2, <1>3, LockUntouched
  <1> QED
    BY <1>8, <1>9, <1>10, <1>11 DEF Inv

LEMMA VerifyModuleStep == ASSUME Inv, VerifyModule PROVE Inv'
  <1>1. Held /\ UNCHANGED <<todo, at, table, accused, exit, altered, foreign, genuine>>
    BY DEF VerifyModule, Host, machine, desktop, Held
  <1>2. pc = "module" /\ pc' = "owner"
    BY DEF VerifyModule
  <1>3. PICK a \in Verifier(at) :
          /\ Find({IF Tampered(a) THEN Critical ELSE Info}, {at})
          /\ unsure' = IF Tampered(a) \/ a = "same" THEN unsure ELSE unsure \cup {at}
    BY DEF VerifyModule
  <1>4. PICK s \in Grades : s = IF Tampered(a) THEN Critical ELSE Info
    BY DEF Grades, Critical, Info
  <1>5. FoundTold({s}, {at})
    BY <1>3, <1>4, FindFinds DEF Inv, TypeInv, Grades
  <1>6. at \in foreign => a # "same"
    BY <1>2 DEF Verifier, Verdict, Inv, ForeignInv
  <1>7. at \in foreign => at \in told' \cup unsure'
    BY <1>3, <1>4, <1>5, <1>6 DEF FoundTold, Critical, Medium
  <1>8. TypeInv'
    BY <1>1, <1>2, <1>5 DEF Inv, TypeInv, Held, FoundTold, Grades
  <1>9. ChangedInv'
    BY <1>1, <1>2, <1>5 DEF Inv, ChangedInv, Held, Compared, FoundTold
  <1>10. ForeignInv'
    <2>1. told \subseteq told' /\ unsure \subseteq unsure'
      BY <1>3, <1>5 DEF FoundTold
    <2> QED
      BY <1>1, <1>2, <1>7, <2>1 DEF Inv, ForeignInv, Held, Compared
  <1>11. ServerInv'
    BY <1>1, <1>2, LockUntouched
  <1> QED
    BY <1>8, <1>9, <1>10, <1>11 DEF Inv

LEMMA LoadBaselineStep == ASSUME Inv, LoadBaseline PROVE Inv'
  <1>1. Held /\ UNCHANGED <<at, table, accused, exit, altered, foreign, unsure, genuine>>
    BY DEF LoadBaseline, Host, machine, desktop, history, Held
  <1>2. pc = "owner" /\ todo = {}
    BY DEF LoadBaseline
  <1>3. PICK s \in Grades : Find({s}, {})
    BY DEF LoadBaseline, Grades, Low, Info
  <1>4. FoundTold({s}, {})
    BY <1>3, FindFinds DEF Inv, TypeInv, Grades
  <1>5. \/ base.state = "good" /\ DOMAIN base.entries # {} /\ pc' = "hash" /\ todo' = DiffPaths
        \/ ~(base.state = "good" /\ DOMAIN base.entries # {}) /\ pc' = "text" /\ todo' = todo
    BY DEF LoadBaseline
  <1>6. DiffPaths \subseteq Paths /\ DOMAIN base.entries \subseteq DiffPaths
    BY DEF DiffPaths, DiffPaths_Live, Paths, Inv, TypeInv
  <1>7. TypeInv'
    BY <1>1, <1>4, <1>5, <1>6 DEF Inv, TypeInv, Held, FoundTold, Grades
  <1>8. altered \subseteq DOMAIN base.entries
    BY DEF Inv, ChangedInv
  <1>9. ChangedInv'
    BY <1>1, <1>2, <1>4, <1>5, <1>6, <1>8 DEF Inv, ChangedInv, Held, Compared, FoundTold
  <1>10. ForeignInv'
    BY <1>1, <1>2, <1>4, <1>5 DEF Inv, ForeignInv, Held, Compared, FoundTold
  <1>11. ServerInv'
    BY <1>1, <1>2, <1>5, LockUntouched
  <1> QED
    BY <1>7, <1>9, <1>10, <1>11 DEF Inv

\* A path that differs has a finding of High or Critical once it is hashed.
LEMMA HashFileStep == ASSUME Inv, HashFile PROVE Inv'
  <1>1. Held /\ UNCHANGED <<at, table, accused, exit, altered, foreign, unsure, genuine>>
    BY DEF HashFile, Host, machine, desktop, history, Held
  <1>2. pc = "hash" /\ First \in todo /\ todo' = todo \ {First}
        /\ pc' = IF todo' = {} THEN "text" ELSE "hash"
    BY FirstIn DEF HashFile, Inv, ChangedInv
  <1>3. DiffOne(First) \in Grades
    BY DEF DiffOne, Grades, Info, Low, High, Critical
  <1>4. PICK s \in Grades : s = DiffOne(First)
    BY <1>3
  <1>5. FoundTold({s}, {First})
    BY <1>4, FindFinds DEF HashFile, Inv, TypeInv, Grades
  <1>6. First \in altered => s >= Medium
    BY <1>4 DEF Inv, ChangedInv, DiffOne, High, Critical, Medium
  <1>7. First \in altered => First \in told'
    BY <1>5, <1>6 DEF FoundTold
  <1>8. TypeInv'
    BY <1>1, <1>2, <1>5 DEF Inv, TypeInv, Held, FoundTold, Grades
  <1>9. ChangedInv'
    BY <1>1, <1>2, <1>5, <1>7 DEF Inv, ChangedInv, Held, Compared, FoundTold
  <1>10. ForeignInv'
    BY <1>1, <1>2, <1>5 DEF Inv, ForeignInv, Held, Compared, FoundTold
  <1>11. ServerInv'
    BY <1>1, <1>2, LockUntouched
  <1> QED
    BY <1>8, <1>9, <1>10, <1>11 DEF Inv

LEMMA ScanTextStep == ASSUME Inv, ScanText PROVE Inv'
  <1>1. Held /\ UNCHANGED <<todo, at, table, accused, exit, altered, foreign, unsure, genuine>>
    BY DEF ScanText, Host, machine, desktop, history, Held
  <1>2. pc = "text" /\ pc' = "glob"
    BY DEF ScanText
  <1>3. PICK ss \in SUBSET Grades : Find(ss, {})
    <2>1. PICK allow \in {"none", "unreadable", "listed"}, keys \in SUBSET KeyLines, init \in SUBSET InitLines :
             Find(AuditKeys(allow, keys) \cup ScanPreload(init), {})
      BY DEF ScanText
    <2>2. AuditKeys(allow, keys) \subseteq Grades
      BY DEF AuditKeys, Grades, Low, Info, High
    <2>3. ScanPreload(init) \subseteq Grades
      BY DEF ScanPreload, Grades, Critical, High
    <2> QED
      BY <2>1, <2>2, <2>3
  <1>4. FoundTold(ss, {})
    BY <1>3, FindFinds DEF Inv, TypeInv, Grades
  <1>5. TypeInv'
    BY <1>1, <1>2, <1>4 DEF Inv, TypeInv, Held, FoundTold, Grades
  <1>6. ChangedInv'
    BY <1>1, <1>2, <1>4 DEF Inv, ChangedInv, Held, Compared, FoundTold
  <1>7. ForeignInv'
    BY <1>1, <1>2, <1>4 DEF Inv, ForeignInv, Held, Compared, FoundTold
  <1>8. ServerInv'
    BY <1>1, <1>2, LockUntouched
  <1> QED
    BY <1>5, <1>6, <1>7, <1>8 DEF Inv

\* From here on only the lock matters: the other parts depend on nothing that still changes.
LEMMA ComparedKept ==
    ASSUME Inv, Held, UNCHANGED <<todo, at, altered, foreign, unsure>>,
           pc \in Compared, pc' \in Compared, FoundTold({}, {}),
           exit' # Running => pc' = "done" /\ (told' # {} => exit' = 2)
    PROVE  TypeInv' /\ ChangedInv' /\ ForeignInv'
  <1>1. TypeInv'
    BY DEF Inv, TypeInv, Held, FoundTold, Grades, Compared
  <1>2. ChangedInv'
    BY DEF Inv, ChangedInv, Held, FoundTold, Compared
  <1>3. ForeignInv'
    BY DEF Inv, ForeignInv, Held, FoundTold, Compared
  <1> QED
    BY <1>1, <1>2, <1>3

LEMMA NothingFound == ASSUME Inv, UNCHANGED <<worst, told>> PROVE FoundTold({}, {})
  BY DEF FoundTold, Inv, TypeInv, Grades

\* The lock has been a running server's only if it was one's when the locks were listed.
LEMMA ListLocksStep == ASSUME Inv, ListLocks PROVE Inv'
  <1>1. Held /\ UNCHANGED <<todo, at, table, worst, told, accused, exit, altered, foreign, unsure>>
    BY DEF ListLocks, Host, machine, desktop, results, Held
  <1>2. /\ pc = "glob" /\ pc' = IF lock.kind = "none" THEN "audit" ELSE "procs"
        /\ genuine' => Serving /\ lock.kind # "none"
    BY DEF ListLocks, Served, Serving, Inv, TypeInv
  <1>3. exit = Running /\ ~accused
    BY <1>2 DEF Inv, ChangedInv, ServerInv
  <1>4. TypeInv' /\ ChangedInv' /\ ForeignInv'
    BY <1>1, <1>2, <1>3, NothingFound, ComparedKept DEF Compared
  <1>5. ServerInv'
    BY <1>1, <1>2, <1>3 DEF ServerInv, Serving, Held
  <1> QED
    BY <1>4, <1>5 DEF Inv

LEMMA ReadProcsStep == ASSUME Inv, ReadProcs PROVE Inv'
  <1>1. Held /\ UNCHANGED <<todo, at, worst, told, accused, exit, altered, foreign, unsure, genuine>>
    BY DEF ReadProcs, Host, machine, desktop, results, history, Held
  <1>2. pc = "procs" /\ pc' = "lock" /\ table' \in {procs, NoTable}
    BY DEF ReadProcs
  <1>3. exit = Running /\ ~accused
    BY <1>2 DEF Inv, ChangedInv, ServerInv
  <1>4. TypeInv' /\ ChangedInv' /\ ForeignInv'
    BY <1>1, <1>2, <1>3, NothingFound, ComparedKept DEF Compared
  <1>5. ServerInv'
    BY <1>1, <1>2, <1>3 DEF Inv, ServerInv, Serving, Held
  <1> QED
    BY <1>4, <1>5 DEF Inv

\* The lock of a running server is a regular file that names a server of an allowed user.
LEMMA ReadLockStep == ASSUME Inv, ReadLock PROVE Inv'
  <1>1. Held /\ UNCHANGED <<todo, at, table, exit, altered, foreign, unsure, genuine>>
    BY DEF ReadLock, Host, machine, desktop, history, Held
  <1>2. pc = "lock" /\ pc' = "audit"
    BY DEF ReadLock
  <1>3. PICK s \in Grades : Find({s}, {})
    BY DEF ReadLock, Grades, Medium, High, Info
  <1>4. FoundTold({s}, {})
    BY <1>3, FindFinds DEF Inv, TypeInv, Grades
  <1>5. FoundTold({}, {})
    BY <1>4 DEF FoundTold
  <1>6. exit = Running
    BY <1>2 DEF Inv, ChangedInv
  <1>7. TypeInv' /\ ChangedInv' /\ ForeignInv'
    BY <1>1, <1>2, <1>5, <1>6, ComparedKept DEF Compared
  <1>8. accused' = (lock.kind = "link" \/ (lock.kind = "regular" /\ table # NoTable /\ Evaluate(lock, table)))
    BY DEF ReadLock
  <1>9. genuine => ~accused'
    <2>1. SUFFICES ASSUME genuine, table # NoTable PROVE ~Evaluate(lock, table)
      BY <1>8 DEF Inv, ServerInv, Serving
    <2>2. Serving /\ table[lock.pid] = procs[lock.pid]
      BY <1>2, <2>1 DEF Inv, ServerInv
    <2> QED
      BY <2>2, AuthwatchAssumption DEF Serving, Evaluate, Nobody, Other, NoPid
  <1>10. ServerInv'
    BY <1>1, <1>2, <1>9 DEF Inv, ServerInv, Serving, Held
  <1> QED
    BY <1>7, <1>10 DEF Inv

\* The exit code is 2 when the severest finding is Medium or above.
LEMMA ConcludeStep == ASSUME Inv, Conclude PROVE Inv'
  <1>1. Held /\ UNCHANGED <<todo, at, table, told, accused, altered, foreign, unsure, genuine>>
    BY DEF Conclude, Host, machine, desktop, history, Held
  <1>2. pc = "audit" /\ pc' = "done" /\ exit' = IF worst' < Medium THEN 0 ELSE 2
    BY DEF Conclude
  <1>3. worst' \in Grades /\ worst' >= worst
    <2>1. PICK answers \in BOOLEAN, perms \in {{"r"}, {"r", "w", "a"}},
               aide \in {"notfound", "error", "same", "differs", "silent"} :
             worst' = Max({worst, Aide(aide), CheckWatches(answers, [path : DOMAIN Watches, perms : {perms}])})
      BY DEF Conclude
    <2>2. Aide(aide) \in Grades
      BY DEF Aide, Grades, Info, Low, High
    <2>3. CheckWatches(answers, [path : DOMAIN Watches, perms : {perms}]) \in Grades
      BY DEF CheckWatches, Grades, Info, Low
    <2>4. worst \in Grades
      BY DEF Inv, TypeInv, Grades
    <2> QED
      BY <2>1, <2>2, <2>3, <2>4, MaxOf
  <1>4. told # {} => worst' >= Medium
    BY <1>3 DEF Inv, ChangedInv, TypeInv, Grades, Medium
  <1>5. FoundTold({}, {})
    BY <1>1, <1>3, <1>4 DEF FoundTold
  <1>6. told' # {} => exit' = 2
    BY <1>1, <1>2, <1>3, <1>4 DEF Grades, Medium
  <1>7. TypeInv' /\ ChangedInv' /\ ForeignInv'
    BY <1>1, <1>2, <1>5, <1>6, ComparedKept DEF Compared
  <1>8. ServerInv'
    BY <1>1, <1>2 DEF Inv, ServerInv, Serving, Held
  <1> QED
    BY <1>7, <1>8 DEF Inv

\* The baseline changes only before the pass, when nothing has been compared with it.
LEMMA BaselineStep == ASSUME Inv, StartCapture \/ CaptureFile \/ Truncate \/ Save PROVE Inv'
  <1>1. UNCHANGED <<disk, family, tools, uids, procs, lock, at, table, worst, told, accused,
          exit, altered, foreign, unsure, genuine>>
    BY DEF StartCapture, CaptureFile, Truncate, Save, Captor, machine, desktop, results, history
  <1>2. pc \in {"idle", "capture", "writing"} /\ pc' \in {"idle", "capture", "writing"}
    BY DEF StartCapture, CaptureFile, Truncate, Save
  <1>3. \/ base' = base
        \/ base' = [state |-> "torn", entries |-> <<>>]
        \/ base' = [state |-> "good", entries |-> draft]
    BY DEF StartCapture, CaptureFile, Truncate, Save
  <1>4. todo' \subseteq Paths
    BY DEF StartCapture, CaptureFile, Truncate, Save, Paths, Inv, TypeInv
  <1>5. DOMAIN draft' \subseteq Paths
    <2>1. CASE CaptureFile
      <3>1. First \in Paths
        BY <2>1, FirstIn DEF CaptureFile, Inv, TypeInv
      <3>2. DOMAIN draft' \subseteq DOMAIN draft \cup {First}
        BY <2>1 DEF CaptureFile
      <3> QED
        BY <3>1, <3>2 DEF Inv, TypeInv
    <2>2. CASE ~CaptureFile
      <3>1. draft' = draft \/ draft' = <<>>
        BY <2>2 DEF StartCapture, Truncate, Save
      <3> QED
        BY <3>1 DEF Inv, TypeInv
    <2> QED
      BY <2>1, <2>2
  <1>6. TypeInv'
    BY <1>1, <1>2, <1>3, <1>4, <1>5 DEF Inv, TypeInv
  <1>7. ForeignInv' /\ ServerInv'
    BY <1>1, <1>2 DEF Inv, ForeignInv, ServerInv, Serving, Compared
  <1>8. altered = {}
    BY <1>2 DEF Inv, ChangedInv
  <1>9. ChangedInv'
    BY <1>1, <1>2, <1>8 DEF Inv, ChangedInv, Compared
  <1> QED
    BY <1>6, <1>7, <1>9 DEF Inv

LEMMA InvNext == Inv /\ [Next]_vars => Inv'
  <1> SUFFICES ASSUME Inv, [Next]_vars PROVE Inv'
    OBVIOUS
  <1>1. CASE \E p \in Paths, c \in Contents \cup {Absent} : Edit(p, c)
    BY <1>1, EditStep
  <1>2. CASE \E p \in Pids : ExitProcess(p) \/ StartOther(p) \/ \E u \in UIDs : StartServer(p, u)
    BY <1>2, ProcessStep
  <1>3. CASE StartCapture \/ CaptureFile \/ Truncate \/ Save
    BY <1>3, BaselineStep
  <1>4. CASE Start \/ StatBinary \/ VerifyBinary \/ ListModules \/ FindOwner \/ VerifyModule
    BY <1>4, StartStep, StatBinaryStep, VerifyBinaryStep, ListModulesStep, FindOwnerStep, VerifyModuleStep
  <1>5. CASE LoadBaseline \/ HashFile \/ ScanText
    BY <1>5, LoadBaselineStep, HashFileStep, ScanTextStep
  <1>6. CASE ListLocks \/ ReadProcs \/ ReadLock \/ Conclude
    BY <1>6, ListLocksStep, ReadProcsStep, ReadLockStep, ConcludeStep
  <1>7. CASE UNCHANGED vars
    BY <1>7 DEF vars, machine, desktop, results, history, Inv, TypeInv, ChangedInv, ForeignInv,
                ServerInv, Serving, Compared
  <1> QED
    BY <1>1, <1>2, <1>3, <1>4, <1>5, <1>6, <1>7 DEF Next

LEMMA InvAlways == Spec => []Inv
  BY InvInit, InvNext, PTL DEF Spec

-----------------------------------------------------------------------------
(* The theorems *)

\* Whatever is edited, renamed or removed while a pass runs: a file that differed from the
\* baseline all along has a finding, and the pass exits with 2.
THEOREM ChangesTold == Spec => []ChangedIsTold
  <1>1. Inv => ChangedIsTold
    BY DEF Inv, ChangedInv, ChangedIsTold, Compared
  <1> QED
    BY <1>1, InvAlways, PTL

\* With any number of modules, packages and answers: a module no package installed with this
\* content has a finding, or a command that gave no answer about it.
THEOREM ForeignersTold == Spec => []ForeignIsTold
  <1>1. Inv => ForeignIsTold
    BY DEF Inv, ChangedInv, ForeignInv, ForeignIsTold, Compared
  <1> QED
    BY <1>1, InvAlways, PTL

\* As long as a server runs that held the lock when the locks were listed, its lock is not
\* suspected, whatever else starts and exits before the processes and the lock are read.
THEOREM ServersSpared == Spec => []ServerIsNotSuspected
  <1>1. Inv => ServerIsNotSuspected
    BY DEF Inv, ServerInv, ServerIsNotSuspected
  <1> QED
    BY <1>1, InvAlways, PTL

-----------------------------------------------------------------------------
(* Instguard *)

\* What the files hold, and how severe findings are.
VettedInv ==
    /\ packageJson \in ManifestFiles
    /\ \A f \in found : f[2] \in 0 .. 4

\* Once the lock has been read, a declared dependency is in it or has a High finding.
PinnedInv ==
    step \in {"ask", "done"} => \A d \in declared :
        (\E c \in seen : DepName(c) = d) \/ <<d, High>> \in found \/ <<Project, High>> \in found

\* A malicious version in the lock is still to be asked about, was not answered, or has a finding.
AskedInv ==
    /\ step \in {"manifest", "stat", "lock"} => seen = {}
    /\ step \in {"ask", "done"} => \A c \in seen :
           <<DepName(c), c.version>> \in Malicious /\ DepName(c) # "" /\ c.version # NoVersion =>
               \/ step = "ask" /\ <<DepName(c), c.version>> \in queries
               \/ <<DepName(c), c.version>> \in unasked
               \/ <<DepName(c), Critical>> \in found

\* The gate opens for no finding of High or above.
GateInv == Passed => \A f \in found : f[2] < High

ProjectInv == VettedInv /\ PinnedInv /\ AskedInv /\ GateInv

LEMMA BlockIsOne ==
    ASSUME NEW F, NEW pairs, \A f \in F : f[2] \in 0 .. 4, GateCode(F, pairs) # 1
    PROVE  \A f \in F : f[2] < High
  <1> SUFFICES ASSUME NEW f \in F, f[2] >= High PROVE FALSE
    BY DEF High
  <1> DEFINE S == {Info} \cup {g[2] : g \in {h \in F : h[1] = f[1]}}
  <1>1. S \subseteq Grades /\ f[2] \in S
    BY DEF Grades, Info
  <1>2. Max(S) \in Grades /\ Max(S) >= f[2]
    BY <1>1, MaxOf
  <1>3. Worst(F, f[1]) = Max(S)
    BY DEF Worst
  <1>4. Decide(Worst(F, f[1])) = "BLOCK"
    BY <1>1, <1>2, <1>3 DEF Decide, High, Grades
  <1>5. f[1] \in DOMAIN Build(F, pairs) /\ Build(F, pairs)[f[1]] = "BLOCK"
    BY <1>4 DEF Build
  <1> QED
    BY <1>5 DEF GateCode

\* The severity of a script is that of the worst pattern it matches.
LEMMA ScriptsGraded ==
    ASSUME packageJson \in ManifestFiles
    PROVE  \A f \in ScanScripts(packageJson.holds.scripts) : f[2] \in 0 .. 4
  <1>1. \A s \in packageJson.holds.scripts : s.matches \in 0 .. 4
    <2>1. CASE packageJson \in [state : {"good"}, holds : Manifests]
      BY <2>1, InstguardAssumption
    <2>2. CASE packageJson.holds.scripts = {}
      BY <2>2
    <2> QED
      BY <2>1, <2>2 DEF ManifestFiles
  <1> QED
    BY <1>1 DEF ScanScripts, Info

LEMMA ReadManifestStep ==
    ASSUME ProjectInv, ReadManifest
    PROVE  ProjectInv'
  <1>1. step = "manifest" /\ seen = {} /\ step' \in {"stat", "ask"}
    BY DEF ReadManifest, ProjectInv, AskedInv
  <1>2. UNCHANGED <<packageJson, locked, queries, exitStatus, seen, unasked>>
    BY DEF ReadManifest, files
  <1>3. VettedInv'
    <2>1. \A f \in found' : f[2] \in 0 .. 4
      <3>1. \A f \in ScanScripts(packageJson.holds.scripts) : f[2] \in 0 .. 4
        BY ScriptsGraded DEF ProjectInv, VettedInv
      <3>2. packageJson.state \in States
        BY DEF ProjectInv, VettedInv, ManifestFiles, States
      <3>3. \/ found' = ScanScripts(packageJson.holds.scripts)
            \/ \E s \in {Info, Low, Medium} : found' = {<<Project, s>>}
        BY <3>2 DEF ReadManifest, States
      <3> QED
        BY <3>1, <3>3 DEF Info, Low, Medium
    <2> QED
      BY <1>2, <2>1 DEF ProjectInv, VettedInv
  <1>4. PinnedInv'
    <2>1. CASE packageJson.state = "good"
      BY <1>1, <2>1 DEF ReadManifest, PinnedInv
    <2>2. CASE packageJson.state # "good"
      <3>1. declared' = {}
        BY <2>2 DEF ReadManifest, ProjectInv, VettedInv, ManifestFiles
      <3> QED
        BY <3>1 DEF PinnedInv
    <2> QED
      BY <2>1, <2>2
  <1>5. AskedInv' /\ GateInv'
    BY <1>1, <1>2 DEF AskedInv, GateInv, Passed
  <1> QED
    BY <1>3, <1>4, <1>5 DEF ProjectInv

LEMMA StatLocksStep ==
    ASSUME ProjectInv, StatLocks
    PROVE  ProjectInv'
  <1>1. step = "stat" /\ step' = "lock" /\ UNCHANGED <<packageJson, seen>>
    BY DEF StatLocks, files
  <1>2. \A f \in found' : f[2] \in 0 .. 4
    BY DEF StatLocks, CompetingLockfiles, Medium, ProjectInv, VettedInv
  <1> QED
    BY <1>1, <1>2 DEF ProjectInv, VettedInv, PinnedInv, AskedInv, GateInv, Passed

LEMMA LockReadStep ==
    ASSUME ProjectInv, ReadPackageLock
    PROVE  ProjectInv'
  <1>1. step = "lock" /\ step' = "ask" /\ UNCHANGED <<packageJson, declared, present>>
    BY DEF ReadPackageLock, files
  <1>2. VettedInv'
    <2>1. \A f \in Drift(declared, locked', present) : f[2] \in 0 .. 4
      BY DEF Drift, High
    <2> QED
      BY <1>1, <2>1 DEF ReadPackageLock, ProjectInv, VettedInv, Medium
  <1>3. PinnedInv'
    <2> SUFFICES ASSUME NEW d \in declared,
                        ~ \E c \in seen' : DepName(c) = d
                 PROVE  <<d, High>> \in found' \/ <<Project, High>> \in found'
      BY <1>1 DEF PinnedInv
    <2>1. Drift(declared, locked', present) \subseteq found'
      BY DEF ReadPackageLock
    <2>2. CASE present
      <3>1. locked' = LockedVersions(packageLock.copies) /\ seen' = packageLock.copies
        BY <2>2 DEF ReadPackageLock
      <3>2. \A pair \in locked' : \E c \in seen' : pair = <<DepName(c), c.version>>
        BY <3>1 DEF LockedVersions, Named
      <3>3. d \notin NamesOf(locked')
        BY <3>2 DEF NamesOf
      <3> QED
        BY <2>1, <2>2, <3>3 DEF Drift
    <2>3. CASE ~present
      BY <2>1, <2>3 DEF Drift
    <2> QED
      BY <2>2, <2>3
  <1>4. AskedInv'
    <2>1. \A c \in seen' : DepName(c) # "" /\ c.version # NoVersion => <<DepName(c), c.version>> \in queries'
      BY DEF ReadPackageLock, LockedVersions, Named
    <2> QED
      BY <1>1, <2>1 DEF AskedInv
  <1> QED
    BY <1>1, <1>2, <1>3, <1>4 DEF ProjectInv, GateInv, Passed

LEMMA AskStep ==
    ASSUME ProjectInv, NEW pair, Ask(pair)
    PROVE  ProjectInv'
  <1>1. step = "ask" /\ UNCHANGED <<packageJson, step, declared, seen>>
    BY DEF Ask, files
  <1>2. found \subseteq found' /\ unasked \subseteq unasked' /\ queries' = queries \ {pair}
    BY DEF Ask
  <1>3. VettedInv'
    <2>1. \A f \in Advisories(pair) \cup {<<pair[1], Low>>} : f[2] \in 0 .. 4
      BY DEF Advisories, Medium, Critical, Low
    <2>2. found' \subseteq found \cup Advisories(pair) \cup {<<pair[1], Low>>}
      BY DEF Ask
    <2> QED
      BY <1>1, <2>1, <2>2 DEF ProjectInv, VettedInv
  <1>4. PinnedInv'
    BY <1>1, <1>2 DEF ProjectInv, PinnedInv
  <1>5. AskedInv'
    <2>1. pair \in unasked' \/ (pair \in Malicious => <<pair[1], Critical>> \in found')
      BY DEF Ask, Advisories
    <2>2. SUFFICES ASSUME NEW c \in seen, <<DepName(c), c.version>> \in Malicious,
                          DepName(c) # "", c.version # NoVersion
                   PROVE  \/ <<DepName(c), c.version>> \in queries'
                          \/ <<DepName(c), c.version>> \in unasked'
                          \/ <<DepName(c), Critical>> \in found'
      BY <1>1 DEF AskedInv
    <2>3. \/ <<DepName(c), c.version>> \in queries
          \/ <<DepName(c), c.version>> \in unasked
          \/ <<DepName(c), Critical>> \in found
      BY <1>1, <2>2 DEF ProjectInv, AskedInv
    <2>4. CASE <<DepName(c), c.version>> = pair
      BY <2>1, <2>2, <2>4
    <2>5. CASE <<DepName(c), c.version>> # pair
      BY <1>2, <2>3, <2>5
    <2> QED
      BY <2>4, <2>5
  <1> QED
    BY <1>1, <1>3, <1>4, <1>5 DEF ProjectInv, GateInv, Passed

LEMMA VerdictStep ==
    ASSUME ProjectInv, Judge
    PROVE  ProjectInv'
  <1>1. step = "ask" /\ step' = "done" /\ UNCHANGED <<packageJson, declared, locked, seen>>
    BY DEF Judge, files
  <1>2. found \subseteq found' /\ unasked' = unasked \cup queries /\ exitStatus' = GateCode(found', locked)
    BY DEF Judge
  <1>3. VettedInv'
    <2>1. PICK lines \in SUBSET BuildLines :
            found' = found \cup Cooldown(locked) \cup ScanBuildFile(lines) \cup (IF online THEN {} ELSE {<<Project, Info>>})
      BY DEF Judge
    <2>2. \A f \in Cooldown(locked) \cup ScanBuildFile(lines) : f[2] \in 0 .. 4
      BY DEF Cooldown, ScanBuildFile, Medium, High, Critical
    <2> QED
      BY <1>1, <2>1, <2>2 DEF ProjectInv, VettedInv, Info
  <1>4. PinnedInv'
    BY <1>1, <1>2 DEF ProjectInv, PinnedInv
  <1>5. AskedInv'
    BY <1>1, <1>2 DEF ProjectInv, AskedInv
  <1>6. GateInv'
    BY <1>2, <1>3, BlockIsOne DEF GateInv, VettedInv, Passed
  <1> QED
    BY <1>3, <1>4, <1>5, <1>6 DEF ProjectInv

LEMMA AuditStep ==
    ASSUME ProjectInv, Audit
    PROVE  ProjectInv'
  <1>1. step' = "audited" /\ UNCHANGED packageJson
    BY DEF Audit, files
  <1>2. \A f \in found' : f[2] \in 0 .. 4
    BY DEF Audit, Info, Medium
  <1> QED
    BY <1>1, <1>2 DEF ProjectInv, VettedInv, PinnedInv, AskedInv, GateInv, Passed

LEMMA RewriteStep ==
    ASSUME ProjectInv, Rewrite
    PROVE  ProjectInv'
  <1>1. step \in {"stat", "lock"} /\ UNCHANGED <<step, found, declared, seen>> /\ packageJson' \in ManifestFiles
    BY DEF Rewrite, ProjectInv, VettedInv
  <1> QED
    BY <1>1 DEF ProjectInv, VettedInv, PinnedInv, AskedInv, GateInv, Passed

LEMMA ProjectKept == ProjectInv /\ [IGNext]_(igVars) => ProjectInv'
  <1> SUFFICES ASSUME ProjectInv, [IGNext]_(igVars) PROVE ProjectInv'
    OBVIOUS
  <1>1. CASE ReadManifest BY <1>1, ReadManifestStep
  <1>2. CASE StatLocks BY <1>2, StatLocksStep
  <1>3. CASE ReadPackageLock BY <1>3, LockReadStep
  <1>4. CASE \E pair \in queries : Ask(pair) BY <1>4, AskStep
  <1>5. CASE Judge BY <1>5, VerdictStep
  <1>6. CASE Audit BY <1>6, AuditStep
  <1>7. CASE Rewrite BY <1>7, RewriteStep
  <1>8. CASE UNCHANGED igVars
    <2>1. UNCHANGED <<packageJson, step, found, declared, seen, queries, unasked, exitStatus>>
      BY <1>8 DEF igVars, files
    <2> QED
      BY <2>1 DEF ProjectInv, VettedInv, PinnedInv, AskedInv, GateInv, Passed
  <1> QED
    BY <1>1, <1>2, <1>3, <1>4, <1>5, <1>6, <1>7, <1>8 DEF IGNext, Check

LEMMA ProjectInvariant == IGSpec => []ProjectInv
  <1>1. IGInit => ProjectInv
    BY DEF IGInit, ProjectInv, VettedInv, PinnedInv, AskedInv, GateInv, Passed
  <1>2. ProjectInv /\ [IGNext]_(igVars) => ProjectInv'
    BY ProjectKept
  <1> QED
    BY <1>1, <1>2, PTL DEF IGSpec

\* Any project, any answers of OSV, rewritten meanwhile or not: the gate opens only when each
\* declared dependency is in the lock under its name (Scan, Drift).
THEOREM OpenMeansPinned == IGSpec => []PassMeansPinned
  <1>1. ProjectInv => PassMeansPinned
    <2>1. ProjectInv /\ Passed => \A x : <<x, High>> \notin found
      BY DEF ProjectInv, GateInv, High
    <2> QED
      BY <2>1 DEF ProjectInv, PinnedInv, PassMeansPinned, Passed
  <1> QED
    BY <1>1, ProjectInvariant, PTL

\* Any lock, however deep, and any set of advisories: the gate opens for no copy OSV answers is
\* malicious, but for those with no version, no answer, no name, or another package's name (osvCheck, Build).
THEOREM MaliciousStopped == IGSpec => []KnownMaliciousIsBlocked
  <1>1. ProjectInv => KnownMaliciousIsBlocked
    <2>1. ProjectInv /\ Passed => \A x : <<x, Critical>> \notin found
      BY DEF ProjectInv, GateInv, High, Critical
    <2> QED
      BY <2>1, InstguardAssumption DEF ProjectInv, AskedInv, KnownMaliciousIsBlocked, Passed
  <1> QED
    BY <1>1, ProjectInvariant, PTL
-----------------------------------------------------------------------------
(* Bpfsentry *)

\* The enumeration lies between what was visible throughout and what was visible at some time.
SeenInv ==
    /\ loaded \subseteq Programs
    /\ ever \subseteq Programs
    /\ allowlist.programs \subseteq Programs
    /\ live.state # "good" => live.programs = {}
    /\ live.state = "good" => steady \subseteq live.programs /\ live.programs \subseteq ever

\* Where the command is; its exit code says how severe the worst finding is.
CodeInv ==
    /\ severest \in 0 .. 4
    /\ phase \in {"saving", "writing"} => command = "baseline"
    /\ phase = "oob" => command = "diff"
    /\ exitCode # Running => phase = "done" /\ (command # "baseline" => exitCode = CodeOf(severest))

\* A difference from the allowlist, or between the two views, is in the worst finding.
ToldInv ==
    /\ phase \in {"oob", "done"} /\ Diffed /\ Signature(live.programs) # Signature(allowlist.programs)
         => severest >= Medium
    /\ compared => phase = "done" /\ command = "diff"
    /\ compared /\ (Missing(image.programs, live.programs) # {} \/ ScanHelpers(image.programs) # {})
         => severest >= Medium

SentryInv == SeenInv /\ CodeInv /\ ToldInv

\* What the kernel does while no command runs, or while one does.
LEMMA KernelStep ==
    ASSUME SentryInv, NEW p \in Programs, Load(p) \/ Unload(p) \/ Hide(p)
    PROVE  SentryInv'
  <1>1. UNCHANGED <<configured, image, allowlist, command, phase, live, severest, exitCode, compared>>
    BY DEF Load, Unload, Hide, inputs
  <1>2. loaded' \subseteq Programs /\ ever \subseteq ever' /\ ever' \subseteq Programs
        /\ steady' \subseteq steady
    BY DEF Load, Unload, Hide, SentryInv, SeenInv
  <1>3. SeenInv'
    BY <1>1, <1>2 DEF SentryInv, SeenInv
  <1> QED
    BY <1>1, <1>3 DEF SentryInv, CodeInv, ToldInv, Diffed

LEMMA SnapshotStep == SentryInv /\ Snapshot => SentryInv'
  <1> SUFFICES ASSUME SentryInv, Snapshot PROVE SentryInv'
    OBVIOUS
  <1>1. UNCHANGED <<loaded, configured, allowlist, command, phase, live, severest, exitCode, compared,
          steady, ever>>
    BY DEF Snapshot, kernel, viewHistory
  <1>2. ~compared
    BY DEF Snapshot, SentryInv, ToldInv
  <1> QED
    BY <1>1, <1>2 DEF SentryInv, SeenInv, CodeInv, ToldInv, Diffed

\* The host, the command or its reader starts anew.
LEMMA AnewStep ==
    ASSUME SentryInv, Reboot \/ Report
    PROVE  SentryInv'
  <1>1. phase' = "idle" /\ exitCode' = Running /\ severest' = Info /\ ~compared' /\ ever' = {}
        /\ UNCHANGED allowlist
    BY DEF Reboot, Report
  <1>2. live' = [state |-> "none", programs |-> {}] /\ loaded' \subseteq Programs
    BY DEF Reboot, Report, kernel, SentryInv, SeenInv
  <1> QED
    BY <1>1, <1>2 DEF SentryInv, SeenInv, CodeInv, ToldInv, Info, Running

LEMMA ShowStep ==
    ASSUME SentryInv, (\E c \in {"baseline", "diff", "status"} : ShowPrograms(c)) \/ ShowMapsAndLinks
    PROVE  SentryInv'
  <1>1. CASE \E c \in {"baseline", "diff", "status"} : ShowPrograms(c)
    <2>1. phase' \in {"rest", "enumerated"} /\ exitCode' = Running /\ severest' = Info /\ ~compared'
          /\ UNCHANGED <<loaded, allowlist>>
      BY <1>1 DEF ShowPrograms, kernel
    <2>2. steady' = Visible /\ ever' = Visible /\ Visible \subseteq Programs
      BY <1>1 DEF ShowPrograms, Visible, SentryInv, SeenInv
    <2>3. \/ live' = [state |-> "good", programs |-> Visible]
          \/ live' = [state |-> "failed", programs |-> {}]
      BY <1>1 DEF ShowPrograms
    <2> QED
      BY <2>1, <2>2, <2>3 DEF SentryInv, SeenInv, CodeInv, ToldInv, Info, Running
  <1>2. CASE ShowMapsAndLinks
    <2>1. phase = "rest" /\ phase' = "enumerated" /\ UNCHANGED <<loaded, allowlist, command, severest,
            exitCode, compared, steady, ever>>
      BY <1>2 DEF ShowMapsAndLinks, kernel, viewHistory
    <2>2. live' = live \/ live' = [state |-> "failed", programs |-> {}]
      BY <1>2 DEF ShowMapsAndLinks
    <2> QED
      BY <2>1, <2>2 DEF SentryInv, SeenInv, CodeInv, ToldInv
  <1> QED
    BY <1>1, <1>2

\* The baseline is not compared with anything.
LEMMA AllowlistStep ==
    ASSUME SentryInv, Capture \/ TruncateAllowlist \/ SaveAllowlist
    PROVE  SentryInv'
  <1>1. command = "baseline" /\ ~compared
    BY DEF Capture, TruncateAllowlist, SaveAllowlist, SentryInv, CodeInv, ToldInv
  <1>2. UNCHANGED <<loaded, command, live, severest, compared, steady, ever>>
    BY DEF Capture, TruncateAllowlist, SaveAllowlist, kernel, viewHistory
  <1>3. allowlist'.programs \subseteq Programs
    BY DEF Capture, TruncateAllowlist, SaveAllowlist, SentryInv, SeenInv
  <1>4. phase' \in {"saving", "writing", "done"} /\ (exitCode' # Running => phase' = "done")
    BY DEF Capture, TruncateAllowlist, SaveAllowlist, Finish, SentryInv, CodeInv
  <1> QED
    BY <1>1, <1>2, <1>3, <1>4 DEF SentryInv, SeenInv, CodeInv, ToldInv, Diffed

LEMMA DiffStep == SentryInv /\ DiffAllowlist => SentryInv'
  <1> SUFFICES ASSUME SentryInv, DiffAllowlist PROVE SentryInv'
    OBVIOUS
  <1>1. phase = "enumerated" /\ phase' = "oob" /\ command = "diff"
        /\ UNCHANGED <<loaded, configured, allowlist, command, live, exitCode, compared, steady, ever>>
    BY DEF DiffAllowlist, kernel, inputs, viewHistory
  <1>2. ~compared /\ exitCode = Running
    BY <1>1 DEF SentryInv, CodeInv, ToldInv
  <1> DEFINE D == CASE ~configured -> {Info}
                    [] configured /\ allowlist.state # "good" -> {Low}
                    [] OTHER -> IF live.state = "good" THEN Diff(allowlist.programs, live.programs) ELSE {}
  <1> DEFINE S == {severest} \cup (IF live.state = "failed" THEN {Low} ELSE {}) \cup D
  <1>3. severest' = Max(S)
    BY DEF DiffAllowlist
  <1>4. Diff(allowlist.programs, live.programs) \subseteq 0 .. 4
    BY DEF Diff, Unallowlisted, ScanHelpers, Info, Low, Medium, High, Critical
  <1>5. D \subseteq 0 .. 4
    BY <1>4 DEF Info, Low
  <1>6. S \subseteq 0 .. 4 /\ S # {}
    BY <1>5 DEF SentryInv, CodeInv, Low
  <1>7. severest' \in 0 .. 4 /\ \A s \in S : severest' >= s
    <2> HIDE DEF S
    <2> QED
      BY <1>3, <1>6, MaxOf DEF Grades
  <1>8. Diffed /\ Signature(live.programs) # Signature(allowlist.programs) => severest' >= Medium
    <2> SUFFICES ASSUME Diffed, Signature(live.programs) # Signature(allowlist.programs) PROVE severest' >= Medium
      OBVIOUS
    <2>1. D = Diff(allowlist.programs, live.programs)
      BY DEF Diffed
    <2>2. Medium \in D
      BY <2>1 DEF Diff, Diffed
    <2> QED
      BY <1>7, <2>2
  <1> HIDE DEF S, D
  <1> QED
    BY <1>1, <1>2, <1>7, <1>8 DEF SentryInv, SeenInv, CodeInv, ToldInv, Diffed

LEMMA ImageStep ==
    ASSUME SentryInv, NoImage \/ CompareImage
    PROVE  SentryInv'
  <1>1. phase = "oob" /\ phase' = "done" /\ command = "diff" /\ UNCHANGED <<loaded, configured, image,
          allowlist, command, live, steady, ever>>
    BY DEF NoImage, CompareImage, Finish, kernel, inputs, viewHistory, SentryInv, CodeInv
  <1>2. /\ severest' \in 0 .. 4 /\ severest' >= severest /\ exitCode' = CodeOf(severest')
        /\ compared' /\ (Missing(image.programs, live.programs) # {} \/ ScanHelpers(image.programs) # {})
              => severest' >= Medium
    <2>1. CASE NoImage
      <3>1. PICK w \in {Info, Low} : severest' = Max({severest, w}) /\ exitCode' = CodeOf(Max({severest, w}))
        BY <2>1 DEF NoImage, Worsen, Finish
      <3>2. {severest, w} \subseteq 0 .. 4
        BY DEF SentryInv, CodeInv, Info, Low
      <3>3. severest' \in {severest, w} /\ severest' >= severest
        BY <3>1, <3>2, MaxOf DEF Grades
      <3>4. ~compared'
        BY <1>1, <2>1 DEF NoImage, SentryInv, ToldInv
      <3> QED
        BY <3>1, <3>2, <3>3, <3>4
    <2>2. CASE CompareImage
      <3> DEFINE S == {severest} \cup ScanHelpers(image.programs)
                        \cup IF live.state = "good" THEN Divergence(live.programs, image.programs) ELSE {Low}
      <3>1. severest' = Max(S) /\ exitCode' = CodeOf(severest') /\ compared' = (live.state = "good")
        BY <2>2 DEF CompareImage, Finish
      <3>2. S \subseteq 0 .. 4 /\ S # {}
        BY DEF SentryInv, CodeInv, ScanHelpers, Divergence, Low, High, Critical
      <3>3. ScanHelpers(image.programs) # {} => High \in S
        BY DEF ScanHelpers
      <3>4. live.state = "good" /\ Missing(image.programs, live.programs) # {} => Critical \in S
        BY DEF Divergence
      <3>5. severest \in S
        OBVIOUS
      <3> HIDE DEF S
      <3>6. severest' \in 0 .. 4 /\ \A s \in S : severest' >= s
        BY <3>1, <3>2, MaxOf DEF Grades
      <3>7. QED
        <4>1. severest' \in 0 .. 4 /\ severest' >= severest /\ exitCode' = CodeOf(severest')
          BY <3>1, <3>5, <3>6
        <4>2. compared' /\ Missing(image.programs, live.programs) # {} => severest' >= Medium
          <5>1. compared' => live.state = "good"
            BY <3>1
          <5> QED
            BY <3>4, <3>6, <5>1 DEF Medium, Critical
        <4>3. compared' /\ ScanHelpers(image.programs) # {} => severest' >= Medium
          BY <3>3, <3>6 DEF Medium, High
        <4> QED
          BY <4>1, <4>2, <4>3
    <2> QED
      BY <2>1, <2>2
  <1>3. SeenInv' /\ CodeInv'
    BY <1>1, <1>2 DEF SentryInv, SeenInv, CodeInv
  <1>4. ToldInv'
    BY <1>1, <1>2 DEF SentryInv, ToldInv, CodeInv, Diffed, Medium
  <1> QED
    BY <1>3, <1>4 DEF SentryInv

LEMMA StatusStep == SentryInv /\ Status => SentryInv'
  <1> SUFFICES ASSUME SentryInv, Status PROVE SentryInv'
    OBVIOUS
  <1>1. command = "status" /\ phase = "enumerated" /\ phase' = "done"
        /\ UNCHANGED <<loaded, command, allowlist, live, compared, steady, ever>>
    BY DEF Status, Finish, kernel, viewHistory
  <1>2. severest' \in 0 .. 4 /\ exitCode' = CodeOf(severest')
    BY DEF Status, Finish, Low, Info
  <1>3. ~compared
    BY <1>1 DEF SentryInv, ToldInv
  <1> QED
    BY <1>1, <1>2, <1>3 DEF SentryInv, SeenInv, CodeInv, ToldInv, Diffed

LEMMA SentryInvariant == BPSpec => []SentryInv
  <1>1. BPInit => SentryInv
    BY DEF BPInit, SentryInv, SeenInv, CodeInv, ToldInv, Info, Running
  <1>2. SentryInv /\ [BPNext]_(bpVars) => SentryInv'
    <2> SUFFICES ASSUME SentryInv, [BPNext]_(bpVars) PROVE SentryInv'
      OBVIOUS
    <2>1. CASE \E p \in Programs : Load(p) \/ Unload(p) \/ Hide(p) BY <2>1, KernelStep
    <2>2. CASE Snapshot BY <2>2, SnapshotStep
    <2>3. CASE Reboot \/ Report BY <2>3, AnewStep
    <2>4. CASE (\E c \in {"baseline", "diff", "status"} : ShowPrograms(c)) \/ ShowMapsAndLinks BY <2>4, ShowStep
    <2>5. CASE Capture \/ TruncateAllowlist \/ SaveAllowlist BY <2>5, AllowlistStep
    <2>6. CASE DiffAllowlist BY <2>6, DiffStep
    <2>7. CASE NoImage \/ CompareImage BY <2>7, ImageStep
    <2>8. CASE Status BY <2>8, StatusStep
    <2>9. CASE UNCHANGED bpVars
      <3>1. UNCHANGED <<loaded, configured, image, allowlist, command, phase, live, severest, exitCode,
              compared, steady, ever>>
        BY <2>9 DEF bpVars, kernel, inputs, viewHistory
      <3> QED
        BY <3>1 DEF SentryInv, SeenInv, CodeInv, ToldInv, Diffed
    <2> QED
      BY <2>1, <2>2, <2>3, <2>4, <2>5, <2>6, <2>7, <2>8, <2>9 DEF BPNext
  <1> QED
    BY <1>1, <1>2, PTL DEF BPSpec

\* Any programs, loaded and unloaded while bpfsentry looks: a diff that exits 0 has counted no
\* fewer of each kind in the allowlist than stayed visible, and no more than ever were (Diff).
THEOREM CleanMeansCounted == BPSpec => []CleanMeansUnchanged
  <1>1. SentryInv => CleanMeansUnchanged
    <2> SUFFICES ASSUME SentryInv, exitCode = 0, Diffed,
                        NEW k \in Keys(steady \cup allowlist.programs)
                 PROVE  /\ Cardinality(WithKey(steady, k)) <= Cardinality(WithKey(allowlist.programs, k))
                        /\ Cardinality(WithKey(allowlist.programs, k)) <= Cardinality(WithKey(ever, k))
      BY DEF CleanMeansUnchanged
    <2>1. phase = "done" /\ severest < Medium
      BY DEF SentryInv, CodeInv, Running, Diffed, CodeOf
    <2>2. Signature(live.programs) = Signature(allowlist.programs)
      BY <2>1 DEF SentryInv, CodeInv, ToldInv, Medium
    <2>3. steady \subseteq live.programs /\ live.programs \subseteq ever /\ ever \subseteq Programs
      BY DEF SentryInv, SeenInv, Diffed
    <2>4. Keys(live.programs) = Keys(allowlist.programs)
      BY <2>2 DEF Signature
    <2>5. k \in Keys(live.programs)
      BY <2>3, <2>4 DEF Keys
    <2>6. Cardinality(WithKey(live.programs, k)) = Cardinality(WithKey(allowlist.programs, k))
      BY <2>2, <2>4, <2>5 DEF Signature
    <2>7. WithKey(steady, k) \subseteq WithKey(live.programs, k)
          /\ WithKey(live.programs, k) \subseteq WithKey(ever, k)
      BY <2>3 DEF WithKey
    <2>8. IsFiniteSet(WithKey(ever, k))
      <3>1. WithKey(ever, k) \subseteq Programs
        BY <2>3 DEF WithKey
      <3> QED
        BY <3>1, FS_Subset, BpfsentryAssumption
    <2>9. IsFiniteSet(WithKey(live.programs, k))
      BY <2>7, <2>8, FS_Subset
    <2> QED
      BY <2>6, <2>7, <2>8, <2>9, FS_Subset
  <1> QED
    BY <1>1, SentryInvariant, PTL

\* Any image and any live view, the image's tags erased or not: a diff that has compared them and
\* exits 0 has a program shown for each of the image, and none with a suspicious helper (Divergence).
THEOREM ImageAccounted == BPSpec => []HiddenIsTold
  <1>1. SentryInv => HiddenIsTold
    <2> SUFFICES ASSUME SentryInv, exitCode = 0, compared, NEW p \in image.programs
                 PROVE  /\ p.helpers \cap Suspicious = {}
                        /\ \E q \in live.programs : q.tag = p.tag /\ (q.tag = Tagless => q.type = p.type /\ q.name = p.name)
      BY DEF HiddenIsTold
    <2>1. severest < Medium
      BY DEF SentryInv, CodeInv, ToldInv, Running, CodeOf
    <2>2. Missing(image.programs, live.programs) = {} /\ ScanHelpers(image.programs) = {}
      BY <2>1 DEF SentryInv, CodeInv, ToldInv, Medium
    <2>3. p.helpers \cap Suspicious = {}
      BY <2>2 DEF ScanHelpers
    <2>4. PICK q \in live.programs : Key(q) = Key(p)
      BY <2>2 DEF Missing, Keys
    <2>5. q.tag = p.tag /\ (q.tag = Tagless => q.type = p.type /\ q.name = p.name)
      <3>1. CASE p.tag # Tagless
        <4>1. Key(p)[1] = "tag" /\ Key(p)[2] = p.tag
          BY <3>1 DEF Key
        <4>2. q.tag # Tagless
          BY <2>4, <4>1 DEF Key
        <4>3. Key(q)[2] = q.tag
          BY <4>2 DEF Key
        <4> QED
          BY <2>4, <4>1, <4>2, <4>3
      <3>2. CASE p.tag = Tagless
        <4>1. Key(p)[1] = "nt" /\ Key(p)[2] = p.type /\ Key(p)[3] = p.name
          BY <3>2 DEF Key
        <4>2. q.tag = Tagless
          BY <2>4, <4>1 DEF Key
        <4>3. Key(q)[2] = q.type /\ Key(q)[3] = q.name
          BY <4>2 DEF Key
        <4> QED
          BY <2>4, <3>2, <4>1, <4>2, <4>3
      <3> QED
        BY <3>1, <3>2
    <2> QED
      BY <2>3, <2>5
  <1> QED
    BY <1>1, SentryInvariant, PTL
-----------------------------------------------------------------------------
(* Honeytoken: the inductive invariant *)

Baseline == [name : Names, sum : Int, at : Nat, mt : Nat]
FileState == [there : BOOLEAN, sum : Int, big : BOOLEAN, at : Nat, mt : Nat]
Stats == [there : BOOLEAN, at : Nat, mt : Nat, evidence : BOOLEAN, altered : BOOLEAN, excused : BOOLEAN]
Hashes == {"none", "same", "differs"}
WatchVerdicts == {"missing", "modified", "tripped", "touched", "quiet", "ballooned"}
Reports == [verdict : WatchVerdicts, hash : Hashes, evidence : BOOLEAN, altered : BOOLEAN, excused : BOOLEAN]
CommandState ==
    [pc : {"idle", "roots", "targets", "load", "stat", "hash", "read", "restore", "done"},
     readonly : BOOLEAN, roots : BOOLEAN, worst : Grades, exposed : BOOLEAN,
     todo : Seq(Baseline), stat : Stats, back : Nat \X Nat, hash : Hashes, seen : Seq(Reports)]
Deployment ==
    [pc : {"idle", "create", "write", "stat", "save", "write out"}, todo : Seq(Names), records : Seq(Baseline)]
Looking == {"stat", "hash", "read", "restore"}

\* The types the proofs need; a manifest that can be parsed lists a decoy, and who works at a
\* decoy has one at hand.
FileTypes ==
    /\ now \in Nat /\ file \in [Names -> FileState]
    /\ spent \in [deploys : Nat, runs : Nat, foreign : Nat, crashes : Nat]
ManifestTypes == manifest \in [ok : BOOLEAN, records : Seq(Baseline)] /\ (manifest.ok => manifest.records # <<>>)
DeployTypes ==
    /\ deploy \in Deployment /\ IsInjective(deploy.todo)
    /\ deploy.pc \in {"create", "write", "stat"} => deploy.todo # <<>>
    /\ deploy.pc = "write out" => deploy.records # <<>>
CommandTypes ==
    /\ cmd \in [Commands -> CommandState]
    /\ \A c \in Commands : cmd[c].pc \in Looking => cmd[c].todo # <<>>
DecoyTypes == FileTypes /\ ManifestTypes /\ DeployTypes /\ CommandTypes

\* What is at a decoy's path is not what the baseline is of.
Broken(r) == file[r.name].there => Altered(r)

\* Each deployment writes contents of its own, and each decoy once.
GenerationInv ==
    \A r \in Baselines :
        /\ r.sum \in 0 .. spent.deploys
        /\ deploy.pc \in {"create", "write", "stat"} /\ r.sum = spent.deploys => r.name \notin ToSet(deploy.todo)

\* The decoy that a deployment is making was nobody's file: not the operator's, and not what an
\* older baseline is of.
MakingInv ==
    deploy.pc \in {"write", "stat"} =>
        /\ file[Decoy].sum # Own
        /\ \A r \in Baselines : r.name = Decoy => Broken(r)

\* A foreign read that no watch was in the middle of shows in the access time for good.
EvidenceInv ==
    \A r \in Baselines : r.name \in evidence =>
        /\ now > r.at
        /\ file[r.name].there => file[r.name].at > r.at
        /\ \A c \in Commands : Holds(c, r.name) => cmd[c].back[1] > r.at

\* An access time past the baseline is somebody's, a watch's that has still to put it back
\* included; and a watch puts back no later time than the baseline's, but for one somebody moved.
TimesInv ==
    \A r \in Baselines : ~Broken(r) /\ r.name \notin foreignReads \cup left =>
        /\ file[r.name].at > r.at => \E c \in Commands : Holds(c, r.name) /\ cmd[c].pc = "restore"
        /\ \A c \in Commands : Holds(c, r.name) => cmd[c].back[1] <= r.at

\* What a watch knows of the decoy it has not yet judged.
Knows(k) ==
    k.pc \in {"hash", "read", "restore"} =>
        /\ k.stat.there /\ k.stat.at <= Head(k.todo).at /\ ~k.stat.evidence
        /\ k.stat.altered => Broken(Head(k.todo))
        /\ k.pc = "restore" => k.hash # "none" /\ (k.stat.altered => k.hash = "differs")
WatchInv == \A c \in Commands : Knows(cmd[c])

\* A finding says what it should, and the command's worst finding is no less.
SoundFor(grade, f) ==
    /\ Severity(f.verdict) >= Medium => grade >= Medium
    /\ f.evidence \/ (f.altered /\ f.hash # "none") => Severity(f.verdict) >= Medium
    /\ f.verdict = "tripped" => f.excused \/ f.altered
Truthful(k) ==
    /\ k.exposed => k.worst >= Medium
    /\ \A i \in DOMAIN k.seen : SoundFor(k.worst, k.seen[i])
ReportInv == \A c \in Commands : Truthful(cmd[c])

DecoyInv ==
    /\ DecoyTypes /\ GenerationInv /\ MakingInv
    /\ EvidenceInv /\ TimesInv
    /\ WatchInv /\ ReportInv

-----------------------------------------------------------------------------
(* Honeytoken: lemmas about the operators *)

LEMMA SeqOps ==
    ASSUME NEW S, NEW s \in Seq(S)
    PROVE  /\ ToSet(s) \subseteq S
           /\ s = <<>> <=> Len(s) = 0
           /\ s # <<>> => /\ Head(s) \in ToSet(s) /\ Head(s) \in S
                          /\ Tail(s) \in Seq(S) /\ ToSet(Tail(s)) \subseteq ToSet(s)
                          /\ Len(s) # 1 => Tail(s) # <<>>
           /\ \A e \in S : Append(s, e) \in Seq(S) /\ Append(s, e) # <<>> /\ ToSet(Append(s, e)) = ToSet(s) \cup {e}
  <1>1. ToSet(s) \subseteq S /\ (s = <<>> <=> Len(s) = 0)
    BY DEF ToSet
  <1>2. ASSUME s # <<>>
        PROVE  /\ Head(s) \in ToSet(s) /\ Head(s) \in S
               /\ Tail(s) \in Seq(S) /\ ToSet(Tail(s)) \subseteq ToSet(s)
               /\ Len(s) # 1 => Tail(s) # <<>>
    <2>1. Head(s) = s[1] /\ 1 \in DOMAIN s
      BY <1>2
    <2>2. Tail(s) \in Seq(S) /\ Len(Tail(s)) = Len(s) - 1 /\ \A i \in 1 .. Len(s) - 1 : Tail(s)[i] = s[i + 1]
      BY <1>2
    <2>3. ToSet(Tail(s)) \subseteq ToSet(s)
      BY <2>2 DEF ToSet
    <2> QED
      BY <1>1, <2>1, <2>2, <2>3 DEF ToSet
  <1>3. ASSUME NEW e \in S
        PROVE  Append(s, e) \in Seq(S) /\ Append(s, e) # <<>> /\ ToSet(Append(s, e)) = ToSet(s) \cup {e}
    <2>1. Append(s, e) \in Seq(S) /\ Len(Append(s, e)) = Len(s) + 1 /\ Append(s, e)[Len(s) + 1] = e
          /\ \A i \in 1 .. Len(s) : Append(s, e)[i] = s[i]
      OBVIOUS
    <2>2. ToSet(Append(s, e)) \subseteq ToSet(s) \cup {e}
      BY <2>1 DEF ToSet
    <2>3. ToSet(s) \cup {e} \subseteq ToSet(Append(s, e))
      <3>1. \A i \in DOMAIN s : s[i] \in ToSet(Append(s, e))
        BY <2>1 DEF ToSet
      <3>2. e \in ToSet(Append(s, e))
        BY <2>1 DEF ToSet
      <3> QED
        BY <3>1, <3>2 DEF ToSet
    <2> QED
      BY <2>1, <2>2, <2>3
  <1> QED
    BY <1>1, <1>2, <1>3

\* Of a list without repetitions, the first is not among the rest.
LEMMA TailWithout ==
    ASSUME NEW S, NEW s \in Seq(S), s # <<>>, IsInjective(s)
    PROVE  IsInjective(Tail(s)) /\ Head(s) \notin ToSet(Tail(s))
  <1>1. Tail(s) \in Seq(S) /\ Len(Tail(s)) = Len(s) - 1 /\ \A i \in 1 .. Len(s) - 1 : Tail(s)[i] = s[i + 1]
    OBVIOUS
  <1>2. Head(s) = s[1]
    OBVIOUS
  <1> QED
    BY <1>1, <1>2 DEF IsInjective, ToSet

LEMMA Ranks ==
    /\ Info \in Grades /\ Low \in Grades /\ Medium \in Grades /\ High \in Grades /\ Critical \in Grades
    /\ \A v \in WatchVerdicts : Severity(v) \in Grades
  BY DEF Grades, Info, Low, Medium, High, Critical, Severity, WatchVerdicts

LEMMA MaxOfTwo ==
    ASSUME NEW a \in Grades, NEW b \in Grades
    PROVE  Max({a, b}) \in Grades /\ Max({a, b}) >= a /\ Max({a, b}) >= b
  BY MaxOf

-----------------------------------------------------------------------------
(* Honeytoken: the steps *)

LEMMA DecoyInit == HTInit => DecoyInv
  <1> SUFFICES ASSUME HTInit PROVE DecoyInv
    OBVIOUS
  <1>1. Baselines = {}
    BY DEF Baselines, HTInit, Unreadable, NoDeploy, NoRun, ToSet
  <1>2. NoFile \in FileState /\ File(Own) \in FileState
    BY DEF HTInit, NoFile, File, FileState, Cut, Own
  <1>3. NoRun \in CommandState
    BY Ranks DEF NoRun, NoStat, CommandState, Stats, Hashes
  <1>4. DecoyTypes
    <2>1. FileTypes
      BY <1>2 DEF HTInit, FileTypes
    <2>2. ManifestTypes
      BY DEF HTInit, ManifestTypes, Unreadable
    <2>3. DeployTypes
      BY DEF HTInit, DeployTypes, Deployment, NoDeploy, IsInjective
    <2>4. CommandTypes
      BY <1>3 DEF HTInit, CommandTypes, NoRun, Looking
    <2> QED
      BY <2>1, <2>2, <2>3, <2>4 DEF DecoyTypes
  <1>5. WatchInv /\ ReportInv /\ MakingInv
    BY DEF HTInit, WatchInv, Knows, ReportInv, Truthful, MakingInv, NoDeploy, NoRun
  <1> QED
    BY <1>1, <1>4, <1>5 DEF DecoyInv, GenerationInv, EvidenceInv, TimesInv

\* Who may still compare with a baseline has it from the manifest, or is the deployment.
LEMMA BaselineTypes == DecoyTypes => Baselines \subseteq Baseline
  <1> SUFFICES ASSUME DecoyTypes PROVE Baselines \subseteq Baseline
    OBVIOUS
  <1>1. ToSet(manifest.records) \subseteq Baseline /\ ToSet(deploy.records) \subseteq Baseline
    BY SeqOps DEF DecoyTypes, ManifestTypes, DeployTypes, Deployment
  <1>2. ASSUME NEW c \in Commands PROVE ToSet(cmd[c].todo) \subseteq Baseline
    <2>1. cmd[c].todo \in Seq(Baseline)
      BY DEF DecoyTypes, CommandTypes, CommandState
    <2> QED
      BY <2>1, SeqOps
  <1> QED
    BY <1>1, <1>2 DEF Baselines

\* A decoy in hand is one of the decoys.
LEMMA DecoyInHand ==
    ASSUME DecoyTypes, deploy.pc \in {"create", "write", "stat"}
    PROVE  Decoy \in Names /\ Decoy \in ToSet(deploy.todo) /\ file[Decoy] \in FileState
  BY SeqOps DEF DecoyTypes, FileTypes, DeployTypes, Deployment, Decoy

LEMMA RecordInHand ==
    ASSUME DecoyTypes, NEW c \in Commands, cmd[c].pc \in Looking
    PROVE  Record(c) \in Baseline /\ Record(c) \in Baselines /\ At(c) \in FileState
  <1>1. cmd[c].todo \in Seq(Baseline) /\ cmd[c].todo # <<>>
    BY DEF DecoyTypes, CommandTypes, CommandState
  <1>2. Record(c) \in Baseline /\ Record(c) \in ToSet(cmd[c].todo)
    BY <1>1, SeqOps DEF Record
  <1> QED
    BY <1>2 DEF Baselines, At, DecoyTypes, FileTypes, Baseline

\* A step that touches no file, no time and no history that matters keeps what the times tell.
Quiet ==
    /\ Baselines' \subseteq Baselines
    /\ UNCHANGED <<file, evidence, foreignReads>> /\ left \subseteq left'
    /\ now' \in Nat /\ now' >= now
    /\ \A c \in Commands, d \in Names : Holds(c, d)' => Holds(c, d) /\ cmd'[c].back = cmd[c].back
    /\ \A c \in Commands, d \in Names :
           Holds(c, d) /\ cmd[c].pc = "restore" /\ file[d].there
             => d \in left' \/ (Holds(c, d)' /\ cmd'[c].pc = "restore")

LEMMA QuietTimes ==
    ASSUME DecoyInv, Quiet
    PROVE  EvidenceInv' /\ TimesInv'
  <1>1. \A r \in Baselines' : r \in Baselines /\ r \in Baseline /\ r.name \in Names
    BY BaselineTypes DEF Quiet, DecoyInv, Baseline
  <1>2. ASSUME NEW r \in Baselines', r.name \in evidence'
        PROVE  /\ now' > r.at
               /\ file'[r.name].there => file'[r.name].at > r.at
               /\ \A c \in Commands : Holds(c, r.name)' => cmd'[c].back[1] > r.at
    <2>1. r \in Baselines /\ r.name \in evidence /\ r.at \in Nat /\ now \in Nat
      BY <1>1, <1>2 DEF Quiet, Baseline, DecoyInv, DecoyTypes, FileTypes
    <2>2. /\ now > r.at
          /\ file[r.name].there => file[r.name].at > r.at
          /\ \A c \in Commands : Holds(c, r.name) => cmd[c].back[1] > r.at
      BY <2>1 DEF DecoyInv, EvidenceInv
    <2> QED
      BY <1>1, <2>1, <2>2 DEF Quiet
  <1>3. ASSUME NEW r \in Baselines', ~Broken(r)', r.name \notin foreignReads' \cup left'
        PROVE  /\ file'[r.name].at > r.at => \E c \in Commands : Holds(c, r.name)' /\ cmd'[c].pc = "restore"
               /\ \A c \in Commands : Holds(c, r.name)' => cmd'[c].back[1] <= r.at
    <2>1. r \in Baselines /\ ~Broken(r) /\ file[r.name].there /\ r.name \notin foreignReads \cup left
      BY <1>1, <1>3 DEF Quiet, Broken, Altered
    <2>2. /\ file[r.name].at > r.at => \E c \in Commands : Holds(c, r.name) /\ cmd[c].pc = "restore"
          /\ \A c \in Commands : Holds(c, r.name) => cmd[c].back[1] <= r.at
      BY <2>1 DEF DecoyInv, TimesInv
    <2> QED
      BY <1>1, <1>3, <2>1, <2>2 DEF Quiet
  <1>4. EvidenceInv'
    BY <1>2 DEF EvidenceInv
  <1>5. TimesInv'
    BY <1>3 DEF TimesInv
  <1> QED
    BY <1>4, <1>5

\* What is at a path stops being the baseline's for good, and nobody makes the operator's file.
Worn ==
    /\ \A r \in Baselines : Broken(r) => Broken(r)'
    /\ \A d \in Names : file[d].sum # Own => file'[d].sum # Own

LEMMA FilesKept == UNCHANGED file => Worn
  BY DEF Worn, Broken, Altered

\* While no command takes a step.
LEMMA CommandsKept ==
    ASSUME DecoyInv, UNCHANGED cmd, Worn
    PROVE  WatchInv' /\ ReportInv'
  <1>1. ReportInv'
    BY DEF DecoyInv, ReportInv
  <1>2. ASSUME NEW c \in Commands, cmd[c].pc \in {"hash", "read", "restore"}, Broken(Head(cmd[c].todo))
        PROVE  Broken(Head(cmd[c].todo))'
    <2>1. Head(cmd[c].todo) \in Baselines
      BY <1>2, RecordInHand DEF DecoyInv, Looking, Record
    <2> QED
      BY <1>2, <2>1 DEF Worn, Broken, Altered
  <1>3. WatchInv'
    BY <1>2 DEF DecoyInv, WatchInv, Knows
  <1> QED
    BY <1>1, <1>3

\* While the deployment takes no step.
LEMMA DeployKept ==
    ASSUME DecoyInv, UNCHANGED deploy, spent'.deploys = spent.deploys, Baselines' \subseteq Baselines, Worn
    PROVE  GenerationInv' /\ MakingInv'
  <1>1. GenerationInv'
    BY DEF DecoyInv, GenerationInv
  <1>2. ASSUME deploy.pc \in {"write", "stat"}
        PROVE  file'[Decoy].sum # Own /\ \A r \in Baselines' : r.name = Decoy => Broken(r)'
    <2>1. Decoy \in Names
      BY <1>2, DecoyInHand DEF DecoyInv
    <2>2. file[Decoy].sum # Own /\ \A r \in Baselines : r.name = Decoy => Broken(r)
      BY <1>2 DEF DecoyInv, MakingInv
    <2> QED
      BY <2>1, <2>2 DEF Worn
  <1>3. MakingInv'
    BY <1>2 DEF MakingInv, Decoy
  <1> QED
    BY <1>1, <1>3

LEMMA QuietWhileIdle ==
    ASSUME DecoyTypes, UNCHANGED <<file, evidence, foreignReads, left, cmd>>, now' \in Nat, now' >= now,
           Baselines' \subseteq Baselines
    PROVE  Quiet
  BY DEF Quiet, Holds, Record

LEMMA StartDeployStep == DecoyInv /\ DeployStart => DecoyInv'
  <1> SUFFICES ASSUME DecoyInv, DeployStart PROVE DecoyInv'
    OBVIOUS
  <1>1. UNCHANGED <<now, file, manifest, cmd, evidence, foreignReads, left>>
        /\ spent' = [spent EXCEPT !.deploys = @ + 1]
    BY DEF DeployStart
  <1>2. deploy' = [pc |-> "create", todo |-> Decoys, records |-> <<>>]
    BY DEF DeployStart
  <1>3. Baselines' \subseteq Baselines
    BY <1>1, <1>2 DEF Baselines, ToSet
  <1>4. DecoyTypes'
    <2>1. Decoys \in Seq(Names) /\ Decoys # <<>> /\ IsInjective(Decoys)
      BY HoneytokenAssumption DEF Names
    <2>2. DeployTypes'
      <3>1. deploy' \in Deployment
        BY <1>2, <2>1 DEF Deployment
      <3> QED
        BY <1>2, <2>1, <3>1 DEF DeployTypes
    <2>3. ManifestTypes'
      BY <1>1 DEF DecoyInv, DecoyTypes, ManifestTypes
    <2>4. FileTypes'
      BY <1>1 DEF DecoyInv, DecoyTypes, FileTypes
    <2>5. CommandTypes'
      BY <1>1 DEF DecoyInv, DecoyTypes, CommandTypes
    <2> QED
      BY <2>2, <2>3, <2>4, <2>5 DEF DecoyTypes
  <1>5. GenerationInv'
    <2>1. spent.deploys \in Nat
      BY DEF DecoyInv, DecoyTypes, FileTypes
    <2>3. spent'.deploys = spent.deploys + 1
      BY <1>1 DEF DecoyInv, DecoyTypes, FileTypes
    <2>2. \A r \in Baselines : r.sum \in 0 .. spent.deploys
      BY DEF DecoyInv, GenerationInv
    <2> QED
      BY <1>1, <1>3, <2>1, <2>2, <2>3 DEF GenerationInv
  <1>6. MakingInv'
    BY <1>2 DEF MakingInv
  <1>7. EvidenceInv' /\ TimesInv'
    <2>1. now \in Nat
      BY DEF DecoyInv, DecoyTypes, FileTypes
    <2> QED
      BY <1>1, <1>3, <2>1, QuietWhileIdle, QuietTimes DEF DecoyInv
  <1>8. WatchInv' /\ ReportInv'
    BY <1>1, FilesKept, CommandsKept
  <1> QED
    BY <1>4, <1>5, <1>6, <1>7, <1>8 DEF DecoyInv

LEMMA NextDecoyGoesOn ==
    ASSUME DeployTypes, deploy.pc \in {"create", "write", "stat"},
           NEW d \in Deployment, d.todo = deploy.todo
    PROVE  /\ NextDecoy(d).todo = Tail(deploy.todo) /\ NextDecoy(d).records = d.records
           /\ NextDecoy(d) \in Deployment
           /\ NextDecoy(d).pc \in {"create", "save"}
           /\ NextDecoy(d).pc = "create" => NextDecoy(d).todo # <<>>
           /\ ToSet(NextDecoy(d).todo) \subseteq ToSet(deploy.todo)
           /\ Decoy \notin ToSet(NextDecoy(d).todo)
           /\ IsInjective(NextDecoy(d).todo)
  <1>1. deploy.todo \in Seq(Names) /\ deploy.todo # <<>> /\ IsInjective(deploy.todo)
    BY DEF DeployTypes, Deployment
  <1>2. Tail(deploy.todo) \in Seq(Names) /\ ToSet(Tail(deploy.todo)) \subseteq ToSet(deploy.todo)
        /\ (Len(deploy.todo) # 1 => Tail(deploy.todo) # <<>>)
    BY <1>1, SeqOps
  <1>3. IsInjective(Tail(deploy.todo)) /\ Decoy \notin ToSet(Tail(deploy.todo))
    BY <1>1, TailWithout DEF Decoy
  <1>4. /\ NextDecoy(d).pc = IF Len(d.todo) = 1 THEN "save" ELSE "create"
        /\ NextDecoy(d).todo = Tail(d.todo) /\ NextDecoy(d).records = d.records
    BY DEF Deployment, NextDecoy
  <1>5. NextDecoy(d) \in Deployment
    <2>1. NextDecoy(d) = [[d EXCEPT !.todo = Tail(d.todo)] EXCEPT !.pc = IF Len(d.todo) = 1 THEN "save" ELSE "create"]
      BY DEF NextDecoy
    <2> QED
      BY <1>2, <2>1 DEF Deployment
  <1> QED
    BY <1>2, <1>3, <1>4, <1>5

\* Whatever the deployment does next, its records stay as they are or go.
LEMMA DeployStepTypes ==
    ASSUME DecoyInv, UNCHANGED <<now, cmd>>, file' \in [Names -> FileState],
           UNCHANGED spent, UNCHANGED manifest, DeployTypes'
    PROVE  DecoyTypes'
  BY DEF DecoyInv, DecoyTypes, FileTypes, ManifestTypes, CommandTypes

\* What is at d's path becomes nobody's that a baseline is of, and no access time goes back.
Spoilt(d) ==
    /\ file' \in [Names -> FileState] /\ \A e \in Names \ {d} : file'[e] = file[e]
    /\ file'[d].there => file'[d].at = now \/ (file[d].there /\ file'[d].at = file[d].at)
    /\ file'[d].sum # Own
    /\ \A r \in Baselines : r.name = d => Broken(r)'

LEMMA SpoiltTimes ==
    ASSUME DecoyInv, NEW d \in Names, Spoilt(d), Baselines' = Baselines,
           UNCHANGED <<now, cmd, evidence, foreignReads, left>>
    PROVE  Worn /\ EvidenceInv' /\ TimesInv'
  <1>1. Baselines \subseteq Baseline
    BY BaselineTypes DEF DecoyInv
  <1>2. ASSUME NEW r \in Baselines, r.name # d
        PROVE  file'[r.name] = file[r.name] /\ (Broken(r)' <=> Broken(r))
    BY <1>1, <1>2 DEF Spoilt, Baseline, Broken, Altered
  <1>3. Worn
    BY <1>2 DEF Spoilt, Worn
  <1>4. ASSUME NEW r \in Baselines, r.name \in evidence
        PROVE  now > r.at /\ (file'[r.name].there => file'[r.name].at > r.at)
                 /\ \A c \in Commands : Holds(c, r.name) => cmd[c].back[1] > r.at
    BY <1>2, <1>4 DEF DecoyInv, EvidenceInv, Spoilt
  <1>5. EvidenceInv'
    BY <1>4 DEF EvidenceInv, Holds, Record
  <1>6. TimesInv'
    <2>1. ASSUME NEW r \in Baselines, ~Broken(r)', r.name \notin foreignReads \cup left
          PROVE  /\ file'[r.name].at > r.at => \E c \in Commands : Holds(c, r.name) /\ cmd[c].pc = "restore"
                 /\ \A c \in Commands : Holds(c, r.name) => cmd[c].back[1] <= r.at
      <3>1. r.name # d
        BY <2>1 DEF Spoilt
      <3> QED
        BY <1>2, <2>1, <3>1 DEF DecoyInv, TimesInv
    <2> QED
      BY <2>1 DEF TimesInv, Holds, Record
  <1> QED
    BY <1>3, <1>5, <1>6

\* No baseline is of what was cut short, nor of somebody else's content.
LEMMA CutIsSpoilt ==
    ASSUME DecoyInv, NEW r \in Baselines
    PROVE  r.sum # Cut /\ r.sum # Alien /\ r.sum # Own /\ r.sum \in Nat
  <1>1. r.sum \in 0 .. spent.deploys /\ spent.deploys \in Nat
    BY DEF DecoyInv, GenerationInv, DecoyTypes, FileTypes
  <1> QED
    BY <1>1 DEF Cut, Alien, Own

\* A path that is passed over.
LEMMA PassOver ==
    ASSUME DecoyInv, deploy.pc \in {"create", "write"}, deploy' = NextDecoy(deploy),
           UNCHANGED <<now, file, manifest, cmd, spent, evidence, foreignReads, left>>
    PROVE  DecoyInv'
  <1>1. DeployTypes /\ deploy \in Deployment /\ file \in [Names -> FileState] /\ now \in Nat
    BY DEF DecoyInv, DecoyTypes, DeployTypes, FileTypes
  <1>2. PICK n : n = deploy'
    OBVIOUS
  <1>3. /\ n \in Deployment /\ n.records = deploy.records
        /\ n.pc \in {"create", "save"} /\ (n.pc = "create" => n.todo # <<>>)
        /\ ToSet(n.todo) \subseteq ToSet(deploy.todo) /\ IsInjective(n.todo)
    BY <1>1, <1>2, NextDecoyGoesOn
  <1>4. DeployTypes'
    BY <1>2, <1>3 DEF DeployTypes
  <1>5. DecoyTypes'
    BY <1>1, <1>4, DeployStepTypes
  <1>6. Baselines' = Baselines
    BY <1>2, <1>3 DEF Baselines
  <1>7. GenerationInv' /\ MakingInv'
    BY <1>2, <1>3, <1>6 DEF DecoyInv, GenerationInv, MakingInv
  <1>8. EvidenceInv' /\ TimesInv' /\ WatchInv' /\ ReportInv'
    BY <1>1, <1>6, QuietWhileIdle, QuietTimes, FilesKept, CommandsKept DEF DecoyInv
  <1> QED
    BY <1>5, <1>7, <1>8 DEF DecoyInv

LEMMA CreateStep == DecoyInv /\ DeployCreate => DecoyInv'
  <1> SUFFICES ASSUME DecoyInv, DeployCreate PROVE DecoyInv'
    OBVIOUS
  <1>1. deploy.pc = "create" /\ UNCHANGED <<now, manifest, cmd, spent, evidence, foreignReads, left>>
    BY DEF DeployCreate
  <1>2. DeployTypes /\ deploy \in Deployment /\ file \in [Names -> FileState] /\ now \in Nat
    BY DEF DecoyInv, DecoyTypes, DeployTypes, FileTypes
  <1>3. Decoy \in Names /\ Decoy \in ToSet(deploy.todo)
    BY <1>1, DecoyInHand DEF DecoyInv
  <1>4. PICK d : d = Decoy
    OBVIOUS
  <1>6. CASE file[d].there
    BY <1>1, <1>4, <1>6, PassOver DEF DeployCreate
  <1>7. CASE ~file[d].there
    <2>1. deploy' = [deploy EXCEPT !.pc = "write"] /\ file' = [file EXCEPT ![d] = File(Cut)]
      BY <1>4, <1>7 DEF DeployCreate
    <2>2. deploy' \in Deployment /\ deploy'.pc = "write" /\ deploy'.todo = deploy.todo
          /\ deploy'.records = deploy.records
      BY <1>2, <2>1 DEF Deployment
    <2>3. DeployTypes'
      BY <1>1, <1>2, <2>2 DEF DeployTypes
    <2>4. File(Cut) \in FileState /\ File(Cut).there /\ File(Cut).at = now /\ File(Cut).sum = Cut
      BY <1>2 DEF File, FileState, Cut
    <2>5. file' \in [Names -> FileState] /\ file'[d] = File(Cut) /\ \A e \in Names \ {d} : file'[e] = file[e]
      BY <1>2, <1>3, <1>4, <2>1, <2>4
    <2>6. Baselines' = Baselines
      BY <1>1, <2>2 DEF Baselines
    <2>7. \A r \in Baselines : r.name = d => Broken(r)'
      BY <2>4, <2>5, CutIsSpoilt DEF Broken, Altered
    <2>8. Spoilt(d)
      BY <2>4, <2>5, <2>7 DEF Spoilt, Cut, Own
    <2>9. Worn /\ EvidenceInv' /\ TimesInv'
      BY <1>1, <1>3, <1>4, <2>6, <2>8, SpoiltTimes
    <2>10. DecoyTypes'
      BY <1>1, <2>3, <2>5, DeployStepTypes
    <2>11. GenerationInv'
      BY <1>1, <2>2, <2>6 DEF DecoyInv, GenerationInv
    <2>12. Decoy' = d
      BY <1>4, <2>2 DEF Decoy
    <2>13. MakingInv'
      BY <2>6, <2>7, <2>8, <2>12 DEF Spoilt, MakingInv
    <2> QED
      BY <1>1, <2>9, <2>10, <2>11, <2>13, CommandsKept DEF DecoyInv
  <1> QED
    BY <1>6, <1>7

LEMMA WriteStep == DecoyInv /\ DeployWrite => DecoyInv'
  <1> SUFFICES ASSUME DecoyInv, DeployWrite PROVE DecoyInv'
    OBVIOUS
  <1>1. deploy.pc = "write" /\ UNCHANGED <<now, manifest, cmd, spent, evidence, foreignReads, left>>
    BY DEF DeployWrite
  <1>2. DeployTypes /\ deploy \in Deployment /\ file \in [Names -> FileState] /\ now \in Nat
        /\ spent.deploys \in Nat
    BY DEF DecoyInv, DecoyTypes, DeployTypes, FileTypes
  <1>3. Decoy \in Names /\ Decoy \in ToSet(deploy.todo)
    BY <1>1, DecoyInHand DEF DecoyInv
  <1>4. PICK d : d = Decoy
    OBVIOUS
  <1>5. CASE deploy' = NextDecoy(deploy) /\ UNCHANGED file
    BY <1>1, <1>5, PassOver
  <1>6. ASSUME deploy' = [deploy EXCEPT !.pc = "stat"],
               file' = IF file[d].there THEN [file EXCEPT ![d].sum = spent.deploys, ![d].mt = now] ELSE file
        PROVE  DecoyInv'
    <2>1. deploy' \in Deployment /\ deploy'.pc = "stat" /\ deploy'.todo = deploy.todo
          /\ deploy'.records = deploy.records
      BY <1>2, <1>6 DEF Deployment
    <2>2. DeployTypes'
      BY <1>1, <1>2, <2>1 DEF DeployTypes
    <2>3. Baselines' = Baselines
      BY <1>1, <2>1 DEF Baselines
    <2>4. \A r \in Baselines : r.name = d => r.sum # spent.deploys
      BY <1>1, <1>3, <1>4 DEF DecoyInv, GenerationInv
    <2>5. file[d] \in FileState /\ file[d].sum # Own
      BY <1>1, <1>2, <1>3, <1>4 DEF DecoyInv, MakingInv
    <2>8. Spoilt(d)
      <3>1. CASE file[d].there
        <4>1. file' \in [Names -> FileState]
          <5>1. [[file[d] EXCEPT !.sum = spent.deploys] EXCEPT !.mt = now] \in FileState
            <6>1. PICK g : g = [file[d] EXCEPT !.sum = spent.deploys]
              OBVIOUS
            <6>2. g \in FileState
              BY <1>2, <2>5, <6>1 DEF FileState
            <6> QED
              BY <1>2, <6>1, <6>2 DEF FileState
          <5>2. file' = [file EXCEPT ![d] = [[file[d] EXCEPT !.sum = spent.deploys] EXCEPT !.mt = now]]
            BY <1>2, <1>3, <1>4, <1>6, <3>1
          <5> QED
            BY <1>2, <1>3, <1>4, <5>1, <5>2
        <4>2. file'[d].there /\ file'[d].at = file[d].at /\ file'[d].sum = spent.deploys
          BY <1>2, <1>3, <1>4, <1>6, <2>5, <3>1 DEF FileState
        <4>3. \A e \in Names \ {d} : file'[e] = file[e]
          BY <1>2, <1>6, <3>1
        <4>4. \A r \in Baselines : r.name = d => Broken(r)'
          BY <4>2, <2>4 DEF Broken, Altered
        <4> QED
          <5>1. spent.deploys # Own
            BY <1>2 DEF Own
          <5> QED
            BY <3>1, <4>1, <4>2, <4>3, <4>4, <5>1 DEF Spoilt
      <3>2. CASE ~file[d].there
        <4>1. file' = file
          BY <1>6, <3>2
        <4>2. \A r \in Baselines : r.name = d => Broken(r)'
          BY <3>2, <4>1 DEF Broken
        <4> QED
          BY <1>2, <2>5, <3>2, <4>1, <4>2 DEF Spoilt
      <3> QED
        BY <3>1, <3>2
    <2>9. Worn /\ EvidenceInv' /\ TimesInv'
      BY <1>1, <1>3, <1>4, <2>3, <2>8, SpoiltTimes
    <2>10. DecoyTypes'
      BY <1>1, <2>2, <2>8, DeployStepTypes DEF Spoilt
    <2>11. GenerationInv'
      BY <1>1, <2>1, <2>3 DEF DecoyInv, GenerationInv
    <2>12. Decoy' = d
      BY <1>4, <2>1 DEF Decoy
    <2>13. MakingInv'
      BY <2>3, <2>8, <2>12 DEF Spoilt, MakingInv
    <2> QED
      BY <1>1, <2>9, <2>10, <2>11, <2>13, CommandsKept DEF DecoyInv
  <1> QED
    BY <1>4, <1>5, <1>6 DEF DeployWrite

\* The baseline is taken: nothing has been read since, or altered.
LEMMA BaselineTaken == DecoyInv /\ DeployStat => DecoyInv'
  <1> SUFFICES ASSUME DecoyInv, DeployStat PROVE DecoyInv'
    OBVIOUS
  <1>1. /\ deploy.pc = "stat" /\ UNCHANGED <<now, file, manifest, cmd, spent>>
        /\ evidence' = evidence \ {Decoy} /\ foreignReads' = foreignReads \ {Decoy}
        /\ left' = IF \E c \in Commands : Holds(c, Decoy) /\ cmd[c].back[1] > file[Decoy].at
                   THEN left \cup {Decoy} ELSE left \ {Decoy}
    BY DEF DeployStat
  <1>2. DeployTypes /\ deploy \in Deployment /\ file \in [Names -> FileState] /\ now \in Nat
        /\ spent.deploys \in Nat
    BY DEF DecoyInv, DecoyTypes, DeployTypes, FileTypes
  <1>3. Decoy \in Names /\ Decoy \in ToSet(deploy.todo)
    BY <1>1, DecoyInHand DEF DecoyInv
  <1>4. PICK d : d = Decoy
    OBVIOUS
  <1>5. PICK new : new = [name |-> d, sum |-> spent.deploys, at |-> file[d].at, mt |-> file[d].mt]
    OBVIOUS
  <1>6. new \in Baseline /\ new.name = d /\ new.sum = spent.deploys /\ new.at = file[d].at
    BY <1>2, <1>3, <1>4, <1>5 DEF Baseline, FileState
  <1>7. PICK kept : kept = IF file[d].there THEN [deploy EXCEPT !.records = Append(@, new)] ELSE deploy
    OBVIOUS
  <1>8. kept \in Deployment /\ kept.todo = deploy.todo /\ ToSet(kept.records) \subseteq ToSet(deploy.records) \cup {new}
    <2>1. deploy.records \in Seq(Baseline)
      BY <1>2 DEF Deployment
    <2>2. Append(deploy.records, new) \in Seq(Baseline) /\ ToSet(Append(deploy.records, new)) = ToSet(deploy.records) \cup {new}
      BY <1>6, <2>1, SeqOps
    <2>3. CASE file[d].there
      <3>1. kept = [deploy EXCEPT !.records = Append(deploy.records, new)]
        BY <1>7, <2>3
      <3> QED
        BY <1>2, <2>2, <3>1 DEF Deployment
    <2> QED
      BY <1>2, <1>7, <2>3
  <1>9. deploy' = NextDecoy(kept)
    BY <1>4, <1>5, <1>7 DEF DeployStat
  <1>10. PICK n : n = deploy'
    OBVIOUS
  <1>11. /\ n \in Deployment /\ n.records = kept.records
         /\ n.pc \in {"create", "save"} /\ (n.pc = "create" => n.todo # <<>>)
         /\ ToSet(n.todo) \subseteq ToSet(deploy.todo) /\ d \notin ToSet(n.todo) /\ IsInjective(n.todo)
    BY <1>1, <1>2, <1>4, <1>8, <1>9, <1>10, NextDecoyGoesOn
  <1>12. DeployTypes'
    BY <1>10, <1>11 DEF DeployTypes
  <1>13. DecoyTypes'
    BY <1>1, <1>2, <1>12, DeployStepTypes
  <1>14. Baselines' \subseteq Baselines \cup {new}
    BY <1>1, <1>8, <1>10, <1>11 DEF Baselines
  <1>15. ASSUME NEW r \in Baselines
         PROVE  /\ r.sum \in 0 .. spent.deploys
                /\ r.sum = spent.deploys => r.name \notin ToSet(deploy.todo)
                /\ r.name = d => Broken(r)
    BY <1>1, <1>4 DEF DecoyInv, GenerationInv, MakingInv
  <1>16. GenerationInv'
    <2>1. ASSUME NEW r \in Baselines', n.pc \in {"create", "write", "stat"}, r.sum = spent.deploys
          PROVE  r.name \notin ToSet(n.todo)
      BY <1>6, <1>11, <1>14, <1>15, <2>1
    <2>2. \A r \in Baselines' : r.sum \in 0 .. spent.deploys
      <3>1. new.sum \in 0 .. spent.deploys
        BY <1>1, <1>6 DEF DecoyInv, DecoyTypes, FileTypes, DeployTypes
      <3> QED
        BY <1>14, <1>15, <3>1
    <2> QED
      BY <1>1, <1>10, <2>1, <2>2 DEF GenerationInv
  <1>17. MakingInv'
    BY <1>10, <1>11 DEF MakingInv
  <1>18. EvidenceInv'
    <2>1. ASSUME NEW r \in Baselines', r.name \in evidence'
          PROVE  now > r.at /\ (file[r.name].there => file[r.name].at > r.at)
                   /\ \A c \in Commands : Holds(c, r.name) => cmd[c].back[1] > r.at
      <3>1. r \in Baselines /\ r.name \in evidence
        BY <1>1, <1>4, <1>6, <1>14, <2>1
      <3> QED
        BY <3>1 DEF DecoyInv, EvidenceInv
    <2> QED
      BY <1>1, <2>1 DEF EvidenceInv, Holds, Record
  <1>19. TimesInv'
    <2>1. ASSUME NEW r \in Baselines', ~Broken(r), r.name \notin foreignReads' \cup left'
          PROVE  /\ file[r.name].at > r.at => \E c \in Commands : Holds(c, r.name) /\ cmd[c].pc = "restore"
                 /\ \A c \in Commands : Holds(c, r.name) => cmd[c].back[1] <= r.at
      <3>1. CASE r \in Baselines
        <4>1. r.name # d
          BY <1>15, <2>1, <3>1
        <4>2. r.name \notin foreignReads \cup left
          BY <1>1, <1>4, <2>1, <4>1
        <4> QED
          BY <2>1, <3>1, <4>2 DEF DecoyInv, TimesInv
      <3>2. CASE r = new
        <4>1. d \notin left'
          BY <1>6, <2>1, <3>2
        <4>2. ~ \E c \in Commands : Holds(c, d) /\ cmd[c].back[1] > file[d].at
          BY <1>1, <1>4, <4>1
        <4>3. \A c \in Commands : cmd[c].back[1] \in Nat
          BY DEF DecoyInv, DecoyTypes, CommandTypes, CommandState
        <4>4. file[d].at \in Nat
          BY <1>2, <1>3, <1>4 DEF FileState
        <4> QED
          BY <1>6, <3>2, <4>2, <4>3, <4>4
      <3> QED
        BY <1>14, <2>1, <3>1, <3>2
    <2> QED
      BY <1>1, <2>1 DEF TimesInv, Broken, Altered, Holds, Record
  <1> QED
    BY <1>1, <1>13, <1>16, <1>17, <1>18, <1>19, FilesKept, CommandsKept DEF DecoyInv

LEMMA SaveStep ==
    ASSUME DecoyInv, DeploySave \/ DeployCrash
    PROVE  DecoyInv'
  <1>1. UNCHANGED <<now, file, cmd, evidence, foreignReads, left>> /\ spent'.deploys = spent.deploys
    BY DEF DeploySave, DeployCrash, DecoyInv, DecoyTypes, FileTypes
  <1>2. deploy \in Deployment /\ deploy.records \in Seq(Baseline) /\ now \in Nat
    BY DEF DecoyInv, DecoyTypes, DeployTypes, FileTypes, Deployment
  <1>3. /\ deploy' \in Deployment /\ deploy'.pc \notin {"create", "write", "stat"} /\ IsInjective(deploy'.todo)
        /\ deploy'.pc = "write out" => deploy'.records # <<>>
        /\ ToSet(deploy'.records) \subseteq ToSet(deploy.records)
    <2>1. CASE deploy' = NoDeploy
      BY <2>1 DEF NoDeploy, Deployment, IsInjective, ToSet
    <2>2. CASE deploy.records # <<>> /\ deploy' = [deploy EXCEPT !.pc = "write out"]
      <3>1. deploy' \in Deployment /\ deploy'.pc = "write out" /\ deploy'.records = deploy.records
            /\ deploy'.todo = deploy.todo
        BY <1>2, <2>2 DEF Deployment
      <3> QED
        BY <2>2, <3>1 DEF DecoyInv, DecoyTypes, DeployTypes
    <2> QED
      BY <2>1, <2>2 DEF DeploySave, DeployCrash
  <1>4. /\ manifest' \in [ok : BOOLEAN, records : Seq(Baseline)] /\ (manifest'.ok => manifest'.records # <<>>)
        /\ ToSet(manifest'.records) \subseteq ToSet(manifest.records) \cup ToSet(deploy.records)
    <2>1. CASE UNCHANGED manifest
      BY <2>1 DEF DecoyInv, DecoyTypes, ManifestTypes
    <2>2. CASE manifest' = Unreadable
      BY <2>2 DEF Unreadable, ToSet
    <2>3. CASE deploy.pc = "write out" /\ manifest' = [ok |-> TRUE, records |-> deploy.records]
      <3>1. deploy.records # <<>>
        BY <2>3 DEF DecoyInv, DecoyTypes, DeployTypes
      <3> QED
        BY <1>2, <2>3, <3>1
    <2> QED
      BY <2>1, <2>2, <2>3 DEF DeploySave, DeployCrash
  <1>5. Baselines' \subseteq Baselines
    BY <1>1, <1>3, <1>4 DEF Baselines
  <1>6. DecoyTypes'
    <2>1. FileTypes'
      <3>1. FileTypes /\ (spent' = spent \/ spent' = [spent EXCEPT !.crashes = @ + 1])
        BY DEF DeploySave, DeployCrash, DecoyInv, DecoyTypes
      <3>2. spent' \in [deploys : Nat, runs : Nat, foreign : Nat, crashes : Nat]
        BY <3>1 DEF FileTypes
      <3> QED
        BY <1>1, <3>1, <3>2 DEF FileTypes
    <2>2. ManifestTypes' /\ DeployTypes'
      BY <1>3, <1>4 DEF ManifestTypes, DeployTypes
    <2>3. CommandTypes'
      BY <1>1 DEF DecoyInv, DecoyTypes, CommandTypes
    <2> QED
      BY <2>1, <2>2, <2>3 DEF DecoyTypes
  <1>7. GenerationInv' /\ MakingInv'
    BY <1>1, <1>3, <1>5 DEF DecoyInv, GenerationInv, MakingInv
  <1>8. EvidenceInv' /\ TimesInv'
    BY <1>1, <1>2, <1>5, QuietWhileIdle, QuietTimes DEF DecoyInv
  <1> QED
    BY <1>1, <1>6, <1>7, <1>8, FilesKept, CommandsKept DEF DecoyInv

LEMMA ForeignFrame ==
    ASSUME DecoyInv, NEW d \in Names, Foreign(d)
    PROVE  /\ file[d].there /\ UNCHANGED <<now, manifest, deploy, cmd, left>>
           /\ spent'.deploys = spent.deploys /\ spent'.foreign > spent.foreign
           /\ Baselines' = Baselines
           /\ file \in [Names -> FileState] /\ file[d] \in FileState /\ now \in Nat
           /\ file' \in [Names -> FileState] => DecoyTypes'
  <1>1. DecoyTypes /\ FileTypes
    BY DEF DecoyInv, DecoyTypes
  <1>2. file[d].there /\ UNCHANGED <<now, manifest, deploy, cmd, left>>
        /\ spent' = [spent EXCEPT !.foreign = @ + 1]
    BY DEF Foreign
  <1>3. spent' \in [deploys : Nat, runs : Nat, foreign : Nat, crashes : Nat]
        /\ spent'.deploys = spent.deploys /\ spent'.foreign = spent.foreign + 1
    BY <1>1, <1>2 DEF FileTypes
  <1>4. file \in [Names -> FileState] /\ file[d] \in FileState /\ now \in Nat /\ spent.foreign \in Nat
    BY <1>1 DEF FileTypes
  <1>5. Baselines' = Baselines
    BY <1>2 DEF Baselines
  <1>6. file' \in [Names -> FileState] => DecoyTypes'
    BY <1>1, <1>2, <1>3 DEF DecoyTypes, FileTypes, ManifestTypes, DeployTypes, CommandTypes
  <1> QED
    BY <1>2, <1>3, <1>4, <1>5, <1>6

\* A step that moves a file's times only.
LEMMA OnlyTimes ==
    ASSUME DecoyInv, NEW d \in Names, NEW f \in FileState,
           f.sum = file[d].sum, f.big = file[d].big, f.there = file[d].there,
           file' = [file EXCEPT ![d] = f]
    PROVE  /\ file' \in [Names -> FileState] /\ file'[d] = f /\ \A e \in Names \ {d} : file'[e] = file[e]
           /\ \A r \in Baselines : r.name \in Names /\ (Broken(r)' <=> Broken(r))
           /\ Worn
  <1>1. file \in [Names -> FileState]
    BY DEF DecoyInv, DecoyTypes, FileTypes
  <1>2. file' \in [Names -> FileState] /\ file'[d] = f /\ \A e \in Names \ {d} : file'[e] = file[e]
    BY <1>1
  <1>3. ASSUME NEW r \in Baselines PROVE r.name \in Names /\ (Broken(r)' <=> Broken(r))
    <2>1. r.name \in Names
      BY BaselineTypes DEF DecoyInv, Baseline
    <2>2. file'[r.name].sum = file[r.name].sum /\ file'[r.name].big = file[r.name].big
          /\ file'[r.name].there = file[r.name].there
      BY <1>2, <2>1
    <2> QED
      BY <2>1, <2>2 DEF Broken, Altered
  <1>4. Worn
    BY <1>2, <1>3 DEF Worn
  <1> QED
    BY <1>2, <1>3, <1>4

\* A foreign read shows in the access time, or nobody promises that it will.
LEMMA ReadStep ==
    ASSUME DecoyInv, NEW d \in Names, Read(d)
    PROVE  DecoyInv'
  <1>1. /\ UNCHANGED <<now, manifest, deploy, cmd, left>> /\ spent'.deploys = spent.deploys
        /\ Baselines' = Baselines
        /\ file \in [Names -> FileState] /\ file[d] \in FileState /\ now \in Nat
        /\ file' \in [Names -> FileState] => DecoyTypes'
    BY ForeignFrame DEF Read
  <1>2. file' = [file EXCEPT ![d].at = now] /\ foreignReads' = foreignReads \cup {d}
    BY DEF Read
  <1>3. evidence' \subseteq evidence \cup {d}
    BY DEF Read
  <1>4. d \in evidence' => \A r \in Baselines : r.name = d =>
          now > r.at /\ \A c \in Commands : Holds(c, d) => cmd[c].back[1] > r.at
    BY DEF Read, DecoyInv, EvidenceInv
  <1>5. PICK f : f = [file[d] EXCEPT !.at = now]
    OBVIOUS
  <1>6. f \in FileState /\ f.at = now /\ f.sum = file[d].sum /\ f.big = file[d].big /\ f.there = file[d].there
    BY <1>1, <1>5 DEF FileState
  <1>7. file' = [file EXCEPT ![d] = f]
    BY <1>2, <1>5
  <1>8. /\ file' \in [Names -> FileState] /\ file'[d] = f /\ \A e \in Names \ {d} : file'[e] = file[e]
        /\ \A r \in Baselines : r.name \in Names /\ (Broken(r)' <=> Broken(r))
        /\ Worn
    BY <1>6, <1>7, OnlyTimes
  <1>12. EvidenceInv'
    <2>1. ASSUME NEW r \in Baselines, r.name \in evidence'
          PROVE  now > r.at /\ (file'[r.name].there => file'[r.name].at > r.at)
                   /\ \A c \in Commands : Holds(c, r.name) => cmd[c].back[1] > r.at
      <3>1. CASE r.name = d
        BY <1>4, <1>6, <1>8, <2>1, <3>1
      <3>2. CASE r.name # d
        BY <1>3, <1>8, <2>1, <3>2 DEF DecoyInv, EvidenceInv
      <3> QED
        BY <3>1, <3>2
    <2> QED
      BY <1>1, <2>1 DEF EvidenceInv, Holds, Record
  <1>13. TimesInv'
    <2>1. ASSUME NEW r \in Baselines, ~Broken(r), r.name \notin foreignReads' \cup left
          PROVE  /\ file'[r.name].at > r.at => \E c \in Commands : Holds(c, r.name) /\ cmd[c].pc = "restore"
                 /\ \A c \in Commands : Holds(c, r.name) => cmd[c].back[1] <= r.at
      BY <1>2, <1>8, <2>1 DEF DecoyInv, TimesInv
    <2> QED
      BY <1>1, <1>8, <2>1 DEF TimesInv, Holds, Record
  <1> QED
    BY <1>1, <1>8, <1>12, <1>13, DeployKept, CommandsKept DEF DecoyInv

LEMMA SpoilStep ==
    ASSUME DecoyInv, NEW d \in Names, Foreign(d), Spoilt(d), UNCHANGED <<evidence, foreignReads>>
    PROVE  DecoyInv'
  <1>1. /\ UNCHANGED <<now, deploy, cmd, left>> /\ spent'.deploys = spent.deploys
        /\ Baselines' = Baselines
        /\ file' \in [Names -> FileState] => DecoyTypes'
    BY ForeignFrame
  <1>2. Worn /\ EvidenceInv' /\ TimesInv'
    BY <1>1, SpoiltTimes
  <1> QED
    BY <1>1, <1>2, DeployKept, CommandsKept DEF DecoyInv, Spoilt

LEMMA AlterStep ==
    ASSUME DecoyInv, NEW d \in Names, Write(d) \/ Delete(d)
    PROVE  DecoyInv'
  <1>1. Foreign(d) /\ UNCHANGED <<evidence, foreignReads>>
    BY DEF Write, Delete
  <1>2. file[d].there /\ file \in [Names -> FileState] /\ file[d] \in FileState /\ now \in Nat
    BY <1>1, ForeignFrame
  <1>3. PICK f \in FileState : /\ file' = [file EXCEPT ![d] = f]
                               /\ f.sum \in {Alien, Cut} /\ (f.sum = Cut => ~f.there) /\ (f.there => f.at = file[d].at)
    <2>1. CASE Write(d)
      <3>1. PICK big \in BOOLEAN : file' = [file EXCEPT ![d].sum = Alien, ![d].big = big, ![d].mt = now]
        BY <2>1 DEF Write
      <3>2. PICK f : f = [[[file[d] EXCEPT !.sum = Alien] EXCEPT !.big = big] EXCEPT !.mt = now]
        OBVIOUS
      <3>3. f \in FileState /\ f.sum = Alien /\ f.at = file[d].at
        <4>1. PICK g : g = [file[d] EXCEPT !.sum = Alien]
          OBVIOUS
        <4>2. g \in FileState /\ g.sum = Alien /\ g.at = file[d].at
          BY <1>2, <4>1 DEF FileState, Alien
        <4>3. PICK h : h = [g EXCEPT !.big = big]
          OBVIOUS
        <4>4. h \in FileState /\ h.sum = Alien /\ h.at = file[d].at
          BY <4>2, <4>3 DEF FileState
        <4>5. f = [h EXCEPT !.mt = now]
          BY <3>2, <4>1, <4>3
        <4> QED
          BY <1>2, <4>4, <4>5 DEF FileState
      <3>4. file' = [file EXCEPT ![d] = f]
        BY <1>2, <3>1, <3>2
      <3>5. Alien # Cut
        BY DEF Alien, Cut
      <3> QED
        BY <3>3, <3>4, <3>5
    <2>2. CASE Delete(d)
      <3>1. NoFile \in FileState /\ NoFile.sum = Cut /\ ~NoFile.there
        BY DEF NoFile, FileState, Cut
      <3> QED
        BY <2>2, <3>1 DEF Delete
    <2> QED
      BY <2>1, <2>2
  <1>4. file' \in [Names -> FileState] /\ file'[d] = f /\ \A e \in Names \ {d} : file'[e] = file[e]
    BY <1>2, <1>3
  <1>5. \A r \in Baselines : r.name = d => Broken(r)'
    BY <1>3, <1>4, CutIsSpoilt DEF Broken, Altered
  <1>6. f.sum # Own
    BY <1>3 DEF Own, Alien, Cut
  <1> QED
    BY <1>1, <1>2, <1>3, <1>4, <1>5, <1>6, SpoilStep DEF Spoilt

LEMMA TickStep == DecoyInv /\ Tick => DecoyInv'
  <1> SUFFICES ASSUME DecoyInv, Tick PROVE DecoyInv'
    OBVIOUS
  <1>1. UNCHANGED <<file, manifest, deploy, cmd, spent, evidence, foreignReads, left>> /\ now' = now + 1
    BY DEF Tick
  <1>2. now \in Nat
    BY DEF DecoyInv, DecoyTypes, FileTypes
  <1>3. Baselines' = Baselines
    BY <1>1 DEF Baselines
  <1>4. DecoyTypes'
    <2>1. DecoyTypes /\ FileTypes
      BY DEF DecoyInv, DecoyTypes
    <2>2. FileTypes'
      BY <1>1, <1>2, <2>1 DEF FileTypes
    <2>3. ManifestTypes' /\ DeployTypes' /\ CommandTypes'
      BY <1>1, <2>1 DEF DecoyTypes, ManifestTypes, DeployTypes, CommandTypes
    <2> QED
      BY <2>2, <2>3 DEF DecoyTypes
  <1>5. EvidenceInv' /\ TimesInv'
    BY <1>1, <1>2, <1>3, QuietWhileIdle, QuietTimes DEF DecoyInv
  <1> QED
    BY <1>1, <1>3, <1>4, <1>5, FilesKept, DeployKept, CommandsKept DEF DecoyInv

-----------------------------------------------------------------------------
(* Honeytoken: the watch and scan commands *)

LEMMA OneCommand ==
    ASSUME DecoyInv, NEW c \in Commands, NEW k \in CommandState, cmd' = [cmd EXCEPT ![c] = k],
           k.pc \in Looking => k.todo # <<>>, ToSet(k.todo) \subseteq Baselines,
           UNCHANGED <<now, manifest, deploy>>, file' \in [Names -> FileState], Worn,
           spent' \in [deploys : Nat, runs : Nat, foreign : Nat, crashes : Nat], spent'.deploys = spent.deploys,
           Knows(k)', Truthful(k)
    PROVE  /\ DecoyTypes' /\ GenerationInv' /\ MakingInv' /\ WatchInv' /\ ReportInv'
           /\ Baselines' \subseteq Baselines
  <1>1. cmd \in [Commands -> CommandState] /\ \A b \in Commands : cmd[b].pc \in Looking => cmd[b].todo # <<>>
    BY DEF DecoyInv, DecoyTypes, CommandTypes
  <1>2. cmd'[c] = k /\ \A b \in Commands \ {c} : cmd'[b] = cmd[b]
    BY <1>1
  <1>3. CommandTypes'
    BY <1>1, <1>2 DEF CommandTypes
  <1>4. FileTypes' /\ ManifestTypes' /\ DeployTypes'
    BY DEF DecoyInv, DecoyTypes, FileTypes, ManifestTypes, DeployTypes
  <1>5. Baselines' \subseteq Baselines
    BY <1>2 DEF Baselines
  <1>6. ReportInv'
    BY <1>2 DEF DecoyInv, ReportInv
  <1>7. ASSUME NEW b \in Commands \ {c} PROVE Knows(cmd[b])'
    <2>1. Knows(cmd[b])
      BY DEF DecoyInv, WatchInv
    <2>2. cmd[b].pc \in {"hash", "read", "restore"} => Head(cmd[b].todo) \in Baselines
      BY RecordInHand DEF DecoyInv, Looking, Record
    <2> QED
      BY <1>2, <2>1, <2>2 DEF Knows, Worn, Broken, Altered
  <1>8. WatchInv'
    BY <1>2, <1>7 DEF WatchInv, Knows, Broken, Altered
  <1>9. GenerationInv' /\ MakingInv'
    BY <1>5, DeployKept
  <1> QED
    BY <1>3, <1>4, <1>5, <1>6, <1>8, <1>9 DEF DecoyTypes

\* A step of a command that moves no access time and is not about to.
LEMMA QuietCommand ==
    ASSUME DecoyInv, NEW c \in Commands, NEW k \in CommandState, cmd' = [cmd EXCEPT ![c] = k],
           k.pc \in Looking => k.todo # <<>>, ToSet(k.todo) \subseteq Baselines,
           UNCHANGED <<now, file, manifest, deploy, evidence, foreignReads>>, left \subseteq left',
           spent' \in [deploys : Nat, runs : Nat, foreign : Nat, crashes : Nat], spent'.deploys = spent.deploys,
           Knows(k), Truthful(k),
           k.pc \notin {"read", "restore"} \/ k.readonly,
           \A d \in Names : Holds(c, d) /\ cmd[c].pc = "restore" /\ file[d].there => d \in left'
    PROVE  DecoyInv'
  <1>1. cmd \in [Commands -> CommandState] /\ now \in Nat /\ file \in [Names -> FileState]
    BY DEF DecoyInv, DecoyTypes, CommandTypes, FileTypes
  <1>2. cmd'[c] = k /\ \A b \in Commands \ {c} : cmd'[b] = cmd[b]
    BY <1>1
  <1>3. Knows(k)'
    BY DEF Knows, Broken, Altered
  <1>4. /\ DecoyTypes' /\ GenerationInv' /\ MakingInv' /\ WatchInv' /\ ReportInv'
        /\ Baselines' \subseteq Baselines
    BY <1>1, <1>3, OneCommand, FilesKept
  <1>5. \A d \in Names : ~Holds(c, d)'
    BY <1>2 DEF Holds
  <1>6. \A b \in Commands \ {c}, d \in Names : (Holds(b, d)' <=> Holds(b, d)) /\ cmd'[b] = cmd[b]
    BY <1>2 DEF Holds, Record
  <1>7. Quiet
    BY <1>1, <1>4, <1>5, <1>6 DEF Quiet
  <1> QED
    BY <1>4, <1>7, QuietTimes DEF DecoyInv

LEMMA CommandAt ==
    ASSUME DecoyInv, NEW c \in Commands
    PROVE  /\ cmd \in [Commands -> CommandState] /\ cmd[c] \in CommandState
           /\ cmd[c].todo \in Seq(Baseline) /\ ToSet(cmd[c].todo) \subseteq Baselines
           /\ spent \in [deploys : Nat, runs : Nat, foreign : Nat, crashes : Nat]
           /\ Knows(cmd[c]) /\ Truthful(cmd[c])
  <1>1. cmd \in [Commands -> CommandState] /\ spent \in [deploys : Nat, runs : Nat, foreign : Nat, crashes : Nat]
    BY DEF DecoyInv, DecoyTypes, CommandTypes, FileTypes
  <1> QED
    BY <1>1 DEF CommandState, Baselines, DecoyInv, WatchInv, ReportInv

LEMMA AnewIsQuiet ==
    ASSUME NEW k \in CommandState, k.todo = <<>>, k.seen = <<>>, ~k.exposed,
           k.pc \in {"idle", "roots", "load"}
    PROVE  /\ k.pc \in Looking => k.todo # <<>>
           /\ ToSet(k.todo) \subseteq Baselines
           /\ Knows(k) /\ Truthful(k)
  BY DEF Looking, ToSet, Knows, Truthful

LEMMA StartRunStep ==
    ASSUME DecoyInv, NEW c \in Commands, StartRun(c)
    PROVE  DecoyInv'
  <1>1. /\ cmd[c].pc \in {"idle", "done"} /\ spent' = [spent EXCEPT !.runs = @ + 1]
        /\ UNCHANGED <<now, file, manifest, deploy, evidence, foreignReads, left>>
    BY DEF StartRun
  <1>2. PICK scan \in BOOLEAN, roots \in BOOLEAN, readonly \in BOOLEAN :
             cmd' = [cmd EXCEPT ![c] = [NoRun EXCEPT !.pc = IF scan THEN "roots" ELSE "load",
                                                     !.roots = roots /\ scan, !.readonly = readonly]]
    BY DEF StartRun
  <1>3. PICK k : k = [NoRun EXCEPT !.pc = IF scan THEN "roots" ELSE "load", !.roots = roots /\ scan, !.readonly = readonly]
    OBVIOUS
  <1>4. k \in CommandState /\ k.todo = <<>> /\ k.seen = <<>> /\ ~k.exposed /\ k.pc \in {"roots", "load"}
    <2>1. NoRun \in CommandState
      BY Ranks DEF NoRun, NoStat, CommandState, Stats, Hashes
    <2>2. NoRun.todo = <<>> /\ NoRun.seen = <<>> /\ ~NoRun.exposed
      BY DEF NoRun
    <2>3. PICK p \in {"roots", "load"} : p = IF scan THEN "roots" ELSE "load"
      OBVIOUS
    <2>4. PICK g : g = [NoRun EXCEPT !.pc = p]
      OBVIOUS
    <2>5. g \in CommandState /\ g.pc = p /\ g.todo = <<>> /\ g.seen = <<>> /\ ~g.exposed
      BY <2>1, <2>2, <2>4 DEF CommandState
    <2>6. PICK h : h = [g EXCEPT !.roots = roots /\ scan]
      OBVIOUS
    <2>7. h \in CommandState /\ h.pc = p /\ h.todo = <<>> /\ h.seen = <<>> /\ ~h.exposed
      BY <2>5, <2>6 DEF CommandState
    <2>8. k = [h EXCEPT !.readonly = readonly]
      BY <1>3, <2>3, <2>4, <2>6
    <2> QED
      BY <2>7, <2>8 DEF CommandState
  <1>5. cmd' = [cmd EXCEPT ![c] = k]
    BY <1>2, <1>3
  <1>6. spent' \in [deploys : Nat, runs : Nat, foreign : Nat, crashes : Nat] /\ spent'.deploys = spent.deploys
    BY <1>1, CommandAt
  <1>7. \A d \in Names : Holds(c, d) => FALSE
    BY <1>1 DEF Holds
  <1>8. /\ k.pc \in Looking => k.todo # <<>>
        /\ ToSet(k.todo) \subseteq Baselines /\ Knows(k) /\ Truthful(k)
    BY <1>4, AnewIsQuiet
  <1> QED
    BY <1>1, <1>4, <1>5, <1>6, <1>7, <1>8, QuietCommand

LEMMA KillStep ==
    ASSUME DecoyInv, NEW c \in Commands, Kill(c)
    PROVE  DecoyInv'
  <1>1. /\ spent' = [spent EXCEPT !.crashes = @ + 1] /\ cmd' = [cmd EXCEPT ![c] = NoRun]
        /\ left' = left \cup {d \in Names : Holds(c, d) /\ cmd[c].pc = "restore"}
        /\ UNCHANGED <<now, file, manifest, deploy, evidence, foreignReads>>
    BY DEF Kill
  <1>2. NoRun \in CommandState /\ NoRun.pc = "idle" /\ NoRun.todo = <<>> /\ NoRun.seen = <<>> /\ ~NoRun.exposed
    BY Ranks DEF NoRun, NoStat, CommandState, Stats, Hashes
  <1>3. spent' \in [deploys : Nat, runs : Nat, foreign : Nat, crashes : Nat] /\ spent'.deploys = spent.deploys
    BY <1>1, CommandAt
  <1>4. /\ NoRun.pc \in Looking => NoRun.todo # <<>>
        /\ ToSet(NoRun.todo) \subseteq Baselines /\ Knows(NoRun) /\ Truthful(NoRun)
    BY <1>2, AnewIsQuiet
  <1>5. \A d \in Names : Holds(c, d) /\ cmd[c].pc = "restore" => d \in left'
    BY <1>1
  <1> QED
    BY <1>1, <1>2, <1>3, <1>4, <1>5, QuietCommand

LEMMA LoadStep ==
    ASSUME DecoyInv, NEW c \in Commands, LoadManifest(c)
    PROVE  DecoyInv'
  <1>1. /\ cmd[c].pc = "load" /\ UNCHANGED <<now, file, manifest, deploy, spent, evidence, foreignReads, left>>
        /\ cmd' = [cmd EXCEPT ![c].pc = IF manifest.ok THEN "stat" ELSE "done", ![c].todo = manifest.records]
    BY DEF LoadManifest
  <1>2. PICK p \in {"stat", "done"} : p = IF manifest.ok THEN "stat" ELSE "done"
    OBVIOUS
  <1>3. PICK g : g = [cmd[c] EXCEPT !.pc = p]
    OBVIOUS
  <1>4. PICK k : k = [g EXCEPT !.todo = manifest.records]
    OBVIOUS
  <1>5. cmd' = [cmd EXCEPT ![c] = k]
    BY <1>1, <1>2, <1>3, <1>4, CommandAt
  <1>6. manifest.records \in Seq(Baseline) /\ (p = "stat" => manifest.records # <<>>)
    BY <1>2 DEF DecoyInv, DecoyTypes, ManifestTypes
  <1>7. g \in CommandState /\ g.pc = p /\ g.worst = cmd[c].worst /\ g.exposed = cmd[c].exposed
        /\ g.seen = cmd[c].seen
    BY <1>3, CommandAt DEF CommandState
  <1>8. k \in CommandState /\ k.pc = p /\ k.todo = manifest.records /\ k.worst = cmd[c].worst
        /\ k.exposed = cmd[c].exposed /\ k.seen = cmd[c].seen
    BY <1>4, <1>6, <1>7 DEF CommandState
  <1>9. ToSet(k.todo) \subseteq Baselines
    BY <1>8 DEF Baselines
  <1>10. Knows(k) /\ Truthful(k)
    BY <1>8, CommandAt DEF Knows, Truthful
  <1>11. \A d \in Names : ~Holds(c, d)
    BY <1>1 DEF Holds
  <1>12. (k.pc \in Looking => k.todo # <<>>) /\ k.pc \notin {"read", "restore"}
    BY <1>6, <1>8 DEF Looking
  <1> QED
    BY <1>1, <1>5, <1>8, <1>9, <1>10, <1>11, <1>12, CommandAt, QuietCommand

LEMMA ToolsGraded ==
    /\ \A g \in Gitleaks : GitleaksSeverity(g) \in Grades
    /\ \A t \in Trufflehog : TrufflehogSeverity(t) \in Grades
    /\ \A line : LineSeverity(line) \in Grades
  <1>1. \A g \in Gitleaks : GitleaksSeverity(g) \in Grades
    BY HoneytokenAssumption, Ranks DEF GitleaksSeverity
  <1>2. \A t \in Trufflehog : TrufflehogSeverity(t) \in Grades
    BY HoneytokenAssumption, Ranks DEF TrufflehogSeverity
  <1>3. ASSUME NEW line PROVE LineSeverity(line) \in Grades
    <2>1. LineSeverity(line) \in {High, Medium, Info}
      BY DEF LineSeverity
    <2> QED
      BY <2>1, Ranks
  <1> QED
    BY <1>1, <1>2, <1>3

\* A command's worst finding only gets worse.
LEMMA StaysTruthful ==
    ASSUME NEW k \in CommandState, NEW g \in Grades, Truthful(k), g >= k.worst,
           NEW h, h.worst = g, h.seen = k.seen, h.exposed => g >= Medium
    PROVE  Truthful(h)
  BY DEF Truthful, SoundFor, CommandState, Grades, Medium

LEMMA TargetsStep ==
    ASSUME DecoyInv, NEW c \in Commands, ScanTargets(c)
    PROVE  DecoyInv'
  <1>1. cmd[c].pc = "targets" /\ UNCHANGED <<now, file, manifest, deploy, spent, evidence, foreignReads, left>>
    BY DEF ScanTargets
  <1>2. PICK line \in Lines, isThere \in BOOLEAN, readable \in BOOLEAN, fold \in BOOLEAN, t \in Trufflehog :
          cmd' = [Worse(c, Max(IF isThere THEN {IF readable THEN LineSeverity(line) ELSE Low, TrufflehogSeverity(t)} ELSE {Info}))
                    EXCEPT ![c].pc = IF fold THEN "load" ELSE "done",
                           ![c].exposed = isThere /\ readable /\ (IF readable THEN LineSeverity(line) ELSE Low) >= Medium]
    BY DEF ScanTargets
  <1>21. PICK builtin : builtin = IF readable THEN LineSeverity(line) ELSE Low
    OBVIOUS
  <1>22. PICK severities : severities = IF isThere THEN {builtin, TrufflehogSeverity(t)} ELSE {Info}
    OBVIOUS
  <1>3. severities \subseteq Grades /\ severities # {} /\ (isThere => builtin \in severities)
        /\ builtin \in Grades
    BY <1>21, <1>22, ToolsGraded, Ranks
  <1>4. PICK m : m = Max(severities)
    OBVIOUS
  <1>5. m \in Grades /\ (isThere => m >= builtin)
    BY <1>3, <1>4, MaxOf
  <1>6. PICK w : w = Max({cmd[c].worst, m})
    OBVIOUS
  <1>7. w \in Grades /\ w >= cmd[c].worst /\ w >= m /\ cmd[c].worst \in Grades
    <2>1. cmd[c].worst \in Grades
      BY CommandAt DEF CommandState
    <2> QED
      BY <1>5, <1>6, <2>1, MaxOfTwo
  <1>8. PICK e \in BOOLEAN : e = (isThere /\ readable /\ builtin >= Medium)
    OBVIOUS
  <1>9. PICK p \in {"load", "done"} : p = IF fold THEN "load" ELSE "done"
    OBVIOUS
  <1>10. PICK g : g = [cmd[c] EXCEPT !.worst = w]
    OBVIOUS
  <1>11. PICK h : h = [g EXCEPT !.pc = p]
    OBVIOUS
  <1>12. PICK k : k = [h EXCEPT !.exposed = e]
    OBVIOUS
  <1>13. cmd' = [cmd EXCEPT ![c] = k]
    <2>1. Worse(c, m) = [cmd EXCEPT ![c] = g]
      BY <1>6, <1>10, CommandAt DEF Worse
    <2>2. cmd' = [[cmd EXCEPT ![c] = g] EXCEPT ![c].pc = p, ![c].exposed = e]
      BY <1>2, <1>4, <1>8, <1>9, <1>21, <1>22, <2>1
    <2> QED
      BY <1>11, <1>12, <2>2, CommandAt
  <1>14. g \in CommandState /\ g.worst = w /\ g.seen = cmd[c].seen /\ g.todo = cmd[c].todo
    BY <1>7, <1>10, CommandAt DEF CommandState
  <1>15. h \in CommandState /\ h.pc = p /\ h.worst = w /\ h.seen = cmd[c].seen /\ h.todo = cmd[c].todo
    BY <1>11, <1>14 DEF CommandState
  <1>16. k \in CommandState /\ k.pc = p /\ k.worst = w /\ k.exposed = e /\ k.seen = cmd[c].seen
         /\ k.todo = cmd[c].todo
    BY <1>12, <1>15 DEF CommandState
  <1>17. e => w >= Medium
    <2>1. e => isThere /\ builtin >= Medium
      BY <1>8, Zenon
    <2> QED
      BY <1>3, <1>5, <1>7, <2>1 DEF Medium, Grades
  <1>18. Truthful(k)
    BY <1>7, <1>16, <1>17, CommandAt, StaysTruthful
  <1>19. Knows(k) /\ (k.pc \in Looking => k.todo # <<>>) /\ k.pc \notin {"read", "restore"}
    BY <1>16 DEF Knows, Looking
  <1>20. \A d \in Names : ~Holds(c, d)
    BY <1>1 DEF Holds
  <1> QED
    BY <1>1, <1>13, <1>16, <1>18, <1>19, <1>20, CommandAt, QuietCommand

\* What the tools read under a root shows in the access times, and is known to.
LEMMA RootsStep ==
    ASSUME DecoyInv, NEW c \in Commands, ScanRoots(c)
    PROVE  DecoyInv'
  <1>1. cmd[c].pc = "roots" /\ UNCHANGED <<now, manifest, deploy, spent, evidence, foreignReads>>
    BY DEF ScanRoots
  <1>2. PICK k \in CommandState :
             /\ cmd' = [cmd EXCEPT ![c] = k]
             /\ k.pc = "targets" /\ k.todo = cmd[c].todo /\ Truthful(k)
    <2>1. CASE ~cmd[c].roots
      <3>1. cmd' = [cmd EXCEPT ![c].pc = "targets"]
        BY <2>1 DEF ScanRoots
      <3>2. PICK k : k = [cmd[c] EXCEPT !.pc = "targets"]
        OBVIOUS
      <3>3. k \in CommandState /\ k.pc = "targets" /\ k.todo = cmd[c].todo /\ k.seen = cmd[c].seen
            /\ k.worst = cmd[c].worst /\ k.exposed = cmd[c].exposed
        BY <3>2, CommandAt DEF CommandState
      <3>4. Truthful(k)
        BY <3>3, CommandAt DEF Truthful
      <3> QED
        BY <3>1, <3>2, <3>3, <3>4
    <2>2. CASE cmd[c].roots
      <3>1. PICK g \in Gitleaks, t \in Trufflehog :
                 cmd' = [Worse(c, Max({GitleaksSeverity(g), TrufflehogSeverity(t)})) EXCEPT ![c].pc = "targets", ![c].roots = FALSE]
        BY <2>2 DEF ScanRoots
      <3>2. PICK m : m = Max({GitleaksSeverity(g), TrufflehogSeverity(t)})
        OBVIOUS
      <3>3. m \in Grades /\ cmd[c].worst \in Grades
        BY <3>2, ToolsGraded, MaxOfTwo, CommandAt DEF CommandState
      <3>4. PICK w : w = Max({cmd[c].worst, m})
        OBVIOUS
      <3>5. w \in Grades /\ w >= cmd[c].worst
        BY <3>3, <3>4, MaxOfTwo
      <3>6. PICK a : a = [cmd[c] EXCEPT !.worst = w]
        OBVIOUS
      <3>7. PICK b : b = [a EXCEPT !.pc = "targets"]
        OBVIOUS
      <3>8. PICK k : k = [b EXCEPT !.roots = FALSE]
        OBVIOUS
      <3>9. cmd' = [cmd EXCEPT ![c] = k]
        <4>1. Worse(c, m) = [cmd EXCEPT ![c] = a]
          BY <3>4, <3>6, CommandAt DEF Worse
        <4> QED
          BY <3>1, <3>2, <3>7, <3>8, <4>1, CommandAt
      <3>10. a \in CommandState /\ a.worst = w /\ a.seen = cmd[c].seen /\ a.todo = cmd[c].todo
             /\ a.exposed = cmd[c].exposed
        BY <3>5, <3>6, CommandAt DEF CommandState
      <3>11. b \in CommandState /\ b.pc = "targets" /\ b.worst = w /\ b.seen = cmd[c].seen
             /\ b.todo = cmd[c].todo /\ b.exposed = cmd[c].exposed
        BY <3>7, <3>10 DEF CommandState
      <3>12. k \in CommandState /\ k.pc = "targets" /\ k.worst = w /\ k.seen = cmd[c].seen
             /\ k.todo = cmd[c].todo /\ k.exposed = cmd[c].exposed
        BY <3>8, <3>11 DEF CommandState
      <3>13. k.exposed => w >= Medium
        <4>1. cmd[c].exposed => cmd[c].worst >= Medium
          BY CommandAt DEF Truthful
        <4> QED
          BY <3>3, <3>5, <3>12, <4>1 DEF Grades, Medium
      <3>14. Truthful(k)
        BY <3>5, <3>12, <3>13, CommandAt, StaysTruthful
      <3> QED
        BY <3>9, <3>12, <3>14
    <2> QED
      BY <2>1, <2>2
  <1>3. Knows(k) /\ (k.pc \in Looking => k.todo # <<>>) /\ k.pc \notin {"read", "restore"}
        /\ ToSet(k.todo) \subseteq Baselines
    BY <1>2, CommandAt DEF Knows, Looking
  <1>4. \A d \in Names : ~Holds(c, d)
    BY <1>1 DEF Holds
  <1>5. CASE UNCHANGED <<file, left>>
    BY <1>1, <1>2, <1>3, <1>4, <1>5, CommandAt, QuietCommand
  <1>6. CASE /\ file' = [d \in Names |-> IF file[d].there THEN [file[d] EXCEPT !.at = now] ELSE file[d]]
             /\ left' = left \cup Present
    <2>1. file \in [Names -> FileState] /\ now \in Nat
      BY DEF DecoyInv, DecoyTypes, FileTypes
    <2>2. ASSUME NEW d \in Names
          PROVE  /\ file'[d] \in FileState
                 /\ file'[d].sum = file[d].sum /\ file'[d].big = file[d].big /\ file'[d].there = file[d].there
                 /\ file[d].there => file'[d].at = now /\ d \in left'
      <3>1. file[d] \in FileState
        BY <2>1
      <3>2. CASE file[d].there
        <4>1. file'[d] = [file[d] EXCEPT !.at = now]
          BY <1>6, <3>2
        <4> QED
          BY <1>6, <2>1, <3>1, <3>2, <4>1 DEF FileState, Present
      <3>3. CASE ~file[d].there
        BY <1>6, <3>1, <3>3
      <3> QED
        BY <3>2, <3>3
    <2>3. file' \in [Names -> FileState]
      BY <1>6, <2>2
    <2>4. \A r \in Baselines : r.name \in Names
      BY BaselineTypes DEF DecoyInv, Baseline
    <2>5. \A r \in Baselines : Broken(r)' <=> Broken(r)
      <3>1. ASSUME NEW r \in Baselines PROVE Broken(r)' <=> Broken(r)
        BY <2>2, <2>4 DEF Broken, Altered
      <3> QED
        BY <3>1
    <2>6. Worn
      BY <2>2, <2>5 DEF Worn
    <2>7. Knows(k)'
      BY <1>2 DEF Knows
    <2>8. DecoyTypes' /\ GenerationInv' /\ MakingInv' /\ WatchInv' /\ ReportInv'
          /\ Baselines' \subseteq Baselines
      BY <1>1, <1>2, <1>3, <2>3, <2>6, <2>7, CommandAt, OneCommand
    <2>9. \A b \in Commands, d \in Names : Holds(b, d)' => Holds(b, d) /\ cmd'[b] = cmd[b]
      BY <1>2, <1>4, CommandAt DEF Holds, Record
    <2>10. EvidenceInv'
      <3>1. ASSUME NEW r \in Baselines, r.name \in evidence
            PROVE  now > r.at /\ (file'[r.name].there => file'[r.name].at > r.at)
                     /\ \A b \in Commands : Holds(b, r.name) => cmd[b].back[1] > r.at
        BY <2>2, <2>4, <3>1 DEF DecoyInv, EvidenceInv
      <3> QED
        BY <1>1, <2>4, <2>8, <2>9, <3>1 DEF EvidenceInv
    <2>11. TimesInv'
      <3>1. \A r \in Baselines : r.name \notin left' => Broken(r)'
        BY <2>2, <2>4 DEF Broken
      <3> QED
        BY <2>8, <3>1 DEF TimesInv
    <2> QED
      BY <2>8, <2>10, <2>11 DEF DecoyInv
  <1> QED
    BY <1>5, <1>6 DEF ScanRoots

\* What a judged decoy leaves of the command.
LEMMA Judging ==
    ASSUME DecoyInv, NEW c \in Commands, cmd[c].pc \in Looking,
           NEW stat \in Stats, NEW verdict \in WatchVerdicts, NEW hash \in Hashes,
           SoundFor(Critical, [verdict |-> verdict, hash |-> hash, evidence |-> stat.evidence,
                               altered |-> stat.altered, excused |-> stat.excused])
    PROVE  \E k \in CommandState :
               /\ Found(c, stat, verdict, hash) = [cmd EXCEPT ![c] = k]
               /\ k.pc \in {"stat", "done"} /\ (k.pc = "stat" => k.todo # <<>>)
               /\ ToSet(k.todo) \subseteq Baselines
               /\ Truthful(k)
  <1>1. PICK f : f = [verdict |-> verdict, hash |-> hash, evidence |-> stat.evidence,
                      altered |-> stat.altered, excused |-> stat.excused]
    OBVIOUS
  <1>2. f \in Reports /\ f.verdict = verdict
    BY <1>1 DEF Stats, Reports
  <1>3. PICK s : s = IF Severity(verdict) >= Medium THEN Critical ELSE Severity(verdict)
    OBVIOUS
  <1>4. s \in Grades /\ (Severity(verdict) >= Medium => s >= Medium)
    BY <1>3, Ranks DEF Critical, Medium, Grades
  <1>5. PICK w : w = Max({cmd[c].worst, s})
    OBVIOUS
  <1>6. w \in Grades /\ cmd[c].worst \in Grades /\ w >= cmd[c].worst /\ w >= s
    <2>1. cmd[c].worst \in Grades
      BY CommandAt DEF CommandState
    <2> QED
      BY <1>4, <1>5, <2>1, MaxOfTwo
  <1>7. SoundFor(w, f)
    <2>1. SoundFor(Critical, f)
      BY <1>1
    <2>2. Severity(f.verdict) >= Medium => w >= Medium
      BY <1>2, <1>4, <1>6 DEF Grades, Medium
    <2> QED
      BY <2>1, <2>2 DEF SoundFor
  <1>8. cmd[c].todo \in Seq(Baseline) /\ cmd[c].todo # <<>> /\ cmd[c].seen \in Seq(Reports)
    BY CommandAt DEF CommandState, DecoyInv, DecoyTypes, CommandTypes
  <1>9. PICK t \in Seq(Baseline) : t = Tail(cmd[c].todo) /\ ToSet(t) \subseteq Baselines
        /\ (Len(cmd[c].todo) # 1 => t # <<>>)
    <2>1. Tail(cmd[c].todo) \in Seq(Baseline) /\ ToSet(Tail(cmd[c].todo)) \subseteq ToSet(cmd[c].todo)
          /\ (Len(cmd[c].todo) # 1 => Tail(cmd[c].todo) # <<>>)
      BY <1>8, SeqOps
    <2> QED
      BY <2>1, CommandAt
  <1>10. PICK list \in Seq(Reports) : list = Append(cmd[c].seen, f)
    <2>1. Append(cmd[c].seen, f) \in Seq(Reports)
      BY <1>2, <1>8
    <2> QED
      BY <2>1
  <1>11. PICK p \in {"stat", "done"} : p = IF Len(cmd[c].todo) = 1 THEN "done" ELSE "stat"
    OBVIOUS
  <1>12. PICK k1 : k1 = [cmd[c] EXCEPT !.worst = w]
    OBVIOUS
  <1>13. PICK k2 : k2 = [k1 EXCEPT !.todo = t]
    OBVIOUS
  <1>14. PICK k3 : k3 = [k2 EXCEPT !.seen = list]
    OBVIOUS
  <1>15. PICK k4 : k4 = [k3 EXCEPT !.stat = NoStat]
    OBVIOUS
  <1>16. PICK k5 : k5 = [k4 EXCEPT !.back = <<0, 0>>]
    OBVIOUS
  <1>17. PICK k6 : k6 = [k5 EXCEPT !.hash = "none"]
    OBVIOUS
  <1>18. PICK k : k = [k6 EXCEPT !.pc = p]
    OBVIOUS
  <1>19. Found(c, stat, verdict, hash) = [cmd EXCEPT ![c] = k]
    <2>1. Worse(c, s) = [cmd EXCEPT ![c] = k1]
      BY <1>5, <1>12, CommandAt DEF Worse
    <2>2. PICK g : g = [cmd EXCEPT ![c] = k1]
      OBVIOUS
    <2>3. Found(c, stat, verdict, hash) = [g EXCEPT ![c].todo = Tail(@), ![c].seen = Append(@, f), ![c].stat = NoStat,
                                                    ![c].back = <<0, 0>>, ![c].hash = "none", ![c].pc = p]
      BY <1>1, <1>3, <1>11, <2>1, <2>2 DEF Found
    <2>4. k1 \in CommandState /\ k1.todo = cmd[c].todo /\ k1.seen = cmd[c].seen
      BY <1>6, <1>12, CommandAt DEF CommandState
    <2>5. [g EXCEPT ![c].todo = Tail(@), ![c].seen = Append(@, f), ![c].stat = NoStat,
                    ![c].back = <<0, 0>>, ![c].hash = "none", ![c].pc = p]
            = [g EXCEPT ![c] = k]
      BY <1>9, <1>10, <1>13, <1>14, <1>15, <1>16, <1>17, <1>18, <2>2, <2>4, CommandAt
    <2> QED
      BY <2>2, <2>3, <2>5, CommandAt
  <1>20. k1 \in CommandState /\ k1.worst = w /\ k1.exposed = cmd[c].exposed
    BY <1>6, <1>12, CommandAt DEF CommandState
  <1>21. k2 \in CommandState /\ k2.worst = w /\ k2.exposed = cmd[c].exposed /\ k2.todo = t
    BY <1>13, <1>20 DEF CommandState
  <1>22. k3 \in CommandState /\ k3.worst = w /\ k3.exposed = cmd[c].exposed /\ k3.todo = t /\ k3.seen = list
    BY <1>14, <1>21 DEF CommandState
  <1>23. k4 \in CommandState /\ k4.worst = w /\ k4.exposed = cmd[c].exposed /\ k4.todo = t /\ k4.seen = list
    <2>1. NoStat \in Stats
      BY DEF NoStat, Stats
    <2> QED
      BY <1>15, <1>22, <2>1 DEF CommandState
  <1>24. k5 \in CommandState /\ k5.worst = w /\ k5.exposed = cmd[c].exposed /\ k5.todo = t /\ k5.seen = list
    BY <1>16, <1>23 DEF CommandState
  <1>25. k6 \in CommandState /\ k6.worst = w /\ k6.exposed = cmd[c].exposed /\ k6.todo = t /\ k6.seen = list
    BY <1>17, <1>24 DEF CommandState, Hashes
  <1>26. k \in CommandState /\ k.worst = w /\ k.exposed = cmd[c].exposed /\ k.todo = t /\ k.seen = list
         /\ k.pc = p
    BY <1>18, <1>25 DEF CommandState
  <1>27. Truthful(k)
    <2>1. cmd[c].exposed => cmd[c].worst >= Medium
      BY CommandAt DEF Truthful
    <2>2. k.exposed => w >= Medium
      BY <1>6, <1>26, <2>1 DEF Grades, Medium
    <2>3. \A i \in DOMAIN cmd[c].seen : SoundFor(cmd[c].worst, cmd[c].seen[i])
      BY CommandAt DEF Truthful
    <2>4. \A i \in DOMAIN cmd[c].seen : SoundFor(w, cmd[c].seen[i])
      BY <1>6, <2>3 DEF SoundFor, Grades, Medium
    <2>5. \A i \in DOMAIN list : list[i] = f \/ (i \in DOMAIN cmd[c].seen /\ list[i] = cmd[c].seen[i])
      BY <1>2, <1>8, <1>10
    <2> QED
      BY <1>7, <1>26, <2>2, <2>4, <2>5 DEF Truthful
  <1> QED
    BY <1>9, <1>11, <1>19, <1>26, <1>27

\* A decoy is judged, and its times are not put back by this step.
LEMMA JudgedQuietly ==
    ASSUME DecoyInv, NEW c \in Commands, cmd[c].pc \in Looking,
           NEW stat \in Stats, NEW verdict \in WatchVerdicts, NEW hash \in Hashes,
           SoundFor(Critical, [verdict |-> verdict, hash |-> hash, evidence |-> stat.evidence,
                               altered |-> stat.altered, excused |-> stat.excused]),
           cmd' = Found(c, stat, verdict, hash),
           UNCHANGED <<now, file, manifest, deploy, spent, evidence, foreignReads>>, left \subseteq left',
           cmd[c].pc = "restore" => cmd[c].readonly \/ ~At(c).there
    PROVE  DecoyInv'
  <1>1. PICK k \in CommandState :
               /\ cmd' = [cmd EXCEPT ![c] = k]
               /\ k.pc \in {"stat", "done"} /\ (k.pc = "stat" => k.todo # <<>>)
               /\ ToSet(k.todo) \subseteq Baselines
               /\ Truthful(k)
    BY Judging
  <1>2. Knows(k) /\ (k.pc \in Looking => k.todo # <<>>) /\ k.pc \notin {"read", "restore"}
    BY <1>1 DEF Knows, Looking
  <1>3. \A d \in Names : Holds(c, d) /\ cmd[c].pc = "restore" => ~file[d].there
    BY DEF Holds, At
  <1> QED
    BY <1>1, <1>2, <1>3, CommandAt, QuietCommand

LEMMA MissingIsTold ==
    ASSUME NEW r \in Baseline, NEW atime \in Nat, NEW mtime \in Nat
    PROVE  CheckRecord(r, FALSE, atime, mtime, "none") = "missing"
  BY DEF CheckRecord

LEMMA ModifiedIsTold ==
    ASSUME NEW r \in Baseline, NEW atime \in Nat, NEW mtime \in Nat
    PROVE  CheckRecord(r, TRUE, atime, mtime, "differs") = "modified"
  BY DEF CheckRecord

LEMMA TimesAreTold ==
    ASSUME NEW r \in Baseline, NEW atime \in Nat, NEW mtime \in Nat, NEW h \in {"none", "same"}
    PROVE  IF atime > r.at THEN CheckRecord(r, TRUE, atime, mtime, h) = "tripped"
                        ELSE CheckRecord(r, TRUE, atime, mtime, h) \in {"touched", "quiet"}
  <1>1. r.at \in Nat /\ r.mt \in Nat
    BY DEF Baseline
  <1> QED
    BY <1>1 DEF CheckRecord

\* An access time past an unbroken baseline is excused, unless only this watch's own restore is due.
LEMMA TripExcused ==
    ASSUME DecoyInv, NEW c \in Commands, cmd[c].pc \in {"stat", "hash"},
           At(c).there, ~Altered(Record(c)), At(c).at > Record(c).at
    PROVE  Record(c).name \in foreignReads \cup left \/ Busy(c, Record(c).name)
  <1>1. Record(c) \in Baselines
    BY RecordInHand DEF DecoyInv, Looking
  <1>2. PICK r : r = Record(c)
    OBVIOUS
  <1>3. ~Broken(r) /\ file[r.name].at > r.at
    BY <1>2 DEF Broken, At
  <1>4. CASE r.name \notin foreignReads \cup left
    <2>1. PICK b \in Commands : Holds(b, r.name) /\ cmd[b].pc = "restore"
      BY <1>1, <1>2, <1>3, <1>4 DEF DecoyInv, TimesInv
    <2>2. b # c
      BY <2>1
    <2> QED
      BY <1>2, <2>1, <2>2 DEF Busy
  <1> QED
    BY <1>2, <1>4

LEMMA StatStep ==
    ASSUME DecoyInv, NEW c \in Commands, Stat(c)
    PROVE  DecoyInv'
  <1>1. cmd[c].pc = "stat" /\ UNCHANGED <<now, file, manifest, deploy, spent, evidence, foreignReads, left>>
    BY DEF Stat
  <1>2. cmd[c].pc \in Looking /\ Record(c) \in Baseline /\ Record(c) \in Baselines /\ At(c) \in FileState
    BY <1>1, RecordInHand DEF DecoyInv, Looking
  <1>3. PICK r : r = Record(c)
    OBVIOUS
  <1>4. PICK f : f = At(c)
    OBVIOUS
  <1>5. r \in Baseline /\ r \in Baselines /\ f \in FileState /\ f = file[r.name]
        /\ f.there \in BOOLEAN /\ f.at \in Nat /\ f.mt \in Nat /\ r.at \in Nat
    BY <1>2, <1>3, <1>4 DEF At, FileState, Baseline
  <1>6. PICK ev \in BOOLEAN : ev = (r.name \in evidence)
    <2>1. CASE r.name \in evidence
      <3>1. TRUE = (r.name \in evidence)
        BY <2>1
      <3> QED
        BY <3>1
    <2>2. CASE r.name \notin evidence
      <3>1. FALSE = (r.name \in evidence)
        BY <2>2
      <3> QED
        BY <3>1
    <2> QED
      BY <2>1, <2>2
  <1>7. PICK al \in BOOLEAN : al = (f.there /\ Altered(r))
    OBVIOUS
  <1>8. PICK ex \in BOOLEAN : ex = (r.name \in foreignReads \cup left \/ Busy(c, r.name))
    OBVIOUS
  <1>9. PICK s : s = [there |-> f.there, at |-> f.at, mt |-> f.mt, evidence |-> ev, altered |-> al, excused |-> ex]
    OBVIOUS
  <1>10. s \in Stats /\ s.there = f.there /\ s.at = f.at /\ s.evidence = ev /\ s.altered = al /\ s.excused = ex
    BY <1>5, <1>9 DEF Stats
  <1>21. PICK atime \in Nat : atime = f.at
    BY <1>5
  <1>22. PICK mtime \in Nat : mtime = f.mt
    BY <1>5
  <1>20. PICK chk : chk = CheckRecord(r, f.there, atime, mtime, "none")
    OBVIOUS
  <1>11. PICK v : v = IF f.there /\ f.big THEN "ballooned" ELSE chk
    OBVIOUS
  <1>12. cmd' = IF ~f.there \/ f.big \/ f.at > r.at THEN Found(c, s, v, "none")
                ELSE [cmd EXCEPT ![c].stat = s, ![c].pc = "hash"]
    BY <1>3, <1>4, <1>6, <1>7, <1>8, <1>9, <1>11, <1>20, <1>21, <1>22 DEF Stat
  <1>13. ev /\ f.there => f.at > r.at
    BY <1>5, <1>6 DEF DecoyInv, EvidenceInv
  <1>14. CASE ~f.there \/ f.big \/ f.at > r.at
    <2>1. \/ ~f.there /\ v = "missing"
          \/ f.there /\ f.big /\ v = "ballooned"
          \/ f.there /\ ~f.big /\ f.at > r.at /\ v = "tripped"
      <3>1. CASE ~f.there
        <4>1. f.there = FALSE
          BY <1>5, <3>1
        <4>2. chk = CheckRecord(r, FALSE, atime, mtime, "none")
          BY <1>20, <4>1, Zenon
        <4>3. chk = "missing"
          BY <1>5, <4>2, MissingIsTold
        <4> QED
          BY <1>11, <3>1, <4>3
      <3>2. CASE f.there /\ f.big
        BY <1>11, <3>2
      <3>3. CASE f.there /\ ~f.big /\ f.at > r.at
        <4>1. f.there = TRUE
          BY <1>5, <3>3
        <4>2. chk = CheckRecord(r, TRUE, atime, mtime, "none")
          BY <1>20, <4>1, Zenon
        <4>3. chk = "tripped"
          BY <1>5, <1>21, <3>3, <4>2, TimesAreTold
        <4> QED
          BY <1>11, <3>3, <4>3
      <3> QED
        BY <1>14, <3>1, <3>2, <3>3
    <2>2. v \in WatchVerdicts /\ Severity(v) >= Medium
      BY <2>1 DEF WatchVerdicts, Severity, Medium, High, Critical
    <2>3. v = "tripped" => ex \/ al
      <3>1. ASSUME f.there, ~al, f.at > r.at PROVE ex
        <4>1. ~Altered(r)
          BY <1>7, <3>1, Zenon
        <4>2. r.name \in foreignReads \cup left \/ Busy(c, r.name)
          BY <1>1, <1>3, <1>4, <3>1, <4>1, TripExcused
        <4> QED
          BY <1>8, <4>2, Zenon
      <3> QED
        BY <2>1, <3>1
    <2>4. SoundFor(Critical, [verdict |-> v, hash |-> "none", evidence |-> s.evidence, altered |-> s.altered, excused |-> s.excused])
      BY <1>10, <2>2, <2>3 DEF SoundFor, Critical, Medium
    <2>5. cmd' = Found(c, s, v, "none")
      BY <1>12, <1>14
    <2> QED
      BY <1>1, <1>2, <1>10, <2>2, <2>4, <2>5, JudgedQuietly DEF Hashes
  <1>15. CASE ~(~f.there \/ f.big \/ f.at > r.at)
    <2>1. PICK g : g = [cmd[c] EXCEPT !.stat = s]
      OBVIOUS
    <2>2. PICK k : k = [g EXCEPT !.pc = "hash"]
      OBVIOUS
    <2>3. cmd' = [cmd EXCEPT ![c] = k]
      BY <1>12, <1>15, <2>1, <2>2, CommandAt
    <2>4. g \in CommandState /\ g.stat = s /\ g.todo = cmd[c].todo /\ g.seen = cmd[c].seen
          /\ g.worst = cmd[c].worst /\ g.exposed = cmd[c].exposed
      <3>1. cmd[c] \in CommandState
        BY <1>10, CommandAt
      <3>2. g \in CommandState
        BY <1>10, <2>1, <3>1 DEF CommandState
      <3> QED
        BY <2>1, <3>1, <3>2 DEF CommandState
    <2>5. k \in CommandState /\ k.pc = "hash" /\ k.stat = s /\ k.todo = cmd[c].todo
          /\ k.seen = cmd[c].seen /\ k.worst = cmd[c].worst /\ k.exposed = cmd[c].exposed
      BY <2>2, <2>4 DEF CommandState
    <2>6. Truthful(k)
      BY <2>5, CommandAt DEF Truthful
    <2>7. f.there /\ f.at <= r.at /\ ~ev
      BY <1>5, <1>13, <1>15
    <2>8. al => Broken(r)
      BY <1>7, Zenon DEF Broken
    <2>9. Knows(k)
      BY <1>3, <1>10, <2>5, <2>7, <2>8 DEF Knows, Record
    <2>10. k.todo # <<>> /\ ToSet(k.todo) \subseteq Baselines
      BY <1>2, <2>5, CommandAt DEF DecoyInv, DecoyTypes, CommandTypes
    <2>11. \A d \in Names : ~Holds(c, d)
      BY <1>1 DEF Holds
    <2> QED
      BY <1>1, <2>3, <2>5, <2>6, <2>9, <2>10, <2>11, CommandAt, QuietCommand
  <1> QED
    BY <1>14, <1>15

\* A hash that was not got, or not kept, judges the decoy by the times of the watch's first look.
LEMMA HashLost ==
    ASSUME DecoyInv, NEW c \in Commands, cmd[c].pc \in {"hash", "read", "restore"},
           cmd' = Found(c, cmd[c].stat, HashVerdict(c, "none"), "none"),
           UNCHANGED <<now, file, manifest, deploy, spent, evidence, foreignReads>>, left \subseteq left',
           cmd[c].pc = "restore" => cmd[c].readonly \/ ~At(c).there
    PROVE  DecoyInv'
  <1>1. PICK s \in Stats : s = cmd[c].stat
    BY CommandAt DEF CommandState
  <1>2. Record(c) \in Baseline /\ cmd[c].pc \in Looking
    BY RecordInHand DEF DecoyInv, Looking
  <1>3. PICK r \in Baseline : r = Record(c)
    BY <1>2
  <1>4. s.at <= r.at /\ ~s.evidence /\ s.at \in Nat /\ s.mt \in Nat /\ r.at \in Nat
    BY <1>1, <1>3, CommandAt DEF Knows, Record, Stats, Baseline
  <1>5. PICK atime \in Nat, mtime \in Nat : atime = s.at /\ mtime = s.mt
    BY <1>4
  <1>6. PICK v : v = CheckRecord(r, TRUE, atime, mtime, "none")
    OBVIOUS
  <1>7. v = HashVerdict(c, "none")
    BY <1>1, <1>3, <1>5, <1>6 DEF HashVerdict
  <1>8. v \in {"touched", "quiet"}
    <2>1. ~(atime > r.at)
      BY <1>4, <1>5
    <2> QED
      BY <1>6, <2>1, TimesAreTold
  <1>9. v \in WatchVerdicts /\ SoundFor(Critical, [verdict |-> v, hash |-> "none", evidence |-> s.evidence,
                                                   altered |-> s.altered, excused |-> s.excused])
    BY <1>4, <1>8 DEF SoundFor, WatchVerdicts, Severity, Critical, Medium, Low, Info
  <1>10. cmd' = Found(c, s, v, "none")
    BY <1>1, <1>7
  <1> QED
    BY <1>2, <1>9, <1>10, JudgedQuietly DEF Hashes

LEMMA HashStatStep ==
    ASSUME DecoyInv, NEW c \in Commands, HashStat(c)
    PROVE  DecoyInv'
  <1>1. /\ cmd[c].pc = "hash" /\ UNCHANGED <<now, file, manifest, deploy, spent, evidence, foreignReads>>
        /\ left' = IF Busy(c, Record(c).name) THEN left \cup {Record(c).name} ELSE left
    BY DEF HashStat
  <1>2. Record(c) \in Baseline /\ Record(c) \in Baselines /\ At(c) \in FileState
    BY <1>1, RecordInHand DEF DecoyInv, Looking
  <1>3. CASE ~At(c).there
    <2>1. cmd' = Found(c, cmd[c].stat, HashVerdict(c, "none"), "none")
      BY <1>3 DEF HashStat
    <2> QED
      BY <1>1, <2>1, HashLost
  <1>4. CASE At(c).there
    <2>1. PICK atime \in Nat, mtime \in Nat : atime = At(c).at /\ mtime = At(c).mt
      BY <1>2 DEF FileState
    <2>2. PICK g : g = [cmd[c] EXCEPT !.back = <<atime, mtime>>]
      OBVIOUS
    <2>3. PICK k : k = [g EXCEPT !.pc = "read"]
      OBVIOUS
    <2>4. cmd' = [cmd EXCEPT ![c] = k]
      BY <1>4, <2>1, <2>2, <2>3, CommandAt DEF HashStat
    <2>5. /\ g \in CommandState /\ g.back = <<atime, mtime>> /\ g.todo = cmd[c].todo /\ g.readonly = cmd[c].readonly
          /\ g.stat = cmd[c].stat /\ g.seen = cmd[c].seen /\ g.worst = cmd[c].worst /\ g.exposed = cmd[c].exposed
      BY <2>1, <2>2, CommandAt DEF CommandState
    <2>6. /\ k \in CommandState /\ k.pc = "read" /\ k.back = <<atime, mtime>> /\ k.todo = cmd[c].todo /\ k.readonly = cmd[c].readonly
          /\ k.stat = cmd[c].stat /\ k.seen = cmd[c].seen /\ k.worst = cmd[c].worst /\ k.exposed = cmd[c].exposed
      BY <2>3, <2>5 DEF CommandState
    <2>7. Truthful(k) /\ Knows(k)
      BY <1>1, <2>6, CommandAt DEF Truthful, Knows
    <2>8. k.todo # <<>> /\ ToSet(k.todo) \subseteq Baselines
      BY <1>1, <2>6, CommandAt DEF DecoyInv, DecoyTypes, CommandTypes, Looking
    <2>9. CASE cmd[c].readonly
      <3>1. left \subseteq left' /\ \A d \in Names : ~Holds(c, d)
        BY <1>1 DEF Holds
      <3> QED
        BY <1>1, <2>4, <2>6, <2>7, <2>8, <2>9, <3>1, CommandAt, QuietCommand
    <2>10. CASE ~cmd[c].readonly
      <3>1. file \in [Names -> FileState]
        BY DEF DecoyInv, DecoyTypes, FileTypes
      <3>2. Knows(k)'
        BY <1>1, <2>7 DEF Knows, Broken, Altered
      <3>3. DecoyTypes' /\ GenerationInv' /\ MakingInv' /\ WatchInv' /\ ReportInv'
            /\ Baselines' \subseteq Baselines
        BY <1>1, <2>4, <2>6, <2>7, <2>8, <3>1, <3>2, CommandAt, FilesKept, OneCommand
      <3>4. PICK d : d = Record(c).name
        OBVIOUS
      <3>5. cmd'[c] = k /\ \A b \in Commands \ {c} : cmd'[b] = cmd[b]
        BY <2>4, CommandAt
      <3>6. \A e : (Holds(c, e)' => e = d) /\ ~Holds(c, e)
        BY <1>1, <2>6, <3>4, <3>5 DEF Holds, Record
      <3>7. \A b \in Commands \ {c} : \A e : Holds(b, e)' <=> Holds(b, e)
        BY <3>5 DEF Holds, Record
      <3>8. atime = file[d].at /\ file[d].there
        BY <1>4, <2>1, <3>4 DEF At
      <3>9. EvidenceInv'
        <4>1. ASSUME NEW r \in Baselines, r.name \in evidence
              PROVE  now > r.at /\ (file[r.name].there => file[r.name].at > r.at)
                       /\ \A b \in Commands : Holds(b, r.name)' => cmd'[b].back[1] > r.at
          <5>1. /\ now > r.at /\ (file[r.name].there => file[r.name].at > r.at)
                /\ \A b \in Commands : Holds(b, r.name) => cmd[b].back[1] > r.at
            BY <4>1 DEF DecoyInv, EvidenceInv
          <5>2. Holds(c, r.name)' => cmd'[c].back[1] > r.at
            BY <2>6, <3>5, <3>6, <3>8, <5>1
          <5> QED
            BY <3>5, <3>7, <5>1, <5>2
        <4> QED
          BY <1>1, <3>3, <4>1 DEF EvidenceInv
      <3>10. TimesInv'
        <4>1. ASSUME NEW r \in Baselines, ~Broken(r), r.name \notin foreignReads \cup left'
              PROVE  /\ file[r.name].at > r.at => \E b \in Commands : Holds(b, r.name)' /\ cmd'[b].pc = "restore"
                     /\ \A b \in Commands : Holds(b, r.name)' => cmd'[b].back[1] <= r.at
          <5>1. r.name \notin foreignReads \cup left
            BY <1>1, <4>1
          <5>2. /\ file[r.name].at > r.at => \E b \in Commands : Holds(b, r.name) /\ cmd[b].pc = "restore"
                /\ \A b \in Commands : Holds(b, r.name) => cmd[b].back[1] <= r.at
            BY <4>1, <5>1 DEF DecoyInv, TimesInv
          <5>3. file[r.name].at > r.at => \E b \in Commands : Holds(b, r.name)' /\ cmd'[b].pc = "restore"
            BY <3>5, <3>6, <3>7, <5>2
          <5>4. Holds(c, r.name)' => cmd'[c].back[1] <= r.at
            <6>1. SUFFICES ASSUME r.name = d PROVE cmd'[c].back[1] <= r.at
              BY <3>6
            <6>2. ~Busy(c, d)
              BY <1>1, <3>4, <4>1, <6>1
            <6>3. ~(file[d].at > r.at)
              BY <3>6, <5>2, <6>1, <6>2 DEF Busy
            <6>4. r.at \in Nat
              BY BaselineTypes DEF DecoyInv, Baseline
            <6> QED
              BY <2>6, <3>5, <3>8, <6>3, <6>4
          <5> QED
            BY <3>5, <3>7, <5>2, <5>3, <5>4
        <4> QED
          BY <1>1, <3>3, <4>1 DEF TimesInv, Broken, Altered
      <3> QED
        BY <3>3, <3>9, <3>10 DEF DecoyInv
    <2> QED
      BY <2>9, <2>10
  <1> QED
    BY <1>3, <1>4

LEMMA HashReadStep ==
    ASSUME DecoyInv, NEW c \in Commands, HashRead(c)
    PROVE  DecoyInv'
  <1>1. cmd[c].pc = "read" /\ UNCHANGED <<now, manifest, deploy, spent, evidence, foreignReads, left>>
    BY DEF HashRead
  <1>2. Record(c) \in Baseline /\ Record(c) \in Baselines /\ At(c) \in FileState
    BY <1>1, RecordInHand DEF DecoyInv, Looking
  <1>3. CASE ~At(c).there
    <2>1. cmd' = Found(c, cmd[c].stat, HashVerdict(c, "none"), "none") /\ UNCHANGED file
      BY <1>3 DEF HashRead
    <2> QED
      BY <1>1, <2>1, HashLost
  <1>4. CASE At(c).there
    <2>1. PICK h \in {"differs", "same"} : h = IF Altered(Record(c)) THEN "differs" ELSE "same"
      OBVIOUS
    <2>2. PICK g : g = [cmd[c] EXCEPT !.hash = h]
      OBVIOUS
    <2>3. PICK k : k = [g EXCEPT !.pc = "restore"]
      OBVIOUS
    <2>4. cmd' = [cmd EXCEPT ![c] = k]
      BY <1>4, <2>1, <2>2, <2>3, CommandAt DEF HashRead
    <2>5. /\ g \in CommandState /\ g.hash = h /\ g.back = cmd[c].back
          /\ g.todo = cmd[c].todo /\ g.readonly = cmd[c].readonly
          /\ g.stat = cmd[c].stat /\ g.seen = cmd[c].seen /\ g.worst = cmd[c].worst /\ g.exposed = cmd[c].exposed
      <3>1. cmd[c] \in CommandState
        BY CommandAt
      <3>2. g \in CommandState
        BY <2>1, <2>2, <3>1 DEF CommandState, Hashes
      <3> QED
        BY <2>2, <3>1, <3>2 DEF CommandState
    <2>6. /\ k \in CommandState /\ k.pc = "restore" /\ k.hash = h /\ k.back = cmd[c].back /\ k.todo = cmd[c].todo /\ k.readonly = cmd[c].readonly
          /\ k.stat = cmd[c].stat /\ k.seen = cmd[c].seen /\ k.worst = cmd[c].worst /\ k.exposed = cmd[c].exposed
      BY <2>3, <2>5 DEF CommandState
    <2>7. cmd[c].stat.altered => h = "differs"
      <3>1. cmd[c].stat.altered => Broken(Record(c))
        BY <1>1, CommandAt DEF Knows, Record
      <3> QED
        BY <1>4, <2>1, <3>1 DEF Broken, At
    <2>8. Truthful(k) /\ Knows(k)
      BY <1>1, <2>1, <2>6, <2>7, CommandAt DEF Truthful, Knows
    <2>9. k.todo # <<>> /\ ToSet(k.todo) \subseteq Baselines
      BY <1>1, <2>6, CommandAt DEF DecoyInv, DecoyTypes, CommandTypes, Looking
    <2>10. CASE cmd[c].readonly
      <3>1. UNCHANGED file /\ \A d \in Names : ~Holds(c, d)
        BY <1>4, <2>10 DEF HashRead, Holds
      <3> QED
        BY <1>1, <2>4, <2>6, <2>8, <2>9, <2>10, <3>1, CommandAt, QuietCommand
    <2>11. CASE ~cmd[c].readonly
      <3>1. now \in Nat /\ file \in [Names -> FileState]
        BY DEF DecoyInv, DecoyTypes, FileTypes
      <3>2. PICK d \in Names : d = Record(c).name
        BY <1>2 DEF Baseline
      <3>3. PICK f : f = [file[d] EXCEPT !.at = now]
        OBVIOUS
      <3>4. f \in FileState /\ f.at = now /\ f.sum = file[d].sum /\ f.big = file[d].big
            /\ f.there = file[d].there
        BY <3>1, <3>3 DEF FileState
      <3>5. file' = [file EXCEPT ![d] = f]
        BY <1>4, <2>11, <3>2, <3>3 DEF HashRead
      <3>6. /\ file' \in [Names -> FileState] /\ file'[d] = f /\ \A e \in Names \ {d} : file'[e] = file[e]
            /\ \A r \in Baselines : r.name \in Names /\ (Broken(r)' <=> Broken(r))
            /\ Worn
        BY <3>4, <3>5, OnlyTimes
      <3>7. Knows(k)'
        <4>1. Head(k.todo) = Record(c)
          BY <2>6 DEF Record
        <4> QED
          BY <1>2, <2>8, <3>6, <4>1 DEF Knows
      <3>8. DecoyTypes' /\ GenerationInv' /\ MakingInv' /\ WatchInv' /\ ReportInv'
            /\ Baselines' \subseteq Baselines
        BY <1>1, <2>4, <2>6, <2>8, <2>9, <3>6, <3>7, CommandAt, OneCommand
      <3>9. cmd'[c] = k /\ \A b \in Commands \ {c} : cmd'[b] = cmd[b]
        BY <2>4, CommandAt
      <3>10. \A e : (Holds(c, e) <=> e = d) /\ (Holds(c, e)' <=> e = d)
        BY <1>1, <2>6, <2>11, <3>2, <3>9 DEF Holds, Record
      <3>11. \A b \in Commands : \A e : (Holds(b, e)' <=> Holds(b, e)) /\ cmd'[b].back = cmd[b].back
        <4>1. \A b \in Commands \ {c} : \A e : (Holds(b, e)' <=> Holds(b, e)) /\ cmd'[b].back = cmd[b].back
          BY <3>9 DEF Holds, Record
        <4> QED
          BY <2>6, <3>9, <3>10, <4>1
      <3>12. EvidenceInv'
        <4>1. ASSUME NEW r \in Baselines, r.name \in evidence
              PROVE  now > r.at /\ (file'[r.name].there => file'[r.name].at > r.at)
                       /\ \A b \in Commands : Holds(b, r.name) => cmd[b].back[1] > r.at
          BY <3>4, <3>6, <4>1 DEF DecoyInv, EvidenceInv
        <4> QED
          BY <1>1, <3>8, <3>11, <4>1 DEF EvidenceInv
      <3>13. TimesInv'
        <4>1. ASSUME NEW r \in Baselines, ~Broken(r), r.name \notin foreignReads \cup left
              PROVE  /\ file'[r.name].at > r.at => \E b \in Commands : Holds(b, r.name)' /\ cmd'[b].pc = "restore"
                     /\ \A b \in Commands : Holds(b, r.name)' => cmd'[b].back[1] <= r.at
          <5>1. /\ file[r.name].at > r.at => \E b \in Commands : Holds(b, r.name) /\ cmd[b].pc = "restore"
                /\ \A b \in Commands : Holds(b, r.name) => cmd[b].back[1] <= r.at
            BY <4>1 DEF DecoyInv, TimesInv
          <5>2. CASE r.name = d
            BY <2>6, <3>9, <3>10, <3>11, <5>1, <5>2
          <5>3. CASE r.name # d
            BY <1>1, <3>6, <3>9, <3>11, <5>1, <5>3
          <5> QED
            BY <5>2, <5>3
        <4> QED
          BY <1>1, <3>6, <3>8, <4>1 DEF TimesInv
      <3> QED
        BY <3>8, <3>12, <3>13 DEF DecoyInv
    <2> QED
      BY <2>10, <2>11
  <1> QED
    BY <1>3, <1>4

\* The times are put back, and the decoy is judged by its hash.
LEMMA RestoreStep ==
    ASSUME DecoyInv, NEW c \in Commands, Restore(c)
    PROVE  DecoyInv'
  <1>1. cmd[c].pc = "restore" /\ UNCHANGED <<now, manifest, deploy, spent, evidence, foreignReads, left>>
    BY DEF Restore
  <1>2. Record(c) \in Baseline /\ Record(c) \in Baselines /\ At(c) \in FileState /\ cmd[c].pc \in Looking
    BY <1>1, RecordInHand DEF DecoyInv, Looking
  <1>3. CASE ~(At(c).there /\ ~cmd[c].readonly)
    <2>1. cmd' = Found(c, cmd[c].stat, HashVerdict(c, "none"), "none") /\ UNCHANGED file
      BY <1>3 DEF Restore
    <2> QED
      BY <1>1, <1>3, <2>1, HashLost
  <1>4. CASE At(c).there /\ ~cmd[c].readonly
    <2>1. PICK s \in Stats : s = cmd[c].stat
      BY CommandAt DEF CommandState
    <2>2. PICK r \in Baseline : r = Record(c)
      BY <1>2
    <2>3. PICK h \in Hashes : h = cmd[c].hash
      BY CommandAt DEF CommandState
    <2>4. s.at <= r.at /\ ~s.evidence /\ s.at \in Nat /\ s.mt \in Nat /\ r.at \in Nat /\ h # "none"
          /\ (s.altered => h = "differs")
      BY <1>1, <2>1, <2>2, <2>3, CommandAt DEF Knows, Record, Stats, Baseline
    <2>5. PICK atime \in Nat, mtime \in Nat : atime = s.at /\ mtime = s.mt
      BY <2>4
    <2>6. PICK v : v = CheckRecord(r, TRUE, atime, mtime, h)
      OBVIOUS
    <2>7. v = HashVerdict(c, h)
      BY <2>1, <2>2, <2>5, <2>6 DEF HashVerdict
    <2>8. (h = "differs" /\ v = "modified") \/ (h = "same" /\ v \in {"touched", "quiet"})
      <3>1. ~(atime > r.at)
        BY <2>4, <2>5
      <3>2. CASE h = "differs"
        BY <2>6, <3>2, ModifiedIsTold
      <3>3. CASE h = "same"
        BY <2>6, <3>1, <3>3, TimesAreTold
      <3> QED
        BY <2>4, <3>2, <3>3 DEF Hashes
    <2>9. v \in WatchVerdicts /\ SoundFor(Critical, [verdict |-> v, hash |-> h, evidence |-> s.evidence,
                                                     altered |-> s.altered, excused |-> s.excused])
      BY <2>4, <2>8 DEF SoundFor, WatchVerdicts, Severity, Critical, Medium, Low, Info
    <2>10. cmd' = Found(c, s, v, h)
      BY <1>4, <2>1, <2>3, <2>7 DEF Restore
    <2>11. PICK k \in CommandState :
               /\ cmd' = [cmd EXCEPT ![c] = k]
               /\ k.pc \in {"stat", "done"} /\ (k.pc = "stat" => k.todo # <<>>)
               /\ ToSet(k.todo) \subseteq Baselines
               /\ Truthful(k)
      BY <1>2, <2>9, <2>10, Judging
    <2>12. PICK d \in Names : d = r.name
      BY DEF Baseline
    <2>13. PICK back1 \in Nat, back2 \in Nat : back1 = cmd[c].back[1] /\ back2 = cmd[c].back[2]
      BY CommandAt DEF CommandState
    <2>14. PICK g : g = [file[d] EXCEPT !.at = back1]
      OBVIOUS
    <2>15. PICK f : f = [g EXCEPT !.mt = back2]
      OBVIOUS
    <2>16. file \in [Names -> FileState]
      BY DEF DecoyInv, DecoyTypes, FileTypes
    <2>17. g \in FileState /\ g.at = back1 /\ g.sum = file[d].sum /\ g.big = file[d].big
           /\ g.there = file[d].there
      BY <2>14, <2>16 DEF FileState
    <2>18. f \in FileState /\ f.at = back1 /\ f.sum = file[d].sum /\ f.big = file[d].big
           /\ f.there = file[d].there
      BY <2>15, <2>17 DEF FileState
    <2>19. file' = [file EXCEPT ![d] = f]
      BY <1>4, <2>2, <2>12, <2>13, <2>14, <2>15, <2>16 DEF Restore
    <2>20. /\ file' \in [Names -> FileState] /\ file'[d] = f /\ \A e \in Names \ {d} : file'[e] = file[e]
           /\ \A q \in Baselines : q.name \in Names /\ (Broken(q)' <=> Broken(q))
           /\ Worn
      BY <2>18, <2>19, OnlyTimes
    <2>21. Knows(k)' /\ (k.pc \in Looking => k.todo # <<>>)
      BY <2>11 DEF Knows, Looking
    <2>22. DecoyTypes' /\ GenerationInv' /\ MakingInv' /\ WatchInv' /\ ReportInv'
           /\ Baselines' \subseteq Baselines
      BY <1>1, <2>11, <2>20, <2>21, CommandAt, OneCommand
    <2>23. cmd'[c] = k /\ \A b \in Commands \ {c} : cmd'[b] = cmd[b]
      BY <2>11, CommandAt
    <2>24. \A e : ~Holds(c, e)' /\ (Holds(c, e) <=> e = d)
      BY <1>1, <1>4, <2>2, <2>11, <2>12, <2>23 DEF Holds
    <2>25. \A b \in Commands \ {c} : \A e : (Holds(b, e)' <=> Holds(b, e)) /\ cmd'[b].back = cmd[b].back
      BY <2>23 DEF Holds, Record
    <2>26. EvidenceInv'
      <3>1. ASSUME NEW q \in Baselines, q.name \in evidence
            PROVE  now > q.at /\ (file'[q.name].there => file'[q.name].at > q.at)
                     /\ \A b \in Commands : Holds(b, q.name) => cmd[b].back[1] > q.at
        <4>1. /\ now > q.at /\ (file[q.name].there => file[q.name].at > q.at)
              /\ \A b \in Commands : Holds(b, q.name) => cmd[b].back[1] > q.at
          BY <3>1 DEF DecoyInv, EvidenceInv
        <4>2. CASE q.name = d
          BY <2>13, <2>18, <2>20, <2>24, <4>1, <4>2
        <4>3. CASE q.name # d
          BY <2>20, <4>1, <4>3
        <4> QED
          BY <4>1, <4>2, <4>3
      <3> QED
        BY <1>1, <2>22, <2>24, <2>25, <3>1 DEF EvidenceInv
    <2>27. TimesInv'
      <3>1. ASSUME NEW q \in Baselines, ~Broken(q), q.name \notin foreignReads \cup left
            PROVE  /\ file'[q.name].at > q.at => \E b \in Commands : Holds(b, q.name)' /\ cmd'[b].pc = "restore"
                   /\ \A b \in Commands : Holds(b, q.name)' => cmd'[b].back[1] <= q.at
        <4>1. /\ file[q.name].at > q.at => \E b \in Commands : Holds(b, q.name) /\ cmd[b].pc = "restore"
              /\ \A b \in Commands : Holds(b, q.name) => cmd[b].back[1] <= q.at
          BY <3>1 DEF DecoyInv, TimesInv
        <4>2. \A b \in Commands : Holds(b, q.name)' => cmd'[b].back[1] <= q.at
          BY <2>24, <2>25, <4>1
        <4>3. CASE q.name = d
          <5>1. back1 <= q.at /\ file'[q.name].at = back1
            BY <2>13, <2>18, <2>20, <2>24, <4>1, <4>3
          <5>2. q.at \in Nat
            BY BaselineTypes DEF DecoyInv, Baseline
          <5> QED
            BY <4>2, <5>1, <5>2
        <4>4. CASE q.name # d
          <5>1. file[q.name].at > q.at => \E b \in Commands \ {c} : Holds(b, q.name) /\ cmd[b].pc = "restore"
            BY <2>24, <4>1, <4>4
          <5> QED
            BY <2>20, <2>23, <2>25, <4>2, <4>4, <5>1
        <4> QED
          BY <4>3, <4>4
      <3> QED
        BY <1>1, <2>20, <2>22, <3>1 DEF TimesInv
    <2> QED
      BY <2>22, <2>26, <2>27 DEF DecoyInv
  <1> QED
    BY <1>3, <1>4

LEMMA DecoyNext == DecoyInv /\ [HTNext]_htVars => DecoyInv'
  <1> SUFFICES ASSUME DecoyInv, [HTNext]_htVars PROVE DecoyInv'
    OBVIOUS
  <1>1. CASE DeployStep
    BY <1>1, StartDeployStep, CreateStep, WriteStep, BaselineTaken, SaveStep DEF DeployStep
  <1>2. ASSUME NEW c \in Commands, Step(c) PROVE DecoyInv'
    BY <1>2, StartRunStep, RootsStep, TargetsStep, LoadStep, StatStep, HashStatStep, HashReadStep, RestoreStep, KillStep DEF Step
  <1>3. ASSUME NEW d \in Names, Read(d) \/ Write(d) \/ Delete(d) PROVE DecoyInv'
    BY <1>3, ReadStep, AlterStep
  <1>4. CASE Tick
    BY <1>4, TickStep
  <1>5. CASE UNCHANGED htVars
    <2>1. UNCHANGED <<now, file, manifest, deploy, cmd, spent, evidence, foreignReads, left>>
      BY <1>5 DEF htVars
    <2>2. Baselines' = Baselines
      BY <2>1 DEF Baselines
    <2>3. DecoyTypes'
      BY <2>1 DEF DecoyInv, DecoyTypes, FileTypes, ManifestTypes, DeployTypes, CommandTypes
    <2>4. EvidenceInv' /\ TimesInv'
      BY <2>1, <2>2, QuietWhileIdle, QuietTimes DEF DecoyInv, DecoyTypes, FileTypes
    <2> QED
      BY <2>1, <2>2, <2>3, <2>4, FilesKept, DeployKept, CommandsKept DEF DecoyInv
  <1> QED
    BY <1>1, <1>2, <1>3, <1>4, <1>5 DEF HTNext

LEMMA DecoyInvariant == HTSpec => []DecoyInv
  BY DecoyInit, DecoyNext, PTL DEF HTSpec

\* Any decoys, deployments, commands, foreign acts and crashes: a command that exits with 0 has
\* looked at no decoy read since its baseline, nor at an altered one whose hash it has, and has
\* read no secret (Watch, CheckRecord, ExitCode).
THEOREM CleanIsMeant == HTSpec => []CleanIsTrue
  <1>1. DecoyInv => CleanIsTrue
    <2> SUFFICES ASSUME DecoyInv, NEW c \in Commands, Finished(c), ExitCode(c) = 0
                 PROVE  ~cmd[c].exposed /\ \A i \in DOMAIN cmd[c].seen :
                          ~cmd[c].seen[i].evidence /\ (cmd[c].seen[i].altered => cmd[c].seen[i].hash = "none")
      BY DEF CleanIsTrue
    <2>1. ~(cmd[c].worst >= Medium)
      BY DEF ExitCode
    <2>2. Truthful(cmd[c])
      BY CommandAt
    <2> QED
      BY <2>1, <2>2 DEF Truthful, SoundFor
  <1> QED
    BY <1>1, DecoyInvariant, PTL

\* Any interleaving of deployments, watches and scans: the suite's own reads trip no decoy, but for
\* those the code cannot put back (hashFileNoLeak).
THEOREM OwnReadsAreQuiet == HTSpec => []NoSelfTrip
  <1>1. DecoyInv => NoSelfTrip
    <2> SUFFICES ASSUME DecoyInv, NEW c \in Commands, NEW i \in DOMAIN cmd[c].seen, cmd[c].seen[i].verdict = "tripped"
                 PROVE  cmd[c].seen[i].excused \/ cmd[c].seen[i].altered
      BY DEF NoSelfTrip
    <2> QED
      BY CommandAt DEF Truthful, SoundFor
  <1> QED
    BY <1>1, DecoyInvariant, PTL

-----------------------------------------------------------------------------
(* Honeytoken: the operator's files *)

OwnThere == \A d \in Names : file[d].sum = Own => file[d].there

\* What may become of the operator's file in a step, and that nobody makes one.
OwnKept(d) ==
    /\ file'[d].sum = Own => file[d].sum = Own /\ (file[d].there => file'[d].there)
    /\ file[d].sum = Own => file'[d].sum = Own \/ spent'.foreign > spent.foreign

LEMMA OwnByDeploy ==
    ASSUME DecoyInv, OwnThere, NEW d \in Names, DeployStep
    PROVE  OwnKept(d)
  <1>1. file \in [Names -> FileState] /\ now \in Nat /\ spent.deploys \in Nat
    BY DEF DecoyInv, DecoyTypes, FileTypes
  <1>2. CASE DeployCreate
    <2>1. deploy.pc = "create" /\ Decoy \in Names
      BY <1>2, DecoyInHand DEF DeployCreate, DecoyInv
    <2>2. CASE file[Decoy].there
      BY <1>2, <2>2 DEF DeployCreate, OwnKept
    <2>3. CASE ~file[Decoy].there
      <3>1. file[Decoy].sum # Own /\ file' = [file EXCEPT ![Decoy] = File(Cut)]
        BY <1>2, <2>1, <2>3 DEF DeployCreate, OwnThere
      <3>2. File(Cut).sum # Own
        BY DEF File, Cut, Own
      <3> QED
        BY <1>1, <2>1, <3>1, <3>2 DEF OwnKept
    <2> QED
      BY <2>2, <2>3
  <1>3. CASE DeployWrite
    <2>1. deploy.pc = "write" /\ Decoy \in Names /\ file[Decoy].sum # Own
      BY <1>3, DecoyInHand DEF DeployWrite, DecoyInv, MakingInv
    <2>2. CASE UNCHANGED file
      BY <2>2 DEF OwnKept
    <2>3. CASE file' = [file EXCEPT ![Decoy].sum = spent.deploys, ![Decoy].mt = now]
      <3>1. spent.deploys # Own
        BY <1>1 DEF Own
      <3>2. d = Decoy => file'[d].sum = spent.deploys
        BY <1>1, <2>3 DEF FileState
      <3>3. d # Decoy => file'[d] = file[d]
        BY <1>1, <2>3
      <3> QED
        BY <2>1, <3>1, <3>2, <3>3 DEF OwnKept
    <2> QED
      BY <1>3, <2>2, <2>3 DEF DeployWrite
  <1>4. CASE DeployStart \/ DeployStat \/ DeploySave \/ DeployCrash
    BY <1>4 DEF DeployStart, DeployStat, DeploySave, DeployCrash, OwnKept
  <1> QED
    BY <1>2, <1>3, <1>4 DEF DeployStep

LEMMA OwnByCommand ==
    ASSUME DecoyInv, NEW d \in Names, NEW c \in Commands, Step(c)
    PROVE  OwnKept(d)
  <1>1. file \in [Names -> FileState] /\ file[d] \in FileState
    BY DEF DecoyInv, DecoyTypes, FileTypes
  <1>2. SUFFICES file'[d].sum = file[d].sum /\ file'[d].there = file[d].there
    BY DEF OwnKept
  <1>3. CASE UNCHANGED file
    BY <1>3
  <1>4. CASE file' = [e \in Names |-> IF file[e].there THEN [file[e] EXCEPT !.at = now] ELSE file[e]]
    <2>1. file'[d] = [file[d] EXCEPT !.at = now] \/ file'[d] = file[d]
      BY <1>4
    <2> QED
      BY <1>1, <2>1 DEF FileState
  <1>5. CASE file' = [file EXCEPT ![Record(c).name].at = now]
    BY <1>1, <1>5 DEF FileState
  <1>6. CASE file' = [file EXCEPT ![Record(c).name].at = cmd[c].back[1], ![Record(c).name].mt = cmd[c].back[2]]
    BY <1>1, <1>6 DEF FileState
  <1> QED
    BY <1>3, <1>4, <1>5, <1>6 DEF Step, StartRun, ScanRoots, ScanTargets, LoadManifest, Stat, HashStat, HashRead, Restore, Kill

LEMMA OwnByOthers ==
    ASSUME DecoyInv, NEW d \in Names, NEW e \in Names, Read(e) \/ Write(e) \/ Delete(e)
    PROVE  OwnKept(d)
  <1>1. Foreign(e)
    BY DEF Read, Write, Delete
  <1>2. spent'.foreign > spent.foreign /\ file \in [Names -> FileState] /\ file[e] \in FileState
    BY <1>1, ForeignFrame
  <1>3. SUFFICES ASSUME file'[d].sum = Own PROVE file[d].sum = Own /\ (file[d].there => file'[d].there)
    BY <1>2 DEF OwnKept
  <1>4. CASE d # e
    <2>1. file'[d] = file[d]
      BY <1>2, <1>4 DEF Read, Write, Delete
    <2> QED
      BY <1>3, <2>1
  <1>5. CASE d = e
    <2>1. CASE Read(e)
      <3>1. file'[d].sum = file[d].sum /\ file'[d].there = file[d].there
        BY <1>2, <1>5, <2>1 DEF Read, FileState
      <3> QED
        BY <1>3, <3>1
    <2>2. CASE Write(e)
      <3>1. file'[d].sum = Alien
        <4>1. PICK big \in BOOLEAN : file' = [file EXCEPT ![e].sum = Alien, ![e].big = big, ![e].mt = now]
          BY <2>2 DEF Write
        <4> QED
          BY <1>2, <1>5, <4>1 DEF FileState
      <3> QED
        BY <1>3, <3>1 DEF Alien, Own
    <2>3. CASE Delete(e)
      <3>1. file'[d].sum = Cut
        BY <1>2, <1>5, <2>3 DEF Delete, NoFile
      <3> QED
        BY <1>3, <3>1 DEF Cut, Own
    <2> QED
      BY <2>1, <2>2, <2>3
  <1> QED
    BY <1>4, <1>5

LEMMA OwnStep ==
    ASSUME DecoyInv, OwnThere, [HTNext]_htVars, NEW d \in Names
    PROVE  OwnKept(d)
  <1>1. CASE Tick \/ UNCHANGED htVars
    BY <1>1 DEF Tick, htVars, OwnKept
  <1> QED
    BY <1>1, OwnByDeploy, OwnByCommand, OwnByOthers DEF HTNext

\* However a deployment is interrupted, and whatever else runs: the operator's own file at a
\* decoy's path keeps its content, unless others alter or delete it (the O_EXCL in Deploy).
THEOREM OperatorsFileKept == HTSpec => OwnFileKept
  <1>1. HTInit => OwnThere
    BY DEF HTInit, OwnThere, NoFile, File, Cut, Own
  <1>2. DecoyInv /\ OwnThere /\ [HTNext]_htVars => OwnThere'
    <2> SUFFICES ASSUME DecoyInv, OwnThere, [HTNext]_htVars, NEW d \in Names, file'[d].sum = Own PROVE file'[d].there
      BY DEF OwnThere
    <2> QED
      BY OwnStep DEF OwnKept, OwnThere
  <1>3. DecoyInv /\ OwnThere /\ [HTNext]_htVars
          => [\A d \in Names : file[d].sum = Own => file'[d].sum = Own \/ spent'.foreign > spent.foreign]_htVars
    BY OwnStep DEF OwnKept
  <1> QED
    BY <1>1, <1>2, <1>3, DecoyInvariant, PTL DEF HTSpec, OwnFileKept

=============================================================================
