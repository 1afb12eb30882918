-------------------------------- MODULE Tail --------------------------------
(***************************************************************************)
(* How agentd follows Tetragon's log across rotations and its own restarts:*)
(* TailWithState and its {inode, offset} checkpoint                        *)
(* (agent/internal/pipeline/pipeline.go), with the buffer its callback     *)
(* fills and the flush that empties it (agent/main.go).                    *)
(*                                                                         *)
(* A line is its number; the file holds units <<line, k>>, the bytes of a  *)
(* line up to its newline, the unit with k = Size[line].  An offset counts *)
(* units.  Every line is taken to yield one finding.                       *)
(***************************************************************************)
EXTENDS Naturals, Sequences, SequencesExt, FiniteSetsExt

CONSTANTS
    Lines,       \* bound: lines are 1 .. Lines
    Size,        \* units of each line
    Inodes,      \* inode numbers, reused like the file system does
    ReadMax,     \* maxReadPerPoll
    LeftoverMax, \* maxLeftover
    MaxFiles,    \* bound: contents the log goes through, by rotation or truncation
    MaxStarts    \* bound: starts of agentd

ASSUME TailAssumption ==
    /\ {Lines, ReadMax, LeftoverMax, MaxFiles, MaxStarts} \subseteq Nat
    /\ ReadMax > 0
    /\ Size \in [1 .. Lines -> Nat \ {0}]
    /\ Inodes \subseteq Nat \ {0}

VARIABLES
    file,     \* [ino, data] at the log's path; ino 0: no file there
    next,     \* the unit Tetragon writes next
    pc,       \* the tail: down, poll, read (Stat saw data) or save (batch handed over)
    ino,      \* the inode the tail knows, 0 for none
    offset,   \* units consumed
    leftover, \* the partial line it keeps
    cp,       \* the checkpoint on disk; ino 0: none
    pending,  \* findings in the buffer
    sent,     \* findings a flush has posted or spooled
    starts,   \* history: starts of agentd
    gen,      \* history: contents the path has gone through
    ownGen,   \* history: the content offset is a position in
    cpGen,    \* history: the content cp is a position in
    leftGen,  \* history: the content leftover comes from
    handled,  \* history: lines handed whole to the callback
    garbled,  \* history: lines of which the callback got a piece or a mixture
    gone,     \* history: lines a rotation took away unread
    blind,    \* history: lines in a file agentd started at the end of
    blurred,  \* history: lines behind an offset taken over from another content
    crossed   \* history: lines at the seam of a read that hit another file than Stat saw

env   == <<file, next, gen>>
agent == <<pc, ino, offset, leftover, starts>>
past  == <<handled, garbled, blind, blurred, crossed>>
vars  == <<env, agent, cp, pending, sent, ownGen, cpGen, leftGen, gone, past>>

Init ==
    /\ file = [ino |-> 0, data |-> <<>>]
    /\ next = <<1, 1>>
    /\ pc = "down" /\ ino = 0 /\ offset = 0 /\ leftover = <<>>
    /\ cp = [ino |-> 0, offset |-> 0]
    /\ pending = {} /\ sent = {}
    /\ starts = 0 /\ gen = 0 /\ ownGen = 0 /\ cpGen = 0 /\ leftGen = 0
    /\ handled = {} /\ garbled = {} /\ gone = {} /\ blind = {} /\ blurred = {} /\ crossed = {}

LinesIn(units) == {u[1] : u \in ToSet(units)}

-----------------------------------------------------------------------------
(* Tetragon and logrotate.                                                  *)

WriteUnit ==
    /\ file.ino # 0
    /\ next[1] <= Lines
    /\ file' = [file EXCEPT !.data = Append(@, next)]
    /\ next' = IF next[2] = Size[next[1]] THEN <<next[1] + 1, 1>> ELSE <<next[1], next[2] + 1>>
    /\ UNCHANGED <<agent, cp, pending, sent, gen, ownGen, cpGen, leftGen, gone, past>>

\* A rename, a truncation or a creation happens between two lines.
Replace(f) ==
    /\ next[2] = 1
    /\ file' = f
    /\ gone' = gone \cup (LinesIn(file.data) \ handled)
    /\ UNCHANGED <<next, agent, cp, pending, sent, ownGen, cpGen, leftGen, past>>

RenameAway ==
    /\ file.ino # 0 /\ gen < MaxFiles
    /\ Replace([ino |-> 0, data |-> <<>>])
    /\ UNCHANGED gen

Create ==
    /\ file.ino = 0 /\ gen < MaxFiles
    /\ \E i \in Inodes : Replace([ino |-> i, data |-> <<>>])
    /\ gen' = gen + 1

Truncate ==
    /\ file.ino # 0 /\ gen < MaxFiles
    /\ Replace([file EXCEPT !.data = <<>>])
    /\ gen' = gen + 1

-----------------------------------------------------------------------------
(* TailWithState.                                                           *)

\* saveCheckpoint replaces the checkpoint at once, or fails and leaves the old one;
\* g is the content it is a position in.
SaveCheckpoint(c, g) == (cp' = c /\ cpGen' = g) \/ UNCHANGED <<cp, cpGen>>

\* The checkpoint applies to the file of its inode, unless that has shrunk.
Resumes_Never == FALSE
Resumes == cp.ino = file.ino /\ cp.offset <= Len(file.data)

\* It starts at the checkpoint or at the end of the file, and records where.  A
\* checkpoint that cannot be read or parsed counts as none.
Start ==
    /\ pc = "down" /\ starts < MaxStarts
    /\ starts' = starts + 1
    /\ pc' = "poll"
    /\ leftover' = <<>>
    /\ ino' = file.ino
    /\ \E readable \in BOOLEAN :
          /\ offset' = IF file.ino # 0 /\ readable /\ Resumes THEN cp.offset ELSE Len(file.data)
          /\ IF readable /\ cp.ino = file.ino /\ cp.offset <= Len(file.data)
             THEN /\ blurred' = IF file.ino # 0 /\ cpGen # gen
                                THEN blurred \cup LinesIn(SubSeq(file.data, 1, cp.offset))
                                ELSE blurred
                  /\ UNCHANGED blind
             ELSE blind' = blind \cup LinesIn(file.data) /\ UNCHANGED blurred
    /\ IF file.ino = 0
       THEN ownGen' = 0 /\ UNCHANGED <<cp, cpGen>>
       ELSE /\ SaveCheckpoint([ino |-> file.ino, offset |-> offset'], gen)
            /\ ownGen' = gen
    /\ UNCHANGED <<env, pending, sent, leftGen, gone, handled, garbled, crossed>>

\* A shrunk file, or another inode.
Rotated_SizeOnly == Len(file.data) < offset
Rotated == Len(file.data) < offset \/ (ino # 0 /\ file.ino # ino)

\* One poll, up to the Open: Stat, and the reset after a rotation.
Stat ==
    /\ pc = "poll" /\ file.ino # 0
    /\ ino' = file.ino
    /\ offset' = IF Rotated THEN 0 ELSE offset
    /\ leftover' = IF Rotated THEN <<>> ELSE leftover
    /\ IF Rotated
       THEN SaveCheckpoint([ino |-> file.ino, offset |-> 0], gen)
       ELSE UNCHANGED <<cp, cpGen>>
    /\ pc' = IF Len(file.data) = offset' THEN "poll" ELSE "read"
    /\ ownGen' = gen
    /\ blurred' = IF ownGen # gen /\ file.ino = ino /\ Len(file.data) >= offset
                  THEN blurred \cup LinesIn(SubSeq(file.data, 1, offset))
                  ELSE blurred
    /\ UNCHANGED <<env, starts, pending, sent, leftGen, gone, handled, garbled, blind, crossed>>

\* The units after offset, at most ReadMax of them.
Batch == SubSeq(file.data, offset + 1, Min({offset + ReadMax, Len(file.data)}))

Newlines(buf) == {j \in DOMAIN buf : buf[j][2] = Size[buf[j][1]]}
Handed(buf) ==
    {SubSeq(buf, Max({i \in Newlines(buf) : i < j} \cup {0}) + 1, j) : j \in Newlines(buf)}
Whole(s) == s = [k \in 1 .. Size[s[1][1]] |-> <<s[1][1], k>>]

\* What follows the last newline is kept, unless it is too long.
Kept(buf) ==
    LET rest == SubSeq(buf, Max(Newlines(buf) \cup {0}) + 1, Len(buf))
    IN  IF Len(rest) > LeftoverMax THEN <<>> ELSE rest

\* Lines a read misses or mixes up: the one that the leftover of another content runs into, and
\* those behind an offset that was a position in another content when Stat looked.
Mixed(stale) ==
    (IF stale THEN LinesIn(leftover) \cup {Batch[1][1]} ELSE {})
        \cup (IF ownGen # gen THEN LinesIn(SubSeq(file.data, 1, offset)) ELSE {})

\* Open, Seek, ReadAll, the callback for each line.  By now the path may name
\* another file, which is read from the old offset, behind the old leftover.
Read ==
    LET buf   == leftover \o Batch
        whole == {s[1][1] : s \in {t \in Handed(buf) : Whole(t)}}
        stale == leftover # <<>> /\ leftGen # gen
    IN
    /\ pc = "read"
    /\ IF file.ino = 0
       THEN pc' = "poll" /\ UNCHANGED <<offset, leftover, leftGen, pending, handled, garbled,
                                        blurred, crossed>>
       ELSE /\ offset' = offset + Len(Batch)
            /\ leftover' = Kept(buf)
            /\ handled' = handled \cup whole
            /\ pending' = pending \cup whole
            /\ pc' = "save"
            /\ leftGen' = IF stale /\ Newlines(Batch) = {} THEN leftGen ELSE gen
            /\ garbled' = garbled \cup UNION {LinesIn(t) : t \in {u \in Handed(buf) : ~Whole(u)}}
            /\ crossed' = IF file.ino # ino /\ Batch # <<>>
                          THEN crossed \cup LinesIn(leftover) \cup {Batch[1][1]} ELSE crossed
            /\ blurred' = IF file.ino = ino /\ Batch # <<>> THEN blurred \cup Mixed(stale) ELSE blurred
    /\ UNCHANGED <<env, ino, starts, cp, sent, ownGen, cpGen, gone, blind>>

\* The batch ends with the checkpoint at the start of the partial line.
SavedOffset_Full == offset
SavedOffset == offset - Len(leftover)

Save ==
    /\ pc = "save"
    /\ pc' = "poll"
    /\ SaveCheckpoint([ino |-> ino, offset |-> SavedOffset], ownGen)
    /\ UNCHANGED <<env, ino, offset, leftover, starts, pending, sent, ownGen, leftGen, gone, past>>

-----------------------------------------------------------------------------
(* cmdRun.                                                                  *)

\* A flush posts or spools what the buffer holds.
Flush ==
    /\ pc # "down" /\ pending # {}
    /\ sent' = sent \cup pending
    /\ pending' = {}
    /\ UNCHANGED <<env, agent, cp, ownGen, cpGen, leftGen, gone, past>>

\* SIGTERM between two polls, then the last flush; or a crash anywhere.
GoDown ==
    /\ pc' = "down" /\ ino' = 0 /\ offset' = 0 /\ leftover' = <<>>
    /\ ownGen' = 0 /\ leftGen' = 0
    /\ pending' = {}
    /\ UNCHANGED <<env, starts, cp, cpGen, gone, past>>

Stop ==
    /\ pc = "poll"
    /\ sent' = sent \cup pending
    /\ GoDown

Crash ==
    /\ pc # "down"
    /\ UNCHANGED sent
    /\ GoDown

TailStep == Start \/ Stat \/ Read \/ Save

Next ==
    \/ WriteUnit \/ RenameAway \/ Create \/ Truncate
    \/ TailStep
    \/ Flush \/ Stop \/ Crash

Spec == Init /\ [][Next]_vars

\* The service is restarted on failure and the ticker ticks.  Nothing is asked of
\* Tetragon, of logrotate or of the flush.
FairSpec == Spec /\ WF_vars(TailStep)

-----------------------------------------------------------------------------
(* Properties.                                                              *)

Units == (1 .. Lines) \X (1 .. Max({Size[n] : n \in 1 .. Lines}))
TypeOK ==
    /\ file.ino \in Inodes \cup {0} /\ file.data \in Seq(Units)
    /\ next \in (1 .. Lines + 1) \X Nat
    /\ pc \in {"down", "poll", "read", "save"}
    /\ ino \in Inodes \cup {0} /\ offset \in Nat
    /\ leftover \in Seq(Units) /\ Len(leftover) <= LeftoverMax /\ Len(leftover) <= offset
    /\ cp \in [ino : Inodes \cup {0}, offset : Nat]
    /\ {pending, sent, handled, garbled, gone, blind, blurred, crossed} \subseteq SUBSET (1 .. Lines)
    /\ {gen, ownGen, cpGen, leftGen} \subseteq 0 .. MaxFiles
    /\ starts \in 0 .. MaxStarts

\* A line longer than the cap on partial lines may be dropped.
Oversize == {n \in 1 .. Lines : Size[n] > LeftoverMax + 1}

\* The ways a line can escape the tail: a rotation before it was read, a start at
\* the end of the file that holds it, because the checkpoint is of another file or
\* cannot be read, an offset the file system gives no way to tell from its own, a
\* line too long.
Excused == gone \cup blind \cup blurred \cup Oversize

Written == {n \in 1 .. Lines : n < next[1]}

\* The lines wholly behind position p of the current content.
After(p) == {n \in LinesIn(file.data) : \A j \in 1 .. p : j > Len(file.data) \/ file.data[j][1] # n}

\* What the tail is going to read: after its offset, or after the checkpoint
\* when it is down; everything of a content it has not looked at.
Ahead ==
    IF pc = "down"
    THEN IF cpGen = gen THEN After(cp.offset) ELSE LinesIn(file.data)
    ELSE IF ownGen = gen THEN After(offset - Len(leftover)) ELSE LinesIn(file.data)

\* No line is skipped: whatever crashes, failed checkpoints and partial reads
\* come between, a line is handed over, still ahead, or excused.
NoSilentSkip == Written \subseteq handled \cup Ahead \cup Excused

\* The callback never gets a piece of a line or two lines run together, but for
\* the same excuses and for the seam of a read that opened another file than Stat
\* saw: the partial line kept and the line that the old offset falls into.
LinesIntact == garbled \subseteq Excused \cup crossed

\* What pipeline.go:187-188 says, "The inode guards the offset: it is only safe to
\* seek into the SAME file, so a mismatch (rotation) discards the stale offset": no
\* pieces of lines come of an offset used in another file.  It fails: the inode is
\* that of a stat of the path, which is opened again to seek.
InodeGuardsOffset == garbled \subseteq Excused

\* Every line reaches the callback or is excused, as long as agentd has starts
\* left.
LinesAreRead ==
    \A n \in 1 .. Lines :
        n \in Written ~> n \in handled \cup Excused \/ (pc = "down" /\ starts = MaxStarts)

\* A crash costs no finding of a line that was handed over.
CrashLosesNothing == handled \subseteq sent \cup pending \cup Ahead \cup Excused
=============================================================================
