----------------------------- MODULE TailProofs -----------------------------
(***************************************************************************)
(* Proofs about Tail: for any number of lines, rotations, failed           *)
(* checkpoints, crashes and restarts, no line is skipped in silence, none  *)
(* reaches the callback in pieces, and the type invariant holds.           *)
(***************************************************************************)
EXTENDS Tail, SequenceTheorems, NaturalsInduction, WellFoundedInduction, TLAPS

-----------------------------------------------------------------------------
(* The inductive invariant: the log.                                        *)

Unit == {u \in (1 .. Lines) \X (Nat \ {0}) : u[2] <= Size[u[1]]}
Ends(u) == u[2] = Size[u[1]]
Follower(u) == IF Ends(u) THEN <<u[1] + 1, 1>> ELSE <<u[1], u[2] + 1>>

\* The log holds lines one after the other, from their first unit on: what is before a unit in
\* its line is before it in the log, and what is behind it in its line follows it.
Back(s) == \A i \in 1 .. Len(s) : \A d \in 0 .. s[i][2] - 1 : i - d >= 1 /\ s[i - d] = <<s[i][1], s[i][2] - d>>
Forth(s) == \A i \in 1 .. Len(s) : \A d \in Nat :
               i + d <= Len(s) /\ s[i][2] + d <= Size[s[i][1]] => s[i + d] = <<s[i][1], s[i][2] + d>>
Starts(s) == \A i \in 2 .. Len(s) : s[i][2] = 1 => Ends(s[i - 1])
Run(s) == s \in Seq(Unit) /\ Back(s) /\ Forth(s) /\ Starts(s)

LogInv ==
    /\ Run(file.data)
    /\ file \in [ino: Nat, data: Seq(Unit)] /\ (file.ino = 0 => file.data = <<>>)
    /\ next \in (1 .. Lines + 1) \X (Nat \ {0})
    /\ next[1] \in 1 .. Lines => next[2] <= Size[next[1]]
    /\ next[1] = Lines + 1 => next[2] = 1
    /\ IF file.data = <<>> THEN next[2] = 1 ELSE next = Follower(file.data[Len(file.data)])

-----------------------------------------------------------------------------
(* The inductive invariant: the tail.                                       *)

GenInv ==
    /\ {gen, ownGen, cpGen, leftGen} \subseteq Nat
    /\ ownGen <= gen /\ cpGen <= gen /\ leftGen <= gen
    /\ file.ino # 0 => gen > 0

Done == handled \cup Excused

\* The lines with a unit at or before position p have been dealt with.
Clear(p) == \A j \in 1 .. p : j <= Len(file.data) => file.data[j][1] \in Done

\* A position in the middle of a line is one of a line that is excused.
Cut(p) == p \in 1 .. Len(file.data) /\ ~Ends(file.data[p]) => file.data[p][1] \in Excused

Stale == leftover # <<>> /\ leftGen # gen
Position == offset - Len(leftover)

TailInv ==
    /\ offset \in Nat /\ ino \in Nat
    /\ leftover \in Seq(Unit) /\ Len(leftover) <= offset /\ Len(leftover) <= LeftoverMax
    /\ Newlines(leftover) = {}
    /\ pc \in {"down", "poll", "read", "save"}
    /\ pc = "down" => ownGen = 0 /\ leftover = <<>>
    /\ ino = 0 => offset = 0
    /\ pc \in {"read", "save"} => ino # 0

\* A partial line is the end of what has been read of its content.
LeftInv ==
    file.ino # 0 /\ leftover # <<>> /\ leftGen = gen =>
        /\ offset <= Len(file.data)
        /\ \A i \in 1 .. Len(leftover) : leftover[i] = file.data[Position + i]

OwnInv ==
    file.ino # 0 /\ ownGen = gen =>
        /\ ino = file.ino /\ offset <= Len(file.data)
        /\ Clear(Position) /\ Cut(Position)
        /\ Stale => Clear(offset)

CheckpointInv ==
    /\ cp \in [ino: Nat, offset: Nat]
    /\ file.ino # 0 /\ cpGen = gen =>
          /\ cp.ino = file.ino /\ cp.offset <= Len(file.data)
          /\ Clear(cp.offset) /\ Cut(cp.offset)

\* A line that is neither in the log nor dealt with was there when a rotation took it.
WrittenInv == Written \subseteq handled \cup gone \cup LinesIn(file.data)

Inv == LogInv /\ GenInv /\ TailInv /\ LeftInv /\ OwnInv /\ CheckpointInv /\ WrittenInv /\ LinesIntact

-----------------------------------------------------------------------------
(* Lemmas about numbers and sequences                                       *)

LEMMA Smallest ==
    ASSUME NEW S, S \subseteq Nat, S # {}
    PROVE  \E x \in S : \A y \in S : x <= y
  <1>1. PICK x \in S : \A y \in S : ~(<<y, x>> \in OpToRel(<, Nat))
    BY NatLessThanWellFounded, WFMin
  <1>2. \A y \in S : x <= y
    <2>1. SUFFICES ASSUME NEW y \in S PROVE x <= y
      OBVIOUS
    <2>2. ~(y < x)
      BY <1>1 DEF OpToRel
    <2> QED
      BY <2>2
  <1> QED
    BY <1>2

LEMMA MaxIn ==
    ASSUME NEW n \in Nat, NEW S, S \subseteq 0 .. n, S # {}
    PROVE  Max(S) \in S /\ \A y \in S : Max(S) >= y
  <1>1. PICK T : T = {n - x : x \in S}
    OBVIOUS
  <1>2. T \subseteq Nat /\ T # {}
    <2>1. \A x \in S : n - x \in Nat
      OBVIOUS
    <2> QED
      BY <1>1, <2>1
  <1>3. PICK t \in T : \A y \in T : t <= y
    BY <1>2, Smallest
  <1>4. PICK x \in S : t = n - x
    BY <1>1, <1>3
  <1>5. \A y \in S : x >= y
    BY <1>1, <1>3, <1>4
  <1> QED
    BY <1>5 DEF Max

LEMMA MinOfTwo ==
    ASSUME NEW a \in Nat, NEW b \in Nat
    PROVE  Min({a, b}) = IF a <= b THEN a ELSE b
  BY DEF Min

LEMMA LinesInIs ==
    ASSUME NEW s
    PROVE  LinesIn(s) = {s[i][1] : i \in DOMAIN s}
  BY DEF LinesIn, ToSet

LEMMA UnitIs ==
    ASSUME NEW u \in Unit
    PROVE  /\ u = <<u[1], u[2]>> /\ u[1] \in 1 .. Lines /\ u[2] \in Nat \ {0}
           /\ u[2] <= Size[u[1]] /\ Size[u[1]] \in Nat \ {0}
  BY TailAssumption DEF Unit

\* A log stays one when its next unit is appended.
LEMMA RunAppend ==
    ASSUME NEW s, Run(s), NEW u \in Unit,
           IF s = <<>> THEN u[2] = 1 ELSE u = Follower(s[Len(s)])
    PROVE  Run(Append(s, u))
  <1>1. PICK t : t = Append(s, u)
    OBVIOUS
  <1>2. PICK m : m = Len(s)
    OBVIOUS
  <1>3. /\ m \in Nat /\ s \in Seq(Unit) /\ t \in Seq(Unit) /\ Len(t) = m + 1
        /\ t[m + 1] = u /\ \A i \in 1 .. m : t[i] = s[i] /\ s[i] \in Unit
    BY <1>1, <1>2 DEF Run
  <1>4. m = 0 <=> s = <<>>
    BY <1>2, <1>3
  <1>5. m # 0 => u = IF Ends(s[m]) THEN <<s[m][1] + 1, 1>> ELSE <<s[m][1], s[m][2] + 1>>
    BY <1>2, <1>4 DEF Follower
  <1>6. u[1] \in 1 .. Lines /\ u[2] \in Nat \ {0} /\ u[2] <= Size[u[1]] /\ Size[u[1]] \in Nat
        /\ u = <<u[1], u[2]>>
    BY UnitIs
  <1>7. m = 0 => u[2] = 1
    BY <1>4
  <1>8. \A i \in 1 .. m : s[i][2] \in Nat \ {0} /\ s[i][1] \in 1 .. Lines /\ s[i][2] <= Size[s[i][1]]
                           /\ Size[s[i][1]] \in Nat
    BY <1>3, UnitIs
  <1>9. Back(t)
    <2>1. SUFFICES ASSUME NEW i \in 1 .. m + 1, NEW d \in 0 .. t[i][2] - 1
                   PROVE  i - d >= 1 /\ t[i - d] = <<t[i][1], t[i][2] - d>>
      BY <1>3 DEF Back
    <2>2. CASE i \in 1 .. m
      <3>1. t[i] = s[i] /\ d \in 0 .. s[i][2] - 1
        BY <1>3, <2>2
      <3>2. i - d >= 1 /\ s[i - d] = <<s[i][1], s[i][2] - d>>
        BY <1>2, <2>2, <3>1 DEF Run, Back
      <3>3. i - d \in 1 .. m
        BY <1>3, <1>8, <2>2, <3>1, <3>2
      <3> QED
        BY <1>3, <3>1, <3>2, <3>3
    <2>3. CASE i = m + 1 /\ d = 0
      BY <1>3, <1>6, <2>3
    <2>4. CASE i = m + 1 /\ d # 0
      <3>1. t[i] = u /\ d \in 1 .. u[2] - 1 /\ u[2] > 1
        BY <1>3, <1>6, <2>4
      <3>2. m \in 1 .. m /\ u = <<s[m][1], s[m][2] + 1>>
        BY <1>3, <1>5, <1>7, <3>1
      <3>3. u[1] = s[m][1] /\ u[2] = s[m][2] + 1
        BY <3>2
      <3>4. d - 1 \in 0 .. s[m][2] - 1
        BY <1>8, <3>1, <3>2, <3>3
      <3>5. m - (d - 1) >= 1 /\ s[m - (d - 1)] = <<s[m][1], s[m][2] - (d - 1)>>
        BY <1>2, <3>2, <3>4 DEF Run, Back
      <3>6. m - (d - 1) = i - d /\ i - d \in 1 .. m /\ s[m][2] - (d - 1) = u[2] - d
        BY <1>3, <1>8, <2>4, <3>1, <3>2, <3>3, <3>5
      <3> QED
        BY <1>3, <3>1, <3>3, <3>5, <3>6
    <2> QED
      BY <1>3, <2>2, <2>3, <2>4
  <1>10. Starts(t)
    <2>1. SUFFICES ASSUME NEW i \in 2 .. m + 1, t[i][2] = 1 PROVE Ends(t[i - 1])
      BY <1>3 DEF Starts
    <2>2. CASE i \in 2 .. m
      BY <1>2, <1>3, <2>1, <2>2 DEF Run, Starts
    <2>3. CASE i = m + 1
      BY <1>3, <1>5, <1>8, <2>1, <2>3
    <2> QED
      BY <1>3, <2>2, <2>3
  <1>11. Forth(t)
    <2>1. SUFFICES ASSUME NEW i \in 1 .. m + 1, NEW d \in Nat, i + d <= m + 1, t[i][2] + d <= Size[t[i][1]]
                   PROVE  t[i + d] = <<t[i][1], t[i][2] + d>>
      BY <1>3 DEF Forth
    <2>2. CASE i + d <= m
      <3>1. i \in 1 .. m /\ i + d \in 1 .. m /\ t[i] = s[i] /\ t[i + d] = s[i + d]
        BY <1>3, <2>2
      <3> QED
        BY <1>2, <2>1, <2>2, <3>1 DEF Run, Forth
    <2>3. CASE i = m + 1
      BY <1>3, <1>6, <2>1, <2>3
    <2>4. CASE i + d = m + 1 /\ i # m + 1
      <3>0. i \in 1 .. m /\ d - 1 \in Nat /\ i + (d - 1) = m
        <4>1. m \in Nat /\ i \in 1 .. m + 1 /\ d \in Nat
          BY <1>3
        <4> QED
          BY <2>4, <4>1
      <3>1. i \in 1 .. m /\ t[i] = s[i] /\ d - 1 \in Nat /\ i + (d - 1) = m
        BY <1>3, <3>0
      <3>2. s[i][2] + (d - 1) <= Size[s[i][1]]
        <4>1. s[i][2] \in Nat /\ Size[s[i][1]] \in Nat /\ s[i][2] + d <= Size[s[i][1]]
          BY <1>8, <2>1, <3>1
        <4> QED
          BY <4>1
      <3>3. s[i + (d - 1)] = <<s[i][1], s[i][2] + (d - 1)>>
        BY <1>2, <1>3, <3>1, <3>2 DEF Run, Forth
      <3>4. s[m][1] = s[i][1] /\ s[m][2] = s[i][2] + (d - 1)
        BY <3>1, <3>3
      <3>5. ~Ends(s[m]) /\ m # 0
        BY <1>8, <2>1, <3>1, <3>4 DEF Ends
      <3>6. u = <<s[m][1], s[m][2] + 1>>
        BY <1>5, <3>5
      <3>7. s[m][2] + 1 = s[i][2] + d
        BY <1>8, <3>1, <3>4
      <3> QED
        BY <1>3, <2>4, <3>1, <3>4, <3>6, <3>7
    <2> QED
      BY <2>1, <2>2, <2>3, <2>4, <1>3
  <1> QED
    BY <1>1, <1>3, <1>9, <1>10, <1>11 DEF Run

\* The line of a unit: what is before it in its line stands before it in the log, and before the
\* line's first unit another one ends.
LEMMA LineOf ==
    ASSUME NEW s, Run(s), NEW j \in 1 .. Len(s)
    PROVE  /\ s[j] \in Unit /\ j - s[j][2] \in Nat
           /\ \A i \in j - s[j][2] + 1 .. j : i >= 1 /\ s[i] = <<s[j][1], i - (j - s[j][2])>>
           /\ j - s[j][2] >= 1 => Ends(s[j - s[j][2]])
  <1>1. s \in Seq(Unit) /\ s[j] \in Unit
    BY DEF Run
  <1>2. PICK k \in Nat \ {0} : k = s[j][2]
    BY <1>1, UnitIs
  <1>3. \A d \in 0 .. k - 1 : j - d >= 1 /\ s[j - d] = <<s[j][1], k - d>>
    BY <1>2 DEF Run, Back
  <1>4. j - k \in Nat
    <2>1. j - (k - 1) >= 1
      BY <1>3
    <2> QED
      BY <2>1
  <1>5. \A i \in j - k + 1 .. j : i >= 1 /\ s[i] = <<s[j][1], i - (j - k)>>
    <2>1. SUFFICES ASSUME NEW i \in j - k + 1 .. j PROVE i >= 1 /\ s[i] = <<s[j][1], i - (j - k)>>
      OBVIOUS
    <2>2. j - i \in 0 .. k - 1 /\ j - (j - i) = i /\ k - (j - i) = i - (j - k)
      OBVIOUS
    <2> QED
      BY <1>3, <2>2
  <1>6. ASSUME j - k >= 1 PROVE Ends(s[j - k])
    <2>1. s[j - k + 1] = <<s[j][1], 1>>
      BY <1>5
    <2>2. PICK i : i = j - k + 1
      OBVIOUS
    <2>3. i \in 2 .. Len(s) /\ i - 1 = j - k /\ s[i][2] = 1
      BY <1>1, <1>6, <2>1, <2>2
    <2>4. Ends(s[i - 1])
      BY <2>3 DEF Run, Starts
    <2> QED
      BY <2>3, <2>4
  <1> QED
    BY <1>1, <1>2, <1>4, <1>5, <1>6

-----------------------------------------------------------------------------
(* Lemmas about what is read: units lo+1 on of the buffer are those of the  *)
(* log behind position p.                                                   *)

Aligned(buf, s, p, lo) ==
    /\ buf \in Seq(Unit) /\ p \in Nat /\ lo \in 0 .. Len(buf)
    /\ \A i \in lo + 1 .. Len(buf) : p + i <= Len(s) /\ buf[i] = s[p + i]
    /\ Newlines(buf) \subseteq lo + 1 .. Len(buf)

\* The newline before j, and the last one; 0 if there is none.
Previous(buf, j) == Max({i \in Newlines(buf) : i < j} \cup {0})
LastEnd(buf) == Max(Newlines(buf) \cup {0})

LEMMA NewlinesIs ==
    ASSUME NEW buf \in Seq(Unit)
    PROVE  Newlines(buf) = {j \in 1 .. Len(buf) : Ends(buf[j])}
  BY DEF Newlines, Ends

LEMMA PreviousIs ==
    ASSUME NEW buf \in Seq(Unit), NEW j \in Nat
    PROVE  /\ Previous(buf, j) = 0 \/ (Previous(buf, j) \in Newlines(buf) /\ Previous(buf, j) < j)
           /\ \A i \in Newlines(buf) : i < j => i <= Previous(buf, j)
  <1>1. {i \in Newlines(buf) : i < j} \cup {0} \subseteq 0 .. j
    BY NewlinesIs
  <1> QED
    BY <1>1, MaxIn DEF Previous

LEMMA LastEndIs ==
    ASSUME NEW buf \in Seq(Unit)
    PROVE  /\ LastEnd(buf) \in Newlines(buf) \cup {0} /\ LastEnd(buf) \in 0 .. Len(buf)
           /\ \A i \in Newlines(buf) : i <= LastEnd(buf)
  <1>1. Newlines(buf) \cup {0} \subseteq 0 .. Len(buf) /\ Len(buf) \in Nat
    BY NewlinesIs
  <1> QED
    BY <1>1, MaxIn DEF LastEnd

LEMMA AlignedIs ==
    ASSUME NEW buf, NEW s, NEW p, NEW lo, Aligned(buf, s, p, lo)
    PROVE  /\ buf \in Seq(Unit) /\ Len(buf) \in Nat /\ LastEnd(buf) \in Nat
           /\ p \in Nat /\ lo \in Nat /\ lo <= Len(buf)
  <1>1. buf \in Seq(Unit) /\ Len(buf) \in Nat /\ p \in Nat /\ lo \in Nat /\ lo <= Len(buf)
    BY DEF Aligned
  <1>2. LastEnd(buf) \in Nat
    BY <1>1, LastEndIs
  <1> QED
    BY <1>1, <1>2

\* The piece that a newline ends is a whole line, unless the buffer begins in the middle of it.
WholePiece(buf, j) ==
    /\ Whole(SubSeq(buf, Previous(buf, j) + 1, j))
    /\ SubSeq(buf, Previous(buf, j) + 1, j)[1][1] = buf[j][1]
OtherBefore(buf, lo, j) ==
    /\ lo > 0 /\ Previous(buf, j) = 0
    /\ \A i \in lo + 1 .. j : buf[i][1] = buf[j][1]
CutBefore(buf, s, p, lo, j) ==
    /\ lo = 0 /\ Previous(buf, j) = 0
    /\ p >= 1 /\ s[p][1] = buf[j][1] /\ ~Ends(s[p])
    /\ \A i \in 1 .. j : buf[i][1] = buf[j][1]

LEMMA PieceOf ==
    ASSUME NEW s, Run(s), NEW buf, NEW p, NEW lo, Aligned(buf, s, p, lo), NEW j \in Newlines(buf)
    PROVE  WholePiece(buf, j) \/ OtherBefore(buf, lo, j) \/ CutBefore(buf, s, p, lo, j)
  <1>1. /\ buf \in Seq(Unit) /\ p \in Nat /\ lo \in Nat /\ s \in Seq(Unit)
        /\ j \in lo + 1 .. Len(buf) /\ j \in Nat /\ Len(buf) \in Nat
    BY DEF Aligned, Run
  <1>2. PICK q : q = p + j
    OBVIOUS
  <1>3. q \in 1 .. Len(s) /\ s[q] = buf[j] /\ q \in Nat
    BY <1>1, <1>2 DEF Aligned
  <1>4. PICK n : n = buf[j][1]
    OBVIOUS
  <1>5. PICK z : z = buf[j][2]
    OBVIOUS
  <1>6. z \in Nat \ {0} /\ z = Size[n]
    BY <1>1, <1>3, <1>4, <1>5, LineOf, UnitIs, NewlinesIs DEF Ends
  <1>7. /\ q - z \in Nat /\ q - z >= 1 => Ends(s[q - z])
        /\ \A i \in q - z + 1 .. q : i >= 1 /\ s[i] = <<n, i - (q - z)>>
    BY <1>3, <1>4, <1>5, LineOf
  <1>8. \A i \in lo + 1 .. j : i > j - z => buf[i] = <<n, i - (j - z)>>
    <2>1. SUFFICES ASSUME NEW i \in lo + 1 .. j, i > j - z PROVE buf[i] = <<n, i - (j - z)>>
      OBVIOUS
    <2>2. i \in lo + 1 .. Len(buf) /\ buf[i] = s[p + i]
      BY <1>1 DEF Aligned
    <2>3. p + i \in q - z + 1 .. q /\ (p + i) - (q - z) = i - (j - z)
      BY <1>1, <1>2, <1>6, <2>1
    <2> QED
      BY <1>7, <2>2, <2>3
  <1>9. \A i \in Newlines(buf) : i < j => i <= j - z
    <2>1. SUFFICES ASSUME NEW i \in Newlines(buf), i < j, i > j - z PROVE FALSE
      BY <1>1, <1>6, NewlinesIs
    <2>2. i \in lo + 1 .. j /\ Ends(buf[i])
      BY <1>1, <2>1, NewlinesIs DEF Aligned
    <2>3. buf[i] = <<n, i - (j - z)>>
      BY <1>8, <2>1, <2>2
    <2>4. i - (j - z) = z
      BY <1>6, <2>2, <2>3 DEF Ends
    <2> QED
      BY <1>1, <1>6, <2>1, <2>2, <2>4
  <1>10. CASE j - z > lo \/ (lo = 0 /\ j = z)
    <2>1. Previous(buf, j) = j - z
      <3>1. CASE j = z
        <4>1. \A i \in Newlines(buf) : ~(i < j)
          BY <1>1, <1>9, <3>1, NewlinesIs
        <4> QED
          <5>1. Previous(buf, j) = 0
            BY <1>1, <4>1, PreviousIs
          <5> QED
            BY <1>1, <1>6, <3>1, <5>1
      <3>2. CASE j - z > lo
        <4>1. j - z \in lo + 1 .. Len(buf) /\ q - z = p + (j - z)
          BY <1>1, <1>2, <1>6, <3>2
        <4>2. buf[j - z] = s[q - z] /\ q - z >= 1
          BY <1>1, <4>1 DEF Aligned
        <4>3. j - z \in 1 .. Len(buf) /\ Ends(buf[j - z]) /\ j - z < j
          <5>1. j - z \in 1 .. Len(buf) /\ j - z < j
            BY <1>1, <1>6, <4>1
          <5>2. Ends(buf[j - z])
            BY <1>1, <1>3, <1>6, <1>7, <4>2, SMTT(30)
          <5> QED
            BY <5>1, <5>2
        <4>4. j - z \in Newlines(buf)
          BY <1>1, <4>3, NewlinesIs
        <4>5. Previous(buf, j) >= j - z
          BY <1>1, <4>3, <4>4, PreviousIs, NewlinesIs
        <4>6. Previous(buf, j) \in Newlines(buf) /\ Previous(buf, j) < j
          BY <1>1, <4>3, <4>5, PreviousIs
        <4> QED
          BY <1>1, <1>6, <1>9, <4>5, <4>6, NewlinesIs
      <3> QED
        BY <1>10, <3>1, <3>2
    <2>2. PICK t : t = SubSeq(buf, j - z + 1, j)
      OBVIOUS
    <2>3. \A i \in j - z + 1 .. j : i \in lo + 1 .. j /\ i > j - z /\ i \in 1 .. Len(buf) /\ buf[i] \in Unit
      BY <1>1, <1>6, <1>10
    <2>4. t \in Seq(Unit) /\ Len(t) = z /\ \A i \in 1 .. z : t[i] = buf[j - z + 1 + i - 1]
      <3>1. j - z + 1 \in Int /\ j \in Int /\ j - (j - z + 1) + 1 = z /\ j - z + 1 <= j
        BY <1>1, <1>6
      <3>2. \A i \in j - z + 1 .. j : buf[i] \in Unit
        BY <2>3
      <3> QED
        BY <2>2, <3>1, <3>2, SubSeqProperties
    <2>5. \A i \in 1 .. z : t[i] = <<n, i>>
      <3>1. SUFFICES ASSUME NEW i \in 1 .. z PROVE t[i] = <<n, i>>
        OBVIOUS
      <3>2. j - z + 1 + i - 1 = j - z + i /\ j - z + i \in j - z + 1 .. j /\ (j - z + i) - (j - z) = i
        BY <1>1, <1>6
      <3>3. buf[j - z + i] = <<n, (j - z + i) - (j - z)>>
        BY <1>8, <2>3, <3>2
      <3> QED
        BY <2>4, <3>2, <3>3
    <2>6. t[1][1] = n
      BY <1>6, <2>5
    <2>7. t = [k \in 1 .. z |-> <<n, k>>]
      <3>1. DOMAIN t = 1 .. z /\ t \in [1 .. z -> Unit]
        BY <2>4, LenProperties
      <3> QED
        BY <2>5, <3>1
    <2>8. Whole(t)
      BY <1>6, <2>6, <2>7 DEF Whole
    <2> QED
      BY <1>4, <2>1, <2>2, <2>6, <2>8 DEF WholePiece
  <1>11. CASE j - z <= lo /\ ~(lo = 0 /\ j = z)
    <2>1. \A i \in Newlines(buf) : ~(i < j)
      BY <1>1, <1>6, <1>9, <1>11 DEF Aligned
    <2>2. Previous(buf, j) = 0
      BY <1>1, <2>1, PreviousIs
    <2>3. \A i \in lo + 1 .. j : buf[i][1] = n
      <3>1. SUFFICES ASSUME NEW i \in lo + 1 .. j PROVE buf[i][1] = n
        OBVIOUS
      <3>2. i > j - z
        BY <1>1, <1>6, <1>11
      <3> QED
        BY <1>8, <3>2
    <2>4. CASE lo > 0
      BY <1>4, <2>2, <2>3, <2>4 DEF OtherBefore
    <2>5. CASE lo = 0
      <3>1. j < z
        BY <1>1, <1>6, <1>11, <2>5
      <3>2. p \in q - z + 1 .. q /\ p - (q - z) = z - j
        BY <1>1, <1>2, <1>6, <3>1
      <3>3. p >= 1 /\ s[p] = <<n, z - j>>
        BY <1>7, <3>2
      <3>4. ~Ends(s[p])
        BY <1>1, <1>6, <3>1, <3>3 DEF Ends
      <3> QED
        BY <1>4, <2>2, <2>3, <2>5, <3>3, <3>4 DEF CutBefore
    <2>6. lo > 0 \/ lo = 0
      BY <1>1
    <2> QED
      BY <2>4, <2>5, <2>6
  <1>12. j - z > lo \/ j - z <= lo
    BY <1>1, <1>6
  <1> QED
    BY <1>10, <1>11, <1>12

\* What follows the last newline is of one line, and not all of it.
OneLine(buf, lo) ==
    /\ buf[Len(buf)][1] \in 1 .. Lines
    /\ \A i \in lo + 1 .. Len(buf) : i > LastEnd(buf) => buf[i][1] = buf[Len(buf)][1]
    /\ LastEnd(buf) >= lo => Size[buf[Len(buf)][1]] > Len(buf) - LastEnd(buf)

LEMMA RestOf ==
    ASSUME NEW s, Run(s), NEW buf, NEW p, NEW lo, Aligned(buf, s, p, lo),
           Len(buf) > LastEnd(buf), Len(buf) > lo
    PROVE  OneLine(buf, lo)
  <1>1. /\ buf \in Seq(Unit) /\ p \in Nat /\ lo \in Nat /\ s \in Seq(Unit) /\ Len(buf) \in Nat
        /\ LastEnd(buf) \in Nat /\ Len(buf) \in lo + 1 .. Len(buf)
    BY LastEndIs DEF Aligned, Run
  <1>2. PICK e : e = Len(buf)
    OBVIOUS
  <1>3. PICK last : last = LastEnd(buf)
    OBVIOUS
  <1>4. e \in Nat /\ last \in Nat /\ e > last /\ e > lo
    BY <1>1, <1>2, <1>3
  <1>5. p + e \in 1 .. Len(s) /\ buf[e] = s[p + e]
    BY <1>1, <1>2, <1>4 DEF Aligned
  <1>6. PICK n : n = buf[e][1]
    OBVIOUS
  <1>7. PICK k : k = buf[e][2]
    OBVIOUS
  <1>8. k \in Nat \ {0} /\ k <= Size[n] /\ n \in 1 .. Lines /\ Size[n] \in Nat
    BY <1>5, <1>6, <1>7, LineOf, UnitIs
  <1>9. k # Size[n]
    <2>1. e \notin Newlines(buf)
      BY <1>1, <1>2, <1>3, <1>4, LastEndIs
    <2> QED
      BY <1>1, <1>2, <1>4, <1>6, <1>7, <2>1, NewlinesIs DEF Ends
  <1>10. /\ p + e - k \in Nat /\ p + e - k >= 1 => Ends(s[p + e - k])
         /\ \A i \in p + e - k + 1 .. p + e : i >= 1 /\ s[i] = <<n, i - (p + e - k)>>
    <2>1. PICK q : q = p + e
      OBVIOUS
    <2>2. q \in 1 .. Len(s) /\ s[q][1] = n /\ s[q][2] = k
      BY <1>5, <1>6, <1>7, <2>1
    <2>4. q - k = p + e - k /\ q \in Nat
      BY <1>1, <1>4, <1>8, <2>1
    <2>3. /\ q - k \in Nat /\ q - k >= 1 => Ends(s[q - k])
          /\ \A i \in q - k + 1 .. q : i >= 1 /\ s[i] = <<n, i - (q - k)>>
      BY <2>2, LineOf
    <2> QED
      BY <2>1, <2>3, <2>4
  <1>11. e - k > lo => e - k <= last
    <2>1. SUFFICES ASSUME e - k > lo PROVE e - k \in Newlines(buf)
      BY <1>1, <1>3, LastEndIs
    <2>2. e - k \in lo + 1 .. Len(buf) /\ e - k \in 1 .. Len(buf) /\ p + e - k = p + (e - k)
      BY <1>1, <1>2, <1>4, <1>8, <2>1
    <2>3. buf[e - k] = s[p + e - k] /\ p + e - k >= 1
      BY <1>1, <2>2 DEF Aligned
    <2> QED
      BY <1>1, <1>10, <2>2, <2>3, NewlinesIs
  <1>12. \A i \in lo + 1 .. e : i > last => buf[i][1] = n
    <2>1. SUFFICES ASSUME NEW i \in lo + 1 .. e, i > last PROVE buf[i][1] = n
      OBVIOUS
    <2>2. i > e - k
      BY <1>1, <1>4, <1>8, <1>11, <2>1
    <2>3. p + i \in p + e - k + 1 .. p + e
      BY <1>1, <1>4, <1>8, <2>2
    <2>4. buf[i] = s[p + i]
      BY <1>1, <1>2 DEF Aligned
    <2> QED
      BY <1>10, <2>3, <2>4
  <1>13. last >= lo => Size[n] > e - last
    BY <1>1, <1>4, <1>8, <1>9, <1>11
  <1> QED
    BY <1>2, <1>3, <1>6, <1>8, <1>12, <1>13 DEF OneLine

\* The line of a unit before the last newline ends in the buffer.
EndsIn(buf, n) == \E j \in Newlines(buf) : buf[j][1] = n

LEMMA EndOf ==
    ASSUME NEW s, Run(s), NEW buf, NEW p, NEW lo, Aligned(buf, s, p, lo),
           NEW i \in lo + 1 .. Len(buf), i <= LastEnd(buf)
    PROVE  EndsIn(buf, buf[i][1])
  <1>1. /\ buf \in Seq(Unit) /\ p \in Nat /\ lo \in Nat /\ s \in Seq(Unit) /\ Len(buf) \in Nat
        /\ LastEnd(buf) \in Nat /\ i \in Nat /\ i >= 1
    BY LastEndIs DEF Aligned, Run
  <1>2. PICK last : last = LastEnd(buf)
    OBVIOUS
  <1>3. last \in Newlines(buf) /\ last \in lo + 1 .. Len(buf) /\ i <= last /\ Ends(buf[last])
    BY <1>1, <1>2, LastEndIs, NewlinesIs DEF Aligned
  <1>4. PICK n : n = buf[i][1]
    OBVIOUS
  <1>5. PICK k : k = buf[i][2]
    OBVIOUS
  <1>6. p + i \in 1 .. Len(s) /\ buf[i] = s[p + i] /\ p + last \in 1 .. Len(s) /\ buf[last] = s[p + last]
    BY <1>1, <1>3 DEF Aligned
  <1>7. k \in Nat \ {0} /\ n \in 1 .. Lines /\ Size[n] \in Nat /\ k <= Size[n]
    BY <1>4, <1>5, <1>6, LineOf, UnitIs
  <1>8. PICK d \in Nat : d = Size[n] - k
    BY <1>7
  <1>9. \A g \in Nat : p + i + g <= Len(s) /\ k + g <= Size[n] => s[p + i + g] = <<n, k + g>>
    BY <1>4, <1>5, <1>6 DEF Run, Forth
  <1>10. i + d <= last
    <2>1. SUFFICES ASSUME i + d > last PROVE FALSE
      BY <1>1, <1>3, <1>8
    <2>2. PICK g \in Nat : g = last - i
      BY <1>1, <1>3
    <2>3. p + i + g = p + last /\ k + g < Size[n]
      <3>1. p \in Nat /\ i \in Nat /\ last \in Nat /\ k \in Nat /\ Size[n] \in Nat /\ d \in Nat
        BY <1>1, <1>3, <1>7
      <3>2. d = Size[n] - k /\ g = last - i /\ i + d > last
        BY <1>8, <2>1, <2>2
      <3> QED
        BY <3>1, <3>2
    <2>4. s[p + last] = <<n, k + g>>
      <3>1. p + i + g <= Len(s) /\ k + g <= Size[n]
        BY <1>6, <1>7, <2>3
      <3> QED
        BY <1>9, <2>3, <3>1
    <2> QED
      BY <1>3, <1>6, <1>7, <2>3, <2>4 DEF Ends
  <1>11. i + d \in lo + 1 .. Len(buf) /\ i + d \in 1 .. Len(buf)
    BY <1>1, <1>3, <1>8, <1>10
  <1>12. buf[i + d] = s[p + (i + d)] /\ p + (i + d) <= Len(s)
    BY <1>1, <1>11 DEF Aligned
  <1>13. buf[i + d] = <<n, Size[n]>>
    <2>1. p + i + d = p + (i + d) /\ k + d = Size[n]
      BY <1>1, <1>7, <1>8, SMTT(30)
    <2> QED
      <3>1. p + i + d <= Len(s) /\ k + d <= Size[n] /\ d \in Nat
        BY <1>7, <1>12, <2>1
      <3>2. s[p + i + d] = <<n, k + d>>
        BY <1>9, <3>1
      <3> QED
        BY <1>12, <2>1, <3>2
  <1>14. i + d \in Newlines(buf)
    BY <1>1, <1>11, <1>13, NewlinesIs DEF Ends
  <1> QED
    BY <1>4, <1>13, <1>14 DEF EndsIn

LEMMA HandedIs ==
    ASSUME NEW buf
    PROVE  Handed(buf) = {SubSeq(buf, Previous(buf, j) + 1, j) : j \in Newlines(buf)}
  BY DEF Handed, Previous

\* What is kept is what follows the last newline, or nothing.
LEMMA KeptIs ==
    ASSUME NEW buf \in Seq(Unit)
    PROVE  /\ Kept(buf) \in Seq(Unit) /\ Len(Kept(buf)) <= LeftoverMax /\ Len(Kept(buf)) <= Len(buf)
           /\ Newlines(Kept(buf)) = {}
           /\ \/ Kept(buf) = <<>> /\ Len(buf) - LastEnd(buf) > LeftoverMax
              \/ /\ Len(Kept(buf)) = Len(buf) - LastEnd(buf)
                 /\ \A i \in 1 .. Len(Kept(buf)) : Kept(buf)[i] = buf[LastEnd(buf) + i]
  <1>1. PICK last \in 0 .. Len(buf) : last = LastEnd(buf)
    BY LastEndIs
  <1>2. PICK e \in Nat : e = Len(buf)
    OBVIOUS
  <1>3. PICK rest : rest = SubSeq(buf, last + 1, e)
    OBVIOUS
  <1>4. Kept(buf) = IF Len(rest) > LeftoverMax THEN <<>> ELSE rest
    BY <1>1, <1>2, <1>3 DEF Kept, LastEnd
  <1>5. rest \in Seq(Unit) /\ Len(rest) = e - last /\ \A i \in 1 .. e - last : rest[i] = buf[last + i]
    <2>1. \A i \in last + 1 .. e : buf[i] \in Unit
      BY <1>1, <1>2
    <2>2. last + 1 \in Int /\ e \in Int /\ last \in Nat /\ last <= e
      BY <1>1, <1>2
    <2>3. /\ rest \in Seq(Unit) /\ Len(rest) = IF last + 1 <= e THEN e - (last + 1) + 1 ELSE 0
          /\ \A i \in 1 .. e - (last + 1) + 1 : rest[i] = buf[last + 1 + i - 1]
      BY <1>3, <2>1, <2>2, SubSeqProperties
    <2>4. e - (last + 1) + 1 = e - last /\ \A i \in 1 .. e - last : last + 1 + i - 1 = last + i
      BY <2>2
    <2> QED
      BY <2>2, <2>3, <2>4
  <1>6. Newlines(rest) = {}
    <2>1. SUFFICES ASSUME NEW j \in 1 .. Len(rest), Ends(rest[j]) PROVE FALSE
      BY <1>5, NewlinesIs
    <2>2. last + j \in 1 .. Len(buf) /\ Ends(buf[last + j]) /\ last + j > last
      BY <1>1, <1>2, <1>5, <2>1
    <2>3. last + j \in Newlines(buf)
      BY <2>2, NewlinesIs
    <2> QED
      BY <1>1, <2>2, <2>3, LastEndIs
  <1>7. <<>> \in Seq(Unit) /\ Len(<<>>) = 0 /\ Newlines(<<>>) = {} /\ LeftoverMax \in Nat
    BY TailAssumption DEF Newlines
  <1>8. CASE Len(rest) > LeftoverMax
    BY <1>1, <1>2, <1>4, <1>5, <1>7, <1>8
  <1>9. CASE ~(Len(rest) > LeftoverMax)
    BY <1>1, <1>2, <1>4, <1>5, <1>6, <1>7, <1>9
  <1> QED
    BY <1>8, <1>9

LEMMA RunEmpty == Run(<<>>)
  BY DEF Run, Back, Forth, Starts

-----------------------------------------------------------------------------
(* The initial state                                                        *)

LEMMA InvInit == Init => Inv
  <1> SUFFICES ASSUME Init PROVE Inv
    OBVIOUS
  <1>1. LogInv
    BY RunEmpty, TailAssumption DEF Init, LogInv
  <1>2. GenInv /\ LeftInv /\ OwnInv /\ CheckpointInv
    BY DEF Init, GenInv, LeftInv, OwnInv, CheckpointInv
  <1>3. TailInv
    BY TailAssumption DEF Init, TailInv, Newlines
  <1>4. WrittenInv /\ LinesIntact
    BY DEF Init, WrittenInv, Written, LinesIntact
  <1> QED
    BY <1>1, <1>2, <1>3, <1>4 DEF Inv

-----------------------------------------------------------------------------
(* Tetragon and logrotate                                                   *)

LEMMA WriteUnitStep == ASSUME Inv, WriteUnit PROVE Inv'
  <1>1. /\ UNCHANGED <<pc, ino, offset, leftover, starts, cp, pending, sent, gen, ownGen, cpGen,
                       leftGen, gone, handled, garbled, blind, blurred, crossed>>
        /\ file.ino # 0 /\ next[1] <= Lines
    BY DEF WriteUnit, agent, past
  <1>2. file'.ino = file.ino /\ file'.data = Append(file.data, next) /\ file.data \in Seq(Unit)
    BY DEF WriteUnit, Inv, LogInv
  <1>3. /\ next[1] \in 1 .. Lines /\ next[2] \in Nat \ {0} /\ next = <<next[1], next[2]>>
        /\ next[2] <= Size[next[1]] /\ next \in Unit /\ Lines \in Nat
    BY <1>1, TailAssumption DEF Inv, LogInv, Unit
  <1>4. /\ Len(file'.data) = Len(file.data) + 1 /\ Len(file.data) \in Nat /\ file'.data \in Seq(Unit)
        /\ file'.data[Len(file.data) + 1] = next
        /\ \A i \in 1 .. Len(file.data) : file'.data[i] = file.data[i]
    BY <1>2, <1>3
  <1>5. next' = Follower(next)
    BY DEF WriteUnit, Follower, Ends
  <1>6. LogInv'
    <2>1. Run(file'.data)
      <3>1. IF file.data = <<>> THEN next[2] = 1 ELSE next = Follower(file.data[Len(file.data)])
        BY DEF Inv, LogInv
      <3>2. Run(file.data)
        BY DEF Inv, LogInv
      <3> QED
        BY <1>2, <1>3, <3>1, <3>2, RunAppend
    <2>2. file' \in [ino: Nat, data: Seq(Unit)] /\ file'.data # <<>> /\ file'.ino # 0
      <3>1. file' = [file EXCEPT !.data = Append(file.data, next)] /\ file \in [ino: Nat, data: Seq(Unit)]
        BY DEF WriteUnit, Inv, LogInv
      <3>2. Append(file.data, next) \in Seq(Unit)
        BY <1>2, <1>4
      <3>3. file' \in [ino: Nat, data: Seq(Unit)]
        BY <3>1, <3>2
      <3> QED
        BY <1>1, <1>2, <1>4, <3>3
    <2>3. next' = Follower(file'.data[Len(file'.data)])
      BY <1>4, <1>5
    <2>4. \/ next[2] = Size[next[1]] /\ next' = <<next[1] + 1, 1>>
          \/ next[2] # Size[next[1]] /\ next' = <<next[1], next[2] + 1>>
      BY <1>5 DEF Follower, Ends
    <2>5. /\ next' \in (1 .. Lines + 1) \X (Nat \ {0})
          /\ next'[1] \in 1 .. Lines => next'[2] <= Size[next'[1]]
          /\ next'[1] = Lines + 1 => next'[2] = 1
      <3>1. Size[next[1]] \in Nat /\ \A n \in 1 .. Lines : Size[n] \in Nat \ {0}
        BY <1>3, TailAssumption
      <3> QED
        BY <1>3, <2>4, <3>1
    <2> QED
      BY <2>1, <2>2, <2>3, <2>5 DEF LogInv
  <1>7. GenInv' /\ TailInv' /\ LinesIntact'
    BY <1>1, <1>2 DEF Inv, GenInv, TailInv, LinesIntact, Excused, Oversize
  <1>8. LeftInv' /\ OwnInv' /\ CheckpointInv'
    <2>1. offset \in Nat /\ leftover \in Seq(Unit) /\ Len(leftover) \in Nat /\ Len(leftover) <= offset
          /\ cp \in [ino: Nat, offset: Nat]
      BY DEF Inv, TailInv, CheckpointInv
    <2>2. LeftInv'
      BY <1>1, <1>2, <1>4, <2>1 DEF Inv, LeftInv, Position
    <2>3. \A p \in Nat : p <= Len(file.data) /\ Clear(p) => Clear(p)'
      <3>1. Done' = Done
        BY <1>1 DEF Done, Excused, Oversize
      <3>2. SUFFICES ASSUME NEW p \in Nat, p <= Len(file.data), Clear(p), NEW j \in 1 .. p
                     PROVE  file'.data[j][1] \in Done
        BY <3>1 DEF Clear
      <3>3. j \in 1 .. Len(file.data) /\ file'.data[j] = file.data[j]
        BY <1>4, <3>2
      <3> QED
        BY <3>2, <3>3 DEF Clear
    <2>4. \A p \in Nat : p <= Len(file.data) /\ Cut(p) => Cut(p)'
      BY <1>1, <1>4 DEF Cut, Excused, Oversize
    <2>5. OwnInv'
      <3>1. SUFFICES ASSUME ownGen = gen
                     PROVE  /\ ino = file.ino /\ offset <= Len(file'.data)
                            /\ Clear(Position)' /\ Cut(Position)' /\ (Stale => Clear(offset)')
        BY <1>1, <1>2 DEF OwnInv, Stale
      <3>2. PICK P : P = Position
        OBVIOUS
      <3>3. P \in Nat /\ P <= Len(file.data) /\ offset <= Len(file.data)
        BY <1>1, <1>4, <2>1, <3>1, <3>2 DEF Inv, OwnInv, Position
      <3>4. Clear(P)' /\ Cut(P)'
        BY <1>1, <2>3, <2>4, <3>1, <3>2, <3>3 DEF Inv, OwnInv
      <3>5. Position' = P
        BY <1>1, <3>2 DEF Position
      <3>6. Clear(Position)' /\ Cut(Position)'
        BY <3>4, <3>5 DEF Clear, Cut
      <3>7. ASSUME Stale PROVE Clear(offset)'
        <4>1. PICK o : o = offset
          OBVIOUS
        <4>2. Clear(o)'
          BY <1>1, <2>1, <2>3, <3>1, <3>3, <3>7, <4>1 DEF Inv, OwnInv
        <4> QED
          BY <1>1, <4>1, <4>2 DEF Clear
      <3>8. ino = file.ino
        BY <1>1, <3>1 DEF Inv, OwnInv
      <3>9. offset <= Len(file'.data)
        BY <1>4, <2>1, <3>3
      <3> QED
        BY <3>6, <3>7, <3>8, <3>9
    <2>6. CheckpointInv'
      <3>1. SUFFICES ASSUME cpGen = gen
                     PROVE  /\ cp.ino = file.ino /\ cp.offset <= Len(file'.data)
                            /\ Clear(cp.offset)' /\ Cut(cp.offset)'
        BY <1>1, <1>2, <2>1 DEF CheckpointInv
      <3>2. PICK o : o = cp.offset
        OBVIOUS
      <3>3. o \in Nat /\ o <= Len(file.data) /\ cp.ino = file.ino /\ Clear(o) /\ Cut(o)
        BY <1>1, <2>1, <3>1, <3>2 DEF Inv, CheckpointInv
      <3>4. Clear(o)' /\ Cut(o)'
        BY <2>3, <2>4, <3>3
      <3>5. Clear(cp.offset)' /\ Cut(cp.offset)'
        BY <1>1, <3>2, <3>4 DEF Clear, Cut
      <3> QED
        BY <1>4, <3>2, <3>3, <3>5
    <2> QED
      BY <2>2, <2>5, <2>6
  <1>9. WrittenInv'
    <2>1. Written' \subseteq Written \cup {next[1]}
      BY <1>3, <1>5 DEF Written, Follower
    <2>2. LinesIn(file.data) \cup {next[1]} \subseteq LinesIn(file'.data)
      <3>1. DOMAIN file'.data = 1 .. Len(file.data) + 1 /\ DOMAIN file.data = 1 .. Len(file.data)
        BY <1>2, <1>4
      <3>2. next[1] \in {file'.data[i][1] : i \in 1 .. Len(file.data) + 1}
        BY <1>4
      <3>3. \A i \in 1 .. Len(file.data) : i \in 1 .. Len(file.data) + 1 /\ file.data[i][1] = file'.data[i][1]
        BY <1>4
      <3> QED
        BY <3>1, <3>2, <3>3, LinesInIs
    <2> QED
      BY <1>1, <2>1, <2>2 DEF Inv, WrittenInv
  <1> QED
    BY <1>6, <1>7, <1>8, <1>9 DEF Inv

\* What replaces the log: every line that was not handed over is gone, and no position the tail
\* or the checkpoint knows is one in what is at the path now.
LEMMA ReplaceStep ==
    ASSUME Inv, NEW f \in [ino: Nat, data: {<<>>}], Replace(f),
           gen' \in Nat, gen' >= gen,
           f.ino # 0 => gen' > gen
    PROVE  Inv'
  <1>1. UNCHANGED <<next, pc, ino, offset, leftover, starts, cp, pending, sent, ownGen, cpGen, leftGen,
                    handled, garbled, blind, blurred, crossed>>
    BY DEF Replace, agent, past
  <1>2. file' = f /\ f.data = <<>> /\ next[2] = 1 /\ gone' = gone \cup (LinesIn(file.data) \ handled)
    BY DEF Replace
  <1>3. LogInv'
    <2>1. file' \in [ino: Nat, data: Seq(Unit)] /\ file'.data = <<>>
      <3>1. f = [ino |-> f.ino, data |-> <<>>] /\ f.ino \in Nat
        OBVIOUS
      <3>2. <<>> \in Seq(Unit)
        OBVIOUS
      <3> QED
        BY <1>2, <3>1, <3>2
    <2> QED
      BY <1>1, <1>2, <2>1, RunEmpty DEF Inv, LogInv
  <1>4. GenInv'
    BY <1>1, <1>2 DEF Inv, GenInv
  <1>5. f.ino # 0 => ownGen # gen' /\ cpGen # gen' /\ leftGen # gen'
    BY DEF Inv, GenInv
  <1>6. LeftInv' /\ OwnInv' /\ CheckpointInv'
    BY <1>1, <1>2, <1>5 DEF Inv, LeftInv, OwnInv, CheckpointInv
  <1>7. TailInv' /\ LinesIntact'
    BY <1>1, <1>2 DEF Inv, TailInv, LinesIntact, Excused, Oversize
  <1>8. WrittenInv'
    BY <1>1, <1>2 DEF Inv, WrittenInv, Written
  <1> QED
    BY <1>3, <1>4, <1>6, <1>7, <1>8 DEF Inv

LEMMA RotationStep == ASSUME Inv, RenameAway \/ Create \/ Truncate PROVE Inv'
  <1>1. gen \in Nat /\ file \in [ino: Nat, data: Seq(Unit)]
    BY DEF Inv, GenInv, LogInv
  <1>2. CASE RenameAway
    BY <1>1, <1>2, ReplaceStep DEF RenameAway
  <1>3. CASE Create
    <2>1. PICK i \in Inodes : Replace([ino |-> i, data |-> <<>>])
      BY <1>3 DEF Create
    <2> QED
      BY <1>1, <1>3, <2>1, ReplaceStep, TailAssumption DEF Create
  <1>4. CASE Truncate
    <2>1. [file EXCEPT !.data = <<>>] \in [ino: Nat, data: {<<>>}]
      BY <1>1
    <2> QED
      BY <1>1, <1>4, <2>1, ReplaceStep DEF Truncate
  <1> QED
    BY <1>2, <1>3, <1>4

-----------------------------------------------------------------------------
(* The tail                                                                 *)

\* What a step of the tail leaves alone, and what it only adds to.
Quiet ==
    /\ UNCHANGED <<file, next, gen, gone>>
    /\ handled \subseteq handled' /\ blind \subseteq blind' /\ blurred \subseteq blurred'
    /\ crossed \subseteq crossed'

LEMMA QuietKeeps ==
    ASSUME Inv, Quiet
    PROVE  /\ LogInv' /\ WrittenInv' /\ Excused \subseteq Excused' /\ Done \subseteq Done'
           /\ \A p : Clear(p) => Clear(p)'
           /\ \A p : Cut(p) => Cut(p)'
  <1>1. UNCHANGED <<file, next, gen, gone>>
    BY DEF Quiet
  <1>2. Excused \subseteq Excused' /\ Done \subseteq Done'
    BY DEF Quiet, Excused, Done, Oversize
  <1>3. LogInv'
    BY <1>1 DEF Inv, LogInv
  <1>4. WrittenInv'
    BY <1>1 DEF Inv, WrittenInv, Written, Quiet
  <1>5. \A p : Clear(p) => Clear(p)'
    BY <1>1, <1>2 DEF Clear
  <1>6. \A p : Cut(p) => Cut(p)'
    BY <1>1, <1>2 DEF Cut
  <1> QED
    BY <1>2, <1>3, <1>4, <1>5, <1>6

\* The checkpoint stays, or is a sound position of the content its history says it is one in.
LEMMA CheckpointKept ==
    ASSUME Inv, Quiet, cpGen' \in Nat, cpGen' <= gen,
           \/ UNCHANGED <<cp, cpGen>>
           \/ /\ cp' \in [ino: Nat, offset: Nat]
              /\ file.ino # 0 /\ cpGen' = gen =>
                    /\ cp'.ino = file.ino /\ cp'.offset <= Len(file.data)
                    /\ \A p : p = cp'.offset => Clear(p)' /\ Cut(p)'
    PROVE  CheckpointInv'
  <1>1. UNCHANGED <<file, gen>>
    BY DEF Quiet
  <1>2. CASE UNCHANGED <<cp, cpGen>>
    <2>1. cp \in [ino: Nat, offset: Nat]
      BY DEF Inv, CheckpointInv
    <2>2. ASSUME file.ino # 0, cpGen = gen
          PROVE  cp.ino = file.ino /\ cp.offset <= Len(file.data) /\ Clear(cp.offset)' /\ Cut(cp.offset)'
      <3>1. PICK o : o = cp.offset
        OBVIOUS
      <3>2. cp.ino = file.ino /\ o <= Len(file.data) /\ Clear(o)' /\ Cut(o)'
        BY <2>2, <3>1, QuietKeeps DEF Inv, CheckpointInv
      <3> QED
        BY <1>1, <1>2, <3>1, <3>2 DEF Clear, Cut
    <2> QED
      BY <1>1, <1>2, <2>1, <2>2 DEF CheckpointInv
  <1>3. CASE ~UNCHANGED <<cp, cpGen>>
    <2>1. cp' \in [ino: Nat, offset: Nat]
      BY <1>3
    <2>2. ASSUME file.ino # 0, cpGen' = gen
          PROVE  cp'.ino = file.ino /\ cp'.offset <= Len(file.data) /\ Clear(cp.offset)' /\ Cut(cp.offset)'
      <3>1. PICK o : o = cp'.offset
        OBVIOUS
      <3>2. cp'.ino = file.ino /\ cp'.offset <= Len(file.data) /\ Clear(o)' /\ Cut(o)'
        BY <1>3, <2>2, <3>1
      <3> QED
        BY <3>1, <3>2 DEF Clear, Cut
    <2> QED
      BY <1>1, <2>1, <2>2 DEF CheckpointInv
  <1> QED
    BY <1>2, <1>3

LEMMA ClearStart == Clear(0) /\ Cut(0)
  BY DEF Clear, Cut

\* The lines with a unit among the first p of the log
LEMMA LinesBefore ==
    ASSUME NEW s \in Seq(Unit), NEW p \in 0 .. Len(s)
    PROVE  LinesIn(SubSeq(s, 1, p)) = {s[j][1] : j \in 1 .. p}
  <1>1. \A i \in 1 .. p : s[i] \in Unit
    OBVIOUS
  <1>2. PICK t : t = SubSeq(s, 1, p)
    OBVIOUS
  <1>3. 1 \in Int /\ p \in Int /\ p >= 0 /\ p - 1 + 1 = p /\ \A i \in 1 .. p : 1 + i - 1 = i
    OBVIOUS
  <1>4. t \in Seq(Unit) /\ Len(t) = p /\ \A i \in 1 .. p : t[i] = s[i]
    BY <1>1, <1>2, <1>3, SubSeqProperties
  <1>5. DOMAIN t = 1 .. p
    BY <1>4
  <1> QED
    BY <1>2, <1>4, <1>5, LinesInIs, ZenonT(30)

LEMMA BlurredIsClear ==
    ASSUME Inv, Quiet, NEW p \in 0 .. Len(file.data), LinesIn(SubSeq(file.data, 1, p)) \subseteq blind' \cup blurred'
    PROVE  Clear(p)' /\ Cut(p)'
  <1>1. file.data \in Seq(Unit) /\ file' = file
    BY DEF Inv, LogInv, Quiet
  <1>2. \A j \in 1 .. p : file.data[j][1] \in blind' \cup blurred'
    BY <1>1, LinesBefore
  <1>3. \A j \in 1 .. p : file.data[j][1] \in Excused'
    BY <1>2 DEF Excused
  <1> QED
    BY <1>1, <1>3 DEF Clear, Cut, Done

\* A position of another content, taken over or passed by, blurs or blinds what is behind it.
LEMMA StartStep == ASSUME Inv, Start PROVE Inv'
  <1>0. PICK readable \in BOOLEAN :
          /\ offset' = IF file.ino # 0 /\ readable /\ Resumes THEN cp.offset ELSE Len(file.data)
          /\ IF readable /\ Resumes
             THEN /\ blurred' = IF file.ino # 0 /\ cpGen # gen
                                THEN blurred \cup LinesIn(SubSeq(file.data, 1, cp.offset))
                                ELSE blurred
                  /\ UNCHANGED blind
             ELSE blind' = blind \cup LinesIn(file.data) /\ UNCHANGED blurred
    BY DEF Start, Resumes
  <1>1. /\ UNCHANGED <<file, next, gen, gone, pending, sent, leftGen, handled, garbled, crossed>>
        /\ pc' = "poll" /\ leftover' = <<>> /\ ino' = file.ino
    BY DEF Start, env
  <1>2. \/ file.ino = 0 /\ ownGen' = 0 /\ UNCHANGED <<cp, cpGen>>
        \/ /\ file.ino # 0 /\ ownGen' = gen
           /\ (cp' = [ino |-> file.ino, offset |-> offset'] /\ cpGen' = gen) \/ UNCHANGED <<cp, cpGen>>
    BY DEF Start, SaveCheckpoint
  <1>4. Quiet
    BY <1>0, <1>1 DEF Quiet
  <1>5. /\ file \in [ino: Nat, data: Seq(Unit)] /\ cp \in [ino: Nat, offset: Nat]
        /\ Len(file.data) \in Nat /\ {gen, ownGen, cpGen, leftGen} \subseteq Nat
        /\ ownGen <= gen /\ cpGen <= gen /\ leftGen <= gen
        /\ file.ino # 0 => gen > 0
    BY DEF Inv, LogInv, CheckpointInv, GenInv
  <1>6. offset' \in 0 .. Len(file.data) /\ offset' \in Nat
    BY <1>0, <1>5 DEF Resumes
  <1>7. ASSUME file.ino # 0 PROVE \A p : p = offset' => Clear(p)' /\ Cut(p)'
    <2>1. PICK o : o = offset'
      OBVIOUS
    <2>2. CASE readable /\ Resumes /\ cpGen = gen
      <3>1. o = cp.offset /\ Clear(cp.offset) /\ Cut(cp.offset)
        BY <1>0, <1>7, <2>1, <2>2 DEF Inv, CheckpointInv
      <3>2. Clear(o)' /\ Cut(o)'
        BY <1>4, <3>1, QuietKeeps
      <3> QED
        BY <2>1, <3>2
    <2>3. CASE readable /\ Resumes /\ cpGen # gen
      <3>1. o = cp.offset /\ LinesIn(SubSeq(file.data, 1, o)) \subseteq blind' \cup blurred'
        BY <1>0, <1>7, <2>1, <2>3
      <3> QED
        BY <1>4, <1>6, <2>1, <3>1, BlurredIsClear
    <2>4. CASE ~(readable /\ Resumes)
      <3>1. o = Len(file.data) /\ LinesIn(file.data) \subseteq blind'
        BY <1>0, <2>1, <2>4
      <3>2. SubSeq(file.data, 1, o) = file.data
        BY <1>5, <3>1, SubSeqFull
      <3> QED
        BY <1>4, <1>6, <2>1, <3>1, <3>2, BlurredIsClear
    <2> QED
      BY <2>2, <2>3, <2>4
  <1>8. TailInv'
    <2>1. file.ino = 0 => offset' = 0
      <3>1. file.ino = 0 => Len(file.data) = 0
        BY DEF Inv, LogInv
      <3> QED
        BY <1>6, <3>1
    <2> QED
      BY <1>1, <1>5, <1>6, <2>1, TailAssumption DEF TailInv, Newlines
  <1>9. LeftInv'
    BY <1>1 DEF LeftInv
  <1>10. GenInv'
    BY <1>1, <1>2, <1>5 DEF GenInv
  <1>11. OwnInv'
    <2>1. SUFFICES ASSUME file.ino # 0, ownGen' = gen
                   PROVE  /\ ino' = file.ino /\ offset' <= Len(file.data)
                          /\ Clear(Position)' /\ Cut(Position)' /\ ~Stale'
      BY <1>1 DEF OwnInv
    <2>2. PICK o : o = offset'
      OBVIOUS
    <2>3. Clear(o)' /\ Cut(o)'
      BY <1>7, <2>1, <2>2
    <2>4. Position' = o
      <3>1. Len(leftover') = 0 /\ offset' = o /\ o \in Nat
        BY <1>1, <1>6, <2>2
      <3>2. Position' = o - 0
        BY <3>1 DEF Position
      <3> QED
        BY <3>1, <3>2
    <2>5. ~Stale'
      BY <1>1 DEF Stale
    <2>6. Clear(Position)' /\ Cut(Position)'
      BY <2>3, <2>4 DEF Clear, Cut
    <2> QED
      BY <1>1, <1>6, <2>5, <2>6
  <1>12. CheckpointInv'
    BY <1>2, <1>4, <1>5, <1>6, <1>7, <1>10, CheckpointKept DEF GenInv
  <1>13. LinesIntact'
    BY <1>1, <1>4, QuietKeeps DEF Inv, LinesIntact
  <1> QED
    BY <1>4, <1>8, <1>9, <1>10, <1>11, <1>12, <1>13, QuietKeeps DEF Inv

LEMMA StatStep == ASSUME Inv, Stat PROVE Inv'
  <1>1. /\ UNCHANGED <<file, next, gen, starts, pending, sent, leftGen, gone, handled, garbled, blind, crossed>>
        /\ pc = "poll" /\ file.ino # 0
        /\ ino' = file.ino /\ ownGen' = gen
        /\ offset' = IF Rotated THEN 0 ELSE offset
        /\ leftover' = IF Rotated THEN <<>> ELSE leftover
        /\ pc' \in {"poll", "read"}
    BY DEF Stat, env
  <1>2. IF Rotated
        THEN (cp' = [ino |-> file.ino, offset |-> 0] /\ cpGen' = gen) \/ UNCHANGED <<cp, cpGen>>
        ELSE UNCHANGED <<cp, cpGen>>
    BY DEF Stat, SaveCheckpoint
  <1>3. blurred' = IF ownGen # gen /\ file.ino = ino /\ Len(file.data) >= offset
                   THEN blurred \cup LinesIn(SubSeq(file.data, 1, offset))
                   ELSE blurred
    BY DEF Stat
  <1>4. Quiet
    BY <1>1, <1>3 DEF Quiet
  <1>5. /\ file \in [ino: Nat, data: Seq(Unit)] /\ Len(file.data) \in Nat
        /\ {gen, ownGen, cpGen, leftGen} \subseteq Nat
        /\ ownGen <= gen /\ cpGen <= gen /\ leftGen <= gen /\ gen > 0
        /\ offset \in Nat /\ ino \in Nat
        /\ leftover \in Seq(Unit) /\ Len(leftover) \in Nat /\ Len(leftover) <= offset
    BY <1>1 DEF Inv, LogInv, GenInv, TailInv
  <1>6. TailInv'
    BY <1>1, <1>5, TailAssumption DEF Inv, TailInv, Newlines
  <1>7. GenInv'
    BY <1>1, <1>2, <1>5 DEF GenInv
  <1>8. LeftInv'
    BY <1>1 DEF Inv, LeftInv, Position
  <1>9. CheckpointInv'
    <2>1. \A p : p = 0 => Clear(p)' /\ Cut(p)'
      BY DEF Clear, Cut
    <2> QED
      BY <1>1, <1>2, <1>4, <1>5, <1>7, <2>1, CheckpointKept DEF GenInv
  <1>10. OwnInv'
    <2>1. CASE Rotated
      <3>1. offset' = 0 /\ leftover' = <<>> /\ Position' = 0 /\ ~Stale'
        BY <1>1, <2>1 DEF Position, Stale
      <3>2. Clear(Position)' /\ Cut(Position)'
        BY <3>1 DEF Clear, Cut
      <3> QED
        BY <1>1, <1>5, <3>1, <3>2 DEF OwnInv
    <2>2. CASE ~Rotated
      <3>1. UNCHANGED <<offset, leftover>> /\ offset <= Len(file.data) /\ (ino = 0 \/ ino = file.ino)
        BY <1>1, <1>5, <2>2 DEF Rotated
      <3>2. PICK P : P = Position
        OBVIOUS
      <3>3. PICK o : o = offset
        OBVIOUS
      <3>4. P \in 0 .. Len(file.data) /\ o \in 0 .. Len(file.data) /\ P <= o
        BY <1>5, <3>1, <3>2, <3>3 DEF Position
      <3>5. CASE ownGen = gen
        <4>1. Clear(P) /\ Cut(P) /\ (Stale => Clear(o))
          BY <1>1, <3>2, <3>3, <3>5 DEF Inv, OwnInv
        <4>2. Clear(P)' /\ Cut(P)' /\ (Stale => Clear(o)')
          BY <1>4, <4>1, QuietKeeps
        <4>3. Position' = P /\ Stale' = Stale /\ offset' = o
          BY <1>1, <3>1, <3>2, <3>3 DEF Position, Stale
        <4>4. Clear(Position)' /\ Cut(Position)' /\ (Stale' => Clear(offset)')
          BY <4>2, <4>3 DEF Clear, Cut
        <4> QED
          BY <1>1, <3>1, <4>4 DEF OwnInv
      <3>6. CASE ownGen # gen /\ ino = file.ino
        <4>1. LinesIn(SubSeq(file.data, 1, o)) \subseteq blurred'
          BY <1>3, <1>5, <3>1, <3>3, <3>6
        <4>2. Clear(o)'
          BY <1>4, <3>4, <4>1, BlurredIsClear
        <4>3. LinesIn(SubSeq(file.data, 1, P)) \subseteq blurred'
          BY <1>5, <3>4, <4>1, LinesBefore
        <4>4. Clear(P)' /\ Cut(P)'
          BY <1>4, <3>4, <4>3, BlurredIsClear
        <4>5. Position' = P /\ offset' = o
          BY <1>1, <3>1, <3>2, <3>3 DEF Position
        <4>6. Clear(Position)' /\ Cut(Position)' /\ Clear(offset)'
          BY <4>2, <4>4, <4>5 DEF Clear, Cut
        <4> QED
          BY <1>1, <3>1, <4>6 DEF OwnInv
      <3>7. CASE ownGen # gen /\ ino # file.ino
        <4>1. offset = 0 /\ Len(leftover) = 0
          BY <1>5, <3>1, <3>7 DEF Inv, TailInv
        <4>2. Position' = 0 /\ offset' = 0
          <5>1. Len(leftover') = 0 /\ offset' = 0
            BY <3>1, <4>1
          <5> QED
            BY <5>1 DEF Position
        <4>3. Clear(Position)' /\ Cut(Position)' /\ Clear(offset)'
          BY <4>2 DEF Clear, Cut
        <4> QED
          BY <1>1, <3>1, <4>3 DEF OwnInv
      <3> QED
        BY <3>5, <3>6, <3>7
    <2> QED
      BY <2>1, <2>2
  <1>11. LinesIntact'
    BY <1>1, <1>4, QuietKeeps DEF Inv, LinesIntact
  <1> QED
    BY <1>4, <1>6, <1>7, <1>8, <1>9, <1>10, <1>11, QuietKeeps DEF Inv
\* What a read takes: units of the log behind the offset, put behind the leftover.
LEMMA BatchIs ==
    ASSUME Inv
    PROVE  /\ Batch \in Seq(Unit)
           /\ \A i \in 1 .. Len(Batch) : offset + i <= Len(file.data) /\ Batch[i] = file.data[offset + i]
  <1>1. file.data \in Seq(Unit) /\ Len(file.data) \in Nat /\ offset \in Nat /\ ReadMax \in Nat
    BY TailAssumption DEF Inv, LogInv, TailInv
  <1>2. PICK m : m = Min({offset + ReadMax, Len(file.data)})
    OBVIOUS
  <1>3. m \in Nat /\ m <= Len(file.data)
    BY <1>1, <1>2, MinOfTwo
  <1>4. PICK b : b = SubSeq(file.data, offset + 1, m)
    OBVIOUS
  <1>5. Batch = b
    BY <1>2, <1>4 DEF Batch
  <1>6. \A i \in offset + 1 .. m : file.data[i] \in Unit
    BY <1>1, <1>3
  <1>7. offset + 1 \in Int /\ m \in Int
    BY <1>1, <1>3
  <1>8. /\ b \in Seq(Unit) /\ Len(b) = IF offset + 1 <= m THEN m - (offset + 1) + 1 ELSE 0
        /\ \A i \in 1 .. m - (offset + 1) + 1 : b[i] = file.data[offset + 1 + i - 1]
    BY <1>4, <1>6, <1>7, SubSeqProperties
  <1>9. \A i \in 1 .. Len(b) : offset + i <= Len(file.data) /\ b[i] = file.data[offset + i]
    <2>1. SUFFICES ASSUME NEW i \in 1 .. Len(b)
                   PROVE  offset + i <= Len(file.data) /\ b[i] = file.data[offset + i]
      OBVIOUS
    <2>2. i \in 1 .. m - (offset + 1) + 1 /\ offset + i <= m /\ offset + 1 + i - 1 = offset + i
      BY <1>1, <1>3, <1>8
    <2> QED
      BY <1>1, <1>3, <1>8, <2>2
  <1> QED
    BY <1>5, <1>8, <1>9

LEMMA BufferIs ==
    ASSUME Inv, file.ino # 0, NEW buf, buf = leftover \o Batch,
           NEW lo, lo = IF Stale THEN Len(leftover) ELSE 0
    PROVE  /\ Aligned(buf, file.data, Position, lo)
           /\ Batch \in Seq(Unit) /\ Len(buf) = Len(leftover) + Len(Batch)
           /\ \A i \in 1 .. Len(leftover) : buf[i] = leftover[i]
           /\ Batch # <<>> => offset < Len(file.data) /\ buf[Len(leftover) + 1] = Batch[1]
           /\ Newlines(Batch) = {} <=> Newlines(buf) = {}
           /\ Newlines(buf) \subseteq Len(leftover) + 1 .. Len(buf)
  <1>1. /\ file.data \in Seq(Unit) /\ Len(file.data) \in Nat /\ offset \in Nat
        /\ leftover \in Seq(Unit) /\ Len(leftover) \in Nat /\ Len(leftover) <= offset
        /\ Newlines(leftover) = {}
    BY DEF Inv, LogInv, TailInv
  <1>2. /\ Batch \in Seq(Unit) /\ Len(Batch) \in Nat
        /\ \A i \in 1 .. Len(Batch) : offset + i <= Len(file.data) /\ Batch[i] = file.data[offset + i]
    BY BatchIs
  <1>3. PICK l \in Nat : l = Len(leftover)
    BY <1>1
  <1>4. PICK k \in Nat : k = Len(Batch)
    BY <1>2
  <1>5. /\ buf \in Seq(Unit) /\ Len(buf) = l + k
        /\ \A i \in 1 .. l : buf[i] = leftover[i]
        /\ \A i \in 1 .. k : buf[l + i] = Batch[i]
    BY <1>1, <1>2, <1>3, <1>4
  <1>6. PICK p \in Nat : p = Position
    <2>1. offset - Len(leftover) \in Nat
      BY <1>1
    <2> QED
      BY <2>1 DEF Position
  <1>7. p + l = offset
    BY <1>1, <1>3, <1>6 DEF Position
  <1>8. \A i \in l + 1 .. l + k : p + i <= Len(file.data) /\ buf[i] = file.data[p + i]
    <2>1. SUFFICES ASSUME NEW i \in l + 1 .. l + k
                   PROVE  p + i <= Len(file.data) /\ buf[i] = file.data[p + i]
      OBVIOUS
    <2>2. i - l \in 1 .. k /\ l + (i - l) = i /\ offset + (i - l) = p + i
      BY <1>7
    <2>3. buf[l + (i - l)] = Batch[i - l]
      BY <1>5, <2>2
    <2> QED
      BY <1>2, <1>4, <2>2, <2>3
  <1>9. \A j \in Newlines(buf) : j \in l + 1 .. l + k
    <2>1. SUFFICES ASSUME NEW j \in Newlines(buf) PROVE j \in l + 1 .. l + k
      OBVIOUS
    <2>2. j \in 1 .. l + k /\ Ends(buf[j])
      BY <1>5, <2>1, NewlinesIs
    <2>3. ~(j <= l)
      <3>1. SUFFICES ASSUME j \in 1 .. l PROVE FALSE
        BY <2>2
      <3>2. Ends(leftover[j])
        BY <1>5, <2>2, <3>1
      <3>3. j \in Newlines(leftover)
        BY <1>1, <1>3, <3>1, <3>2, NewlinesIs
      <3> QED
        BY <1>1, <3>3
    <2> QED
      BY <2>2, <2>3
  <1>10. Newlines(Batch) # {} => Newlines(buf) # {}
    <2>1. SUFFICES ASSUME NEW j \in Newlines(Batch) PROVE l + j \in Newlines(buf)
      OBVIOUS
    <2>2. j \in 1 .. k /\ Ends(Batch[j])
      BY <1>2, <1>4, NewlinesIs
    <2>3. l + j \in 1 .. Len(buf) /\ buf[l + j] = Batch[j]
      BY <1>5, <2>2
    <2> QED
      BY <1>5, <2>2, <2>3, NewlinesIs
  <1>13. Newlines(buf) # {} => Newlines(Batch) # {}
    <2>1. SUFFICES ASSUME NEW j \in Newlines(buf) PROVE j - l \in Newlines(Batch)
      OBVIOUS
    <2>2. j \in l + 1 .. l + k /\ Ends(buf[j])
      BY <1>5, <1>9, NewlinesIs
    <2>3. j - l \in 1 .. k /\ buf[l + (j - l)] = Batch[j - l] /\ l + (j - l) = j
      BY <1>5, <2>2
    <2> QED
      BY <1>2, <1>4, <2>2, <2>3, NewlinesIs
  <1>11. Batch # <<>> => offset < Len(file.data) /\ buf[l + 1] = Batch[1]
    <2>1. SUFFICES ASSUME Batch # <<>> PROVE offset < Len(file.data) /\ buf[l + 1] = Batch[1]
      OBVIOUS
    <2>2. k >= 1
      BY <1>2, <1>4, <2>1
    <2>3. 1 \in 1 .. k /\ l + 1 \in Nat
      BY <2>2
    <2> QED
      BY <1>1, <1>2, <1>4, <1>5, <2>3
  <1>12. Aligned(buf, file.data, p, lo)
    <2>1. CASE Stale
      BY <1>3, <1>5, <1>8, <1>9, <2>1 DEF Aligned
    <2>2. CASE ~Stale /\ leftover = <<>>
      BY <1>3, <1>5, <1>8, <1>9, <2>2 DEF Aligned
    <2>3. CASE ~Stale /\ leftover # <<>>
      <3>1. offset <= Len(file.data) /\ \A i \in 1 .. l : leftover[i] = file.data[p + i]
        BY <1>3, <1>6, <2>3 DEF Inv, LeftInv, Stale
      <3>2. \A i \in 1 .. l + k : p + i <= Len(file.data) /\ buf[i] = file.data[p + i]
        <4>1. SUFFICES ASSUME NEW i \in 1 .. l + k
                       PROVE  p + i <= Len(file.data) /\ buf[i] = file.data[p + i]
          OBVIOUS
        <4>2. CASE i \in 1 .. l
          BY <1>1, <1>5, <1>7, <3>1, <4>2
        <4>3. CASE i \in l + 1 .. l + k
          BY <1>8, <4>3
        <4>4. i \in 1 .. l \/ i \in l + 1 .. l + k
          OBVIOUS
        <4> QED
          BY <4>2, <4>3, <4>4
      <3> QED
        BY <1>5, <1>9, <2>3, <3>2 DEF Aligned
    <2> QED
      BY <2>1, <2>2, <2>3
  <1> QED
    BY <1>2, <1>3, <1>4, <1>5, <1>6, <1>9, <1>10, <1>11, <1>12, <1>13
LEMMA ReadIs ==
    ASSUME Inv, Read, file.ino # 0, NEW buf, buf = leftover \o Batch
    PROVE  /\ UNCHANGED <<file, next, gen, ino, starts, cp, sent, ownGen, cpGen, gone, blind>>
           /\ pc = "read" /\ pc' = "save"
           /\ offset' = offset + Len(Batch) /\ leftover' = Kept(buf)
           /\ handled' = handled \cup {t[1][1] : t \in {u \in Handed(buf) : Whole(u)}}
           /\ leftGen' = IF Stale /\ Newlines(Batch) = {} THEN leftGen ELSE gen
           /\ garbled' = garbled \cup UNION {LinesIn(t) : t \in {u \in Handed(buf) : ~Whole(u)}}
           /\ crossed \subseteq crossed'
           /\ file.ino # ino /\ Batch # <<>> =>
                 LinesIn(leftover) \subseteq crossed' /\ Batch[1][1] \in crossed'
           /\ blurred \subseteq blurred'
           /\ file.ino = ino /\ Batch # <<>> /\ Stale =>
                 LinesIn(leftover) \subseteq blurred' /\ Batch[1][1] \in blurred'
           /\ file.ino = ino /\ Batch # <<>> /\ ownGen # gen =>
                 LinesIn(SubSeq(file.data, 1, offset)) \subseteq blurred'
  <1>1. /\ UNCHANGED <<file, next, gen, ino, starts, cp, sent, ownGen, cpGen, gone, blind>>
        /\ pc = "read" /\ pc' = "save"
        /\ offset' = offset + Len(Batch) /\ leftover' = Kept(buf)
        /\ handled' = handled \cup {t[1][1] : t \in {u \in Handed(buf) : Whole(u)}}
        /\ garbled' = garbled \cup UNION {LinesIn(t) : t \in {u \in Handed(buf) : ~Whole(u)}}
        /\ crossed' = IF file.ino # ino /\ Batch # <<>>
                      THEN crossed \cup LinesIn(leftover) \cup {Batch[1][1]} ELSE crossed
    BY DEF Read, env
  <1>2. leftGen' = IF Stale /\ Newlines(Batch) = {} THEN leftGen ELSE gen
    BY DEF Read, Stale
  <1>3. blurred' = IF file.ino = ino /\ Batch # <<>> THEN blurred \cup Mixed(Stale) ELSE blurred
    BY DEF Read, Stale
  <1>4. Stale => LinesIn(leftover) \subseteq Mixed(Stale) /\ Batch[1][1] \in Mixed(Stale)
    BY DEF Mixed
  <1>5. ownGen # gen => LinesIn(SubSeq(file.data, 1, offset)) \subseteq Mixed(Stale)
    BY DEF Mixed
  <1> QED
    BY <1>1, <1>2, <1>3, <1>4, <1>5

\* The piece a newline ends is a whole line the callback gets, or its lines are excused.
LEMMA PieceDone ==
    ASSUME Inv, Read, file.ino # 0, file.ino = ino, NEW buf, buf = leftover \o Batch,
           NEW j \in Newlines(buf)
    PROVE  \/ Whole(SubSeq(buf, Previous(buf, j) + 1, j)) /\ buf[j][1] \in handled'
           \/ Previous(buf, j) = 0 /\ \A i \in 1 .. j : buf[i][1] \in Excused'
  <1>1. PICK lo : lo = IF Stale THEN Len(leftover) ELSE 0
    OBVIOUS
  <1>2. PICK p : p = Position
    OBVIOUS
  <1>3. /\ file.data \in Seq(Unit) /\ Run(file.data) /\ Len(file.data) \in Nat
        /\ offset \in Nat /\ leftover \in Seq(Unit) /\ Len(leftover) \in Nat /\ Len(leftover) <= offset
    BY DEF Inv, LogInv, TailInv
  <1>4. p \in Nat /\ p <= offset
    BY <1>2, <1>3 DEF Position
  <1>5. /\ Aligned(buf, file.data, p, lo)
        /\ Len(buf) = Len(leftover) + Len(Batch) /\ Batch \in Seq(Unit)
        /\ \A i \in 1 .. Len(leftover) : buf[i] = leftover[i]
        /\ j \in Len(leftover) + 1 .. Len(buf)
    BY <1>1, <1>2, BufferIs
  <1>6. Batch # <<>>
    BY <1>3, <1>5
  <1>7. offset < Len(file.data) /\ buf[Len(leftover) + 1] = Batch[1]
    BY <1>1, <1>6, BufferIs
  <1>8. blurred' \subseteq Excused'
    BY DEF Excused
  <1>9. CASE WholePiece(buf, j)
    <2>1. PICK t : t = SubSeq(buf, Previous(buf, j) + 1, j)
      OBVIOUS
    <2>2. t \in Handed(buf) /\ Whole(t) /\ t[1][1] = buf[j][1]
      BY <1>9, <2>1, HandedIs DEF WholePiece
    <2>3. buf[j][1] \in handled'
      <3>1. handled' = handled \cup {x[1][1] : x \in {u \in Handed(buf) : Whole(u)}}
        BY ReadIs
      <3> QED
        BY <2>2, <3>1
    <2> QED
      BY <1>9, <2>3 DEF WholePiece
  <1>10. CASE OtherBefore(buf, lo, j)
    <2>1. Stale /\ lo = Len(leftover)
      BY <1>1, <1>10 DEF OtherBefore
    <2>2. LinesIn(leftover) \subseteq blurred' /\ Batch[1][1] \in blurred'
      BY <1>6, <2>1, ReadIs
    <2>3. buf[j][1] \in blurred'
      <3>1. lo + 1 \in lo + 1 .. j /\ buf[lo + 1] = Batch[1]
        BY <1>3, <1>5, <1>7, <2>1
      <3> QED
        BY <1>10, <2>2, <3>1 DEF OtherBefore
    <2>4. \A i \in 1 .. j : i \in 1 .. lo \/ i \in lo + 1 .. j
      BY <1>3, <1>5, <2>1
    <2>5. \A i \in 1 .. lo : buf[i][1] \in blurred'
      BY <1>3, <1>5, <2>1, <2>2, LinesInIs
    <2> QED
      BY <1>8, <1>10, <2>3, <2>4, <2>5 DEF OtherBefore
  <1>11. CASE CutBefore(buf, file.data, p, lo, j)
    <2>1. p \in 1 .. Len(file.data) /\ p \in 1 .. offset
      BY <1>3, <1>4, <1>7, <1>11 DEF CutBefore
    <2>2. CASE ownGen = gen
      <3>1. Cut(p)
        BY <1>2, <2>2 DEF Inv, OwnInv
      <3>2. buf[j][1] \in Excused
        BY <1>11, <2>1, <3>1 DEF Cut, CutBefore
      <3>3. Excused \subseteq Excused'
        BY ReadIs DEF Excused, Oversize
      <3> QED
        BY <1>11, <3>2, <3>3 DEF CutBefore
    <2>3. CASE ownGen # gen
      <3>1. LinesIn(SubSeq(file.data, 1, offset)) \subseteq blurred'
        BY <1>6, <2>3, ReadIs
      <3>2. LinesIn(SubSeq(file.data, 1, offset)) = {file.data[i][1] : i \in 1 .. offset}
        <4>1. offset \in 0 .. Len(file.data)
          BY <1>3, <1>7
        <4> QED
          BY <1>3, <4>1, LinesBefore
      <3> QED
        BY <1>8, <1>11, <2>1, <3>1, <3>2, ZenonT(30) DEF CutBefore
    <2> QED
      BY <2>2, <2>3
  <1>12. WholePiece(buf, j) \/ OtherBefore(buf, lo, j) \/ CutBefore(buf, file.data, p, lo, j)
    BY <1>3, <1>5, PieceOf
  <1> QED
    BY <1>9, <1>10, <1>11, <1>12

\* In another file than Stat saw, only the first piece can be broken, and it holds no line but those
\* of the leftover and the one that the offset falls into.
LEMMA PieceCrossed ==
    ASSUME Inv, Read, file.ino # 0, file.ino # ino, NEW buf, buf = leftover \o Batch,
           NEW j \in Newlines(buf)
    PROVE  \/ Whole(SubSeq(buf, Previous(buf, j) + 1, j))
           \/ Previous(buf, j) = 0 /\ \A i \in 1 .. j : buf[i][1] \in crossed'
  <1>1. PICK lo : lo = IF Stale THEN Len(leftover) ELSE 0
    OBVIOUS
  <1>2. PICK p : p = Position
    OBVIOUS
  <1>3. Run(file.data) /\ leftover \in Seq(Unit) /\ Len(leftover) \in Nat
    BY DEF Inv, LogInv, TailInv
  <1>4. /\ Aligned(buf, file.data, p, lo)
        /\ Len(buf) = Len(leftover) + Len(Batch) /\ Batch \in Seq(Unit)
        /\ \A i \in 1 .. Len(leftover) : buf[i] = leftover[i]
        /\ j \in Len(leftover) + 1 .. Len(buf)
    BY <1>1, <1>2, BufferIs
  <1>5. Batch # <<>>
    BY <1>3, <1>4
  <1>6. buf[Len(leftover) + 1] = Batch[1]
    BY <1>1, <1>5, BufferIs
  <1>7. LinesIn(leftover) \subseteq crossed' /\ Batch[1][1] \in crossed'
    BY <1>5, ReadIs
  <1>8. CASE OtherBefore(buf, lo, j)
    <2>1. lo = Len(leftover)
      BY <1>1, <1>8 DEF OtherBefore
    <2>2. buf[j][1] \in crossed'
      <3>1. lo + 1 \in lo + 1 .. j /\ buf[lo + 1] = Batch[1]
        BY <1>3, <1>4, <1>6, <2>1
      <3> QED
        BY <1>7, <1>8, <3>1 DEF OtherBefore
    <2>3. \A i \in 1 .. j : i \in 1 .. lo \/ i \in lo + 1 .. j
      BY <1>3, <1>4, <2>1
    <2>4. \A i \in 1 .. lo : buf[i][1] \in crossed'
      BY <1>3, <1>4, <1>7, <2>1, LinesInIs
    <2> QED
      BY <1>8, <2>2, <2>3, <2>4 DEF OtherBefore
  <1>9. CASE CutBefore(buf, file.data, p, lo, j)
    <2>1. Len(leftover) + 1 \in 1 .. j
      BY <1>3, <1>4
    <2>2. buf[j][1] = Batch[1][1]
      BY <1>6, <1>9, <2>1 DEF CutBefore
    <2> QED
      BY <1>7, <1>9, <2>2 DEF CutBefore
  <1>10. WholePiece(buf, j) \/ OtherBefore(buf, lo, j) \/ CutBefore(buf, file.data, p, lo, j)
    BY <1>3, <1>4, PieceOf
  <1> QED
    BY <1>8, <1>9, <1>10 DEF WholePiece

\* What follows the last newline is excused when it is dropped, or when the leftover in front of it
\* is of another content.
LEMMA RestDone ==
    ASSUME Inv, Read, file.ino # 0, file.ino = ino, NEW buf, buf = leftover \o Batch,
           NEW lo, lo = IF Stale THEN Len(leftover) ELSE 0,
           NEW i \in lo + 1 .. Len(buf), i > LastEnd(buf),
           Len(buf) - LastEnd(buf) > LeftoverMax \/ LastEnd(buf) < lo
    PROVE  buf[i][1] \in Excused'
  <1>1. /\ Run(file.data) /\ leftover \in Seq(Unit) /\ Len(leftover) \in Nat
    BY DEF Inv, LogInv, TailInv
  <1>2. /\ Aligned(buf, file.data, Position, lo)
        /\ Batch \in Seq(Unit) /\ Len(buf) = Len(leftover) + Len(Batch)
    BY BufferIs
  <1>3. buf \in Seq(Unit) /\ Len(buf) \in Nat /\ lo \in Nat /\ LastEnd(buf) \in Nat
    BY <1>2, AlignedIs
  <1>4. PICK n : n = buf[Len(buf)][1]
    OBVIOUS
  <1>5. Len(buf) > LastEnd(buf) /\ Len(buf) > lo
    BY <1>3
  <1>6. /\ n \in 1 .. Lines
        /\ \A k \in lo + 1 .. Len(buf) : k > LastEnd(buf) => buf[k][1] = n
        /\ LastEnd(buf) >= lo => Size[n] > Len(buf) - LastEnd(buf)
    <2>1. OneLine(buf, lo)
      BY <1>1, <1>2, <1>5, RestOf
    <2> QED
      BY <1>4, <2>1 DEF OneLine
  <1>7. CASE LastEnd(buf) < lo
    <2>1. Stale /\ lo = Len(leftover)
      BY <1>3, <1>7
    <2>2. Batch # <<>> /\ lo + 1 \in lo + 1 .. Len(buf) /\ lo + 1 > LastEnd(buf)
      BY <1>1, <1>2, <1>3, <1>5, <1>7, <2>1
    <2>3. buf[lo + 1] = Batch[1]
      BY <2>1, <2>2, BufferIs
    <2>4. Batch[1][1] \in blurred'
      BY <2>1, <2>2, ReadIs
    <2>5. buf[i][1] = n /\ buf[lo + 1][1] = n
      BY <1>6, <2>2
    <2> QED
      BY <2>3, <2>4, <2>5 DEF Excused
  <1>8. CASE ~(LastEnd(buf) < lo)
    <2>1. Size[n] > LeftoverMax + 1
      <3>1. Size[n] \in Nat /\ LeftoverMax \in Nat
        BY <1>6, TailAssumption
      <3> QED
        BY <1>3, <1>6, <1>8, <3>1
    <2>2. n \in Oversize'
      BY <1>6, <2>1 DEF Oversize
    <2> QED
      BY <1>6, <2>2 DEF Excused
  <1> QED
    BY <1>7, <1>8

\* The lines of what is read have been dealt with, up to a unit that nothing kept is of.
LEMMA ReadClear ==
    ASSUME Inv, Read, file.ino # 0, ownGen = gen, NEW buf, buf = leftover \o Batch,
           NEW lo, lo = IF Stale THEN Len(leftover) ELSE 0, NEW p, p = Position,
           NEW e \in 0 .. Len(buf), \A i \in lo + 1 .. e : i > LastEnd(buf) => buf[i][1] \in Excused'
    PROVE  Clear(p + e)'
  <1>1. /\ Run(file.data) /\ file.data \in Seq(Unit) /\ Len(file.data) \in Nat
        /\ offset \in Nat /\ leftover \in Seq(Unit) /\ Len(leftover) \in Nat /\ Len(leftover) <= offset
    BY DEF Inv, LogInv, TailInv
  <1>2. /\ ino = file.ino /\ Clear(p) /\ (Stale => Clear(offset))
    BY DEF Inv, OwnInv
  <1>3. Aligned(buf, file.data, p, lo)
    BY BufferIs
  <1>4. buf \in Seq(Unit) /\ Len(buf) \in Nat /\ lo \in Nat /\ LastEnd(buf) \in Nat /\ p \in Nat
    BY <1>3, AlignedIs
  <1>5. Stale => p + lo = offset
    BY <1>1, <1>4 DEF Position
  <1>6. Clear(p + lo)
    <2>1. CASE Stale
      BY <1>2, <1>5, <2>1
    <2>2. CASE ~Stale
      <3>1. p + lo = p
        BY <1>4, <2>2
      <3> QED
        BY <1>2, <3>1
    <2> QED
      BY <2>1, <2>2
  <1>7. Done \subseteq Done' /\ Excused' \subseteq Done' /\ handled' \subseteq Done' /\ file' = file
    BY ReadIs DEF Done, Excused, Oversize
  <1>8. SUFFICES ASSUME NEW k \in 1 .. p + e, k <= Len(file.data)
                 PROVE  file.data[k][1] \in Done'
    BY <1>7 DEF Clear
  <1>9. CASE k \in 1 .. p + lo
    BY <1>6, <1>7, <1>8, <1>9 DEF Clear
  <1>10. CASE k \in p + lo + 1 .. p + e
    <2>1. PICK i : i = k - p
      OBVIOUS
    <2>2. i \in lo + 1 .. e /\ i \in lo + 1 .. Len(buf) /\ p + i = k
      BY <1>4, <1>10, <2>1
    <2>3. buf[i] = file.data[k]
      BY <1>3, <2>2 DEF Aligned
    <2>4. CASE i <= LastEnd(buf)
      <3>1. PICK j \in Newlines(buf) : buf[j][1] = buf[i][1]
        <4>1. EndsIn(buf, buf[i][1])
          BY <1>1, <1>3, <2>2, <2>4, EndOf
        <4> QED
          BY <4>1 DEF EndsIn
      <3>2. \/ buf[j][1] \in handled'
            \/ \A h \in 1 .. j : buf[h][1] \in Excused'
        BY <1>2, PieceDone
      <3>3. j \in 1 .. j
        <4>1. j \in 1 .. Len(buf)
          BY <1>4, <3>1, NewlinesIs
        <4> QED
          BY <4>1
      <3> QED
        BY <1>7, <2>3, <3>1, <3>2, <3>3
    <2>5. CASE ~(i <= LastEnd(buf))
      BY <1>4, <1>7, <2>2, <2>3, <2>5, SMTT(30)
    <2> QED
      BY <2>4, <2>5
  <1>11. k \in 1 .. p + lo \/ k \in p + lo + 1 .. p + e
    BY <1>4
  <1> QED
    BY <1>9, <1>10, <1>11
LEMMA ReadStep == ASSUME Inv, Read PROVE Inv'
  <1>1. CASE file.ino = 0
    <2>1. /\ UNCHANGED <<file, next, gen, ino, cp, ownGen, cpGen, gone, blind, offset, leftover, leftGen,
                         handled, garbled, blurred, crossed>>
          /\ pc' = "poll"
      BY <1>1 DEF Read, env
    <2>2. LogInv' /\ GenInv' /\ WrittenInv'
      BY <2>1 DEF Inv, LogInv, GenInv, WrittenInv, Written
    <2>3. TailInv'
      BY <2>1 DEF Inv, TailInv
    <2>4. LeftInv' /\ OwnInv' /\ CheckpointInv'
      BY <1>1, <2>1 DEF Inv, LeftInv, OwnInv, CheckpointInv
    <2>5. LinesIntact'
      BY <2>1 DEF Inv, LinesIntact, Excused, Oversize
    <2> QED
      BY <2>2, <2>3, <2>4, <2>5 DEF Inv
  <1>2. CASE file.ino # 0
    <2>1. PICK buf : buf = leftover \o Batch
      OBVIOUS
    <2>2. PICK lo : lo = IF Stale THEN Len(leftover) ELSE 0
      OBVIOUS
    <2>3. PICK p : p = Position
      OBVIOUS
    <2>4. PICK last : last = LastEnd(buf)
      OBVIOUS
    <2>5. PICK l : l = Len(buf)
      OBVIOUS
    <2>6. /\ UNCHANGED <<file, next, gen, ino, starts, cp, sent, ownGen, cpGen, gone, blind>>
          /\ pc = "read" /\ pc' = "save"
          /\ offset' = offset + Len(Batch) /\ leftover' = Kept(buf)
          /\ handled \subseteq handled' /\ blurred \subseteq blurred' /\ crossed \subseteq crossed'
      BY <1>2, <2>1, ReadIs
    <2>7. leftGen' = IF Stale /\ Newlines(Batch) = {} THEN leftGen ELSE gen
      BY <1>2, <2>1, ReadIs
    <2>8. Quiet
      BY <2>6 DEF Quiet
    <2>9. /\ Run(file.data) /\ file.data \in Seq(Unit) /\ Len(file.data) \in Nat
          /\ offset \in Nat /\ leftover \in Seq(Unit) /\ Len(leftover) \in Nat /\ Len(leftover) <= offset
          /\ {gen, ownGen, cpGen, leftGen} \subseteq Nat
          /\ ownGen <= gen /\ cpGen <= gen /\ leftGen <= gen /\ gen > 0
          /\ ino \in Nat \ {0} /\ Len(leftover) <= LeftoverMax /\ LeftoverMax \in Nat
      BY <1>2, <2>6, TailAssumption, SMTT(30) DEF Inv, LogInv, GenInv, TailInv
    <2>10. /\ Aligned(buf, file.data, p, lo)
           /\ Batch \in Seq(Unit) /\ l = Len(leftover) + Len(Batch)
           /\ Newlines(Batch) = {} <=> Newlines(buf) = {}
           /\ Newlines(buf) \subseteq Len(leftover) + 1 .. l
      BY <1>2, <2>1, <2>2, <2>3, <2>5, BufferIs
    <2>11. /\ buf \in Seq(Unit) /\ l \in Nat /\ last \in Nat /\ p \in Nat /\ lo \in Nat /\ lo <= l
           /\ Len(Batch) \in Nat
      <3>1. /\ buf \in Seq(Unit) /\ Len(buf) \in Nat /\ LastEnd(buf) \in Nat
            /\ p \in Nat /\ lo \in Nat /\ lo <= Len(buf)
        BY <2>10, AlignedIs
      <3>2. Len(Batch) \in Nat
        BY <2>10
      <3> QED
        BY <2>4, <2>5, <3>1, <3>2
    <2>12. last \in Newlines(buf) \cup {0} /\ last \in 0 .. l /\ \A i \in Newlines(buf) : i <= last
      BY <2>4, <2>5, <2>11, LastEndIs
    <2>13. p + l = offset' /\ p + Len(leftover) = offset
      BY <2>3, <2>6, <2>9, <2>10, <2>11 DEF Position
    <2>14. /\ leftover' \in Seq(Unit) /\ Len(leftover') <= LeftoverMax /\ Len(leftover') <= l
           /\ Len(leftover') \in Nat /\ Newlines(leftover') = {}
      BY <2>5, <2>6, <2>11, KeptIs
    <2>15. \/ leftover' = <<>> /\ l - last > LeftoverMax
           \/ /\ Len(leftover') = l - last
              /\ \A i \in 1 .. Len(leftover') : leftover'[i] = buf[last + i]
      BY <2>4, <2>5, <2>6, <2>11, KeptIs
    <2>16. TailInv'
      BY <2>6, <2>9, <2>11, <2>13, <2>14 DEF TailInv
    <2>17. GenInv'
      BY <2>6, <2>7, <2>9 DEF GenInv
    <2>18. lo = 0 \/ lo = Len(leftover)
      BY <2>2
    <2>19. Newlines(Batch) # {} => last > lo
      BY <2>9, <2>10, <2>12, <2>18
    <2>20. LeftInv'
      <3>1. SUFFICES ASSUME leftover' # <<>>, leftGen' = gen
                     PROVE  /\ offset' <= Len(file.data)
                            /\ \A i \in 1 .. Len(leftover') : leftover'[i] = file.data[Position' + i]
        BY <2>6 DEF LeftInv
      <3>2. /\ Len(leftover') = l - last
            /\ \A i \in 1 .. Len(leftover') : leftover'[i] = buf[last + i]
        BY <2>15, <3>1
      <3>3. l > last
        BY <2>11, <2>14, <3>1, <3>2
      <3>4. last >= lo
        <4>1. CASE Stale
          BY <2>7, <2>11, <2>19, <3>1, <4>1 DEF Stale
        <4>2. CASE ~Stale
          BY <2>2, <2>11, <4>2
        <4> QED
          BY <4>1, <4>2
      <3>5. Position' = p + last
        BY <2>11, <2>13, <3>2 DEF Position
      <3>6. \A i \in 1 .. l - last : buf[last + i] = file.data[p + last + i]
        <4>1. SUFFICES ASSUME NEW i \in 1 .. l - last PROVE buf[last + i] = file.data[p + last + i]
          OBVIOUS
        <4>2. last + i \in lo + 1 .. Len(buf) /\ p + (last + i) = p + last + i
          BY <2>5, <2>11, <3>4
        <4> QED
          BY <2>10, <4>2 DEF Aligned
      <3>7. offset' <= Len(file.data)
        <4>1. l \in lo + 1 .. Len(buf)
          BY <2>5, <2>11, <3>3, <3>4
        <4> QED
          BY <2>10, <2>13, <4>1 DEF Aligned
      <3> QED
        BY <3>2, <3>5, <3>6, <3>7
    <2>21. OwnInv'
      <3>1. SUFFICES ASSUME ownGen = gen
                     PROVE  /\ ino' = file.ino /\ offset' <= Len(file.data)
                            /\ Clear(Position)' /\ Cut(Position)'
                            /\ Stale' => Clear(offset)'
        BY <2>6 DEF OwnInv
      <3>2. ino = file.ino /\ offset <= Len(file.data) /\ Cut(p)
        BY <1>2, <2>3, <3>1 DEF Inv, OwnInv
      <3>3. offset' <= Len(file.data)
        <4>1. CASE Batch = <<>>
          BY <2>6, <2>9, <3>2, <4>1
        <4>2. CASE Batch # <<>>
          <5>1. l \in lo + 1 .. Len(buf)
            BY <2>5, <2>9, <2>10, <2>11, <2>18, <4>2
          <5> QED
            BY <2>10, <2>13, <5>1 DEF Aligned
        <4> QED
          BY <4>1, <4>2
      <3>4. ASSUME l - last > LeftoverMax \/ last < lo
            PROVE  \A i \in lo + 1 .. l : i > last => buf[i][1] \in Excused'
        BY <1>2, <2>1, <2>2, <2>4, <2>5, <3>2, <3>4, RestDone
      <3>5. \A e \in 0 .. l :
               (\A i \in lo + 1 .. e : i > last => buf[i][1] \in Excused') => Clear(p + e)'
        BY <1>2, <2>1, <2>2, <2>3, <2>4, <2>5, <3>1, ReadClear
      <3>6. \A q : q = Position' => Clear(q)' /\ Cut(q)'
        <4>1. CASE leftover' = <<>> /\ l - last > LeftoverMax
          <5>1. Position' = p + l
            BY <2>11, <2>13, <4>1 DEF Position
          <5>2. Clear(p + l)'
            <6>1. l \in 0 .. l
              BY <2>11
            <6>2. \A i \in lo + 1 .. l : i > last => buf[i][1] \in Excused'
              BY <3>4, <4>1
            <6> QED
              BY <3>5, <6>1, <6>2
          <5>3. l > lo
            BY <2>9, <2>11, <2>12, <2>18, <4>1
          <5>4. buf[l] = file.data[p + l] /\ l \in lo + 1 .. l /\ l > last
            <6>1. l \in lo + 1 .. Len(buf) /\ l > last /\ Len(buf) = l
              BY <2>5, <2>9, <2>11, <4>1, <5>3
            <6> QED
              BY <2>10, <6>1 DEF Aligned
          <5>5. buf[l][1] \in Excused'
            BY <3>4, <4>1, <5>4
          <5>6. Cut(p + l)'
            BY <2>6, <5>4, <5>5 DEF Cut
          <5> QED
            BY <5>1, <5>2, <5>6
        <4>2. CASE Len(leftover') = l - last
          <5>1. Position' = p + last
            BY <2>11, <2>13, <4>2 DEF Position
          <5>2. \A i \in lo + 1 .. last : ~(i > last)
            BY <2>11
          <5>3. Clear(p + last)'
            BY <2>12, <3>5, <5>2
          <5>4. Cut(p + last)'
            <6>1. CASE last = 0
              <7>1. Cut(p)'
                BY <2>8, <3>2, QuietKeeps
              <7>2. p + last = p
                BY <2>11, <6>1
              <7> QED
                BY <7>1, <7>2
            <6>2. CASE last # 0
              <7>1. last \in Newlines(buf) /\ last \in lo + 1 .. Len(buf)
                BY <2>5, <2>9, <2>10, <2>11, <2>12, <2>18, <6>2
              <7>2. Ends(buf[last]) /\ buf[last] = file.data[p + last]
                BY <2>10, <2>11, <7>1, NewlinesIs DEF Aligned
              <7> QED
                BY <2>6, <7>2 DEF Cut
            <6> QED
              BY <6>1, <6>2
          <5> QED
            BY <5>1, <5>3, <5>4
        <4> QED
          BY <2>15, <4>1, <4>2
      <3>7. ASSUME Stale' PROVE Clear(p + l)'
        <4>1. Stale /\ Newlines(Batch) = {}
          BY <2>6, <2>7, <3>7 DEF Stale
        <4>2. lo > 0
          BY <2>2, <2>9, <2>11, <4>1 DEF Stale
        <4>3. last = 0
          BY <2>10, <2>12, <4>1
        <4> QED
          BY <2>11, <3>4, <3>5, <4>2, <4>3
      <3>8. Clear(Position)' /\ Cut(Position)'
        BY <3>6 DEF Clear, Cut
      <3>9. Stale' => Clear(offset)'
        BY <2>13, <3>7 DEF Clear
      <3> QED
        BY <2>6, <3>2, <3>3, <3>8, <3>9
    <2>22. CheckpointInv'
      BY <2>6, <2>8, <2>9, CheckpointKept
    <2>23. LinesIntact'
      <3>1. garbled' = garbled \cup UNION {LinesIn(t) : t \in {u \in Handed(buf) : ~Whole(u)}}
        BY <1>2, <2>1, ReadIs
      <3>2. garbled \subseteq Excused' \cup crossed'
        BY <2>6, <2>8, QuietKeeps DEF Inv, LinesIntact
      <3>3. ASSUME NEW t \in Handed(buf), ~Whole(t)
            PROVE  LinesIn(t) \subseteq Excused' \cup crossed'
        <4>1. PICK j \in Newlines(buf) : t = SubSeq(buf, Previous(buf, j) + 1, j)
          BY <3>3, HandedIs
        <4>2. Previous(buf, j) = 0 /\ \A i \in 1 .. j : buf[i][1] \in Excused' \cup crossed'
          <5>1. CASE file.ino = ino
            BY <1>2, <2>1, <3>3, <4>1, <5>1, PieceDone
          <5>2. CASE file.ino # ino
            BY <1>2, <2>1, <3>3, <4>1, <5>2, PieceCrossed
          <5> QED
            BY <5>1, <5>2
        <4>3. j \in 0 .. Len(buf)
          BY <2>11, NewlinesIs
        <4>4. LinesIn(SubSeq(buf, 1, j)) = {buf[i][1] : i \in 1 .. j}
          BY <2>11, <4>3, LinesBefore
        <4>5. t = SubSeq(buf, 1, j)
          BY <4>1, <4>2
        <4> QED
          BY <4>2, <4>4, <4>5
      <3> QED
        BY <3>1, <3>2, <3>3 DEF LinesIntact
    <2> QED
      BY <2>8, <2>16, <2>17, <2>20, <2>21, <2>22, <2>23, QuietKeeps DEF Inv
  <1> QED
    BY <1>1, <1>2
LEMMA SaveStep == ASSUME Inv, Save PROVE Inv'
  <1>1. /\ UNCHANGED <<file, next, gen, ino, offset, leftover, starts, pending, sent, ownGen, leftGen,
                       gone, handled, garbled, blind, blurred, crossed>>
        /\ pc = "save" /\ pc' = "poll"
        /\ \/ cp' = [ino |-> ino, offset |-> Position] /\ cpGen' = ownGen
           \/ UNCHANGED <<cp, cpGen>>
    BY DEF Save, SaveCheckpoint, SavedOffset, Position, env, past
  <1>2. Quiet
    BY <1>1 DEF Quiet
  <1>3. /\ {gen, ownGen, cpGen, leftGen} \subseteq Nat /\ ownGen <= gen /\ cpGen <= gen
        /\ offset \in Nat /\ ino \in Nat /\ leftover \in Seq(Unit) /\ Len(leftover) \in Nat
        /\ Len(leftover) <= offset /\ file.data \in Seq(Unit) /\ Len(file.data) \in Nat
    BY DEF Inv, LogInv, GenInv, TailInv
  <1>4. Position \in Nat /\ Position <= offset
    <2>1. offset - Len(leftover) \in Nat /\ offset - Len(leftover) <= offset
      BY <1>3
    <2> QED
      BY <2>1 DEF Position
  <1>5. cpGen' \in Nat /\ cpGen' <= gen
    BY <1>1, <1>3
  <1>6. CheckpointInv'
    <2>1. PICK p : p = Position
      OBVIOUS
    <2>2. ASSUME file.ino # 0, ownGen = gen
          PROVE  ino = file.ino /\ p <= Len(file.data) /\ Clear(p)' /\ Cut(p)'
      <3>1. ino = file.ino /\ offset <= Len(file.data) /\ Clear(p) /\ Cut(p)
        BY <2>1, <2>2 DEF Inv, OwnInv
      <3> QED
        BY <1>2, <1>3, <1>4, <2>1, <3>1, QuietKeeps
    <2>3. CASE cp' = [ino |-> ino, offset |-> Position] /\ cpGen' = ownGen
      <3>1. cp' \in [ino: Nat, offset: Nat] /\ cp'.ino = ino /\ cp'.offset = p
        BY <1>3, <1>4, <2>1, <2>3
      <3>2. file.ino # 0 /\ cpGen' = gen =>
               /\ cp'.ino = file.ino /\ cp'.offset <= Len(file.data)
               /\ \A q : q = cp'.offset => Clear(q)' /\ Cut(q)'
        BY <2>2, <2>3, <3>1
      <3> QED
        BY <1>2, <1>5, <3>1, <3>2, CheckpointKept
    <2>4. CASE UNCHANGED <<cp, cpGen>>
      BY <1>2, <1>5, <2>4, CheckpointKept
    <2> QED
      BY <1>1, <2>3, <2>4
  <1>7. TailInv' /\ GenInv' /\ LeftInv' /\ LinesIntact'
    <2>1. TailInv'
      BY <1>1 DEF Inv, TailInv
    <2>2. GenInv'
      BY <1>1, <1>5 DEF Inv, GenInv
    <2>3. LeftInv'
      BY <1>1 DEF Inv, LeftInv, Position
    <2>4. LinesIntact'
      BY <1>1 DEF Inv, LinesIntact, Excused, Oversize
    <2> QED
      BY <2>1, <2>2, <2>3, <2>4
  <1>8. OwnInv'
    BY <1>1 DEF Inv, OwnInv, Clear, Cut, Position, Stale, Done, Excused, Oversize
  <1> QED
    BY <1>2, <1>6, <1>7, <1>8, QuietKeeps DEF Inv

-----------------------------------------------------------------------------
(* cmdRun                                                                   *)

LEMMA FlushStep == ASSUME Inv, Flush PROVE Inv'
  <1>1. UNCHANGED <<file, next, gen, pc, ino, offset, leftover, starts, cp, ownGen, cpGen, leftGen,
                    gone, handled, garbled, blind, blurred, crossed>>
    BY DEF Flush, env, agent, past
  <1>2. LogInv' /\ GenInv' /\ TailInv'
    BY <1>1 DEF Inv, LogInv, GenInv, TailInv
  <1>3. LeftInv' /\ OwnInv' /\ CheckpointInv'
    BY <1>1 DEF Inv, LeftInv, OwnInv, CheckpointInv, Clear, Cut, Position, Stale, Done, Excused, Oversize
  <1>4. WrittenInv' /\ LinesIntact'
    BY <1>1 DEF Inv, WrittenInv, Written, LinesIntact, Excused, Oversize
  <1> QED
    BY <1>2, <1>3, <1>4 DEF Inv

\* A stop or a crash leaves the log and the checkpoint, and a tail that knows no content.
LEMMA DownStep == ASSUME Inv, GoDown PROVE Inv'
  <1>1. /\ UNCHANGED <<file, next, gen, starts, cp, cpGen, gone, handled, garbled, blind, blurred, crossed>>
        /\ pc' = "down" /\ ino' = 0 /\ offset' = 0 /\ leftover' = <<>> /\ ownGen' = 0 /\ leftGen' = 0
    BY DEF GoDown, env, past
  <1>2. Quiet
    BY <1>1 DEF Quiet
  <1>3. GenInv'
    BY <1>1 DEF Inv, GenInv
  <1>4. TailInv'
    BY <1>1, TailAssumption DEF TailInv, Newlines
  <1>5. LeftInv' /\ OwnInv'
    BY <1>1 DEF Inv, GenInv, LeftInv, OwnInv
  <1>6. CheckpointInv'
    <2>1. cpGen' \in Nat /\ cpGen' <= gen
      BY <1>1 DEF Inv, GenInv
    <2> QED
      BY <1>1, <1>2, <2>1, CheckpointKept
  <1>7. LinesIntact'
    BY <1>1 DEF Inv, LinesIntact, Excused, Oversize
  <1> QED
    BY <1>2, <1>3, <1>4, <1>5, <1>6, <1>7, QuietKeeps DEF Inv

LEMMA Stuttering == ASSUME Inv, UNCHANGED vars PROVE Inv'
  <1>1. UNCHANGED <<file, next, gen, pc, ino, offset, leftover, starts, cp, ownGen, cpGen, leftGen,
                    gone, handled, garbled, blind, blurred, crossed>>
    BY DEF vars, env, agent, past
  <1>2. LogInv' /\ GenInv' /\ TailInv'
    BY <1>1 DEF Inv, LogInv, GenInv, TailInv
  <1>3. LeftInv' /\ OwnInv' /\ CheckpointInv'
    BY <1>1 DEF Inv, LeftInv, OwnInv, CheckpointInv, Clear, Cut, Position, Stale, Done, Excused, Oversize
  <1>4. WrittenInv' /\ LinesIntact'
    BY <1>1 DEF Inv, WrittenInv, Written, LinesIntact, Excused, Oversize
  <1> QED
    BY <1>2, <1>3, <1>4 DEF Inv

-----------------------------------------------------------------------------
(* The theorems                                                             *)

LEMMA InvNext == ASSUME Inv, [Next]_vars PROVE Inv'
  <1>1. CASE WriteUnit
    BY <1>1, WriteUnitStep
  <1>2. CASE RenameAway \/ Create \/ Truncate
    BY <1>2, RotationStep
  <1>3. CASE Start
    BY <1>3, StartStep
  <1>4. CASE Stat
    BY <1>4, StatStep
  <1>5. CASE Read
    BY <1>5, ReadStep
  <1>6. CASE Save
    BY <1>6, SaveStep
  <1>7. CASE Flush
    BY <1>7, FlushStep
  <1>8. CASE Stop \/ Crash
    BY <1>8, DownStep DEF Stop, Crash
  <1>9. CASE UNCHANGED vars
    BY <1>9, Stuttering
  <1> QED
    BY <1>1, <1>2, <1>3, <1>4, <1>5, <1>6, <1>7, <1>8, <1>9 DEF Next, TailStep

\* A line of the log with no unit before a clear position is still ahead, every other one is done.
LEMMA ClearOrAfter ==
    ASSUME Inv, NEW p, Clear(p)
    PROVE  LinesIn(file.data) \subseteq Done \cup After(p)
  <1>1. file.data \in Seq(Unit)
    BY DEF Inv, LogInv
  <1>2. SUFFICES ASSUME NEW n \in LinesIn(file.data), n \notin After(p) PROVE n \in Done
    OBVIOUS
  <1>3. PICK j \in 1 .. p : ~(j > Len(file.data)) /\ file.data[j][1] = n
    BY <1>2 DEF After
  <1>4. j <= Len(file.data)
    BY <1>1, <1>3
  <1> QED
    BY <1>3, <1>4 DEF Clear

LEMMA NothingSkipped == Inv => NoSilentSkip
  <1> SUFFICES ASSUME Inv PROVE NoSilentSkip
    OBVIOUS
  <1>1. LinesIn(file.data) \subseteq Done \cup Ahead
    <2>1. CASE file.ino = 0
      <3>1. file.data = <<>>
        BY <2>1 DEF Inv, LogInv
      <3> QED
        BY <3>1, LinesInIs
    <2>2. CASE file.ino # 0 /\ pc = "down" /\ cpGen = gen
      <3>1. Clear(cp.offset)
        BY <2>2 DEF Inv, CheckpointInv
      <3> QED
        BY <2>2, <3>1, ClearOrAfter DEF Ahead
    <2>3. CASE file.ino # 0 /\ pc # "down" /\ ownGen = gen
      <3>1. Clear(Position)
        BY <2>3 DEF Inv, OwnInv
      <3> QED
        BY <2>3, <3>1, ClearOrAfter DEF Ahead, Position
    <2>4. CASE \/ pc = "down" /\ cpGen # gen
               \/ pc # "down" /\ ownGen # gen
      BY <2>4 DEF Ahead
    <2> QED
      BY <2>1, <2>2, <2>3, <2>4
  <1>2. Written \subseteq handled \cup gone \cup LinesIn(file.data)
    BY DEF Inv, WrittenInv
  <1> QED
    BY <1>1, <1>2 DEF NoSilentSkip, Done, Excused

\* Whatever rotations, failed checkpoints, partial reads, crashes and restarts come between, a line
\* Tetragon has written is handed over, still ahead of the tail or of the checkpoint it would resume
\* from, or excused: TailWithState with saveCheckpoint and loadCheckpoint.
THEOREM NoLineSkipped == Spec => []NoSilentSkip
  <1>1. Inv /\ [Next]_vars => Inv'
    BY InvNext
  <1> QED
    BY InvInit, <1>1, NothingSkipped, PTL DEF Spec

\* The callback gets whole lines: a piece, or two lines run together at a leftover, is of lines that
\* a rotation, a reused inode or the cap on partial lines excuses.
THEOREM LinesWhole == Spec => []LinesIntact
  <1>1. Inv /\ [Next]_vars => Inv'
    BY InvNext
  <1>2. Inv => LinesIntact
    BY DEF Inv
  <1> QED
    BY InvInit, <1>1, <1>2, PTL DEF Spec

-----------------------------------------------------------------------------
(* The type invariant                                                       *)

LineNumbers == 1 .. Lines
Histories == {pending, sent, handled, garbled, gone, blind, blurred, crossed}

\* What the invariant above leaves open: the inodes, the histories and the bounds.
KindInv ==
    /\ {file.ino, ino, cp.ino} \subseteq Inodes \cup {0}
    /\ Histories \subseteq SUBSET LineNumbers
    /\ gen \in 0 .. MaxFiles /\ starts \in 0 .. MaxStarts

\* Some number is no smaller than any size: the first line that one fails for would need no more
\* than the number for the lines before it and its own size.
LEMMA SizesBounded == \E m \in Nat : \A i \in 1 .. Lines : Size[i] <= m
  <1> DEFINE Bounds(n) == {m \in Nat : \A i \in 1 .. n : Size[i] <= m}
             Bad == {n \in 0 .. Lines : Bounds(n) = {}}
  <1>1. Lines \in Nat /\ \A i \in 1 .. Lines : Size[i] \in Nat
    BY TailAssumption
  <1>2. Bad = {}
    <2> SUFFICES ASSUME Bad # {} PROVE FALSE
      OBVIOUS
    <2>1. PICK n \in Bad : \A k \in Bad : n <= k
      <3>1. Bad \subseteq Nat
        BY <1>1
      <3> QED
        BY <3>1, Smallest
    <2>2. n \in 0 .. Lines /\ Bounds(n) = {}
      OBVIOUS
    <2>3. n # 0
      <3>1. 0 \in Bounds(0)
        OBVIOUS
      <3> QED
        BY <2>2, <3>1
    <2>4. n - 1 \in 0 .. Lines /\ ~(n <= n - 1)
      BY <1>1, <2>2, <2>3
    <2>5. PICK m \in Nat : \A i \in 1 .. n - 1 : Size[i] <= m
      BY <2>1, <2>4
    <2>6. n \in 1 .. Lines /\ Size[n] \in Nat
      BY <1>1, <2>2, <2>3
    <2>7. m + Size[n] \in Bounds(n)
      <3>1. SUFFICES ASSUME NEW i \in 1 .. n PROVE Size[i] <= m + Size[n]
        BY <2>6
      <3>2. Size[i] \in Nat
        BY <1>1, <2>6
      <3>3. i = n \/ i \in 1 .. n - 1
        BY <2>6
      <3> QED
        BY <2>5, <2>6, <3>2, <3>3
    <2> QED
      BY <2>2, <2>7
  <1>3. Lines \notin Bad
    BY <1>2
  <1> QED
    BY <1>1, <1>3

LEMMA SizesFit == Unit \subseteq Units
  <1> SUFFICES ASSUME NEW u \in Unit PROVE u \in Units
    OBVIOUS
  <1>1. u = <<u[1], u[2]>> /\ u[1] \in 1 .. Lines /\ u[2] \in Nat \ {0} /\ u[2] <= Size[u[1]]
    BY UnitIs
  <1>2. PICK S : S = {Size[n] : n \in 1 .. Lines}
    OBVIOUS
  <1>3. PICK m \in Nat : \A i \in 1 .. Lines : Size[i] <= m
    BY SizesBounded
  <1>4. S \subseteq 0 .. m /\ Size[u[1]] \in S
    BY <1>1, <1>2, <1>3, TailAssumption
  <1>5. Max(S) \in Nat /\ Size[u[1]] <= Max(S)
    <2>1. PICK x \in Nat : x = Size[u[1]]
      BY <1>1, TailAssumption
    <2>2. PICK y : y = Max(S)
      OBVIOUS
    <2>3. S # {} /\ x \in S
      BY <1>4, <2>1
    <2>4. y \in S /\ \A z \in S : y >= z
      BY <1>4, <2>2, <2>3, MaxIn
    <2>5. y \in Nat /\ x <= y
      BY <1>4, <2>3, <2>4
    <2> QED
      BY <2>1, <2>2, <2>5
  <1>6. Size[u[1]] \in Nat
    BY <1>1, TailAssumption
  <1>7. u[2] \in 1 .. Max(S)
    BY <1>1, <1>5, <1>6
  <1> QED
    BY <1>1, <1>2, <1>7 DEF Units

\* The lines of a part of the log are lines.
LEMMA LinesAre ==
    ASSUME NEW s \in Seq(Unit)
    PROVE  LinesIn(s) \subseteq LineNumbers
  <1>1. \A i \in 1 .. Len(s) : s[i] \in Unit /\ s[i][1] \in LineNumbers
    BY DEF Unit, LineNumbers
  <1> QED
    BY <1>1, LinesInIs

LEMMA LinesUpTo ==
    ASSUME Inv, NEW p \in Nat, p <= Len(file.data)
    PROVE  LinesIn(SubSeq(file.data, 1, p)) \subseteq LineNumbers /\ LinesIn(file.data) \subseteq LineNumbers
  <1>1. file.data \in Seq(Unit)
    BY DEF Inv, LogInv
  <1>2. SubSeq(file.data, 1, p) \in Seq(Unit)
    BY <1>1
  <1> QED
    BY <1>1, <1>2, LinesAre

\* What the callback gets are pieces of the buffer: their lines are lines.
LEMMA HandedAre ==
    ASSUME NEW buf \in Seq(Unit), NEW t \in Handed(buf)
    PROVE  t \in Seq(Unit) /\ t # <<>>
  <1>1. PICK j \in Newlines(buf) : t = SubSeq(buf, Previous(buf, j) + 1, j)
    BY HandedIs
  <1>2. j \in 1 .. Len(buf) /\ Len(buf) \in Nat
    BY NewlinesIs
  <1>3. PICK i : i = Previous(buf, j)
    OBVIOUS
  <1>4. i \in Nat /\ i < j
    BY <1>2, <1>3, PreviousIs, NewlinesIs
  <1>5. \A k \in i + 1 .. j : buf[k] \in Unit
    BY <1>2, <1>4
  <1>6. i + 1 \in Int /\ j \in Int /\ i + 1 <= j
    BY <1>2, <1>4
  <1>7. t \in Seq(Unit) /\ Len(t) = j - (i + 1) + 1
    BY <1>1, <1>3, <1>5, <1>6, SubSeqProperties
  <1> QED
    BY <1>4, <1>6, <1>7

LEMMA KindRead == ASSUME Inv, KindInv, Read PROVE KindInv'
  <1>1. UNCHANGED <<file, ino, cp, gen, starts, sent, gone, blind>>
    BY DEF Read, env
  <1>2. CASE file.ino = 0
    BY <1>1, <1>2 DEF Read, KindInv, Histories
  <1>3. CASE file.ino # 0
    <2>1. PICK buf : buf = leftover \o Batch
      OBVIOUS
    <2>2. /\ leftover \in Seq(Unit) /\ Batch \in Seq(Unit)
          /\ Batch # <<>> => offset < Len(file.data)
      BY <1>3, <2>1, BufferIs DEF Inv, TailInv
    <2>3. buf \in Seq(Unit)
      BY <2>1, <2>2
    <2>4. \A t \in Handed(buf) : t[1][1] \in LineNumbers /\ LinesIn(t) \subseteq LineNumbers
      <3> SUFFICES ASSUME NEW t \in Handed(buf)
                   PROVE  t[1][1] \in LineNumbers /\ LinesIn(t) \subseteq LineNumbers
        OBVIOUS
      <3>1. t \in Seq(Unit) /\ t # <<>>
        BY <2>3, HandedAre
      <3>2. t[1] \in Unit
        BY <3>1
      <3> QED
        BY <3>1, <3>2, LinesAre DEF Unit, LineNumbers
    <2>5. PICK whole : whole = {t[1][1] : t \in {u \in Handed(buf) : Whole(u)}}
      OBVIOUS
    <2>6. PICK broken : broken = UNION {LinesIn(t) : t \in {u \in Handed(buf) : ~Whole(u)}}
      OBVIOUS
    <2>7. whole \subseteq LineNumbers /\ broken \subseteq LineNumbers
      BY <2>4, <2>5, <2>6
    <2>8. /\ handled' = handled \cup whole /\ pending' = pending \cup whole
          /\ garbled' = garbled \cup broken
          /\ crossed' \subseteq crossed \cup (IF Batch # <<>> THEN LinesIn(leftover) \cup {Batch[1][1]} ELSE {})
          /\ blurred' = IF file.ino = ino /\ Batch # <<>> THEN blurred \cup Mixed(Stale) ELSE blurred
      BY <1>3, <2>1, <2>5, <2>6 DEF Read, Stale
    <2>9. blurred' \subseteq blurred \cup LineNumbers /\ crossed' \subseteq crossed \cup LineNumbers
      <3>1. SUFFICES ASSUME Batch # <<>>
                     PROVE  Mixed(Stale) \subseteq LineNumbers
                            /\ LinesIn(leftover) \cup {Batch[1][1]} \subseteq LineNumbers
        BY <2>8
      <3>2. Batch[1] \in Unit
        BY <2>2, <3>1
      <3>3. offset \in Nat /\ file.data \in Seq(Unit) /\ offset <= Len(file.data)
        BY <2>2, <3>1 DEF Inv, TailInv, LogInv
      <3>4. LinesIn(SubSeq(file.data, 1, offset)) \subseteq LineNumbers
        BY <3>3, LinesUpTo
      <3>5. LinesIn(leftover) \subseteq LineNumbers
        BY <2>2, LinesAre
      <3> QED
        BY <3>2, <3>4, <3>5 DEF Mixed, Unit, LineNumbers
    <2> QED
      BY <1>1, <2>7, <2>8, <2>9 DEF KindInv, Histories
  <1> QED
    BY <1>2, <1>3

LEMMA KindPoll == ASSUME Inv, KindInv, Start \/ Stat PROVE KindInv'
  <1>1. /\ UNCHANGED <<file, gen, pending, sent, handled, garbled, gone, crossed>>
        /\ ino' = file.ino
        /\ starts' \in {starts} \/ (starts < MaxStarts /\ starts' = starts + 1)
    BY DEF Start, Stat, env
  <1>2. cp'.ino \in {cp.ino, file.ino}
    BY DEF Start, Stat, SaveCheckpoint
  <1>3. /\ offset \in Nat /\ cp.offset \in Nat /\ Len(file.data) \in Nat
    BY DEF Inv, TailInv, CheckpointInv, LogInv
  <1>4. blind' \subseteq blind \cup LineNumbers /\ blurred' \subseteq blurred \cup LineNumbers
    <2>1. LinesIn(file.data) \subseteq LineNumbers
      BY <1>3, LinesUpTo
    <2>2. CASE Start
      <3>1. cp.offset <= Len(file.data) => LinesIn(SubSeq(file.data, 1, cp.offset)) \subseteq LineNumbers
        BY <1>3, LinesUpTo
      <3> QED
        BY <2>1, <2>2, <3>1 DEF Start
    <2>3. CASE Stat
      <3>1. Len(file.data) >= offset => LinesIn(SubSeq(file.data, 1, offset)) \subseteq LineNumbers
        BY <1>3, LinesUpTo
      <3> QED
        BY <2>3, <3>1 DEF Stat
    <2> QED
      BY <2>2, <2>3
  <1>5. starts' \in 0 .. MaxStarts
    BY <1>1, TailAssumption DEF KindInv
  <1> QED
    BY <1>1, <1>2, <1>4, <1>5 DEF KindInv, Histories

LEMMA KindNext == ASSUME Inv, KindInv, [Next]_vars PROVE KindInv'
  <1>1. CASE WriteUnit
    <2>1. file' = [file EXCEPT !.data = Append(@, next)] /\ file \in [ino: Nat, data: Seq(Unit)]
      BY <1>1 DEF WriteUnit, Inv, LogInv
    <2>2. file'.ino = file.ino
      BY <2>1
    <2> QED
      BY <1>1, <2>2 DEF WriteUnit, agent, past, KindInv, Histories
  <1>2. CASE RenameAway \/ Create \/ Truncate
    <2>1. PICK f : Replace(f) /\ f.ino \in Inodes \cup {0}
      <3>1. file \in [ino: Nat, data: Seq(Unit)] /\ file.ino \in Inodes \cup {0}
        BY DEF Inv, LogInv, KindInv
      <3>2. [file EXCEPT !.data = <<>>].ino \in Inodes \cup {0}
        BY <3>1
      <3> QED
        BY <1>2, <3>2 DEF RenameAway, Create, Truncate
    <2>2. gen' \in 0 .. MaxFiles
      BY <1>2, TailAssumption DEF RenameAway, Create, Truncate, KindInv
    <2>3. LinesIn(file.data) \subseteq LineNumbers
      <3>1. Len(file.data) \in Nat
        BY DEF Inv, LogInv
      <3> QED
        BY <3>1, LinesUpTo
    <2>4. gone' \subseteq gone \cup LineNumbers
      BY <2>1, <2>3 DEF Replace
    <2> QED
      BY <2>1, <2>2, <2>4 DEF Replace, agent, past, KindInv, Histories
  <1>3. CASE Start \/ Stat
    BY <1>3, KindPoll
  <1>4. CASE Read
    BY <1>4, KindRead
  <1>5. CASE Save
    <2>1. cp'.ino \in {cp.ino, ino}
      BY <1>5 DEF Save, SaveCheckpoint
    <2> QED
      BY <1>5, <2>1 DEF Save, env, past, KindInv, Histories
  <1>6. CASE Flush
    BY <1>6 DEF Flush, env, agent, past, KindInv, Histories
  <1>7. CASE Stop \/ Crash
    BY <1>7 DEF Stop, Crash, GoDown, env, past, KindInv, Histories
  <1>8. CASE UNCHANGED vars
    BY <1>8 DEF vars, env, agent, past, KindInv, Histories
  <1> QED
    BY <1>1, <1>2, <1>3, <1>4, <1>5, <1>6, <1>7, <1>8 DEF Next, TailStep

\* The variables of the tail keep their types; the partial line it keeps is never longer than the
\* cap, nor than what it has read, so SavedOffset is a position in the file: pollOnce and
\* saveCheckpoint.
THEOREM TypeCorrect == Spec => []TypeOK
  <1>1. Init => KindInv
    BY TailAssumption DEF Init, KindInv, Histories
  <1>2. Inv /\ KindInv /\ [Next]_vars => Inv' /\ KindInv'
    BY InvNext, KindNext
  <1>3. Inv /\ KindInv => TypeOK
    <2> SUFFICES ASSUME Inv, KindInv PROVE TypeOK
      OBVIOUS
    <2>1. file.ino \in Inodes \cup {0} /\ file.data \in Seq(Units) /\ leftover \in Seq(Units)
      BY SizesFit DEF Inv, LogInv, TailInv, KindInv
    <2>2. next \in (1 .. Lines + 1) \X Nat
      BY DEF Inv, LogInv
    <2>3. /\ pc \in {"down", "poll", "read", "save"}
          /\ ino \in Inodes \cup {0} /\ offset \in Nat
          /\ Len(leftover) <= LeftoverMax /\ Len(leftover) <= offset
      BY DEF Inv, TailInv, KindInv
    <2>4. cp \in [ino : Inodes \cup {0}, offset : Nat]
      BY DEF Inv, CheckpointInv, KindInv
    <2>5. {pending, sent, handled, garbled, gone, blind, blurred, crossed} \subseteq SUBSET (1 .. Lines)
      BY DEF KindInv, Histories, LineNumbers
    <2>6. {gen, ownGen, cpGen, leftGen} \subseteq 0 .. MaxFiles /\ starts \in 0 .. MaxStarts
      BY TailAssumption DEF Inv, GenInv, KindInv
    <2> QED
      BY <2>1, <2>2, <2>3, <2>4, <2>5, <2>6 DEF TypeOK
  <1> QED
    BY InvInit, <1>1, <1>2, <1>3, PTL DEF Spec

=============================================================================
