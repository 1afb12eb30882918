-------------------------- MODULE CollectorProofs --------------------------
(***************************************************************************)
(* Theorems of Collector, for every number of sources and reports: what    *)
(* the store keeps of what it accepted, that a live source stays listed,   *)
(* that a superseded finding does not come back, that the views tell the   *)
(* same, and that every answer of the response proxy has its row.          *)
(***************************************************************************)
EXTENDS Collector, FiniteSetTheorems, FunctionTheorems, WellFoundedInduction, TLAPS

-----------------------------------------------------------------------------
(* Putting reports in order.                                                *)

\* before is a strict order in which any two members of I are comparable.
Orders(before, I) ==
    /\ before \in [I -> SUBSET I]
    /\ \A i \in I : i \notin before[i]
    /\ \A i, j \in I : i = j \/ i \in before[j] \/ j \in before[i]
    /\ \A i, j, k \in I : i \in before[j] /\ j \in before[k] => i \in before[k]

\* InOrder lists every member of I once, the earlier first.
LEMMA InOrderIs ==
    ASSUME NEW I, IsFiniteSet(I), NEW before, Orders(before, I), NEW o, o = InOrder(I, before)
    PROVE  /\ Cardinality(I) \in Nat /\ o \in [1 .. Cardinality(I) -> I]
           /\ \A i \in I : \E k \in 1 .. Cardinality(I) : o[k] = i
           /\ \A p, q \in 1 .. Cardinality(I) : p < q => o[p] \in before[o[q]]
<1> DEFINE n == Cardinality(I)
           rank == [i \in I |-> Cardinality(before[i]) + 1]
<1>1. n \in Nat /\ IsFiniteSet(1 .. n) /\ Cardinality(1 .. n) = n
  BY FS_CardinalityType, FS_Interval
<1>2. ASSUME NEW i \in I
      PROVE  /\ IsFiniteSet(before[i]) /\ Cardinality(before[i]) \in Nat /\ Cardinality(before[i]) < n
  <2>1. before[i] \in SUBSET (I \ {i})
    BY DEF Orders
  <2>2. IsFiniteSet(I \ {i}) /\ Cardinality(I \ {i}) = n - 1
    BY FS_RemoveElement
  <2>3. IsFiniteSet(before[i]) /\ Cardinality(before[i]) <= n - 1
    BY <2>1, <2>2, FS_Subset
  <2> QED
    BY <1>1, <2>3, FS_CardinalityType
<1>3. ASSUME NEW i \in I, NEW j \in I, i \in before[j] PROVE rank[i] < rank[j]
  <2>1. before[i] \cup {i} \in SUBSET before[j] /\ i \notin before[i]
    BY <1>3 DEF Orders
  <2>2. Cardinality(before[i] \cup {i}) = Cardinality(before[i]) + 1
    BY <1>2, <2>1, FS_AddElement
  <2>3. Cardinality(before[i] \cup {i}) <= Cardinality(before[j])
    BY <1>2, <2>1, FS_Subset
  <2> QED
    BY <1>2, <2>2, <2>3
<1>4. rank \in [I -> 1 .. n]
  BY <1>1, <1>2
<1>5. \A i, j \in I : rank[i] = rank[j] => i = j
  <2> SUFFICES ASSUME NEW i \in I, NEW j \in I, rank[i] = rank[j], i # j PROVE FALSE
    OBVIOUS
  <2>1. i \in before[j] \/ j \in before[i]
    BY DEF Orders
  <2>2. rank[i] < rank[j] \/ rank[j] < rank[i]
    BY <1>3, <2>1
  <2> HIDE DEF rank
  <2>3. rank[i] \in 1 .. n /\ rank[j] \in 1 .. n
    BY <1>4
  <2> QED
    BY <2>2, <2>3
<1>6. \A k \in 1 .. n : \E i \in I : rank[i] = k
  <2> HIDE DEF rank
  <2>1. rank \in Injection(I, 1 .. n)
    BY <1>4, <1>5, Fun_IsInj
  <2>2. rank \in Surjection(I, 1 .. n)
    BY <1>1, <2>1, FS_Injection
  <2> QED
    BY <2>2 DEF Surjection
<1>7. ASSUME NEW k \in 1 .. n PROVE o[k] \in I /\ rank[o[k]] = k
  <2> DEFINE ranked == {<<Cardinality(before[i]) + 1, i>> : i \in I}
  <2>1. PICK i \in I : rank[i] = k
    BY <1>6
  <2>2. \E p \in ranked : p[1] = k
    <3>1. <<rank[i], i>> \in ranked /\ <<rank[i], i>>[1] = rank[i]
      OBVIOUS
    <3> QED
      BY <2>1, <3>1
  <2>3. PICK p : p = CHOOSE q \in ranked : q[1] = k
    OBVIOUS
  <2>4. p \in ranked /\ p[1] = k
    BY <2>2, <2>3
  <2>5. o[k] = p[2]
    BY <2>3 DEF InOrder
  <2> QED
    BY <2>4, <2>5
<1>8. o \in [1 .. n -> I]
  <2>1. o = [k \in 1 .. n |-> o[k]]
    BY DEF InOrder
  <2> QED
    BY <1>7, <2>1
<1>9. ASSUME NEW i \in I PROVE \E k \in 1 .. n : o[k] = i
  <2> HIDE DEF rank
  <2>1. rank[i] \in 1 .. n
    BY <1>4
  <2>2. rank[o[rank[i]]] = rank[i] /\ o[rank[i]] \in I
    BY <1>7, <2>1
  <2> QED
    BY <1>5, <2>1, <2>2
<1>10. ASSUME NEW p \in 1 .. n, NEW q \in 1 .. n, p < q PROVE o[p] \in before[o[q]]
  <2> HIDE DEF rank
  <2>1. o[p] \in I /\ o[q] \in I /\ rank[o[p]] = p /\ rank[o[q]] = q
    BY <1>7
  <2>2. o[q] \notin before[o[p]]
    <3>1. p \in Int /\ q \in Int
      BY <1>1
    <3> QED
      BY <1>3, <1>10, <2>1, <3>1
  <2>3. o[p] # o[q]
    BY <1>1, <1>10, <2>1
  <2> QED
    BY <2>1, <2>2, <2>3 DEF Orders
<1> QED
  BY <1>1, <1>8, <1>9, <1>10
-----------------------------------------------------------------------------
(* Reports, and parts of a list of them.                                    *)

LEMMA ReportIs ==
    ASSUME NEW r \in Reports
    PROVE  r.source \in Sources /\ r.received \in Nat /\ r.n \in Nat /\ r.append \in BOOLEAN
BY CollectorAssumption DEF Reports

\* t is rs at the places o, none of them taken twice.
Selects(o, t, rs) ==
    /\ t \in Seq(Reports) /\ rs \in Seq(Reports)
    /\ o \in [1 .. Len(t) -> 1 .. Len(rs)]
    /\ \A k \in 1 .. Len(t) : t[k] = rs[o[k]]
    /\ \A p, q \in 1 .. Len(t) : o[p] = o[q] => p = q

\* Those places are I, the earlier first.
ListsAll(o, t, rs, I, before) ==
    /\ Selects(o, t, rs)
    /\ \A i \in I : \E k \in 1 .. Len(t) : o[k] = i
    /\ \A k \in 1 .. Len(t) : o[k] \in I
    /\ \A p, q \in 1 .. Len(t) : p < q => o[p] \in before[o[q]]
    /\ Len(t) = Cardinality(I)

LEMMA OrderSelects ==
    ASSUME NEW rs, rs \in Seq(Reports), NEW I, I \subseteq 1 .. Len(rs), NEW before, Orders(before, I)
    PROVE  ListsAll(InOrder(I, before), Along(InOrder(I, before), rs), rs, I, before)
<1>a. PICK o : o = InOrder(I, before)
  OBVIOUS
<1>b. PICK t : t = Along(o, rs)
  OBVIOUS
<1>0. Len(rs) \in Nat /\ \A i \in 1 .. Len(rs) : rs[i] \in Reports
  OBVIOUS
<1>1. IsFiniteSet(I)
  <2>1. Len(rs) \in Nat
    OBVIOUS
  <2>2. IsFiniteSet(1 .. Len(rs)) /\ I \in SUBSET (1 .. Len(rs))
    BY <2>1, FS_Interval
  <2> QED
    BY <2>2, FS_Subset
<1>2. PICK n : n = Cardinality(I)
  OBVIOUS
<1>3. /\ n \in Nat /\ o \in [1 .. n -> I]
      /\ \A i \in I : \E k \in 1 .. n : o[k] = i
      /\ \A p, q \in 1 .. n : p < q => o[p] \in before[o[q]]
  BY SMTT(30), <1>a, <1>1, <1>2, InOrderIs
<1>4. t \in [1 .. n -> Reports] /\ \A k \in 1 .. n : t[k] = rs[o[k]]
  <2>1. DOMAIN o = 1 .. n /\ \A k \in 1 .. n : o[k] \in 1 .. Len(rs)
    BY <1>3
  <2>2. t = [k \in 1 .. n |-> rs[o[k]]]
    BY <1>b, <2>1 DEF Along
  <2> QED
    BY <1>0, <2>1, <2>2
<1>5. t \in Seq(Reports) /\ Len(t) = n
  BY <1>3, <1>4
<1>6. \A p, q \in 1 .. n : o[p] = o[q] => p = q
  <2> SUFFICES ASSUME NEW p \in 1 .. n, NEW q \in 1 .. n, o[p] = o[q], p # q PROVE FALSE
    OBVIOUS
  <2>1. p < q \/ q < p
    BY <1>3
  <2>2. o[p] \in before[o[q]] \/ o[q] \in before[o[p]]
    BY <1>3, <2>1
  <2>3. o[p] \in I
    BY <1>3
  <2> QED
    BY <2>2, <2>3 DEF Orders
<1>7. o \in [1 .. Len(t) -> 1 .. Len(rs)]
  BY <1>3, <1>5
<1>8. Selects(o, t, rs)
  BY <1>4, <1>5, <1>6, <1>7 DEF Selects
<1> QED
  BY <1>a, <1>b, <1>2, <1>3, <1>5, <1>8 DEF ListsAll

\* What is picked is in the order it was in.
LEMMA PickedIs ==
    ASSUME NEW rs, rs \in Seq(Reports), NEW I, I \subseteq 1 .. Len(rs)
    PROVE  \E o : /\ Selects(o, Picked(rs, I), rs)
                  /\ \A i \in I : \E k \in 1 .. Len(Picked(rs, I)) : o[k] = i
                  /\ \A k \in 1 .. Len(Picked(rs, I)) : o[k] \in I
                  /\ \A p, q \in 1 .. Len(Picked(rs, I)) : p < q => o[p] < o[q]
<1>1. PICK before : before = [i \in I |-> {j \in I : j < i}]
  OBVIOUS
<1>2. Orders(before, I)
  <2>1. I \subseteq Int
    OBVIOUS
  <2> QED
    BY <1>1, <2>1 DEF Orders
<1>3. PICK o : o = InOrder(I, before)
  OBVIOUS
<1>4. PICK t : t = Along(o, rs)
  OBVIOUS
<1>5. Picked(rs, I) = t
  BY <1>1, <1>3, <1>4 DEF Picked
<1>6. /\ Selects(o, t, rs)
      /\ \A i \in I : \E k \in 1 .. Len(t) : o[k] = i
      /\ \A k \in 1 .. Len(t) : o[k] \in I
      /\ \A p, q \in 1 .. Len(t) : p < q => o[p] \in before[o[q]]
  <2>1. ListsAll(o, t, rs, I, before)
    BY <1>2, <1>3, <1>4, OrderSelects
  <2> QED
    BY <2>1 DEF ListsAll
<1>7. \A p, q \in 1 .. Len(t) : p < q => o[p] < o[q]
  BY <1>1, <1>6
<1> QED
  BY <1>5, <1>6, <1>7

\* Sorting moves every report, to a place no report that is later comes before.
LEMMA ByTimeIs ==
    ASSUME NEW rs \in Seq(Reports)
    PROVE  \E o : /\ Selects(o, ByTime(rs), rs)
                  /\ \A i \in 1 .. Len(rs) : \E k \in 1 .. Len(ByTime(rs)) : o[k] = i
                  /\ \A p, q \in 1 .. Len(ByTime(rs)) : p < q =>
                        \/ rs[o[p]].received < rs[o[q]].received
                        \/ rs[o[p]].received = rs[o[q]].received /\ o[p] < o[q]
                  /\ Len(ByTime(rs)) = Len(rs)
<1>1. PICK I : I = 1 .. Len(rs)
  OBVIOUS
<1>2. PICK before : before = Earlier(rs)
  OBVIOUS
<1>3. /\ DOMAIN rs = I /\ I \subseteq Int /\ \A i \in I : rs[i].received \in Nat
      /\ \A i \in I : before[i] = {j \in I : rs[j].received < rs[i].received \/ (rs[j].received = rs[i].received /\ j < i)}
      /\ DOMAIN before = I
  BY <1>1, <1>2, ReportIs DEF Earlier
<1>4. Orders(before, I)
  <2>1. before \in [I -> SUBSET I]
    BY <1>1, <1>2, <1>3 DEF Earlier
  <2>2. \A i \in I : i \notin before[i]
    BY <1>3
  <2>3. \A i, j \in I : i = j \/ i \in before[j] \/ j \in before[i]
    BY <1>3
  <2>4. \A i, j, k \in I : i \in before[j] /\ j \in before[k] => i \in before[k]
    BY <1>3
  <2> QED
    BY <2>1, <2>2, <2>3, <2>4 DEF Orders
<1>5. PICK o : o = InOrder(I, before)
  OBVIOUS
<1>6. PICK t : t = Along(o, rs)
  OBVIOUS
<1>7. ByTime(rs) = t
  BY <1>1, <1>2, <1>3, <1>5, <1>6 DEF ByTime
<1>8. /\ Selects(o, t, rs) /\ Len(t) = Cardinality(I)
      /\ \A i \in I : \E k \in 1 .. Len(t) : o[k] = i
      /\ \A p, q \in 1 .. Len(t) : p < q => o[p] \in before[o[q]]
      /\ \A k \in 1 .. Len(t) : o[k] \in I
  <2>1. ListsAll(o, t, rs, I, before)
    BY <1>1, <1>4, <1>5, <1>6, OrderSelects
  <2> QED
    BY <2>1 DEF ListsAll
<1>9. Cardinality(I) = Len(rs) /\ Len(rs) \in Nat
  <2>1. Len(rs) \in Nat
    OBVIOUS
  <2> QED
    BY <1>1, <2>1, FS_Interval
<1>10. \A p, q \in 1 .. Len(t) : p < q =>
           rs[o[p]].received < rs[o[q]].received \/ (rs[o[p]].received = rs[o[q]].received /\ o[p] < o[q])
  <2> SUFFICES ASSUME NEW p \in 1 .. Len(t), NEW q \in 1 .. Len(t), p < q
               PROVE  rs[o[p]].received < rs[o[q]].received \/ (rs[o[p]].received = rs[o[q]].received /\ o[p] < o[q])
    OBVIOUS
  <2>1. o[p] \in before[o[q]] /\ o[q] \in I
    BY <1>8
  <2>2. PICK a, b : a = o[p] /\ b = o[q]
    OBVIOUS
  <2>3. rs[a].received < rs[b].received \/ (rs[a].received = rs[b].received /\ a < b)
    BY SMTT(30), <1>3, <2>1, <2>2
  <2> QED
    BY <2>2, <2>3
<1> QED
  BY <1>1, <1>7, <1>8, <1>9, <1>10
-----------------------------------------------------------------------------
(* What the store knows about what it accepted.                             *)

\* acc numbers the accepted reports, in the order of their receive times.
Numbered(acc) ==
    /\ acc \in Seq(Reports)
    /\ \A i \in 1 .. Len(acc) : acc[i].n = i /\ ~IsHeartbeat(acc[i]) /\ acc[i].received <= now
    /\ \A i, j \in 1 .. Len(acc) : i < j => acc[i].received <= acc[j].received

\* rs holds accepted reports in the order of their numbers, and a heartbeat per source at most.
Consistent(rs, acc) ==
    /\ rs \in Seq(Reports)
    /\ \A i \in 1 .. Len(rs) :
          /\ rs[i].received <= now
          /\ ~IsHeartbeat(rs[i]) => rs[i].n \in 1 .. Len(acc) /\ acc[rs[i].n] = rs[i]
    /\ \A i, j \in 1 .. Len(rs) : i < j /\ ~IsHeartbeat(rs[i]) /\ ~IsHeartbeat(rs[j]) => rs[i].n < rs[j].n
    /\ \A i, j \in 1 .. Len(rs) :
          IsHeartbeat(rs[i]) /\ IsHeartbeat(rs[j]) /\ rs[i].source = rs[j].source => i = j

\* The sources whose heartbeat is of time t or later.
QuietSince(rs, t) ==
    {s \in Sources : \E i \in 1 .. Len(rs) : IsHeartbeat(rs[i]) /\ rs[i].source = s /\ rs[i].received >= t}

\* Report n is there; or it is gone with all that came before, and it is too old,
\* or the reports and heartbeats that came after fill the store, or it is one of
\* those given up as gone.
Kept(rs, acc, gone, n) ==
    \/ \E i \in 1 .. Len(rs) : rs[i] = acc[n]
    \/ /\ \A i \in 1 .. Len(rs) : ~IsHeartbeat(rs[i]) => rs[i].n > n
       /\ \/ acc[n].received + Retain < now
          \/ Len(acc) - n + Cardinality(QuietSince(rs, acc[n].received)) >= MaxReports
          \/ n \in gone

\* The numbers of the reports accepted at time t or later.
Since(acc, t) == {n \in 1 .. Len(acc) : acc[n].received >= t}

\* A report or heartbeat of s of time t or later is there; or that time is too
\* long ago, or what was accepted since may fill the store.
Heard(rs, acc, s, t) ==
    \/ \E i \in 1 .. Len(rs) : rs[i].source = s /\ rs[i].received >= t
    \/ t + Retain < now
    \/ Cardinality(Since(acc, t)) + Cardinality(Sources) > MaxReports

LEMMA Sizes ==
    /\ MaxReports \in Nat /\ Retain \in Nat /\ StaleAfter \in Nat /\ AppendCap \in Nat
    /\ IsFiniteSet(Sources) /\ Cardinality(Sources) \in Nat
    /\ \A rs, t : IsFiniteSet(QuietSince(rs, t)) /\ Cardinality(QuietSince(rs, t)) \in Nat
                  /\ Cardinality(QuietSince(rs, t)) <= Cardinality(Sources)
<1>1. MaxReports \in Nat /\ Retain \in Nat /\ StaleAfter \in Nat /\ AppendCap \in Nat /\ IsFiniteSet(Sources)
  BY CollectorAssumption
<1>2. ASSUME NEW rs, NEW t
      PROVE  IsFiniteSet(QuietSince(rs, t)) /\ Cardinality(QuietSince(rs, t)) <= Cardinality(Sources)
  <2>1. QuietSince(rs, t) \in SUBSET Sources
    BY DEF QuietSince
  <2> QED
    BY <1>1, <2>1, FS_Subset
<1> QED
  BY <1>1, <1>2, FS_CardinalityType

\* A part of a consistent list that keeps the order of the numbers is consistent.
LEMMA PartConsistent ==
    ASSUME NEW rs, NEW acc, NEW t, NEW o, Consistent(rs, acc), Selects(o, t, rs),
           \A p, q \in 1 .. Len(t) : p < q /\ ~IsHeartbeat(t[p]) /\ ~IsHeartbeat(t[q]) => o[p] < o[q]
    PROVE  Consistent(t, acc)
<1>1. /\ t \in Seq(Reports)
      /\ \A k \in 1 .. Len(t) : o[k] \in 1 .. Len(rs) /\ t[k] = rs[o[k]]
      /\ \A p, q \in 1 .. Len(t) : o[p] = o[q] => p = q
  BY DEF Selects
<1>2. ASSUME NEW k \in 1 .. Len(t)
      PROVE  /\ t[k].received <= now
             /\ ~IsHeartbeat(t[k]) => t[k].n \in 1 .. Len(acc) /\ acc[t[k].n] = t[k]
  <2>1. PICK i \in 1 .. Len(rs) : t[k] = rs[i]
    BY <1>1
  <2> QED
    BY <2>1 DEF Consistent
<1>3. ASSUME NEW p \in 1 .. Len(t), NEW q \in 1 .. Len(t), p < q, ~IsHeartbeat(t[p]), ~IsHeartbeat(t[q])
      PROVE  t[p].n < t[q].n
  <2>1. PICK i \in 1 .. Len(rs), j \in 1 .. Len(rs) : i = o[p] /\ j = o[q] /\ t[p] = rs[i] /\ t[q] = rs[j]
    BY <1>1
  <2>2. i < j
    BY <1>3, <2>1
  <2>3. rs[i].n < rs[j].n
    BY <1>3, <2>1, <2>2 DEF Consistent
  <2> QED
    BY <2>1, <2>3
<1>4. ASSUME NEW p \in 1 .. Len(t), NEW q \in 1 .. Len(t),
             IsHeartbeat(t[p]), IsHeartbeat(t[q]), t[p].source = t[q].source
      PROVE  p = q
  <2>1. PICK i \in 1 .. Len(rs), j \in 1 .. Len(rs) : i = o[p] /\ j = o[q] /\ t[p] = rs[i] /\ t[q] = rs[j]
    BY <1>1
  <2>2. i = j
    BY <1>4, <2>1 DEF Consistent
  <2> QED
    BY <1>1, <2>1, <2>2
<1> QED
  BY <1>1, <1>2, <1>3, <1>4 DEF Consistent

\* Of two reports the later one has the higher number.
LEMMA LaterIsHigher ==
    ASSUME NEW acc, Numbered(acc), NEW m \in 1 .. Len(acc), NEW n \in 1 .. Len(acc),
           acc[n].received < acc[m].received
    PROVE  n < m
<1>1. acc[n].received \in Nat /\ acc[m].received \in Nat
  BY ReportIs DEF Numbered
<1> SUFFICES ASSUME m <= n PROVE FALSE
  BY DEF Numbered
<1>2. m = n \/ m < n
  BY DEF Numbered
<1> QED
  BY <1>1, <1>2 DEF Numbered
\* A consistent list has no more members than there are numbers and sources for them.
LEMMA RoomNeeded ==
    ASSUME NEW u, NEW acc, Consistent(u, acc), NEW N, N \subseteq 1 .. Len(acc), IsFiniteSet(N),
           NEW B, B \subseteq Sources,
           \A i \in 1 .. Len(u) : IF IsHeartbeat(u[i]) THEN u[i].source \in B ELSE u[i].n \in N
    PROVE  Len(u) <= Cardinality(N) + Cardinality(B)
<1>1. PICK beats, others : /\ beats = {i \in 1 .. Len(u) : IsHeartbeat(u[i])}
                           /\ others = (1 .. Len(u)) \ beats
  OBVIOUS
<1>2. u \in Seq(Reports) /\ Len(u) \in Nat
  BY DEF Consistent
<1>3. IsFiniteSet(beats) /\ IsFiniteSet(others) /\ Cardinality(1 .. Len(u)) = Len(u)
  <2>1. Len(u) \in Nat
    BY <1>2
  <2>2. IsFiniteSet(1 .. Len(u)) /\ Cardinality(1 .. Len(u)) = Len(u)
    BY <2>1, FS_Interval
  <2>3. beats \in SUBSET (1 .. Len(u)) /\ others \in SUBSET (1 .. Len(u))
    BY <1>1
  <2> QED
    BY <2>2, <2>3, FS_Subset
<1>4. IsFiniteSet(B)
  BY Sizes, FS_Subset
<1>5. Cardinality(beats) <= Cardinality(B)
  <2>1. PICK f : f = [i \in beats |-> u[i].source]
    OBVIOUS
  <2>2. f \in [beats -> B]
    BY <1>1, <2>1
  <2>3. \A i, j \in beats : f[i] = f[j] => i = j
    BY <1>1, <2>1 DEF Consistent
  <2>4. f \in Injection(beats, B)
    BY <2>2, <2>3, Fun_IsInj
  <2> QED
    BY <1>4, <2>4, FS_Injection
<1>6. Cardinality(others) <= Cardinality(N)
  <2>1. PICK f : f = [i \in others |-> u[i].n]
    OBVIOUS
  <2>2. f \in [others -> N]
    BY <1>1, <2>1
  <2>3. ASSUME NEW i \in others, NEW j \in others, f[i] = f[j] PROVE i = j
    <3>1. /\ i \in 1 .. Len(u) /\ j \in 1 .. Len(u) /\ ~IsHeartbeat(u[i]) /\ ~IsHeartbeat(u[j])
          /\ u[i].n = u[j].n
      BY <1>1, <2>1, <2>3
    <3>2. u[i].n \in Nat /\ u[j].n \in Nat
      BY <1>2, <3>1, ReportIs
    <3>3. i < j => u[i].n < u[j].n
      BY <3>1 DEF Consistent
    <3>4. j < i => u[j].n < u[i].n
      BY <3>1 DEF Consistent
    <3> QED
      BY <3>1, <3>2, <3>3, <3>4
  <2>4. f \in Injection(others, N)
    BY <2>2, <2>3, Fun_IsInj
  <2> QED
    BY <2>4, FS_Injection
<1>7. /\ Cardinality(B) \in Nat /\ Cardinality(N) \in Nat
      /\ Cardinality(beats) \in Nat /\ Cardinality(others) \in Nat
  BY <1>3, <1>4, FS_CardinalityType
<1>8. Len(u) <= Cardinality(beats) + Cardinality(others)
  <2>1. beats \cup others = 1 .. Len(u) /\ beats \cap others = {}
    BY <1>1
  <2>2. Cardinality(beats \cup others) = Cardinality(beats) + Cardinality(others) - Cardinality(beats \cap others)
    BY <1>3, FS_Union
  <2>3. Cardinality(beats \cap others) = 0
    BY <2>1, FS_EmptySet
  <2>4. Cardinality(beats \cup others) = Len(u)
    BY <1>3, <2>1
  <2> QED
    BY <1>7, <2>2, <2>3, <2>4
<1> QED
  BY <1>2, <1>5, <1>6, <1>7, <1>8

\* Dropping the old: what is kept is in its order, and what is dropped has expired.
LEMMA YoungIs ==
    ASSUME NEW rs, rs \in Seq(Reports)
    PROVE  \E o : /\ Selects(o, Picked(rs, Young(rs)), rs)
                  /\ \A i \in 1 .. Len(rs) :
                        rs[i].received + Retain >= now => \E k \in 1 .. Len(Picked(rs, Young(rs))) : o[k] = i
                  /\ \A k \in 1 .. Len(Picked(rs, Young(rs))) : Picked(rs, Young(rs))[k].received + Retain >= now
                  /\ \A p, q \in 1 .. Len(Picked(rs, Young(rs))) : p < q => o[p] < o[q]
<1>1. PICK I : I = Young(rs)
  OBVIOUS
<1>2. I \subseteq 1 .. Len(rs) /\ \A i \in 1 .. Len(rs) : i \in I <=> rs[i].received + Retain >= now
  BY <1>1 DEF Young
<1>3. PICK t : t = Picked(rs, I)
  OBVIOUS
<1>4. PICK o : /\ Selects(o, t, rs)
               /\ \A i \in I : \E k \in 1 .. Len(t) : o[k] = i
               /\ \A k \in 1 .. Len(t) : o[k] \in I
               /\ \A p, q \in 1 .. Len(t) : p < q => o[p] < o[q]
  BY ZenonT(30), <1>2, <1>3, PickedIs
<1>5. \A k \in 1 .. Len(t) : t[k].received + Retain >= now
  BY <1>2, <1>4 DEF Selects
<1> QED
  BY <1>1, <1>2, <1>3, <1>4, <1>5

\* Pruning by age loses nothing but what is too old.
LEMMA YoungKeeps ==
    ASSUME NEW rs, NEW acc, NEW gone, Consistent(rs, acc), Numbered(acc), now \in Nat
    PROVE  /\ Consistent(Picked(rs, Young(rs)), acc)
           /\ \A n \in 1 .. Len(acc) : Kept(rs, acc, gone, n) => Kept(Picked(rs, Young(rs)), acc, gone, n)
           /\ \A s \in Sources, t \in Nat : Heard(rs, acc, s, t) => Heard(Picked(rs, Young(rs)), acc, s, t)
<1>0. rs \in Seq(Reports) /\ acc \in Seq(Reports) /\ Retain \in Nat
  BY Sizes DEF Consistent, Numbered
<1>1. PICK t : t = Picked(rs, Young(rs))
  OBVIOUS
<1>2. PICK o : /\ Selects(o, t, rs)
               /\ \A i \in 1 .. Len(rs) : rs[i].received + Retain >= now => \E k \in 1 .. Len(t) : o[k] = i
               /\ \A k \in 1 .. Len(t) : t[k].received + Retain >= now
               /\ \A p, q \in 1 .. Len(t) : p < q => o[p] < o[q]
  BY <1>0, <1>1, YoungIs
<1>3. \A k \in 1 .. Len(t) : o[k] \in 1 .. Len(rs) /\ t[k] = rs[o[k]]
  BY <1>2 DEF Selects
<1>4. Consistent(t, acc)
  BY <1>2, PartConsistent
<1>5. ASSUME NEW i \in 1 .. Len(rs), rs[i].received + Retain >= now
      PROVE  \E k \in 1 .. Len(t) : t[k] = rs[i]
  BY <1>2, <1>3, <1>5
<1>6. ASSUME NEW n \in 1 .. Len(acc), Kept(rs, acc, gone, n) PROVE Kept(t, acc, gone, n)
  <2>0. acc[n].received \in Nat /\ t \in Seq(Reports)
    BY <1>0, <1>4, ReportIs DEF Consistent
  <2>1. CASE acc[n].received + Retain < now
    <3>1. ASSUME NEW k \in 1 .. Len(t), ~IsHeartbeat(t[k]) PROVE t[k].n > n
      <4>1. t[k].n \in 1 .. Len(acc) /\ acc[t[k].n] = t[k]
        BY <1>4, <3>1 DEF Consistent
      <4>2. PICK m : m = t[k].n
        OBVIOUS
      <4>3. acc[m].received \in Nat /\ acc[m].received + Retain >= now /\ m \in 1 .. Len(acc)
        BY <1>0, <1>2, <4>1, <4>2, ReportIs
      <4>4. acc[n].received < acc[m].received
        BY <1>0, <2>0, <2>1, <4>3
      <4>5. n < m
        BY <4>3, <4>4, LaterIsHigher
      <4> QED
        BY <4>2, <4>5
    <3> QED
      BY <2>1, <3>1 DEF Kept
  <2>2. CASE acc[n].received + Retain >= now /\ \E i \in 1 .. Len(rs) : rs[i] = acc[n]
    BY <1>5, <2>2 DEF Kept
  <2>3. CASE /\ acc[n].received + Retain >= now
             /\ \A i \in 1 .. Len(rs) : ~IsHeartbeat(rs[i]) => rs[i].n > n
             /\ Len(acc) - n + Cardinality(QuietSince(rs, acc[n].received)) >= MaxReports
    <3>1. \A k \in 1 .. Len(t) : ~IsHeartbeat(t[k]) => t[k].n > n
      BY <1>3, <2>3
    <3>2. QuietSince(rs, acc[n].received) \in SUBSET QuietSince(t, acc[n].received)
      <4> SUFFICES ASSUME NEW s \in Sources, NEW i \in 1 .. Len(rs), IsHeartbeat(rs[i]),
                          rs[i].source = s, rs[i].received >= acc[n].received
                   PROVE  s \in QuietSince(t, acc[n].received)
        BY DEF QuietSince
      <4>1. rs[i].received \in Nat
        BY <1>0, ReportIs
      <4>2. rs[i].received + Retain >= now
        <5>1. PICK x, y \in Nat : x = acc[n].received /\ y = rs[i].received
          BY <2>0, <4>1
        <5>2. x + Retain >= now /\ y >= x
          BY <2>3, <5>1
        <5> QED
          BY <1>0, <5>1, <5>2
      <4> QED
        BY <1>5, <4>2 DEF QuietSince
    <3>3. Cardinality(QuietSince(rs, acc[n].received)) <= Cardinality(QuietSince(t, acc[n].received))
      BY <3>2, Sizes, FS_Subset
    <3>4. Len(acc) - n + Cardinality(QuietSince(t, acc[n].received)) >= MaxReports
      <4>1. PICK a, b : a = Cardinality(QuietSince(rs, acc[n].received)) /\ b = Cardinality(QuietSince(t, acc[n].received))
        OBVIOUS
      <4>2. a \in Nat /\ b \in Nat /\ MaxReports \in Nat /\ Len(acc) - n \in Int
        BY <1>0, <4>1, Sizes
      <4> QED
        BY <2>3, <3>3, <4>1, <4>2
    <3> QED
      BY <3>1, <3>4 DEF Kept
  <2>4. CASE n \in gone /\ \A i \in 1 .. Len(rs) : ~IsHeartbeat(rs[i]) => rs[i].n > n
    <3>1. \A k \in 1 .. Len(t) : ~IsHeartbeat(t[k]) => t[k].n > n
      BY <1>3, <2>4
    <3> QED
      BY <2>4, <3>1 DEF Kept
  <2> QED
    BY <1>0, <1>6, <2>0, <2>1, <2>2, <2>3, <2>4 DEF Kept
<1>7. ASSUME NEW s \in Sources, NEW v \in Nat, Heard(rs, acc, s, v) PROVE Heard(t, acc, s, v)
  <2>1. CASE v + Retain < now
    BY <2>1 DEF Heard
  <2>2. CASE v + Retain >= now /\ \E i \in 1 .. Len(rs) : rs[i].source = s /\ rs[i].received >= v
    <3>1. PICK i \in 1 .. Len(rs) : rs[i].source = s /\ rs[i].received >= v
      BY <2>2
    <3>2. rs[i].received \in Nat
      BY <1>0, ReportIs
    <3>3. rs[i].received + Retain >= now
      BY <1>0, <2>2, <3>1, <3>2
    <3> QED
      BY <1>5, <3>1, <3>3 DEF Heard
  <2> QED
    BY <1>0, <1>7, <2>1, <2>2 DEF Heard
<1> QED
  BY <1>1, <1>4, <1>6, <1>7

\* Pruning by number keeps, in an order that agrees with the receive times, the last by receive time.
Ahead(rs, i, j) == rs[i].received < rs[j].received \/ (rs[i].received = rs[j].received /\ i < j)

LEMMA TrimmedIs ==
    ASSUME NEW rs, rs \in Seq(Reports)
    PROVE  \E o : /\ Selects(o, Trimmed(rs), rs)
                  /\ \A p, q \in 1 .. Len(Trimmed(rs)) : p < q => o[p] < o[q] \/ Ahead(rs, o[p], o[q])
                  /\ \A i \in 1 .. Len(rs) :
                        \/ \E k \in 1 .. Len(Trimmed(rs)) : o[k] = i
                        \/ /\ Len(Trimmed(rs)) = MaxReports
                           /\ \A k \in 1 .. Len(Trimmed(rs)) : Ahead(rs, i, o[k])
<1>1. MaxReports \in Nat
  BY Sizes
<1>2. CASE Len(rs) <= MaxReports
  <2>1. Trimmed(rs) = rs
    BY <1>1, <1>2 DEF Trimmed
  <2>2. PICK o : o = [i \in 1 .. Len(rs) |-> i]
    OBVIOUS
  <2>3. Selects(o, rs, rs)
    BY <2>2 DEF Selects
  <2>4. \A p, q \in 1 .. Len(rs) : p < q => o[p] < o[q]
    BY <2>2
  <2>5. \A i \in 1 .. Len(rs) : o[i] = i
    BY <2>2
  <2> QED
    BY <2>1, <2>3, <2>4, <2>5
<1>3. CASE Len(rs) > MaxReports
  <2>1. PICK b : b = ByTime(rs)
    OBVIOUS
  <2>2. PICK o : /\ Selects(o, b, rs)
                 /\ \A i \in 1 .. Len(rs) : \E k \in 1 .. Len(b) : o[k] = i
                 /\ \A p, q \in 1 .. Len(b) : p < q => Ahead(rs, o[p], o[q])
                 /\ Len(b) = Len(rs)
    BY <2>1, ByTimeIs DEF Ahead
  <2>3. PICK d : d = Len(rs) - MaxReports
    OBVIOUS
  <2>4. d \in Nat /\ Len(rs) \in Nat /\ Len(b) = d + MaxReports
    BY <1>1, <1>3, <2>2, <2>3
  <2>5. PICK t : t = Trimmed(rs)
    OBVIOUS
  <2>6. t = SubSeq(b, d + 1, d + MaxReports)
    <3>1. t = Newest(MaxReports, b)
      BY <1>3, <2>1, <2>5 DEF Trimmed
    <3>2. ~(Len(b) <= MaxReports) /\ Len(b) - MaxReports + 1 = d + 1
      BY <1>1, <1>3, <2>3, <2>4
    <3> QED
      BY <2>4, <3>1, <3>2 DEF Newest
  <2>7. b \in Seq(Reports)
    BY <2>2 DEF Selects
  <2>8. t \in Seq(Reports) /\ Len(t) = MaxReports /\ \A k \in 1 .. MaxReports : t[k] = b[d + k]
    BY <1>1, <2>4, <2>6, <2>7
  <2>9. PICK c : c = [k \in 1 .. MaxReports |-> o[d + k]]
    OBVIOUS
  <2>10. \A k \in 1 .. MaxReports : d + k \in 1 .. Len(b) /\ c[k] = o[d + k]
    BY <1>1, <2>4, <2>9
  <2>11. Selects(c, t, rs)
    <3>1. /\ \A k \in 1 .. Len(b) : o[k] \in 1 .. Len(rs) /\ b[k] = rs[o[k]]
          /\ \A p, q \in 1 .. Len(b) : o[p] = o[q] => p = q
      BY <2>2 DEF Selects
    <3>2. c \in [1 .. MaxReports -> 1 .. Len(rs)]
      BY <2>9, <2>10, <3>1
    <3>3. ASSUME NEW k \in 1 .. MaxReports PROVE t[k] = rs[c[k]]
      <4>1. d + k \in 1 .. Len(b) /\ c[k] = o[d + k] /\ t[k] = b[d + k]
        BY <2>8, <2>10
      <4> QED
        BY <3>1, <4>1
    <3>4. ASSUME NEW p \in 1 .. MaxReports, NEW q \in 1 .. MaxReports, c[p] = c[q] PROVE p = q
      <4>1. d + p = d + q
        BY <2>10, <3>1, <3>4
      <4> QED
        BY <1>1, <2>4, <4>1
    <3> QED
      BY <2>8, <3>2, <3>3, <3>4 DEF Selects
  <2>12. ASSUME NEW p \in 1 .. Len(t), NEW q \in 1 .. Len(t), p < q PROVE Ahead(rs, c[p], c[q])
    <3>1. PICK x \in 1 .. Len(b), y \in 1 .. Len(b) : x = d + p /\ y = d + q /\ c[p] = o[x] /\ c[q] = o[y]
      BY <2>8, <2>10
    <3>2. x < y
      BY <1>1, <2>4, <2>8, <2>12, <3>1
    <3> QED
      BY <2>2, <3>1, <3>2
  <2>13. ASSUME NEW i \in 1 .. Len(rs)
         PROVE  (\E k \in 1 .. Len(t) : c[k] = i) \/ (Len(t) = MaxReports /\ \A k \in 1 .. Len(t) : Ahead(rs, i, c[k]))
    <3>1. PICK x \in 1 .. Len(b) : o[x] = i
      BY <2>2
    <3>2. CASE x > d
      <4>1. x - d \in 1 .. MaxReports /\ d + (x - d) = x
        BY <1>1, <2>4, <3>2
      <4>2. c[x - d] = i
        BY <2>10, <3>1, <4>1
      <4> QED
        BY <2>8, <4>1, <4>2
    <3>3. CASE x <= d
      <4>1. ASSUME NEW k \in 1 .. Len(t) PROVE Ahead(rs, i, c[k])
        <5>1. PICK y \in 1 .. Len(b) : y = d + k /\ c[k] = o[y]
          BY <2>8, <2>10
        <5>2. x < y
          BY <1>1, <2>4, <2>8, <3>3, <5>1
        <5> QED
          BY <2>2, <3>1, <5>1, <5>2
      <4> QED
        BY <2>8, <4>1
    <3> QED
      BY <2>4, <3>2, <3>3
  <2> QED
    BY <2>5, <2>11, <2>12, <2>13
<1> QED
  BY <1>1, <1>2, <1>3

\* If something is dropped for want of room, the rest is of its time or later; n was accepted
\* at that time at the latest, and no report that is left has a lower number.
LEMMA Crowded ==
    ASSUME NEW t, NEW acc, NEW gone, Consistent(t, acc), NEW n \in 1 .. Len(acc), acc \in Seq(Reports), Len(t) = MaxReports,
           \A k \in 1 .. Len(t) : IF IsHeartbeat(t[k]) THEN t[k].received >= acc[n].received ELSE t[k].n > n
    PROVE  Kept(t, acc, gone, n)
<1>1. PICK N, B : N = (n + 1) .. Len(acc) /\ B = QuietSince(t, acc[n].received)
  OBVIOUS
<1>2. n \in Nat /\ Len(acc) \in Nat /\ n <= Len(acc) /\ t \in Seq(Reports)
  BY DEF Consistent
<1>3. IsFiniteSet(N) /\ Cardinality(N) = Len(acc) - n
  <2>1. n + 1 \in Int /\ Len(acc) \in Int
    BY <1>2
  <2>2. IsFiniteSet(N) /\ Cardinality(N) = IF n + 1 > Len(acc) THEN 0 ELSE Len(acc) - (n + 1) + 1
    BY <1>1, <2>1, FS_Interval
  <2> QED
    BY <1>2, <2>2
<1>4. N \subseteq 1 .. Len(acc) /\ B \subseteq Sources
  BY <1>1, <1>2 DEF QuietSince
<1>5. ASSUME NEW k \in 1 .. Len(t) PROVE IF IsHeartbeat(t[k]) THEN t[k].source \in B ELSE t[k].n \in N
  <2>1. CASE IsHeartbeat(t[k])
    <3>1. t[k].source \in Sources /\ t[k].received >= acc[n].received
      BY <1>2, <2>1, ReportIs
    <3> QED
      BY <1>1, <2>1, <3>1 DEF QuietSince
  <2>2. CASE ~IsHeartbeat(t[k])
    <3>1. t[k].n > n /\ t[k].n \in 1 .. Len(acc)
      BY <2>2 DEF Consistent
    <3> QED
      BY <1>1, <1>2, <2>2, <3>1
  <2> QED
    BY <2>1, <2>2
<1>6. Len(t) <= Cardinality(N) + Cardinality(B)
  BY <1>3, <1>4, <1>5, RoomNeeded
<1>7. Len(acc) - n + Cardinality(QuietSince(t, acc[n].received)) >= MaxReports
  <2>1. Cardinality(B) \in Nat /\ MaxReports \in Nat
    BY <1>1, Sizes
  <2> QED
    BY <1>1, <1>2, <1>3, <1>6, <2>1
<1> QED
  BY <1>7 DEF Kept

\* Pruning by number loses only what is crowded out.
LEMMA TrimKeeps ==
    ASSUME NEW rs, NEW acc, NEW gone, Consistent(rs, acc), Numbered(acc), now \in Nat
    PROVE  /\ Consistent(Trimmed(rs), acc)
           /\ \A n \in 1 .. Len(acc) : Kept(rs, acc, gone, n) => Kept(Trimmed(rs), acc, gone, n)
           /\ \A s \in Sources, t \in Nat : Heard(rs, acc, s, t) => Heard(Trimmed(rs), acc, s, t)
<1>0. rs \in Seq(Reports) /\ acc \in Seq(Reports) /\ MaxReports \in Nat /\ Len(rs) \in Nat
  BY Sizes DEF Consistent, Numbered
<1>1. PICK t : t = Trimmed(rs)
  OBVIOUS
<1>2. PICK o : /\ Selects(o, t, rs)
               /\ \A p, q \in 1 .. Len(t) : p < q => o[p] < o[q] \/ Ahead(rs, o[p], o[q])
               /\ \A i \in 1 .. Len(rs) :
                     \/ \E k \in 1 .. Len(t) : o[k] = i
                     \/ Len(t) = MaxReports /\ \A k \in 1 .. Len(t) : Ahead(rs, i, o[k])
  BY <1>0, <1>1, TrimmedIs
<1>3. \A k \in 1 .. Len(t) : o[k] \in 1 .. Len(rs) /\ t[k] = rs[o[k]]
  BY <1>2 DEF Selects
\* A report that is ahead of another has the lower number.
<1>4. ASSUME NEW i \in 1 .. Len(rs), NEW j \in 1 .. Len(rs), ~IsHeartbeat(rs[i]), ~IsHeartbeat(rs[j]), Ahead(rs, i, j)
      PROVE  rs[i].n < rs[j].n
  <2>1. CASE rs[i].received < rs[j].received
    <3>1. PICK m, n : m = rs[i].n /\ n = rs[j].n
      OBVIOUS
    <3>2. m \in 1 .. Len(acc) /\ n \in 1 .. Len(acc) /\ acc[m] = rs[i] /\ acc[n] = rs[j]
      BY <1>4, <3>1 DEF Consistent
    <3>3. acc[m].received < acc[n].received
      BY <2>1, <3>2
    <3> QED
      BY <3>1, <3>2, <3>3, LaterIsHigher
  <2>2. CASE i < j
    BY <1>4, <2>2 DEF Consistent
  <2> QED
    BY <1>4, <2>1, <2>2 DEF Ahead
<1>5. Consistent(t, acc)
  <2>1. ASSUME NEW p \in 1 .. Len(t), NEW q \in 1 .. Len(t), p < q, ~IsHeartbeat(t[p]), ~IsHeartbeat(t[q]) PROVE o[p] < o[q]
    <3>1. PICK i \in 1 .. Len(rs), j \in 1 .. Len(rs) : i = o[p] /\ j = o[q] /\ ~IsHeartbeat(rs[i]) /\ ~IsHeartbeat(rs[j])
      BY <1>3, <2>1
    <3>2. i < j \/ Ahead(rs, i, j)
      BY <1>2, <2>1, <3>1
    <3>3. ASSUME j <= i, Ahead(rs, i, j) PROVE FALSE
      <4>1. rs[i].n < rs[j].n
        BY <1>4, <3>1, <3>3
      <4>2. j # i /\ rs[i].n \in Nat /\ rs[j].n \in Nat
        BY <1>0, <4>1, ReportIs
      <4>3. rs[j].n < rs[i].n
        <5>1. j < i
          BY <1>0, <3>3, <4>2
        <5> QED
          BY <3>1, <5>1 DEF Consistent
      <4> QED
        BY <4>1, <4>2, <4>3
    <3> QED
      BY <3>1, <3>2, <3>3
  <2> QED
    BY <1>2, <2>1, PartConsistent
<1>6. ASSUME NEW n \in 1 .. Len(acc), Kept(rs, acc, gone, n) PROVE Kept(t, acc, gone, n)
  <2>0. acc[n].received \in Nat /\ t \in Seq(Reports) /\ ~IsHeartbeat(acc[n])
    BY <1>0, <1>5, ReportIs DEF Consistent, Numbered
  <2>1. CASE \E i \in 1 .. Len(rs) : rs[i] = acc[n]
    <3>1. PICK i \in 1 .. Len(rs) : rs[i] = acc[n]
      BY <2>1
    <3>2. CASE \E k \in 1 .. Len(t) : o[k] = i
      BY <1>3, <3>1, <3>2 DEF Kept
    <3>3. CASE Len(t) = MaxReports /\ \A k \in 1 .. Len(t) : Ahead(rs, i, o[k])
      <4>1. ASSUME NEW k \in 1 .. Len(t)
            PROVE  IF IsHeartbeat(t[k]) THEN t[k].received >= acc[n].received ELSE t[k].n > n
        <5>1. PICK j \in 1 .. Len(rs) : j = o[k] /\ t[k] = rs[j] /\ Ahead(rs, i, j)
          BY <1>3, <3>3
        <5>2. rs[j].received \in Nat /\ rs[j].received >= acc[n].received
          BY <1>0, <2>0, <3>1, <5>1, ReportIs DEF Ahead
        <5>3. acc[n].n = n
          BY DEF Numbered
        <5>4. ~IsHeartbeat(rs[j]) => n < rs[j].n
          BY <1>4, <2>0, <3>1, <5>1, <5>3
        <5>5. rs[j].n \in Nat
          BY <1>0, ReportIs
        <5> QED
          BY <5>1, <5>2, <5>4, <5>5
      <4> QED
        BY <1>0, <1>5, <3>3, <4>1, Crowded
    <3> QED
      BY <1>2, <3>2, <3>3
  <2>2. CASE /\ \A i \in 1 .. Len(rs) : ~IsHeartbeat(rs[i]) => rs[i].n > n
             /\ \/ acc[n].received + Retain < now
                \/ Len(acc) - n + Cardinality(QuietSince(rs, acc[n].received)) >= MaxReports
                \/ n \in gone
    <3>1. \A k \in 1 .. Len(t) : ~IsHeartbeat(t[k]) => t[k].n > n
      BY <1>3, <2>2
    <3>2. CASE acc[n].received + Retain < now
      BY <3>1, <3>2 DEF Kept
    <3>3. CASE QuietSince(rs, acc[n].received) \in SUBSET QuietSince(t, acc[n].received)
               /\ Len(acc) - n + Cardinality(QuietSince(rs, acc[n].received)) >= MaxReports
      <4>1. Cardinality(QuietSince(rs, acc[n].received)) <= Cardinality(QuietSince(t, acc[n].received))
        BY <3>3, Sizes, FS_Subset
      <4>2. PICK a, b : a = Cardinality(QuietSince(rs, acc[n].received)) /\ b = Cardinality(QuietSince(t, acc[n].received))
        OBVIOUS
      <4>3. a \in Nat /\ b \in Nat /\ Len(acc) - n \in Int
        BY <1>0, <4>2, Sizes
      <4>4. Len(acc) - n + Cardinality(QuietSince(t, acc[n].received)) >= MaxReports
        BY <1>0, <3>3, <4>1, <4>2, <4>3
      <4> QED
        BY <3>1, <4>4 DEF Kept
    <3>4. CASE QuietSince(rs, acc[n].received) \notin SUBSET QuietSince(t, acc[n].received)
      <4>1. PICK i \in 1 .. Len(rs) : /\ IsHeartbeat(rs[i]) /\ rs[i].received >= acc[n].received
                                      /\ rs[i].source \notin QuietSince(t, acc[n].received) /\ rs[i].source \in Sources
        BY <3>4 DEF QuietSince
      <4>2. ~\E k \in 1 .. Len(t) : o[k] = i
        BY <1>3, <4>1 DEF QuietSince
      <4>3. Len(t) = MaxReports /\ \A k \in 1 .. Len(t) : Ahead(rs, i, o[k])
        BY <1>2, <4>2
      <4>4. ASSUME NEW k \in 1 .. Len(t)
            PROVE  IF IsHeartbeat(t[k]) THEN t[k].received >= acc[n].received ELSE t[k].n > n
        <5>1. PICK j \in 1 .. Len(rs) : j = o[k] /\ t[k] = rs[j] /\ Ahead(rs, i, j)
          BY <1>3, <4>3
        <5>2. rs[j].received \in Nat /\ rs[i].received \in Nat
          BY <1>0, ReportIs
        <5>3. rs[j].received >= acc[n].received
          <6>1. rs[j].received >= rs[i].received
            BY <5>1, <5>2 DEF Ahead
          <6> QED
            BY <2>0, <4>1, <5>2, <6>1
        <5> QED
          BY <3>1, <5>1, <5>3
      <4> QED
        BY <1>0, <1>5, <4>3, <4>4, Crowded
    <3>5. CASE n \in gone
      BY <3>1, <3>5 DEF Kept
    <3> QED
      BY <2>2, <3>2, <3>3, <3>4, <3>5
  <2> QED
    BY <1>6, <2>1, <2>2 DEF Kept
<1>7. ASSUME NEW s \in Sources, NEW v \in Nat, Heard(rs, acc, s, v) PROVE Heard(t, acc, s, v)
  <2> SUFFICES ASSUME \E i \in 1 .. Len(rs) : rs[i].source = s /\ rs[i].received >= v,
                      \A k \in 1 .. Len(t) : ~(t[k].source = s /\ t[k].received >= v)
               PROVE  Cardinality(Since(acc, v)) + Cardinality(Sources) > MaxReports
    BY <1>7 DEF Heard
  <2>1. PICK i \in 1 .. Len(rs) : rs[i].source = s /\ rs[i].received >= v
    OBVIOUS
  <2>2. Len(t) = MaxReports /\ \A k \in 1 .. Len(t) : Ahead(rs, i, o[k])
    BY <1>2, <1>3, <2>1
  <2>3. PICK N, B : N = Since(acc, v) /\ B = Sources \ {s}
    OBVIOUS
  <2>4. t \in Seq(Reports)
    BY <1>5 DEF Consistent
  <2>5. ASSUME NEW k \in 1 .. Len(t)
        PROVE  t[k].received >= v /\ t[k].source \in B /\ (~IsHeartbeat(t[k]) => t[k].n \in N)
    <3>1. PICK j \in 1 .. Len(rs) : j = o[k] /\ t[k] = rs[j] /\ Ahead(rs, i, j)
      BY <1>3, <2>2
    <3>2. rs[j].received \in Nat /\ rs[i].received \in Nat /\ rs[j].source \in Sources
      BY <1>0, ReportIs
    <3>3. t[k].received >= v
      BY <2>1, <3>1, <3>2 DEF Ahead
    <3>4. t[k].source \in B
      BY <2>3, <3>1, <3>2, <3>3
    <3>5. ~IsHeartbeat(t[k]) => t[k].n \in N
      BY <1>5, <2>3, <3>3 DEF Consistent, Since
    <3> QED
      BY <3>3, <3>4, <3>5
  <2>6. IsFiniteSet(N) /\ N \subseteq 1 .. Len(acc) /\ B \subseteq Sources
    <3>1. Len(acc) \in Nat
      BY <1>0
    <3>2. IsFiniteSet(1 .. Len(acc)) /\ N \in SUBSET (1 .. Len(acc))
      BY <2>3, <3>1, FS_Interval DEF Since
    <3> QED
      BY <2>3, <3>2, FS_Subset
  <2>7. Len(t) <= Cardinality(N) + Cardinality(B)
    BY <1>5, <2>5, <2>6, RoomNeeded
  <2>8. Cardinality(B) = Cardinality(Sources) - 1
    BY <2>3, Sizes, FS_RemoveElement
  <2>9. Cardinality(N) \in Nat /\ Cardinality(Sources) \in Nat
    BY <2>6, Sizes, FS_CardinalityType
  <2> QED
    BY <1>0, <2>2, <2>3, <2>7, <2>8, <2>9
<1> QED
  BY <1>1, <1>5, <1>6, <1>7

\* Pruning loses only what is too old or crowded out.
LEMMA PruneKeeps ==
    ASSUME NEW rs, NEW acc, NEW gone, Consistent(rs, acc), Numbered(acc), now \in Nat
    PROVE  /\ Consistent(Prune(rs), acc)
           /\ \A n \in 1 .. Len(acc) : Kept(rs, acc, gone, n) => Kept(Prune(rs), acc, gone, n)
           /\ \A s \in Sources, t \in Nat : Heard(rs, acc, s, t) => Heard(Prune(rs), acc, s, t)
BY YoungKeeps, TrimKeeps DEF Prune

\* A list stays right when a report is accepted that it does not hold.
LEMMA AcceptedElsewhere ==
    ASSUME NEW rs, NEW acc, NEW gone, Consistent(rs, acc), Numbered(acc), now \in Nat,
           NEW r \in Reports, ~IsHeartbeat(r), r.received = now, r.n = Len(acc) + 1
    PROVE  /\ Numbered(Append(acc, r)) /\ Consistent(rs, Append(acc, r))
           /\ \A n \in 1 .. Len(acc) : Kept(rs, acc, gone, n) => Kept(rs, Append(acc, r), gone, n)
           /\ \A s \in Sources, t \in Nat : Heard(rs, acc, s, t) => Heard(rs, Append(acc, r), s, t)
<1>1. PICK a : a = Append(acc, r)
  OBVIOUS
<1>2. acc \in Seq(Reports) /\ Len(acc) \in Nat
  BY DEF Numbered
<1>3. /\ a \in Seq(Reports) /\ Len(a) = Len(acc) + 1
      /\ \A i \in 1 .. Len(acc) : a[i] = acc[i] /\ a[i].received \in Nat
      /\ a[Len(acc) + 1] = r
  BY <1>1, <1>2, ReportIs
<1>4. Numbered(a)
  <2>1. ASSUME NEW i \in 1 .. Len(a) PROVE a[i].n = i /\ ~IsHeartbeat(a[i]) /\ a[i].received <= now
    <3>1. CASE i \in 1 .. Len(acc)
      BY <1>3, <3>1 DEF Numbered
    <3>2. CASE i = Len(acc) + 1
      BY <1>3, <3>2
    <3> QED
      BY <1>2, <1>3, <3>1, <3>2
  <2>2. ASSUME NEW i \in 1 .. Len(a), NEW j \in 1 .. Len(a), i < j PROVE a[i].received <= a[j].received
    <3>1. CASE j \in 1 .. Len(acc)
      BY <1>2, <1>3, <2>2, <3>1 DEF Numbered
    <3>2. CASE j = Len(acc) + 1
      BY <1>3, <2>1, <3>2
    <3> QED
      BY <1>2, <1>3, <3>1, <3>2
  <2> QED
    BY <1>3, <2>1, <2>2 DEF Numbered
<1>5. Consistent(rs, a)
  <2>1. \A i \in 1 .. Len(rs) : ~IsHeartbeat(rs[i]) => rs[i].n \in 1 .. Len(a) /\ a[rs[i].n] = rs[i]
    BY <1>2, <1>3 DEF Consistent
  <2> QED
    BY <2>1 DEF Consistent
<1>6. ASSUME NEW n \in 1 .. Len(acc), Kept(rs, acc, gone, n) PROVE Kept(rs, a, gone, n)
  <2>1. PICK q : q = Cardinality(QuietSince(rs, acc[n].received))
    OBVIOUS
  <2>2. q \in Nat /\ MaxReports \in Nat
    BY <2>1, Sizes
  <2>3. Len(acc) - n + q >= MaxReports => Len(a) - n + q >= MaxReports
    BY <1>2, <1>3, <2>2
  <2>4. a[n] = acc[n]
    BY <1>3
  <2> QED
    BY <1>6, <2>1, <2>3, <2>4 DEF Kept
<1>7. ASSUME NEW s \in Sources, NEW t \in Nat, Heard(rs, acc, s, t) PROVE Heard(rs, a, s, t)
  <2>1. Since(acc, t) \in SUBSET Since(a, t)
    BY <1>2, <1>3 DEF Since
  <2>2. IsFiniteSet(Since(a, t))
    <3>1. Len(a) \in Nat
      BY <1>3
    <3>2. IsFiniteSet(1 .. Len(a)) /\ Since(a, t) \in SUBSET (1 .. Len(a))
      BY <3>1, FS_Interval DEF Since
    <3> QED
      BY <3>2, FS_Subset
  <2>3. IsFiniteSet(Since(acc, t)) /\ Cardinality(Since(acc, t)) <= Cardinality(Since(a, t))
    BY <2>1, <2>2, FS_Subset
  <2>4. Cardinality(Since(acc, t)) \in Nat /\ Cardinality(Since(a, t)) \in Nat
    BY <2>2, <2>3, FS_CardinalityType
  <2>5. MaxReports \in Nat /\ Cardinality(Sources) \in Nat
    BY Sizes
  <2>6. Cardinality(Since(acc, t)) + Cardinality(Sources) > MaxReports =>
            Cardinality(Since(a, t)) + Cardinality(Sources) > MaxReports
    BY <2>3, <2>4, <2>5
  <2> QED
    BY <1>7, <2>6 DEF Heard
<1> QED
  BY <1>1, <1>4, <1>5, <1>6, <1>7

\* A list stays right when a report is accepted and added to it.
LEMMA AcceptedHere ==
    ASSUME NEW rs, NEW acc, NEW gone, Consistent(rs, acc), Numbered(acc), now \in Nat,
           NEW r \in Reports, ~IsHeartbeat(r), r.received = now, r.n = Len(acc) + 1
    PROVE  /\ Consistent(Append(rs, r), Append(acc, r))
           /\ \A n \in 1 .. Len(acc) : Kept(rs, acc, gone, n) => Kept(Append(rs, r), Append(acc, r), gone, n)
           /\ Kept(Append(rs, r), Append(acc, r), gone, Len(acc) + 1)
           /\ \A s \in Sources, t \in Nat : Heard(rs, acc, s, t) => Heard(Append(rs, r), Append(acc, r), s, t)
           /\ Heard(Append(rs, r), Append(acc, r), r.source, now)
<1>1. PICK a, b : a = Append(acc, r) /\ b = Append(rs, r)
  OBVIOUS
<1>2. acc \in Seq(Reports) /\ Len(acc) \in Nat /\ rs \in Seq(Reports) /\ Len(rs) \in Nat
  BY DEF Numbered, Consistent
<1>3. /\ b \in Seq(Reports) /\ Len(b) = Len(rs) + 1
      /\ \A i \in 1 .. Len(rs) : b[i] = rs[i]
      /\ b[Len(rs) + 1] = r
      /\ a[Len(acc) + 1] = r /\ Len(a) = Len(acc) + 1
      /\ \A i \in 1 .. Len(acc) : a[i] = acc[i]
  BY <1>1, <1>2
<1>4. /\ Consistent(rs, a)
      /\ \A n \in 1 .. Len(acc) : Kept(rs, acc, gone, n) => Kept(rs, a, gone, n)
      /\ \A s \in Sources, t \in Nat : Heard(rs, acc, s, t) => Heard(rs, a, s, t)
  BY <1>1, AcceptedElsewhere
<1>5. Consistent(b, a)
  <2>1. ASSUME NEW i \in 1 .. Len(b)
        PROVE  b[i].received <= now /\ (~IsHeartbeat(b[i]) => b[i].n \in 1 .. Len(a) /\ a[b[i].n] = b[i])
    <3>1. CASE i \in 1 .. Len(rs)
      BY <1>3, <1>4, <3>1 DEF Consistent
    <3>2. CASE i = Len(rs) + 1
      BY <1>2, <1>3, <3>2
    <3> QED
      BY <1>2, <1>3, <3>1, <3>2
  <2>2. ASSUME NEW i \in 1 .. Len(b), NEW j \in 1 .. Len(b), i < j, ~IsHeartbeat(b[i]), ~IsHeartbeat(b[j])
        PROVE  b[i].n < b[j].n
    <3>1. CASE j \in 1 .. Len(rs)
      BY SMTT(30), <1>2, <1>3, <2>2, <3>1 DEF Consistent
    <3>2. CASE j = Len(rs) + 1
      <4>1. i \in 1 .. Len(rs)
        BY <1>2, <1>3, <2>2, <3>2
      <4>2. b[i].n \in 1 .. Len(acc)
        BY <1>3, <2>2, <4>1 DEF Consistent
      <4> QED
        BY <1>2, <1>3, <3>2, <4>2
    <3> QED
      BY <1>2, <1>3, <3>1, <3>2
  <2>3. ASSUME NEW i \in 1 .. Len(b), NEW j \in 1 .. Len(b), IsHeartbeat(b[i]), IsHeartbeat(b[j]), b[i].source = b[j].source
        PROVE  i = j
    <3>1. i \in 1 .. Len(rs) /\ j \in 1 .. Len(rs)
      BY <1>2, <1>3, <2>3
    <3> QED
      BY <1>3, <2>3, <3>1 DEF Consistent
  <2> QED
    BY <1>3, <2>1, <2>2, <2>3 DEF Consistent
<1>6. ASSUME NEW n \in 1 .. Len(acc), Kept(rs, a, gone, n) PROVE Kept(b, a, gone, n)
  <2>1. CASE \E i \in 1 .. Len(rs) : rs[i] = a[n]
    BY <1>2, <1>3, <2>1 DEF Kept
  <2>2. CASE /\ \A i \in 1 .. Len(rs) : ~IsHeartbeat(rs[i]) => rs[i].n > n
             /\ \/ a[n].received + Retain < now
                \/ Len(a) - n + Cardinality(QuietSince(rs, a[n].received)) >= MaxReports
                \/ n \in gone
    <3>1. ASSUME NEW i \in 1 .. Len(b), ~IsHeartbeat(b[i]) PROVE b[i].n > n
      <4>1. CASE i \in 1 .. Len(rs)
        BY <1>3, <2>2, <3>1, <4>1
      <4>2. CASE i = Len(rs) + 1
        BY <1>2, <1>3, <4>2
      <4> QED
        BY <1>2, <1>3, <4>1, <4>2
    <3>2. QuietSince(b, a[n].received) = QuietSince(rs, a[n].received)
      <4>1. \A i \in 1 .. Len(b) : IsHeartbeat(b[i]) => i \in 1 .. Len(rs) /\ b[i] = rs[i]
        BY <1>2, <1>3
      <4>2. \A i \in 1 .. Len(rs) : i \in 1 .. Len(b) /\ b[i] = rs[i]
        BY <1>2, <1>3
      <4> QED
        BY <4>1, <4>2 DEF QuietSince
    <3> QED
      BY <2>2, <3>1, <3>2 DEF Kept
  <2> QED
    BY <1>6, <2>1, <2>2 DEF Kept
<1>7. Len(rs) + 1 \in 1 .. Len(b)
  BY <1>2, <1>3
<1>8. Kept(b, a, gone, Len(acc) + 1)
  BY <1>3, <1>7 DEF Kept
<1>9. ASSUME NEW s \in Sources, NEW t \in Nat, Heard(rs, a, s, t) PROVE Heard(b, a, s, t)
  BY <1>2, <1>3, <1>9 DEF Heard
<1>10. Heard(b, a, r.source, now)
  BY <1>3, <1>7 DEF Heard
<1> QED
  BY <1>1, <1>4, <1>5, <1>6, <1>8, <1>9, <1>10

\* What a heartbeat makes of a list.
Folded(rs, r) ==
    LET mine == {i \in DOMAIN rs : rs[i].source = r.source /\ IsHeartbeat(rs[i])}
    IN  IF mine = {} THEN Append(rs, r) ELSE [i \in DOMAIN rs |-> IF i \in mine THEN r ELSE rs[i]]

\* A list stays right when a heartbeat is folded into it.
LEMMA BeatKeeps ==
    ASSUME NEW rs, NEW acc, NEW gone, Consistent(rs, acc), Numbered(acc), now \in Nat,
           NEW r \in Reports, IsHeartbeat(r), r.received = now
    PROVE  /\ Consistent(Folded(rs, r), acc)
           /\ \A n \in 1 .. Len(acc) : Kept(rs, acc, gone, n) => Kept(Folded(rs, r), acc, gone, n)
           /\ \A s \in Sources, t \in Nat : t <= now /\ Heard(rs, acc, s, t) => Heard(Folded(rs, r), acc, s, t)
           /\ Heard(Folded(rs, r), acc, r.source, now)
<1>1. PICK b : b = Folded(rs, r)
  OBVIOUS
<1>2. rs \in Seq(Reports) /\ Len(rs) \in Nat /\ DOMAIN rs = 1 .. Len(rs) /\ acc \in Seq(Reports) /\ Len(acc) \in Nat
  BY DEF Consistent, Numbered
<1>3. PICK mine : mine = {i \in 1 .. Len(rs) : rs[i].source = r.source /\ IsHeartbeat(rs[i])}
  OBVIOUS
\* Either way b is rs with r at the place of the source's heartbeat, a new one if there was none.
<1>4. /\ b \in Seq(Reports) /\ Len(b) >= Len(rs)
      /\ \A i \in 1 .. Len(rs) : b[i] = IF i \in mine THEN r ELSE rs[i]
      /\ \A i \in 1 .. Len(b) : i \notin 1 .. Len(rs) => b[i] = r /\ mine = {} /\ i = Len(rs) + 1
      /\ \E i \in 1 .. Len(b) : b[i] = r
  <2>1. CASE mine = {}
    <3>1. b = Append(rs, r)
      BY <1>1, <1>2, <1>3, <2>1 DEF Folded
    <3>2. b \in Seq(Reports) /\ Len(b) = Len(rs) + 1 /\ b[Len(rs) + 1] = r /\ \A i \in 1 .. Len(rs) : b[i] = rs[i]
      BY <1>2, <3>1
    <3> QED
      BY <1>2, <2>1, <3>2
  <2>2. CASE mine # {}
    <3>1. b = [i \in 1 .. Len(rs) |-> IF i \in mine THEN r ELSE rs[i]]
      BY <1>1, <1>2, <1>3, <2>2 DEF Folded
    <3>2. b \in [1 .. Len(rs) -> Reports]
      BY <1>2, <3>1
    <3>3. b \in Seq(Reports) /\ Len(b) = Len(rs)
      BY <1>2, <3>2
    <3>4. PICK i \in mine : i \in 1 .. Len(rs)
      BY <1>3, <2>2
    <3>5. b[i] = r
      BY <3>1, <3>4
    <3> QED
      BY <1>2, <3>1, <3>3, <3>4, <3>5
  <2> QED
    BY <2>1, <2>2
<1>5. ASSUME NEW i \in 1 .. Len(b), ~IsHeartbeat(b[i]) PROVE i \in 1 .. Len(rs) /\ b[i] = rs[i]
  BY <1>4, <1>5
<1>6. ASSUME NEW i \in 1 .. Len(rs), ~IsHeartbeat(rs[i]) PROVE i \in 1 .. Len(b) /\ b[i] = rs[i]
  BY <1>2, <1>3, <1>4, <1>6
<1>7. ASSUME NEW i \in 1 .. Len(rs)
      PROVE  /\ i \in 1 .. Len(b) /\ b[i].source = rs[i].source /\ (b[i].received = rs[i].received \/ b[i].received = now)
             /\ IsHeartbeat(rs[i]) => IsHeartbeat(b[i])
  BY <1>2, <1>3, <1>4
<1>8. Consistent(b, acc)
  <2>1. ASSUME NEW i \in 1 .. Len(b) PROVE b[i].received <= now
    BY <1>4 DEF Consistent
  <2>2. ASSUME NEW i \in 1 .. Len(b), NEW j \in 1 .. Len(b), IsHeartbeat(b[i]), IsHeartbeat(b[j]), b[i].source = b[j].source
        PROVE  i = j
    <3>1. CASE i \in 1 .. Len(rs) /\ j \in 1 .. Len(rs)
      <4>1. IsHeartbeat(rs[i]) /\ IsHeartbeat(rs[j])
        BY <1>3, <1>4, <2>2, <3>1
      <4>2. rs[i].source = rs[j].source
        BY <1>7, <2>2, <3>1
      <4> QED
        BY <3>1, <4>1, <4>2 DEF Consistent
    <3>2. CASE i \notin 1 .. Len(rs) /\ j \notin 1 .. Len(rs)
      BY <1>4, <3>2
    <3>3. ASSUME NEW x \in 1 .. Len(rs), NEW y \in 1 .. Len(b), y \notin 1 .. Len(rs), IsHeartbeat(b[x]), b[x].source = b[y].source
          PROVE  FALSE
      <4>1. mine = {} /\ b[y] = r /\ b[x] = rs[x]
        BY <1>4, <3>3
      <4>2. x \in mine
        BY <1>3, <3>3, <4>1
      <4> QED
        BY <4>1, <4>2
    <3> QED
      BY <2>2, <3>1, <3>2, <3>3
  <2>3. \A i \in 1 .. Len(b) : ~IsHeartbeat(b[i]) => b[i].n \in 1 .. Len(acc) /\ acc[b[i].n] = b[i]
    BY <1>5 DEF Consistent
  <2>4. \A i, j \in 1 .. Len(b) : i < j /\ ~IsHeartbeat(b[i]) /\ ~IsHeartbeat(b[j]) => b[i].n < b[j].n
    BY <1>5 DEF Consistent
  <2> QED
    BY <1>4, <2>1, <2>2, <2>3, <2>4 DEF Consistent
<1>9. ASSUME NEW n \in 1 .. Len(acc), Kept(rs, acc, gone, n) PROVE Kept(b, acc, gone, n)
  <2>0. acc[n].received \in Nat /\ acc[n].received <= now /\ ~IsHeartbeat(acc[n])
    BY <1>2, ReportIs DEF Numbered
  <2>1. CASE \E i \in 1 .. Len(rs) : rs[i] = acc[n]
    <3>1. PICK i \in 1 .. Len(rs) : rs[i] = acc[n]
      BY <2>1
    <3>2. i \in 1 .. Len(b) /\ b[i] = acc[n]
      BY <1>6, <2>0, <3>1
    <3> QED
      BY <3>2 DEF Kept
  <2>2. CASE /\ \A i \in 1 .. Len(rs) : ~IsHeartbeat(rs[i]) => rs[i].n > n
             /\ \/ acc[n].received + Retain < now
                \/ Len(acc) - n + Cardinality(QuietSince(rs, acc[n].received)) >= MaxReports
                \/ n \in gone
    <3>1. \A i \in 1 .. Len(b) : ~IsHeartbeat(b[i]) => b[i].n > n
      BY <1>5, <2>2
    <3>2. QuietSince(rs, acc[n].received) \in SUBSET QuietSince(b, acc[n].received)
      <4> SUFFICES ASSUME NEW s \in Sources, NEW i \in 1 .. Len(rs), IsHeartbeat(rs[i]), rs[i].source = s,
                          rs[i].received >= acc[n].received
                   PROVE  s \in QuietSince(b, acc[n].received)
        BY DEF QuietSince
      <4>1. i \in 1 .. Len(b) /\ IsHeartbeat(b[i]) /\ b[i].source = s /\ b[i].received >= acc[n].received
        BY <1>7, <2>0
      <4> QED
        BY <4>1 DEF QuietSince
    <3>3. PICK x, y : x = Cardinality(QuietSince(rs, acc[n].received)) /\ y = Cardinality(QuietSince(b, acc[n].received))
      OBVIOUS
    <3>4. x \in Nat /\ y \in Nat /\ x <= y /\ MaxReports \in Nat
      BY <3>2, <3>3, Sizes, FS_Subset
    <3>5. Len(acc) - n + x >= MaxReports => Len(acc) - n + y >= MaxReports
      BY <1>2, <3>4
    <3> QED
      BY <2>2, <3>1, <3>3, <3>5 DEF Kept
  <2> QED
    BY <1>9, <2>1, <2>2 DEF Kept
<1>10. ASSUME NEW s \in Sources, NEW t \in Nat, t <= now, Heard(rs, acc, s, t) PROVE Heard(b, acc, s, t)
  <2>1. \A i \in 1 .. Len(rs) : rs[i].source = s /\ rs[i].received >= t =>
            i \in 1 .. Len(b) /\ b[i].source = s /\ b[i].received >= t
    BY <1>7, <1>10
  <2> QED
    BY <1>10, <2>1 DEF Heard
<1>11. Heard(b, acc, r.source, now)
  BY <1>4 DEF Heard
<1> QED
  BY <1>1, <1>8, <1>9, <1>10, <1>11
-----------------------------------------------------------------------------
(* The inductive invariant of the store.                                    *)

\* A finding is called by its report's number.
Named(acc) == \A i \in 1 .. Len(acc) : acc[i].finding = <<>> \/ acc[i].finding = <<i>>

StoreInv ==
    /\ now \in Nat
    /\ Numbered(accepted) /\ Named(accepted)
    /\ Consistent(reports, accepted) /\ Consistent(disk, accepted)
    /\ unsaved \subseteq 1 .. Len(accepted) /\ lost \subseteq 1 .. Len(accepted) /\ unread \subseteq 1 .. Len(accepted)
    /\ heard \in [Sources -> Nat \cup {Never}]
    /\ \A n \in 1 .. Len(accepted) : n \notin lost => Kept(reports, accepted, unread, n)
    /\ \A n \in 1 .. Len(accepted) : n \notin lost /\ n \notin unsaved => Kept(disk, accepted, unread, n)
    /\ \A s \in Sources : heard[s] # Never => heard[s] <= now /\ Heard(reports, accepted, s, heard[s])

LEMMA StoreInit == Init => StoreInv
<1> SUFFICES ASSUME Init PROVE StoreInv
  OBVIOUS
<1>1. /\ now = 0 /\ reports = <<>> /\ disk = <<>> /\ accepted = <<>> /\ unsaved = {} /\ lost = {} /\ unread = {}
      /\ heard = [s \in Sources |-> Never]
  BY DEF Init
<1>2. Len(<<>>) = 0 /\ <<>> \in Seq(Reports)
  OBVIOUS
<1>3. Numbered(accepted) /\ Named(accepted) /\ Consistent(reports, accepted) /\ Consistent(disk, accepted)
  BY <1>1, <1>2 DEF Numbered, Named, Consistent
<1> QED
  BY <1>1, <1>2, <1>3 DEF StoreInv

\* A heartbeat is folded in.
LEMMA StoreBeat ==
    ASSUME StoreInv, NEW r \in Reports, IsHeartbeat(r), r.received = now,
           Beat(r), UNCHANGED <<now, disk, accepted, unsaved, lost, unread>>, heard' = [heard EXCEPT ![r.source] = now]
    PROVE  StoreInv'
<1>1. reports' = Folded(reports, r)
  BY DEF Beat, Folded
<1>2. PICK b : b = Folded(reports, r)
  OBVIOUS
<1>3. /\ Consistent(b, accepted)
      /\ \A n \in 1 .. Len(accepted) : Kept(reports, accepted, unread, n) => Kept(b, accepted, unread, n)
      /\ \A s \in Sources, t \in Nat : t <= now /\ Heard(reports, accepted, s, t) => Heard(b, accepted, s, t)
      /\ Heard(b, accepted, r.source, now)
  BY <1>2, BeatKeeps DEF StoreInv
<1>4. now' = now /\ accepted' = accepted /\ disk' = disk /\ unsaved' = unsaved /\ lost' = lost
      /\ unread' = unread /\ reports' = b
  BY <1>1, <1>2
<1>5. Consistent(reports, accepted)'
  BY <1>3, <1>4 DEF Consistent
<1>6. /\ now' \in Nat /\ Numbered(accepted)' /\ Named(accepted)' /\ Consistent(disk, accepted)'
      /\ unsaved' \subseteq 1 .. Len(accepted') /\ lost' \subseteq 1 .. Len(accepted') /\ unread' \subseteq 1 .. Len(accepted')
  BY <1>4 DEF StoreInv, Numbered, Named, Consistent
<1>7. ASSUME NEW n \in 1 .. Len(accepted), n \notin lost PROVE Kept(reports, accepted, unread, n)'
  <2>1. Kept(b, accepted, unread, n)
    BY <1>3, <1>7 DEF StoreInv
  <2> QED
    BY <1>4, <2>1 DEF Kept, QuietSince
<1>8. ASSUME NEW n \in 1 .. Len(accepted), n \notin lost, n \notin unsaved PROVE Kept(disk, accepted, unread, n)'
  <2>1. Kept(disk, accepted, unread, n)
    BY <1>8 DEF StoreInv
  <2> QED
    BY <1>4, <2>1 DEF Kept, QuietSince
<1>9. heard' \in [Sources -> Nat \cup {Never}] /\ r.source \in Sources
  BY ReportIs DEF StoreInv
<1>10. ASSUME NEW s \in Sources, heard'[s] # Never PROVE heard'[s] <= now' /\ Heard(reports, accepted, s, heard[s])'
  <2>1. PICK t : t = heard'[s]
    OBVIOUS
  <2>2. t \in Nat /\ t <= now /\ Heard(b, accepted, s, t)
    <3>1. CASE s = r.source
      <4>1. t = now
        BY <1>9, <2>1, <3>1 DEF StoreInv
      <4> QED
        BY <1>3, <3>1, <4>1 DEF StoreInv
    <3>2. CASE s # r.source
      <4>1. t = heard[s]
        BY <1>9, <2>1, <3>2 DEF StoreInv
      <4>2. t \in Nat /\ t <= now /\ Heard(reports, accepted, s, t)
        BY <1>10, <2>1, <4>1 DEF StoreInv
      <4> QED
        BY <1>3, <4>2
    <3> QED
      BY <3>1, <3>2
  <2>3. Heard(b, accepted, s, t)
    BY <2>2
  <2>4. Heard(reports, accepted, s, heard[s])'
    BY <1>4, <2>1, <2>3 DEF Heard, Since
  <2> QED
    BY <1>4, <2>1, <2>2, <2>4
<1> QED
  BY <1>4, <1>5, <1>6, <1>7, <1>8, <1>9, <1>10 DEF StoreInv

\* A report that is not a heartbeat is added, the store pruned and the snapshot written, or not.
LEMMA StoreReport ==
    ASSUME StoreInv, NEW r \in Reports, ~IsHeartbeat(r), r.received = now, r.n = Len(accepted) + 1,
           r.finding = <<>> \/ r.finding = <<r.n>>,
           AddReport(r), UNCHANGED <<now, lost, unread>>, heard' = [heard EXCEPT ![r.source] = now]
    PROVE  StoreInv'
<1>1. PICK a, b, c : a = Append(accepted, r) /\ b = Append(reports, r) /\ c = Prune(b)
  OBVIOUS
<1>2. /\ now' = now /\ lost' = lost /\ unread' = unread /\ accepted' = a /\ reports' = c
      /\ \/ disk' = c /\ unsaved' = {}
         \/ unsaved' = unsaved \cup {r.n} /\ disk' = disk
  BY <1>1 DEF AddReport, Save
<1>3. accepted \in Seq(Reports) /\ Len(accepted) \in Nat
  BY DEF StoreInv, Numbered
<1>4. /\ Numbered(a) /\ Consistent(disk, a)
      /\ \A n \in 1 .. Len(accepted) : Kept(disk, accepted, unread, n) => Kept(disk, a, unread, n)
  BY <1>1, AcceptedElsewhere DEF StoreInv
<1>5. /\ Consistent(b, a)
      /\ \A n \in 1 .. Len(accepted) : Kept(reports, accepted, unread, n) => Kept(b, a, unread, n)
      /\ Kept(b, a, unread, Len(accepted) + 1)
      /\ \A s \in Sources, t \in Nat : Heard(reports, accepted, s, t) => Heard(b, a, s, t)
      /\ Heard(b, a, r.source, now)
  BY <1>1, AcceptedHere DEF StoreInv
<1>6. /\ Consistent(c, a)
      /\ \A n \in 1 .. Len(a) : Kept(b, a, unread, n) => Kept(c, a, unread, n)
      /\ \A s \in Sources, t \in Nat : Heard(b, a, s, t) => Heard(c, a, s, t)
  BY <1>1, <1>4, <1>5, PruneKeeps DEF StoreInv
<1>7. /\ Len(a) = Len(accepted) + 1 /\ a[Len(accepted) + 1] = r
      /\ \A n \in 1 .. Len(accepted) : a[n] = accepted[n]
      /\ \A n \in 1 .. Len(a) : n \in 1 .. Len(accepted) \/ n = Len(accepted) + 1
      /\ \A n \in 1 .. Len(accepted) : n \in 1 .. Len(a)
  BY <1>1, <1>3
<1>8. now' \in Nat /\ Numbered(accepted)' /\ Consistent(reports, accepted)'
  BY <1>2, <1>4, <1>6 DEF StoreInv, Numbered, Consistent
<1>9. Consistent(disk, accepted)'
  BY <1>2, <1>4, <1>6 DEF Consistent
<1>10. Named(accepted)'
  <2>1. ASSUME NEW i \in 1 .. Len(a) PROVE a[i].finding = <<>> \/ a[i].finding = <<i>>
    <3>1. CASE i \in 1 .. Len(accepted)
      BY <1>7, <3>1 DEF StoreInv, Named
    <3>2. CASE i = Len(accepted) + 1
      BY <1>7, <3>2
    <3> QED
      BY <1>7, <3>1, <3>2
  <2> QED
    BY <1>2, <2>1 DEF Named
<1>11. unsaved' \subseteq 1 .. Len(accepted') /\ lost' \subseteq 1 .. Len(accepted') /\ unread' \subseteq 1 .. Len(accepted')
  <2>1. r.n \in 1 .. Len(a)
    BY <1>3, <1>7
  <2>2. unsaved \subseteq 1 .. Len(a) /\ lost \subseteq 1 .. Len(a) /\ unread \subseteq 1 .. Len(a)
    BY <1>7 DEF StoreInv
  <2> QED
    BY <1>2, <2>1, <2>2
<1>12. ASSUME NEW n \in 1 .. Len(a), n \notin lost PROVE Kept(c, a, unread, n)
  BY <1>5, <1>6, <1>7, <1>12 DEF StoreInv
<1>13. ASSUME NEW n \in 1 .. Len(accepted'), n \notin lost' PROVE Kept(reports, accepted, unread, n)'
  <2>1. Kept(c, a, unread, n)
    BY <1>2, <1>12, <1>13
  <2> QED
    BY <1>2, <2>1 DEF Kept, QuietSince
<1>14. ASSUME NEW n \in 1 .. Len(accepted'), n \notin lost', n \notin unsaved' PROVE Kept(disk, accepted, unread, n)'
  <2>1. CASE disk' = c
    <3>1. Kept(c, a, unread, n)
      BY <1>2, <1>12, <1>14
    <3> QED
      BY <1>2, <2>1, <3>1 DEF Kept, QuietSince
  <2>2. CASE unsaved' = unsaved \cup {r.n} /\ disk' = disk
    <3>1. n \in 1 .. Len(accepted) /\ n \notin unsaved /\ n \notin lost
      BY <1>2, <1>7, <1>14, <2>2
    <3>2. Kept(disk, a, unread, n)
      BY <1>4, <3>1 DEF StoreInv
    <3> QED
      BY <1>2, <2>2, <3>2 DEF Kept, QuietSince
  <2> QED
    BY <1>2, <2>1, <2>2
<1>15. heard' \in [Sources -> Nat \cup {Never}] /\ r.source \in Sources
  BY ReportIs DEF StoreInv
<1>16. ASSUME NEW s \in Sources, heard'[s] # Never PROVE heard'[s] <= now' /\ Heard(reports, accepted, s, heard[s])'
  <2>1. PICK t : t = heard'[s]
    OBVIOUS
  <2>2. t \in Nat /\ t <= now /\ Heard(b, a, s, t)
    <3>1. CASE s = r.source
      <4>1. t = now
        BY <1>15, <2>1, <3>1 DEF StoreInv
      <4> QED
        BY <1>5, <3>1, <4>1 DEF StoreInv
    <3>2. CASE s # r.source
      <4>1. t = heard[s]
        BY <1>15, <2>1, <3>2 DEF StoreInv
      <4>2. t \in Nat /\ t <= now /\ Heard(reports, accepted, s, t)
        BY <1>16, <2>1, <4>1 DEF StoreInv
      <4> QED
        BY <1>5, <4>2
    <3> QED
      BY <3>1, <3>2
  <2>3. Heard(c, a, s, t)
    BY <1>6, <2>2
  <2>4. Heard(reports, accepted, s, heard[s])'
    BY <1>2, <2>1, <2>3 DEF Heard, Since
  <2> QED
    BY <1>2, <2>1, <2>2, <2>4
<1> QED
  BY <1>8, <1>9, <1>10, <1>11, <1>13, <1>14, <1>15, <1>16 DEF StoreInv

\* The snapshot is read and pruned, or it is not and the store starts empty.
LEMMA StoreRestart == StoreInv /\ Restart => StoreInv'
<1> SUFFICES ASSUME StoreInv, Restart PROVE StoreInv'
  OBVIOUS
<1>1. PICK c, u : c = reports' /\ u = unread'
  OBVIOUS
<1>2. /\ now' = now /\ accepted' = accepted /\ disk' = disk /\ reports' = c /\ unread' = u
      /\ lost' = lost \cup unsaved /\ unsaved' = {} /\ heard' = [s \in Sources |-> Never]
  BY <1>1 DEF Restart
<1>3. disk \in Seq(Reports) /\ Consistent(disk, accepted) /\ Numbered(accepted) /\ now \in Nat
  BY DEF StoreInv, Consistent
\* What holds of the snapshot holds of it whatever is given up, and of what is made of it.
<1>4. /\ Consistent(c, accepted) /\ u \subseteq 1 .. Len(accepted)
      /\ \A n \in 1 .. Len(accepted) : Kept(disk, accepted, unread, n) =>
            Kept(disk, accepted, u, n) /\ Kept(c, accepted, u, n)
  <2>1. CASE c = Prune(disk) /\ u = unread \ {r.n : r \in {q \in ToSet(disk) : ~IsHeartbeat(q)}}
    <3>1. ASSUME NEW n \in 1 .. Len(accepted), Kept(disk, accepted, unread, n) PROVE Kept(disk, accepted, u, n)
      <4>1. CASE \E i \in 1 .. Len(disk) : disk[i] = accepted[n]
        BY <4>1 DEF Kept
      <4>2. CASE ~\E i \in 1 .. Len(disk) : disk[i] = accepted[n]
        <5>1. \A i \in 1 .. Len(disk) : ~IsHeartbeat(disk[i]) => disk[i].n > n
          BY <3>1, <4>2 DEF Kept
        <5>2. CASE n \notin unread
          BY <3>1, <4>2, <5>2 DEF Kept
        <5>3. CASE n \in u
          BY <5>1, <5>3 DEF Kept
        <5>4. CASE n \in unread /\ n \notin u
          <6>1. PICK i \in 1 .. Len(disk) : disk[i].n = n /\ ~IsHeartbeat(disk[i])
            BY <1>3, <2>1, <5>4 DEF ToSet
          <6> QED
            BY <1>3, <5>1, <6>1
        <5> QED
          BY <5>2, <5>3, <5>4
      <4> QED
        BY <4>1, <4>2
    <3>2. /\ Consistent(c, accepted)
          /\ \A n \in 1 .. Len(accepted) : Kept(disk, accepted, u, n) => Kept(c, accepted, u, n)
      BY <1>3, <2>1, PruneKeeps
    <3>3. u \subseteq 1 .. Len(accepted)
      BY <2>1 DEF StoreInv
    <3> QED
      BY <3>1, <3>2, <3>3
  <2>2. CASE c = <<>> /\ u = unread \cup (1 .. Len(accepted))
    <3>1. Len(<<>>) = 0 /\ <<>> \in Seq(Reports)
      OBVIOUS
    <3>2. Consistent(c, accepted) /\ u = 1 .. Len(accepted)
      <4>1. Consistent(c, accepted)
        BY <2>2, <3>1 DEF Consistent
      <4>2. u = 1 .. Len(accepted)
        BY <2>2 DEF StoreInv
      <4> QED
        BY <4>1, <4>2
    <3>3. \A n \in 1 .. Len(accepted) : Kept(c, accepted, u, n)
      BY <2>2, <3>1, <3>2 DEF Kept
    <3>4. \A n \in 1 .. Len(accepted) : Kept(disk, accepted, unread, n) => Kept(disk, accepted, u, n)
      BY <3>2 DEF Kept
    <3> QED
      BY <3>2, <3>3, <3>4
  <2> QED
    BY <1>1, <2>1, <2>2 DEF Restart, Load
<1>5. /\ now' \in Nat /\ Numbered(accepted)' /\ Named(accepted)' /\ Consistent(disk, accepted)'
      /\ Consistent(reports, accepted)'
  BY <1>2, <1>4 DEF StoreInv, Numbered, Named, Consistent
<1>6. /\ unsaved' \subseteq 1 .. Len(accepted') /\ lost' \subseteq 1 .. Len(accepted') /\ unread' \subseteq 1 .. Len(accepted')
      /\ heard' \in [Sources -> Nat \cup {Never}] /\ \A s \in Sources : heard'[s] = Never
  BY <1>2, <1>4 DEF StoreInv
<1>7. ASSUME NEW n \in 1 .. Len(accepted'), n \notin lost'
      PROVE  Kept(reports, accepted, unread, n)' /\ Kept(disk, accepted, unread, n)'
  <2>1. Kept(disk, accepted, unread, n)
    BY <1>2, <1>7 DEF StoreInv
  <2>2. Kept(disk, accepted, u, n) /\ Kept(c, accepted, u, n)
    BY <1>2, <1>4, <2>1
  <2> QED
    BY <1>2, <2>2 DEF Kept, QuietSince
<1> QED
  BY <1>5, <1>6, <1>7 DEF StoreInv

\* With time reports only age.
LEMMA StoreTick == StoreInv /\ Tick => StoreInv'
<1> SUFFICES ASSUME StoreInv, Tick PROVE StoreInv'
  OBVIOUS
<1>1. /\ now' = now + 1 /\ now \in Nat /\ reports' = reports /\ accepted' = accepted /\ disk' = disk
      /\ lost' = lost /\ unsaved' = unsaved /\ unread' = unread /\ heard' = heard
  BY DEF Tick, store, StoreInv
<1>2. \A r \in Reports : r.received \in Nat
  BY ReportIs
<1>3. Numbered(accepted)' /\ Named(accepted)'
  <2>1. \A i \in 1 .. Len(accepted) : accepted[i].received \in Nat
    BY <1>2 DEF StoreInv, Numbered
  <2>2. \A i \in 1 .. Len(accepted) : accepted[i].received <= now'
    BY <1>1, <2>1 DEF StoreInv, Numbered
  <2> QED
    BY <1>1, <2>2 DEF StoreInv, Numbered, Named
<1>4. ASSUME NEW rs, Consistent(rs, accepted) PROVE \A i \in 1 .. Len(rs) : rs[i].received <= now'
  <2>1. \A i \in 1 .. Len(rs) : rs[i].received \in Nat /\ rs[i].received <= now
    BY <1>2, <1>4 DEF Consistent
  <2> QED
    BY <1>1, <2>1
<1>5. Consistent(reports, accepted)' /\ Consistent(disk, accepted)'
  BY <1>1, <1>4 DEF StoreInv, Consistent
<1>6. ASSUME NEW n \in 1 .. Len(accepted)
      PROVE  accepted[n].received + Retain < now => accepted[n].received + Retain < now'
  <2>1. accepted[n].received \in Nat /\ Retain \in Nat
    BY <1>2, Sizes DEF StoreInv, Numbered
  <2> QED
    BY <1>1, <2>1
<1>7. ASSUME NEW n \in 1 .. Len(accepted), n \notin lost PROVE Kept(reports, accepted, unread, n)'
  <2>1. Kept(reports, accepted, unread, n)
    BY <1>7 DEF StoreInv
  <2> QED
    BY <1>1, <1>6, <2>1 DEF Kept, QuietSince
<1>8. ASSUME NEW n \in 1 .. Len(accepted), n \notin lost, n \notin unsaved PROVE Kept(disk, accepted, unread, n)'
  <2>1. Kept(disk, accepted, unread, n)
    BY <1>8 DEF StoreInv
  <2> QED
    BY <1>1, <1>6, <2>1 DEF Kept, QuietSince
<1>9. ASSUME NEW s \in Sources, heard'[s] # Never PROVE heard'[s] <= now' /\ Heard(reports, accepted, s, heard[s])'
  <2>1. PICK t : t = heard[s]
    OBVIOUS
  <2>2. t \in Nat /\ t <= now /\ Heard(reports, accepted, s, t) /\ heard'[s] = t
    BY <1>1, <1>9, <2>1 DEF StoreInv
  <2>3. t + Retain < now => t + Retain < now'
    BY <1>1, <2>2, Sizes
  <2> QED
    BY <1>1, <2>1, <2>2, <2>3 DEF Heard, Since
<1> QED
  BY <1>1, <1>3, <1>5, <1>7, <1>8, <1>9 DEF StoreInv

LEMMA StoreNext == StoreInv /\ [Next]_vars => StoreInv'
<1> SUFFICES ASSUME StoreInv, [Next]_vars PROVE StoreInv'
  OBVIOUS
<1>1. ASSUME UNCHANGED <<now, store>> PROVE StoreInv'
  <2>1. /\ now' = now /\ reports' = reports /\ accepted' = accepted /\ disk' = disk
        /\ lost' = lost /\ unsaved' = unsaved /\ unread' = unread /\ heard' = heard
    BY <1>1 DEF store
  <2>2. Numbered(accepted)' /\ Named(accepted)' /\ Consistent(reports, accepted)' /\ Consistent(disk, accepted)'
    BY <2>1 DEF StoreInv, Numbered, Named, Consistent
  <2>3. ASSUME NEW n \in 1 .. Len(accepted)
        PROVE  /\ Kept(reports, accepted, unread, n) => Kept(reports, accepted, unread, n)'
               /\ Kept(disk, accepted, unread, n) => Kept(disk, accepted, unread, n)'
    BY <2>1 DEF Kept, QuietSince
  <2>4. ASSUME NEW s \in Sources PROVE Heard(reports, accepted, s, heard[s]) => Heard(reports, accepted, s, heard[s])'
    BY <2>1 DEF Heard, Since
  <2> QED
    BY <2>1, <2>2, <2>3, <2>4 DEF StoreInv
<1>2. ASSUME NEW s \in Sources, NEW append \in BOOLEAN, NEW some \in BOOLEAN, Ingest(s, append, some)
      PROVE  StoreInv'
  <2>1. PICK r : r = [source |-> s, append |-> append, received |-> now,
                      n |-> IF append /\ ~some THEN 0 ELSE Len(accepted) + 1,
                      finding |-> IF some THEN <<Len(accepted) + 1>> ELSE <<>>]
    OBVIOUS
  <2>2. AddReport(r) /\ UNCHANGED <<now, lost, unread>> /\ heard' = [heard EXCEPT ![r.source] = now]
    BY <1>2, <2>1 DEF Ingest
  <2>3. /\ now \in Nat /\ Len(accepted) \in Nat
        /\ (append /\ ~some) \/ Len(accepted) + 1 \in 1 .. MaxAccepted
        /\ MaxAccepted \in Nat
    <3>1. now \in Nat /\ Len(accepted) \in Nat /\ MaxAccepted \in Nat
      BY CollectorAssumption DEF StoreInv, Numbered
    <3>2. (append /\ ~some) \/ Len(accepted) < MaxAccepted
      BY <1>2 DEF Ingest
    <3> QED
      BY <3>1, <3>2
  <2>4. CASE append /\ ~some
    <3>1. r.append = TRUE /\ r.n = 0 /\ r.finding = <<>> /\ r.source = s /\ r.received = now
      BY <2>1, <2>4
    <3>2. r \in Reports
      <4>1. r = [source |-> s, append |-> TRUE, received |-> now, n |-> 0, finding |-> <<>>]
        BY <2>1, <2>4
      <4> QED
        BY <2>3, <4>1 DEF Reports
    <3>3. IsHeartbeat(r)
      BY <3>1 DEF IsHeartbeat
    <3>4. Beat(r) /\ UNCHANGED <<disk, accepted, unsaved>>
      BY <2>2, <3>3 DEF AddReport
    <3> QED
      BY <2>2, <3>1, <3>2, <3>3, <3>4, StoreBeat
  <2>5. CASE ~(append /\ ~some)
    <3>1. /\ r.append = append /\ r.n = Len(accepted) + 1 /\ r.source = s /\ r.received = now
          /\ r.finding = IF some THEN <<Len(accepted) + 1>> ELSE <<>>
      BY <2>1, <2>5
    <3>2. r \in Reports
      <4>1. PICK n : n = Len(accepted) + 1 /\ n \in 1 .. MaxAccepted /\ n \in 0 .. MaxAccepted
        BY <2>3, <2>5
      <4>2. PICK f : f = IF some THEN <<n>> ELSE <<>>
        OBVIOUS
      <4>3. f \in {<<>>} \cup {<<g>> : g \in 1 .. MaxAccepted}
        BY <4>1, <4>2
      <4>4. r = [source |-> s, append |-> append, received |-> now, n |-> n, finding |-> f]
        BY <2>1, <2>5, <4>1, <4>2
      <4> QED
        BY <2>3, <4>1, <4>3, <4>4 DEF Reports
    <3>3. r.finding = <<>> \/ r.finding = <<r.n>>
      BY <3>1
    <3>4. ~IsHeartbeat(r)
      <4>1. some => r.finding # <<>>
        BY <3>1
      <4> QED
        BY <2>5, <3>1, <4>1 DEF IsHeartbeat
    <3> QED
      BY <2>2, <3>1, <3>2, <3>3, <3>4, StoreReport
  <2> QED
    BY <2>4, <2>5
<1>3. ASSUME NEW o \in Operators, Forward(o) \/ Execute(o) \/ Record(o) \/ Answer(o) PROVE StoreInv'
  BY <1>1, <1>3 DEF Forward, Execute, Record, Answer
<1>4. ASSUME NEW o \in Operators, NEW outcome, Respond(o, outcome) \/ Returned(o, outcome) PROVE StoreInv'
  BY <1>1, <1>4 DEF Respond, Returned
<1>5. CASE Restart
  BY <1>5, StoreRestart
<1>6. CASE Tick
  BY <1>6, StoreTick
<1>7. CASE UNCHANGED vars
  BY <1>1, <1>7 DEF vars
<1> QED
  BY <1>2, <1>3, <1>4, <1>5, <1>6, <1>7 DEF Next

\* The store is right about what it accepted in every state.
LEMMA StoreAlways == Spec => []StoreInv
BY StoreInit, StoreNext, PTL DEF Spec
-----------------------------------------------------------------------------
(* What follows for the reader.                                             *)

\* An accepted report stays in the store: it goes only by age, when newer ones fill the store but for
\* one place per quiet source, with a snapshot that was not written, or at a start that could not read
\* it, and then until a later start does (AddReport, prune, save, load).
THEOREM HistoryIsKept == Spec => []HistoryKept
<1>1. StoreInv => HistoryKept
  <2> SUFFICES ASSUME StoreInv, NEW r \in ToSet(accepted), r \notin ToSet(reports), r.n \notin lost,
                      r.n \notin unread, ~(r.received + Retain < now)
               PROVE  After(r.n) >= MaxReports - Cardinality({p.source : p \in {q \in ToSet(reports) : IsHeartbeat(q)}})
    BY DEF HistoryKept, InPlace
  <2>1. /\ accepted \in Seq(Reports) /\ reports \in Seq(Reports) /\ Len(accepted) \in Nat
    BY DEF StoreInv, Numbered, Consistent
  <2>2. PICK n \in 1 .. Len(accepted) : r = accepted[n] /\ r.n = n
    BY <2>1 DEF ToSet, StoreInv, Numbered
  <2>3. Kept(reports, accepted, unread, n)
    BY <2>2 DEF StoreInv
  <2>4. \A i \in 1 .. Len(reports) : reports[i] # r
    BY <2>1 DEF ToSet
  <2>5. Len(accepted) - n + Cardinality(QuietSince(reports, r.received)) >= MaxReports
    BY <2>2, <2>3, <2>4 DEF Kept
  <2>6. PICK quiet : quiet = {p.source : p \in {q \in ToSet(reports) : IsHeartbeat(q)}}
    OBVIOUS
  <2>7. IsFiniteSet(quiet) /\ Cardinality(quiet) \in Nat
    <3>1. quiet \in SUBSET Sources
      BY <2>1, <2>6, ReportIs DEF ToSet
    <3> QED
      BY <3>1, Sizes, FS_Subset, FS_CardinalityType
  <2>8. QuietSince(reports, r.received) \in SUBSET quiet
    BY <2>1, <2>6 DEF QuietSince, ToSet
  <2>9. PICK x, y : x = Cardinality(QuietSince(reports, r.received)) /\ y = Cardinality(quiet)
    OBVIOUS
  <2>10. x \in Nat /\ y \in Nat /\ x <= y /\ MaxReports \in Nat
    BY <2>7, <2>8, <2>9, Sizes, FS_Subset
  <2>11. Len(accepted) - n >= MaxReports - y
    BY <2>1, <2>5, <2>9, <2>10
  <2> QED
    BY <2>2, <2>6, <2>9, <2>11 DEF After
<1> QED
  BY <1>1, StoreAlways, PTL

\* The reports of a source in the order current goes through them.
LEMMA SourceIs ==
    ASSUME NEW rs, rs \in Seq(Reports), NEW s
    PROVE  \E o : /\ Selects(o, OfSource(ByTime(rs), s), rs)
                  /\ \A i \in 1 .. Len(rs) :
                        rs[i].source = s => \E k \in 1 .. Len(OfSource(ByTime(rs), s)) : o[k] = i
                  /\ \A p, q \in 1 .. Len(OfSource(ByTime(rs), s)) : p < q => Ahead(rs, o[p], o[q])
<1>1. PICK b : b = ByTime(rs)
  OBVIOUS
<1>2. PICK o : /\ Selects(o, b, rs)
               /\ \A j \in 1 .. Len(rs) : \E k \in 1 .. Len(b) : o[k] = j
               /\ \A p, q \in 1 .. Len(b) : p < q => Ahead(rs, o[p], o[q])
  BY <1>1, ByTimeIs DEF Ahead
<1>3. /\ b \in Seq(Reports) /\ Len(b) \in Nat /\ Len(rs) \in Nat /\ DOMAIN b = 1 .. Len(b)
      /\ \A k \in 1 .. Len(b) : o[k] \in 1 .. Len(rs) /\ b[k] = rs[o[k]]
      /\ \A p, q \in 1 .. Len(b) : o[p] = o[q] => p = q
  <2>1. /\ b \in Seq(Reports)
        /\ \A k \in 1 .. Len(b) : o[k] \in 1 .. Len(rs) /\ b[k] = rs[o[k]]
        /\ \A p, q \in 1 .. Len(b) : o[p] = o[q] => p = q
    BY <1>2 DEF Selects
  <2> QED
    BY <2>1
<1>4. PICK I : I = {k \in 1 .. Len(b) : b[k].source = s}
  OBVIOUS
<1>5. PICK t : t = Picked(b, I)
  OBVIOUS
<1>6. t = OfSource(b, s)
  BY <1>3, <1>4, <1>5 DEF OfSource
<1>7. PICK c : /\ Selects(c, t, b)
               /\ \A k \in I : \E m \in 1 .. Len(t) : c[m] = k
               /\ \A p, q \in 1 .. Len(t) : p < q => c[p] < c[q]
  <2>1. b \in Seq(Reports) /\ I \subseteq 1 .. Len(b)
    BY <1>3, <1>4
  <2> QED
    BY ZenonT(30), <1>5, <2>1, PickedIs
<1>8. /\ t \in Seq(Reports) /\ \A m \in 1 .. Len(t) : c[m] \in 1 .. Len(b) /\ t[m] = b[c[m]]
      /\ \A p, q \in 1 .. Len(t) : c[p] = c[q] => p = q
  BY <1>7 DEF Selects
<1>9. PICK d : d = [m \in 1 .. Len(t) |-> o[c[m]]]
  OBVIOUS
<1>10. Selects(d, t, rs)
  <2>1. d \in [1 .. Len(t) -> 1 .. Len(rs)]
    BY <1>3, <1>8, <1>9
  <2>2. \A m \in 1 .. Len(t) : t[m] = rs[d[m]]
    BY <1>3, <1>8, <1>9
  <2>3. \A p, q \in 1 .. Len(t) : d[p] = d[q] => p = q
    BY <1>3, <1>8, <1>9
  <2> QED
    BY <1>8, <2>1, <2>2, <2>3 DEF Selects
<1>11. ASSUME NEW i \in 1 .. Len(rs), rs[i].source = s PROVE \E m \in 1 .. Len(t) : d[m] = i
  <2>1. PICK k \in 1 .. Len(b) : o[k] = i
    BY <1>2
  <2>2. k \in I
    BY <1>3, <1>4, <1>11, <2>1
  <2>3. PICK m \in 1 .. Len(t) : c[m] = k
    BY <1>7, <2>2
  <2> QED
    BY <1>9, <2>1, <2>3
<1>12. ASSUME NEW p \in 1 .. Len(t), NEW q \in 1 .. Len(t), p < q PROVE Ahead(rs, d[p], d[q])
  <2>1. c[p] < c[q]
    BY <1>7, <1>12
  <2>2. Ahead(rs, o[c[p]], o[c[q]])
    BY <1>2, <1>8, <2>1
  <2> QED
    BY <1>9, <2>2
<1> QED
  BY <1>1, <1>6, <1>10, <1>11, <1>12

\* What current says of a source is as recent as every report of it.
LEMMA LatestIs ==
    ASSUME NEW rs, rs \in Seq(Reports), NEW s, NEW i \in 1 .. Len(rs), rs[i].source = s
    PROVE  Last(OfSource(ByTime(rs), s)).received >= rs[i].received /\ Last(OfSource(ByTime(rs), s)).received \in Nat
<1>1. PICK t : t = OfSource(ByTime(rs), s)
  OBVIOUS
<1>2. PICK o : /\ Selects(o, t, rs)
               /\ \A j \in 1 .. Len(rs) : rs[j].source = s => \E k \in 1 .. Len(t) : o[k] = j
               /\ \A p, q \in 1 .. Len(t) : p < q => Ahead(rs, o[p], o[q])
  BY <1>1, SourceIs
<1>3. t \in Seq(Reports) /\ \A k \in 1 .. Len(t) : o[k] \in 1 .. Len(rs) /\ t[k] = rs[o[k]]
  BY <1>2 DEF Selects
<1>4. PICK k \in 1 .. Len(t) : o[k] = i
  BY <1>2
<1>5. PICK l \in 1 .. Len(t) : l = Len(t) /\ (l = k \/ k < l)
  BY <1>3
<1>6. PICK j \in 1 .. Len(rs) : j = o[l] /\ t[l] = rs[j]
  BY <1>3
<1>7. rs[i].received \in Nat /\ rs[j].received \in Nat
  BY ReportIs
<1>8. rs[j].received >= rs[i].received
  <2>1. CASE l = k
    BY <1>4, <1>6, <1>7, <2>1
  <2>2. CASE k < l
    <3>1. Ahead(rs, i, j)
      BY <1>2, <1>4, <1>6, <2>2
    <3> QED
      BY <1>7, <3>1 DEF Ahead
  <2> QED
    BY <1>5, <2>1, <2>2
<1>9. Last(t) = rs[j]
  BY <1>5, <1>6 DEF Last
<1> QED
  BY <1>1, <1>7, <1>8, <1>9

\* A source heard within the threshold is listed and not stale, as long as the reports of that
\* time leave one place per source in the store (AddReport, prune, current, Summary).
THEOREM LiveSourceIsListed == Spec => []LiveIsListed
<1>1. StoreInv => LiveIsListed
  <2> SUFFICES ASSUME StoreInv, NEW s \in Sources, heard[s] # Never, heard[s] + StaleAfter >= now,
                      Cardinality({r \in ToSet(accepted) : r.received >= heard[s]}) + Cardinality(Sources) <= MaxReports
               PROVE  s \in DOMAIN Current /\ ~ToolStatus(Current[s]).stale
    BY DEF LiveIsListed
  <2>1. /\ accepted \in Seq(Reports) /\ Len(accepted) \in Nat /\ reports \in Seq(Reports) /\ now \in Nat
        /\ Retain \in Nat /\ StaleAfter \in Nat /\ Retain >= StaleAfter /\ MaxReports \in Nat
    BY Sizes, CollectorAssumption DEF StoreInv, Numbered, Consistent
  <2>2. PICK t : t = heard[s] /\ t \in Nat /\ t <= now
    BY DEF StoreInv
  <2>3. Heard(reports, accepted, s, t)
    BY <2>2 DEF StoreInv
  <2>4. Cardinality(Since(accepted, t)) + Cardinality(Sources) <= MaxReports
    <3>1. PICK R : R = {r \in ToSet(accepted) : r.received >= t}
      OBVIOUS
    <3>2. IsFiniteSet(Since(accepted, t))
      <4>1. IsFiniteSet(1 .. Len(accepted)) /\ Since(accepted, t) \in SUBSET (1 .. Len(accepted))
        BY <2>1, FS_Interval DEF Since
      <4> QED
        BY <4>1, FS_Subset
    <3>3. PICK f : f = [n \in Since(accepted, t) |-> accepted[n]]
      OBVIOUS
    <3>4. f \in [Since(accepted, t) -> R] /\ \A r \in R : \E n \in Since(accepted, t) : f[n] = r
      BY <2>1, <3>1, <3>3 DEF Since, ToSet
    <3>5. \A m, n \in Since(accepted, t) : f[m] = f[n] => m = n
      BY <3>3 DEF Since, StoreInv, Numbered
    <3>6. f \in Surjection(Since(accepted, t), R)
      BY <3>4, Fun_IsSurj
    <3>7. IsFiniteSet(R)
      BY <3>2, <3>6, FS_Surjection
    <3>8. f \in Injection(Since(accepted, t), R)
      BY <3>4, <3>5, Fun_IsInj
    <3>9. Cardinality(Since(accepted, t)) <= Cardinality(R)
      BY <3>7, <3>8, FS_Injection
    <3>10. PICK x, y : x = Cardinality(Since(accepted, t)) /\ y = Cardinality(R)
      OBVIOUS
    <3>11. x \in Nat /\ y \in Nat /\ Cardinality(Sources) \in Nat
      BY <3>2, <3>7, <3>10, Sizes, FS_CardinalityType
    <3> QED
      BY <2>1, <2>2, <3>1, <3>9, <3>10, <3>11
  <2>5. PICK i \in 1 .. Len(reports) : reports[i].source = s /\ reports[i].received >= t
    <3>1. ~(Cardinality(Since(accepted, t)) + Cardinality(Sources) > MaxReports)
      <4>1. Cardinality(Since(accepted, t)) \in Nat
        <5>1. IsFiniteSet(1 .. Len(accepted)) /\ Since(accepted, t) \in SUBSET (1 .. Len(accepted))
          BY <2>1, FS_Interval DEF Since
        <5> QED
          BY <5>1, FS_Subset, FS_CardinalityType
      <4> QED
        BY <2>1, <2>4, <4>1, Sizes
    <3>2. ~(t + Retain < now)
      BY <2>1, <2>2
    <3> QED
      BY <2>3, <3>1, <3>2 DEF Heard
  <2>6. PICK v : v = Last(OfSource(ByTime(reports), s)).received /\ v \in Nat /\ v >= reports[i].received
    BY <2>1, <2>5, LatestIs
  <2>7. reports[i].received \in Nat
    BY <2>1, ReportIs
  <2>8. v >= t
    BY <2>2, <2>5, <2>6, <2>7
  <2>9. s \in DOMAIN Current /\ Current[s].received = v
    <3>1. s \in {r.source : r \in ToSet(reports)}
      BY <2>1, <2>5 DEF ToSet
    <3> QED
      BY <2>6, <3>1 DEF Current
  <2>10. ToolStatus(Current[s]).stale = (now - v > StaleAfter)
    BY <2>9 DEF ToolStatus
  <2>11. ~(now - v > StaleAfter)
    BY <2>1, <2>2, <2>6, <2>8
  <2> QED
    BY <2>9, <2>10, <2>11
<1> QED
  BY <1>1, StoreAlways, PTL

-----------------------------------------------------------------------------
(* What a source's reports come to.                                         *)

LEMMA LeastOf ==
    ASSUME NEW S, S \subseteq Nat, S # {}
    PROVE  \E s \in S : \A t \in S : s <= t
<1>1. PICK s \in S : \A t \in S : ~(<<t, s>> \in OpToRel(<, Nat))
  BY NatLessThanWellFounded, WFMin
<1>2. \A m, n \in Nat : m < n => <<m, n>> \in OpToRel(<, Nat)
  BY DEF OpToRel
<1>3. ASSUME NEW t \in S PROVE s <= t
  <2>1. s \in Nat /\ t \in Nat /\ ~(t < s)
    BY <1>1, <1>2
  <2> QED
    BY <2>1
<1> QED
  BY <1>3

\* u[k] is what the first k reports come to.
Steps(u, rs, m) == u = [k \in 0 .. m |-> IF k = 0 THEN <<>> ELSE Accumulated(u[k - 1], rs[k])]

LEMMA StepsExist ==
    ASSUME NEW rs, NEW n \in Nat
    PROVE  \E u : Steps(u, rs, n)
<1>1. PICK S : S = {m \in Nat : ~\E u : Steps(u, rs, m)}
  OBVIOUS
<1> SUFFICES ASSUME S # {} PROVE FALSE
  BY <1>1
<1>2. PICK m \in S : \A t \in S : m <= t
  BY <1>1, LeastOf
<1>3. m \in Nat /\ ~\E u : Steps(u, rs, m)
  BY <1>1
<1>4. CASE m = 0
  <2>1. PICK u : u = [k \in 0 .. 0 |-> <<>>]
    OBVIOUS
  <2>2. u = [k \in 0 .. 0 |-> IF k = 0 THEN <<>> ELSE Accumulated(u[k - 1], rs[k])]
    <3>1. ASSUME NEW k \in 0 .. 0 PROVE u[k] = IF k = 0 THEN <<>> ELSE Accumulated(u[k - 1], rs[k])
      <4>1. k = 0 /\ u[k] = <<>>
        BY <2>1
      <4> QED
        BY <4>1
    <3>2. u = [k \in 0 .. 0 |-> u[k]]
      BY <2>1
    <3> QED
      BY <3>1, <3>2
  <2> QED
    BY <1>3, <1>4, <2>2 DEF Steps
<1>5. CASE m # 0
  <2>1. m - 1 \in Nat /\ m - 1 < m
    BY <1>3, <1>5
  <2>2. PICK u : Steps(u, rs, m - 1)
    BY <1>1, <1>2, <2>1
  <2>3. PICK v : v = [k \in 0 .. m |-> IF k = m THEN Accumulated(u[m - 1], rs[m]) ELSE u[k]]
    OBVIOUS
  <2>4. \A k \in 0 .. m - 1 : u[k] = IF k = 0 THEN <<>> ELSE Accumulated(u[k - 1], rs[k])
    BY <2>2 DEF Steps
  <2>5. ASSUME NEW k \in 0 .. m PROVE v[k] = IF k = 0 THEN <<>> ELSE Accumulated(v[k - 1], rs[k])
    <3>1. CASE k = m
      <4>1. m - 1 \in 0 .. m /\ m - 1 # m
        BY <1>3, <2>1
      <4>2. v[m - 1] = u[m - 1] /\ v[m] = Accumulated(u[m - 1], rs[m])
        BY <2>3, <3>1, <4>1
      <4> QED
        BY <1>5, <3>1, <4>2
    <3>2. CASE k = 0
      BY <1>3, <1>5, <2>1, <2>3, <2>4, <3>2
    <3>3. CASE k # m /\ k # 0
      <4>1. k \in 0 .. m - 1 /\ k - 1 \in 0 .. m /\ k - 1 # m
        BY <1>3, <3>3
      <4>2. v[k] = u[k] /\ v[k - 1] = u[k - 1]
        BY <2>3, <3>3, <4>1
      <4> QED
        BY <2>4, <3>3, <4>1, <4>2
    <3> QED
      BY <3>1, <3>2, <3>3
  <2>6. v = [k \in 0 .. m |-> IF k = 0 THEN <<>> ELSE Accumulated(v[k - 1], rs[k])]
    BY <2>3, <2>5
  <2> QED
    BY <1>3, <2>6 DEF Steps
<1> QED
  BY <1>4, <1>5

LEMMA FindingIs ==
    ASSUME NEW r \in Reports
    PROVE  r.finding \in Seq(Nat)
<1>1. r.finding = <<>> \/ \E f \in 1 .. MaxAccepted : r.finding = <<f>>
  BY DEF Reports
<1>2. MaxAccepted \in Nat
  BY CollectorAssumption
<1>3. ASSUME NEW f \in 1 .. MaxAccepted PROVE <<f>> \in Seq(Nat)
  BY <1>2
<1>4. <<>> \in Seq(Nat)
  OBVIOUS
<1> QED
  BY <1>1, <1>3, <1>4

LEMMA AccumulatedIs ==
    ASSUME NEW fs \in Seq(Nat), NEW r \in Reports
    PROVE  /\ Accumulated(fs, r) \in Seq(Nat)
           /\ \A f \in ToSet(Accumulated(fs, r)) : f \in ToSet(r.finding) \/ (r.append /\ f \in ToSet(fs))
<1>1. r.finding \in Seq(Nat) /\ AppendCap \in Nat
  BY FindingIs, Sizes
<1>2. CASE ~r.append
  BY <1>1, <1>2 DEF Accumulated
<1>3. CASE r.append
  <2>1. PICK g, h : g = r.finding /\ h = fs \o g
    OBVIOUS
  <2>2. h \in Seq(Nat) /\ Len(h) = Len(fs) + Len(g) /\ g \in Seq(Nat) /\ Len(g) \in Nat /\ Len(fs) \in Nat
    BY <1>1, <2>1
  <2>3. \A i \in 1 .. Len(h) : h[i] \in ToSet(g) \/ h[i] \in ToSet(fs)
    <3> SUFFICES ASSUME NEW i \in 1 .. Len(h) PROVE h[i] \in ToSet(g) \/ h[i] \in ToSet(fs)
      OBVIOUS
    <3>1. CASE i <= Len(fs)
      <4>1. h[i] = fs[i] /\ i \in DOMAIN fs
        BY <2>1, <2>2, <3>1
      <4> QED
        BY <4>1 DEF ToSet
    <3>2. CASE i > Len(fs)
      <4>1. i - Len(fs) \in DOMAIN g
        BY <2>2, <3>2
      <4>2. h[i] = g[i - Len(fs)]
        BY <2>1, <2>2, <3>2
      <4> QED
        BY <4>1, <4>2 DEF ToSet
    <3> QED
      BY <2>2, <3>1, <3>2
  <2>4. PICK t : t = Newest(AppendCap, h)
    OBVIOUS
  <2>5. t \in Seq(Nat) /\ \A i \in 1 .. Len(t) : \E j \in 1 .. Len(h) : t[i] = h[j]
    <3>1. CASE Len(h) <= AppendCap
      BY <2>2, <2>4, <3>1 DEF Newest
    <3>2. CASE ~(Len(h) <= AppendCap)
      <4>1. PICK a : a = Len(h) - AppendCap + 1
        OBVIOUS
      <4>2. a \in 1 .. Len(h) + 1 /\ Len(h) \in Nat
        BY <1>1, <2>2, <3>2, <4>1
      <4>3. t = SubSeq(h, a, Len(h))
        BY <2>4, <3>2, <4>1 DEF Newest
      <4>4. t \in Seq(Nat) /\ Len(t) = Len(h) - a + 1 /\ \A i \in 1 .. Len(t) : t[i] = h[a + i - 1]
        <5>1. h \in Seq(Nat)
          BY <2>2
        <5>2. \A i \in a .. Len(h) : h[i] \in Nat
          BY <2>2, <4>2
        <5>3. Len(t) = Len(h) - a + 1 /\ \A i \in 1 .. Len(h) - a + 1 : t[i] = h[a + i - 1]
          <6>1. Len(t) = Len(h) - a + 1
            BY <4>2, <4>3, <5>1
          <6>2. ASSUME NEW i \in 1 .. Len(h) - a + 1 PROVE t[i] = h[a + i - 1]
            BY <4>2, <4>3, <5>1
          <6> QED
            BY <6>1, <6>2
        <5>4. t \in Seq(Nat)
          BY <4>2, <4>3, <5>1, <5>2
        <5> QED
          BY <5>3, <5>4
      <4>5. \A i \in 1 .. Len(t) : a + i - 1 \in 1 .. Len(h)
        BY <4>2, <4>4
      <4> QED
        BY <4>4, <4>5
    <3> QED
      BY <3>1, <3>2
  <2>6. \A f \in ToSet(t) : f \in ToSet(g) \/ f \in ToSet(fs)
    <3> SUFFICES ASSUME NEW f \in ToSet(t) PROVE f \in ToSet(g) \/ f \in ToSet(fs)
      OBVIOUS
    <3>1. DOMAIN t = 1 .. Len(t)
      BY <2>5
    <3>2. PICK i \in 1 .. Len(t) : f = t[i]
      BY <3>1 DEF ToSet
    <3>3. PICK j \in 1 .. Len(h) : f = h[j]
      BY <2>5, <3>2
    <3> QED
      BY <2>3, <3>3
  <2>7. Accumulated(fs, r) = t
    BY <1>3, <2>1, <2>4 DEF Accumulated
  <2> QED
    BY <1>3, <2>1, <2>5, <2>6, <2>7
<1> QED
  BY <1>2, <1>3

\* A finding that is shown is of a report that no full report follows.
LEMMA ShownIs ==
    ASSUME NEW rs, rs \in Seq(Reports), NEW f, f \in ToSet(Findings(rs))
    PROVE  \E i \in 1 .. Len(rs) : f \in ToSet(rs[i].finding) /\ \A j \in i + 1 .. Len(rs) : rs[j].append
<1>0. Len(rs) \in Nat
  OBVIOUS
<1>1. PICK u : u = CHOOSE g : g = [k \in 0 .. Len(rs) |-> IF k = 0 THEN <<>> ELSE Accumulated(g[k - 1], rs[k])]
  OBVIOUS
<1>2. Findings(rs) = u[Len(rs)]
  BY <1>1 DEF Findings
<1>3. Steps(u, rs, Len(rs))
  <2>1. \E g : g = [k \in 0 .. Len(rs) |-> IF k = 0 THEN <<>> ELSE Accumulated(g[k - 1], rs[k])]
    BY <1>0, StepsExist DEF Steps
  <2> QED
    BY <1>1, <2>1 DEF Steps
<1>4. \A k \in 0 .. Len(rs) : u[k] = IF k = 0 THEN <<>> ELSE Accumulated(u[k - 1], rs[k])
  BY <1>3 DEF Steps
<1> DEFINE Shown(k, e) == \E i \in 1 .. k : e \in ToSet(rs[i].finding) /\ \A j \in i + 1 .. k : rs[j].append
           Good(k) == u[k] \in Seq(Nat) /\ \A e \in ToSet(u[k]) : Shown(k, e)
<1>5. PICK S : S = {k \in 0 .. Len(rs) : ~Good(k)}
  OBVIOUS
<1>6. S = {}
  <2> SUFFICES ASSUME S # {} PROVE FALSE
    OBVIOUS
  <2>1. S \subseteq Nat
    BY <1>0, <1>5
  <2>2. PICK m \in S : \A t \in S : m <= t
    BY <2>1, LeastOf
  <2>3. m \in 0 .. Len(rs) /\ ~Good(m)
    BY <1>5
  <2>4. CASE m = 0
    <3>1. u[m] = <<>>
      BY <1>4, <2>3, <2>4
    <3>2. ToSet(<<>>) = {} /\ <<>> \in Seq(Nat)
      BY DEF ToSet
    <3> QED
      BY <2>3, <3>1, <3>2
  <2>5. CASE m # 0
    <3>1. m - 1 \in 0 .. Len(rs) /\ m \in 1 .. Len(rs) /\ m - 1 < m /\ ~(m <= m - 1)
      BY <1>0, <2>3, <2>5
    <3>2. Good(m - 1)
      BY <1>5, <2>2, <3>1
    <3>3. rs[m] \in Reports /\ u[m] = Accumulated(u[m - 1], rs[m])
      BY <1>4, <2>5, <3>1
    <3>4. PICK w : w = u[m - 1]
      OBVIOUS
    <3>5. w \in Seq(Nat) /\ \A e \in ToSet(w) : Shown(m - 1, e)
      BY <3>2, <3>4
    <3>6. /\ u[m] \in Seq(Nat)
          /\ \A e \in ToSet(u[m]) : e \in ToSet(rs[m].finding) \/ (rs[m].append /\ e \in ToSet(w))
      BY <3>3, <3>4, <3>5, AccumulatedIs
    <3>7. ASSUME NEW e \in ToSet(u[m]) PROVE Shown(m, e)
      <4>1. CASE e \in ToSet(rs[m].finding)
        <5>1. \A j \in m + 1 .. m : rs[j].append
          BY <3>1
        <5>2. m \in 1 .. m
          BY <3>1
        <5> QED
          BY <4>1, <5>1, <5>2
      <4>2. CASE rs[m].append /\ e \in ToSet(w)
        <5>1. PICK i \in 1 .. m - 1 : e \in ToSet(rs[i].finding) /\ \A j \in i + 1 .. m - 1 : rs[j].append
          BY <3>5, <4>2
        <5>2. i \in 1 .. m /\ \A j \in i + 1 .. m : j = m \/ j \in i + 1 .. m - 1
          BY <3>1
        <5>3. \A j \in i + 1 .. m : rs[j].append
          BY <4>2, <5>1, <5>2
        <5> QED
          BY <5>1, <5>2, <5>3
      <4> QED
        BY <3>6, <4>1, <4>2
    <3> QED
      BY <2>3, <3>6, <3>7
  <2> QED
    BY <2>4, <2>5
<1>7. Good(Len(rs))
  <2>1. Len(rs) \in 0 .. Len(rs)
    BY <1>0
  <2> QED
    BY <1>5, <1>6, <2>1
<1> QED
  BY <1>2, <1>7

\* A full report that is kept leaves nothing of its source's earlier findings.
LEMMA SupersededIs ==
    ASSUME NEW rs, NEW acc, NEW gone, Consistent(rs, acc), Numbered(acc), Named(acc),
           NEW n \in 1 .. Len(acc), Kept(rs, acc, gone, n), ~acc[n].append,
           NEW f, f \in ToSet(Findings(OfSource(ByTime(rs), acc[n].source))), n > f
    PROVE  FALSE
<1>1. rs \in Seq(Reports) /\ acc \in Seq(Reports) /\ Len(acc) \in Nat /\ Len(rs) \in Nat
  BY DEF Consistent, Numbered
<1>2. PICK s, t : s = acc[n].source /\ t = OfSource(ByTime(rs), s)
  OBVIOUS
<1>3. PICK o : /\ Selects(o, t, rs)
               /\ \A j \in 1 .. Len(rs) : rs[j].source = s => \E k \in 1 .. Len(t) : o[k] = j
               /\ \A p, q \in 1 .. Len(t) : p < q => Ahead(rs, o[p], o[q])
  BY <1>1, <1>2, SourceIs
<1>4. t \in Seq(Reports) /\ \A k \in 1 .. Len(t) : o[k] \in 1 .. Len(rs) /\ t[k] = rs[o[k]]
  BY <1>3 DEF Selects
<1>5. PICK m \in 1 .. Len(t) : f \in ToSet(t[m].finding) /\ \A j \in m + 1 .. Len(t) : t[j].append
  BY <1>2, <1>4, ShownIs
<1>6. PICK i \in 1 .. Len(rs) : i = o[m] /\ t[m] = rs[i]
  BY <1>4
\* The finding is of report f, which is there.
<1>7. ~IsHeartbeat(rs[i]) /\ rs[i].n = f /\ f \in 1 .. Len(acc) /\ acc[f] = rs[i]
  <2>1. ~(f \in ToSet(<<>>))
    BY DEF ToSet
  <2>2. rs[i].finding # <<>>
    BY <1>5, <1>6, <2>1
  <2>3. ~IsHeartbeat(rs[i])
    BY <2>2 DEF IsHeartbeat
  <2>4. PICK e \in 1 .. Len(acc) : e = rs[i].n /\ acc[e] = rs[i]
    BY <2>3 DEF Consistent
  <2>5. rs[i].finding = <<e>>
    BY <2>2, <2>4 DEF Named
  <2>6. f = e
    <3>1. f \in ToSet(<<e>>)
      BY <1>5, <1>6, <2>5
    <3> QED
      BY <3>1 DEF ToSet
  <2> QED
    BY <2>3, <2>4, <2>6
<1>8. f \in Nat /\ n \in Nat /\ f < n
  BY <1>1, <1>7
\* So the full report, which came later, is there too.
<1>9. PICK j \in 1 .. Len(rs) : rs[j] = acc[n]
  <2>1. ~(\A h \in 1 .. Len(rs) : ~IsHeartbeat(rs[h]) => rs[h].n > n)
    BY <1>7, <1>8
  <2> QED
    BY <2>1 DEF Kept
<1>10. ~IsHeartbeat(rs[j]) /\ rs[j].n = n /\ ~rs[j].append /\ rs[j].source = s
  BY <1>2, <1>9 DEF Numbered
<1>11. PICK l \in 1 .. Len(t) : o[l] = j /\ t[l] = rs[j]
  BY <1>3, <1>4, <1>10
<1>12. l < m
  <2>1. ~(l \in m + 1 .. Len(t))
    BY <1>5, <1>10, <1>11
  <2>2. l # m
    BY <1>6, <1>7, <1>8, <1>10, <1>11
  <2> QED
    BY <1>4, <2>1, <2>2
<1>13. Ahead(rs, j, i)
  BY <1>3, <1>6, <1>11, <1>12
<1>14. i < j
  <2>1. i # j
    BY <1>7, <1>8, <1>10
  <2>2. ~(j < i)
    BY <1>7, <1>8, <1>10 DEF Consistent
  <2> QED
    BY <1>1, <2>1, <2>2
<1>15. rs[i].received <= rs[j].received /\ rs[i].received \in Nat /\ rs[j].received \in Nat
  <2>1. acc[f].received <= acc[n].received
    BY <1>7, <1>8 DEF Numbered
  <2> QED
    BY <1>1, <1>7, <1>9, <2>1, ReportIs
<1> QED
  BY <1>1, <1>13, <1>14, <1>15 DEF Ahead

\* A finding that a full report of its source superseded is not shown again: what the store drops
\* and reloads does not bring it back, unless that report was lost with its snapshot
\* (AddReport, prune, load, current).
THEOREM SupersededStaysAway == Spec => []NoResurrection
<1>1. StoreInv => NoResurrection
  <2> SUFFICES ASSUME StoreInv, NEW s \in DOMAIN Current, NEW f \in ToSet(Current[s].findings),
                      NEW r \in ToSet(accepted), r.source = s, ~r.append, r.n > f, r.n \notin lost
               PROVE  FALSE
    BY DEF NoResurrection
  <2>1. accepted \in Seq(Reports)
    BY DEF StoreInv, Numbered
  <2>2. PICK n \in 1 .. Len(accepted) : r = accepted[n] /\ r.n = n
    BY <2>1 DEF ToSet, StoreInv, Numbered
  <2>3. Kept(reports, accepted, unread, n)
    BY <2>2 DEF StoreInv
  <2>4. f \in ToSet(Findings(OfSource(ByTime(reports), accepted[n].source)))
    BY <2>2 DEF Current
  <2> QED
    BY <2>2, <2>3, <2>4, SupersededIs DEF StoreInv
<1> QED
  BY <1>1, StoreAlways, PTL
-----------------------------------------------------------------------------
(* The response proxy.                                                      *)

\* What the proxy has of a request is what agentd said, or an error; and what agentd said is true.
ProxyInv ==
    /\ proxy \in [Operators -> {"idle", "forwarded", "returned", "recorded", "answered", "cut off"}]
    /\ result \in [Operators -> Results \cup {"none"}]
    /\ answer \in [Operators -> Results \cup {"none", "error"}]
    /\ rows \subseteq Operators \X (Results \cup {"error"})
    /\ \A o \in Operators :
          /\ answer[o] \in Results => result[o] = answer[o]
          /\ result[o] = "done" => o \in executed
          /\ result[o] \in {"would do", "would refuse"} => o \notin executed
          /\ proxy[o] \in {"idle", "forwarded"} => answer[o] = "none"
          /\ proxy[o] = "returned" => answer[o] # "none"
          /\ proxy[o] \in {"recorded", "answered"} => <<o, answer[o]>> \in rows \/ o \in unwritten
          /\ \A outcome \in Results \cup {"error"} : <<o, outcome>> \in rows => outcome = answer[o]

LEMMA ProxyAlways == Spec => []ProxyInv
<1>1. Init => ProxyInv
  BY DEF Init, ProxyInv, Results
<1>2. ProxyInv /\ [Next]_vars => ProxyInv'
  <2> SUFFICES ASSUME ProxyInv, [Next]_vars PROVE ProxyInv'
    OBVIOUS
  <2>1. ASSUME UNCHANGED proxied PROVE ProxyInv'
    BY <2>1 DEF ProxyInv, proxied
  <2>2. ASSUME NEW s \in Sources, NEW append \in BOOLEAN, NEW some \in BOOLEAN, Ingest(s, append, some) PROVE ProxyInv'
    BY <2>1, <2>2 DEF Ingest
  <2>3. ASSUME NEW o \in Operators, Forward(o) PROVE ProxyInv'
    BY <2>3 DEF Forward, ProxyInv
  <2>4. ASSUME NEW o \in Operators, Execute(o) PROVE ProxyInv'
    BY <2>4 DEF Execute, ProxyInv
  <2>5. ASSUME NEW o \in Operators, NEW r \in Results, Respond(o, r) PROVE ProxyInv'
    BY <2>5 DEF Respond, ProxyInv, Results
  <2>6. ASSUME NEW o \in Operators, NEW outcome \in Results \cup {"error"}, Returned(o, outcome) PROVE ProxyInv'
    BY <2>6 DEF Returned, ProxyInv, Results
  <2>7. ASSUME NEW o \in Operators, Record(o) PROVE ProxyInv'
    <3>1. proxy[o] = "returned" /\ answer[o] \in Results \cup {"none", "error"} /\ proxy' = [proxy EXCEPT ![o] = "recorded"]
          /\ UNCHANGED <<result, answer, executed>>
      BY <2>7 DEF Record, ProxyInv
    <3>2. PICK outcome : outcome = answer[o]
      OBVIOUS
    <3>3. outcome # "none"
      BY <3>1, <3>2 DEF ProxyInv
    <3>4. Recorded(outcome) /\ outcome \in Results \cup {"error"}
      BY <3>1, <3>2, <3>3 DEF Recorded
    <3>5. CASE rows' = rows \cup {<<o, outcome>>} /\ UNCHANGED unwritten
      <4>1. rows' \subseteq Operators \X (Results \cup {"error"})
        <5>1. rows \in SUBSET (Operators \X (Results \cup {"error"})) /\ <<o, outcome>> \in Operators \X (Results \cup {"error"})
          BY <3>4 DEF ProxyInv
        <5> QED
          BY Zenon, <3>5, <5>1
      <4>2. ASSUME NEW p \in Operators, NEW e \in Results \cup {"error"}, <<p, e>> \in rows' PROVE e = answer[p]
        BY <3>2, <3>5, <4>2 DEF ProxyInv
      <4>3. ASSUME NEW p \in Operators, proxy'[p] \in {"recorded", "answered"}
            PROVE  <<p, answer[p]>> \in rows' \/ p \in unwritten'
        BY <3>1, <3>2, <3>5, <4>3 DEF ProxyInv
      <4> QED
        BY <3>1, <4>1, <4>2, <4>3 DEF ProxyInv
    <3>6. CASE unwritten' = unwritten \cup {o} /\ UNCHANGED rows
      BY <3>1, <3>6 DEF ProxyInv
    <3> QED
      BY <2>7, <3>2, <3>4, <3>5, <3>6 DEF Record
  <2>8. ASSUME NEW o \in Operators, Answer(o) PROVE ProxyInv'
    BY <2>8 DEF Answer, ProxyInv
  <2>9. CASE Restart
    BY <2>9 DEF Restart, ProxyInv
  <2>10. CASE Tick
    BY <2>1, <2>10 DEF Tick
  <2>11. CASE UNCHANGED vars
    BY <2>1, <2>11 DEF vars
  <2> QED
    BY <2>2, <2>3, <2>4, <2>5, <2>6, <2>7, <2>8, <2>9, <2>10, <2>11 DEF Next
<1> QED
  BY <1>1, <1>2, PTL DEF Spec

\* Every request that an operator was answered about has its row, with the answer he was given and no
\* other; a row that says done is of an action that ran, one that says would of one that does not
\* (handleRespond, Forward).
THEOREM AnswersHaveRows == Spec => []AnswersAreRecorded
<1>1. ProxyInv => AnswersAreRecorded
  BY DEF ProxyInv, AnswersAreRecorded, Results
<1> QED
  BY <1>1, ProxyAlways, PTL

\* Every variable has its type, and a source has one heartbeat at most in the store (AddReport).
THEOREM TypeCorrect == Spec => []TypeOK
<1>1. StoreInv /\ ProxyInv => TypeOK
  <2> SUFFICES ASSUME StoreInv, ProxyInv PROVE TypeOK
    OBVIOUS
  <2>1. reports \in Seq(Reports) /\ disk \in Seq(Reports) /\ accepted \in Seq(Reports)
    BY DEF StoreInv, Numbered, Consistent
  <2>2. unsaved \cup lost \cup unread \subseteq 1 .. MaxAccepted
    <3> SUFFICES ASSUME NEW n \in 1 .. Len(accepted) PROVE n \in 1 .. MaxAccepted
      BY DEF StoreInv
    <3>1. accepted[n] \in Reports /\ accepted[n].n = n
      BY <2>1 DEF StoreInv, Numbered
    <3>2. n \in 0 .. MaxAccepted
      BY <3>1 DEF Reports
    <3> QED
      BY <2>1, <3>2, CollectorAssumption
  <2>3. \A i, j \in DOMAIN reports :
            IsHeartbeat(reports[i]) /\ IsHeartbeat(reports[j]) /\ reports[i].source = reports[j].source => i = j
    <3>1. DOMAIN reports = 1 .. Len(reports)
      BY <2>1
    <3> QED
      BY <3>1 DEF StoreInv, Consistent
  <2> QED
    BY <2>1, <2>2, <2>3 DEF TypeOK, StoreInv, ProxyInv
<1> QED
  BY <1>1, StoreAlways, ProxyAlways, PTL
-----------------------------------------------------------------------------
(* The views.                                                               *)

\* What is listed of a source is of reports of that source.
LEMMA OwnReports ==
    ASSUME NEW b, b \in Seq(Reports), NEW s
    PROVE  \A k \in 1 .. Len(OfSource(b, s)) : OfSource(b, s)[k].source = s
<1>1. Len(b) \in Nat /\ DOMAIN b = 1 .. Len(b)
  OBVIOUS
<1>2. PICK I : I = {k \in 1 .. Len(b) : b[k].source = s}
  OBVIOUS
<1>3. PICK t : t = Picked(b, I)
  OBVIOUS
<1>4. t = OfSource(b, s)
  BY <1>1, <1>2, <1>3 DEF OfSource
<1>5. PICK c : Selects(c, t, b) /\ \A k \in 1 .. Len(t) : c[k] \in I
  <2>1. I \subseteq 1 .. Len(b)
    BY <1>2
  <2> QED
    BY ZenonT(30), <1>3, <2>1, PickedIs
<1>6. \A k \in 1 .. Len(t) : t[k] = b[c[k]]
  BY <1>5 DEF Selects
<1> QED
  BY <1>2, <1>4, <1>5, <1>6

\* A finding that is listed is of an accepted report of its source that the store holds.
Listed(acc, rs, s, f) ==
    f \in 1 .. MaxAccepted /\ acc[f].source = s /\ \E i \in 1 .. Len(rs) : rs[i].finding = <<f>>

LEMMA ListedIs ==
    ASSUME NEW rs, NEW acc, Consistent(rs, acc), Numbered(acc), Named(acc), NEW s,
           NEW f, f \in ToSet(Findings(OfSource(ByTime(rs), s)))
    PROVE  Listed(acc, rs, s, f)
<1>1. rs \in Seq(Reports) /\ acc \in Seq(Reports) /\ Len(acc) \in Nat /\ Len(rs) \in Nat
  BY DEF Consistent, Numbered
<1>2. PICK b : b = ByTime(rs)
  OBVIOUS
<1>3. PICK t : t = OfSource(b, s)
  OBVIOUS
<1>4. PICK o : Selects(o, t, rs)
  BY <1>1, <1>2, <1>3, SourceIs
<1>5. t \in Seq(Reports) /\ \A k \in 1 .. Len(t) : o[k] \in 1 .. Len(rs) /\ t[k] = rs[o[k]]
  BY <1>4 DEF Selects
<1>6. PICK m \in 1 .. Len(t) : f \in ToSet(t[m].finding)
  BY <1>2, <1>3, <1>5, ShownIs
<1>7. PICK i \in 1 .. Len(rs) : i = o[m] /\ t[m] = rs[i]
  BY <1>5
<1>8. rs[i].source = s
  <2>1. b \in Seq(Reports)
    BY <1>1, <1>2, ByTimeIs DEF Selects
  <2>2. \A k \in 1 .. Len(t) : t[k].source = s
    BY <1>3, <2>1, OwnReports
  <2> QED
    BY <1>7, <2>2
<1>9. rs[i].finding # <<>>
  <2>1. ~(f \in ToSet(<<>>))
    BY DEF ToSet
  <2> QED
    BY <1>6, <1>7, <2>1
<1>10. PICK e \in 1 .. Len(acc) : e = rs[i].n /\ acc[e] = rs[i]
  BY <1>9 DEF Consistent, IsHeartbeat
<1>11. rs[i].finding = <<e>>
  BY <1>9, <1>10 DEF Named
<1>12. f = e
  <2>1. f \in ToSet(<<e>>)
    BY <1>6, <1>7, <1>11
  <2> QED
    BY <2>1 DEF ToSet
<1>13. e \in 1 .. MaxAccepted
  <2>1. acc[e] \in Reports /\ acc[e].n = e
    BY <1>1 DEF Numbered
  <2>2. acc[e].n \in 0 .. MaxAccepted
    BY <2>1 DEF Reports
  <2> QED
    BY <1>1, <2>1, <2>2
<1> QED
  BY <1>8, <1>10, <1>11, <1>12, <1>13 DEF Listed

Ascending(fs) == \A p, q \in 1 .. Len(fs) : p < q => fs[p] < fs[q]

LEMMA NewestAscends ==
    ASSUME NEW h \in Seq(Nat), Ascending(h), NEW n \in Nat
    PROVE  Newest(n, h) \in Seq(Nat) /\ Ascending(Newest(n, h))
<1>1. Len(h) \in Nat
  OBVIOUS
<1>2. CASE Len(h) <= n
  BY <1>2 DEF Newest
<1>3. CASE ~(Len(h) <= n)
  <2>1. PICK a : a = Len(h) - n + 1
    OBVIOUS
  <2>2. PICK t : t = Newest(n, h)
    OBVIOUS
  <2>3. a \in 1 .. Len(h) + 1 /\ t = SubSeq(h, a, Len(h))
    BY <1>1, <1>3, <2>1, <2>2 DEF Newest
  <2>4. \A i \in a .. Len(h) : h[i] \in Nat
    BY <1>1, <2>3
  <2>5. Len(t) = Len(h) - a + 1
    BY <1>1, <2>3
  <2>6. ASSUME NEW i \in 1 .. Len(t) PROVE t[i] = h[a + i - 1]
    BY <1>1, <2>3, <2>5
  <2>7. t \in Seq(Nat)
    BY <1>1, <2>3, <2>4
  <2>8. Ascending(t)
    <3> SUFFICES ASSUME NEW p \in 1 .. Len(t), NEW q \in 1 .. Len(t), p < q PROVE t[p] < t[q]
      BY DEF Ascending
    <3>1. a + p - 1 \in 1 .. Len(h) /\ a + q - 1 \in 1 .. Len(h) /\ a + p - 1 < a + q - 1
      BY <1>1, <2>3, <2>5
    <3> QED
      BY <2>6, <3>1 DEF Ascending
  <2> QED
    BY <2>2, <2>7, <2>8
<1> QED
  BY <1>2, <1>3
LEMMA OneMore ==
    ASSUME NEW a \in Nat, NEW c \in {0, 1}, NEW p \in 1 .. a + c, NEW q \in 1 .. a + c, p < q
    PROVE  p \in 1 .. a /\ (q \in 1 .. a \/ (c = 1 /\ q = a + 1))
<1>1. CASE c = 0
  BY <1>1
<1>2. CASE c = 1
  BY <1>2
<1> QED
  BY <1>1, <1>2

\* A report whose finding is above all that are listed keeps the list in order.
LEMMA AccumulatedAscends ==
    ASSUME NEW fs \in Seq(Nat), Ascending(fs), NEW r \in Reports,
           \A e \in ToSet(fs) : \A f \in ToSet(r.finding) : e < f
    PROVE  Accumulated(fs, r) \in Seq(Nat) /\ Ascending(Accumulated(fs, r))
<1>1. PICK g : g = r.finding
  OBVIOUS
<1>2. /\ g \in Seq(Nat) /\ AppendCap \in Nat /\ Len(fs) \in Nat
      /\ g = <<>> \/ \E f \in Nat : g = <<f>>
  <2>1. g = <<>> \/ \E f \in 1 .. MaxAccepted : g = <<f>>
    BY <1>1 DEF Reports
  <2>2. MaxAccepted \in Nat
    BY CollectorAssumption
  <2> QED
    BY <1>1, <2>1, <2>2, FindingIs, Sizes
<1>3. Len(g) \in {0, 1}
  BY <1>2
<1>4. Ascending(g)
  BY <1>3 DEF Ascending
<1>5. CASE ~r.append
  BY <1>1, <1>2, <1>4, <1>5 DEF Accumulated
<1>6. CASE r.append
  <2>1. PICK h : h = fs \o g
    OBVIOUS
  <2>2. /\ h \in Seq(Nat) /\ Len(h) = Len(fs) + Len(g)
        /\ \A i \in 1 .. Len(fs) : h[i] = fs[i]
        /\ \A i \in 1 .. Len(g) : h[Len(fs) + i] = g[i]
    BY <1>2, <2>1
  <2>3. Ascending(h)
    <3> SUFFICES ASSUME NEW p \in 1 .. Len(h), NEW q \in 1 .. Len(h), p < q PROVE h[p] < h[q]
      BY DEF Ascending
    <3>0. PICK a, c : a = Len(fs) /\ c = Len(g) /\ a \in Nat /\ c \in {0, 1} /\ Len(h) = a + c
      BY <1>2, <1>3, <2>2
    <3>1. p \in 1 .. Len(fs) /\ (q \in 1 .. Len(fs) \/ (Len(g) = 1 /\ q = Len(fs) + 1))
      BY <3>0, OneMore
    <3>2. CASE q \in 1 .. Len(fs)
      BY <2>2, <3>1, <3>2 DEF Ascending
    <3>3. CASE q \notin 1 .. Len(fs)
      <4>1. Len(g) = 1 /\ q = Len(fs) + 1
        BY <3>1, <3>3
      <4>2. h[q] = g[1] /\ h[p] = fs[p]
        BY <2>2, <3>1, <4>1
      <4>3. DOMAIN fs = 1 .. Len(fs) /\ DOMAIN g = 1 .. Len(g)
        BY <1>2
      <4>4. fs[p] \in ToSet(fs) /\ g[1] \in ToSet(g)
        BY <3>1, <4>1, <4>3 DEF ToSet
      <4> QED
        BY <1>1, <4>2, <4>4
    <3> QED
      BY <3>2, <3>3
  <2>4. Accumulated(fs, r) = Newest(AppendCap, h)
    BY <1>1, <1>6, <2>1 DEF Accumulated
  <2> QED
    BY <1>2, <2>2, <2>3, <2>4, NewestAscends
<1> QED
  BY <1>5, <1>6

\* Where each report's finding is above those of the reports before, so are the findings listed.
LEMMA FindingsAscend ==
    ASSUME NEW rs, rs \in Seq(Reports),
           \A p, q \in 1 .. Len(rs) : p < q =>
               \A e \in ToSet(rs[p].finding) : \A f \in ToSet(rs[q].finding) : e < f
    PROVE  Findings(rs) \in Seq(Nat) /\ Ascending(Findings(rs))
<1>0. Len(rs) \in Nat
  OBVIOUS
<1>1. PICK u : u = CHOOSE g : g = [k \in 0 .. Len(rs) |-> IF k = 0 THEN <<>> ELSE Accumulated(g[k - 1], rs[k])]
  OBVIOUS
<1>2. Findings(rs) = u[Len(rs)]
  BY <1>1 DEF Findings
<1>3. Steps(u, rs, Len(rs))
  <2>1. \E g : g = [k \in 0 .. Len(rs) |-> IF k = 0 THEN <<>> ELSE Accumulated(g[k - 1], rs[k])]
    BY <1>0, StepsExist DEF Steps
  <2> QED
    BY <1>1, <2>1 DEF Steps
<1>4. \A k \in 0 .. Len(rs) : u[k] = IF k = 0 THEN <<>> ELSE Accumulated(u[k - 1], rs[k])
  BY <1>3 DEF Steps
<1> DEFINE Good(k) == /\ u[k] \in Seq(Nat) /\ Ascending(u[k])
                      /\ \A e \in ToSet(u[k]) : \E i \in 1 .. k : e \in ToSet(rs[i].finding)
<1>5. PICK S : S = {k \in 0 .. Len(rs) : ~Good(k)}
  OBVIOUS
<1>6. S = {}
  <2> SUFFICES ASSUME S # {} PROVE FALSE
    OBVIOUS
  <2>1. S \subseteq Nat
    BY <1>0, <1>5
  <2>2. PICK m \in S : \A t \in S : m <= t
    BY <2>1, LeastOf
  <2>3. m \in 0 .. Len(rs) /\ ~Good(m)
    BY <1>5
  <2>4. CASE m = 0
    <3>1. u[m] = <<>>
      BY <1>4, <2>3, <2>4
    <3>2. ToSet(<<>>) = {} /\ <<>> \in Seq(Nat) /\ Ascending(<<>>)
      BY DEF ToSet, Ascending
    <3> QED
      BY <2>3, <3>1, <3>2
  <2>5. CASE m # 0
    <3>1. m - 1 \in 0 .. Len(rs) /\ m \in 1 .. Len(rs) /\ ~(m <= m - 1)
      BY <1>0, <2>3, <2>5
    <3>2. Good(m - 1)
      BY <1>5, <2>2, <3>1
    <3>3. PICK w : w = u[m - 1]
      OBVIOUS
    <3>4. rs[m] \in Reports /\ u[m] = Accumulated(w, rs[m])
      BY <1>4, <2>5, <3>1, <3>3
    <3>5. w \in Seq(Nat) /\ Ascending(w) /\ \A e \in ToSet(w) : \E i \in 1 .. m - 1 : e \in ToSet(rs[i].finding)
      BY <3>2, <3>3
    <3>6. \A e \in ToSet(w) : \A f \in ToSet(rs[m].finding) : e < f
      <4> SUFFICES ASSUME NEW e \in ToSet(w), NEW f \in ToSet(rs[m].finding) PROVE e < f
        OBVIOUS
      <4>1. PICK i \in 1 .. m - 1 : e \in ToSet(rs[i].finding)
        BY <3>5
      <4>2. i \in 1 .. Len(rs) /\ i < m
        BY <1>0, <3>1
      <4> QED
        BY <3>1, <4>1, <4>2
    <3>7. u[m] \in Seq(Nat) /\ Ascending(u[m])
      BY <3>4, <3>5, <3>6, AccumulatedAscends
    <3>8. \A e \in ToSet(u[m]) : e \in ToSet(rs[m].finding) \/ e \in ToSet(w)
      BY <3>4, <3>5, AccumulatedIs
    <3>9. \A e \in ToSet(u[m]) : \E i \in 1 .. m : e \in ToSet(rs[i].finding)
      <4>1. m \in 1 .. m /\ \A i \in 1 .. m - 1 : i \in 1 .. m
        BY <3>1
      <4> QED
        BY <3>5, <3>8, <4>1
    <3> QED
      BY <2>3, <3>7, <3>9
  <2> QED
    BY <2>4, <2>5
<1>7. Good(Len(rs))
  <2>1. Len(rs) \in 0 .. Len(rs)
    BY <1>0
  <2> QED
    BY <1>5, <1>6, <2>1
<1> QED
  BY <1>2, <1>7
\* What the store lists of a source is in the order in which it was accepted.
LEMMA SourceAscends ==
    ASSUME NEW rs, NEW acc, Consistent(rs, acc), Numbered(acc), Named(acc), NEW s
    PROVE  LET fs == Findings(OfSource(ByTime(rs), s)) IN fs \in Seq(Nat) /\ Ascending(fs)
<1>1. rs \in Seq(Reports) /\ acc \in Seq(Reports) /\ Len(acc) \in Nat /\ Len(rs) \in Nat
  BY DEF Consistent, Numbered
<1>2. PICK t : t = OfSource(ByTime(rs), s)
  OBVIOUS
<1>3. PICK o : Selects(o, t, rs) /\ \A p, q \in 1 .. Len(t) : p < q => Ahead(rs, o[p], o[q])
  BY <1>1, <1>2, SourceIs
<1>4. t \in Seq(Reports) /\ \A k \in 1 .. Len(t) : o[k] \in 1 .. Len(rs) /\ t[k] = rs[o[k]]
  BY <1>3 DEF Selects
<1>5. ASSUME NEW p \in 1 .. Len(t), NEW q \in 1 .. Len(t), p < q,
             NEW e \in ToSet(t[p].finding), NEW f \in ToSet(t[q].finding)
      PROVE  e < f
  <2>1. PICK i, j : i = o[p] /\ j = o[q] /\ i \in 1 .. Len(rs) /\ j \in 1 .. Len(rs) /\ t[p] = rs[i] /\ t[q] = rs[j]
    BY <1>4
  <2>2. Ahead(rs, i, j)
    BY <1>3, <1>5, <2>1
  <2>3. ASSUME NEW k \in 1 .. Len(rs), NEW d \in ToSet(rs[k].finding)
        PROVE  ~IsHeartbeat(rs[k]) /\ rs[k].n = d /\ d \in 1 .. Len(acc) /\ acc[d] = rs[k]
    <3>1. rs[k].finding # <<>>
      BY <2>3 DEF ToSet
    <3>2. ~IsHeartbeat(rs[k])
      BY <3>1 DEF IsHeartbeat
    <3>3. PICK a \in 1 .. Len(acc) : a = rs[k].n /\ acc[a] = rs[k]
      BY <3>2 DEF Consistent
    <3>4. rs[k].finding = <<a>>
      BY <3>1, <3>3 DEF Named
    <3>5. d = a
      <4>1. d \in ToSet(<<a>>)
        BY <3>4
      <4> QED
        BY <4>1 DEF ToSet
    <3> QED
      BY <3>2, <3>3, <3>5
  <2>4. ~IsHeartbeat(rs[i]) /\ rs[i].n = e /\ e \in 1 .. Len(acc) /\ acc[e] = rs[i]
    BY <1>5, <2>1, <2>3
  <2>5. ~IsHeartbeat(rs[j]) /\ rs[j].n = f /\ f \in 1 .. Len(acc) /\ acc[f] = rs[j]
    BY <1>5, <2>1, <2>3
  <2>6. rs[i].received \in Nat /\ rs[j].received \in Nat
    BY <1>1, <2>1, ReportIs
  <2>7. CASE i < j
    BY <2>1, <2>4, <2>5, <2>7 DEF Consistent
  <2>8. CASE j <= i
    <3>1. rs[i].received < rs[j].received
      BY <1>1, <2>1, <2>2, <2>6, <2>8 DEF Ahead
    <3>2. ~(f < e)
      BY <2>4, <2>5, <2>6, <3>1 DEF Numbered
    <3>3. f # e
      BY <2>4, <2>5, <2>6, <3>1
    <3> QED
      BY <1>1, <2>4, <2>5, <3>2, <3>3
  <2> QED
    BY <1>1, <2>1, <2>7, <2>8
<1> QED
  BY <1>2, <1>4, <1>5, FindingsAscend

\* The findings at issue, and how LatestFindings lists them.
Shown(current, among, ranks) ==
    {f \in UNION {ToSet(current[s].findings) : s \in among \cap DOMAIN current} : Rank[f] \in ranks}

LEMMA ListingIs ==
    ASSUME NEW current, NEW among, NEW ranks, Shown(current, among, ranks) \subseteq 1 .. MaxAccepted
    PROVE  /\ IsFiniteSet(Shown(current, among, ranks))
           /\ Len(LatestFindings(current, among, ranks)) = Cardinality(Shown(current, among, ranks))
           /\ ToSet(LatestFindings(current, among, ranks)) = Shown(current, among, ranks)
           /\ LatestFindings(current, among, ranks) = <<>> <=> Shown(current, among, ranks) = {}
<1>1. PICK I : I = Shown(current, among, ranks)
  OBVIOUS
<1>2. MaxAccepted \in Nat /\ I \subseteq 1 .. MaxAccepted /\ Rank \in [1 .. MaxAccepted -> 0 .. 5]
  BY <1>1, CollectorAssumption
<1>3. IsFiniteSet(I)
  <2>1. IsFiniteSet(1 .. MaxAccepted)
    BY <1>2, FS_Interval
  <2> QED
    BY <1>2, <2>1, FS_Subset
<1>4. PICK before : before = [f \in I |-> {g \in I : Rank[g] < Rank[f] \/ (Rank[g] = Rank[f] /\ g < f)}]
  OBVIOUS
<1>5. Orders(before, I)
  <2>1. before \in [I -> SUBSET I]
    BY <1>4
  <2>2. \A i \in I : i \in Int /\ Rank[i] \in Int
    BY <1>2
  <2>3. \A i, j \in I : i \in before[j] <=> Rank[i] < Rank[j] \/ (Rank[i] = Rank[j] /\ i < j)
    BY <1>4
  <2>4. \A i \in I : i \notin before[i]
    BY <2>2, <2>3
  <2>5. \A i, j \in I : i = j \/ i \in before[j] \/ j \in before[i]
    BY <2>2, <2>3
  <2>6. \A i, j, k \in I : i \in before[j] /\ j \in before[k] => i \in before[k]
    BY <2>2, <2>3
  <2> QED
    BY <2>1, <2>4, <2>5, <2>6 DEF Orders
<1>6. PICK o : o = InOrder(I, before)
  OBVIOUS
<1>7. o = LatestFindings(current, among, ranks)
  BY <1>1, <1>4, <1>6 DEF LatestFindings, Shown
<1>8. PICK n : n = Cardinality(I)
  OBVIOUS
<1>9. n \in Nat /\ o \in [1 .. n -> I] /\ \A i \in I : \E k \in 1 .. n : o[k] = i
  BY <1>3, <1>5, <1>6, <1>8, InOrderIs
<1>10. Len(o) = n /\ o \in Seq(I)
  BY <1>9
<1>11. ToSet(o) = I
  BY <1>9 DEF ToSet
<1>12. o = <<>> <=> I = {}
  <2>1. ASSUME o = <<>> PROVE I = {}
    BY <1>11, <2>1 DEF ToSet
  <2>2. ASSUME I = {} PROVE o = <<>>
    <3>1. n = 0
      BY <1>8, <2>2, FS_EmptySet
    <3> QED
      BY <1>10, <3>1
  <2> QED
    BY <2>1, <2>2
<1> QED
  BY <1>1, <1>3, <1>7, <1>8, <1>10, <1>11, <1>12
LEMMA WorstIs ==
    ASSUME NEW fs, \A f \in ToSet(fs) : f \in 1 .. MaxAccepted
    PROVE  (Worst(fs) > 2) <=> (\A f \in ToSet(fs) : Rank[f] \notin 0 .. 2)
<1>1. PICK S : S = {Rank[f] : f \in ToSet(fs)} \cup {5}
  OBVIOUS
<1>2. S \subseteq 0 .. 5 /\ 5 \in S /\ \A f \in ToSet(fs) : Rank[f] \in S
  BY <1>1, CollectorAssumption
<1>3. \E x \in S : \A y \in S : x <= y
  <2>1. S \subseteq Nat /\ S # {}
    BY <1>2
  <2> QED
    BY <2>1, LeastOf
<1>4. PICK m : m = Min(S)
  OBVIOUS
<1>5. m \in S /\ \A y \in S : m <= y
  BY <1>3, <1>4 DEF Min
<1>6. m \in 0 .. 5 /\ Worst(fs) = m
  BY <1>1, <1>2, <1>4, <1>5 DEF Worst
<1>7. ASSUME m > 2, NEW f \in ToSet(fs) PROVE Rank[f] \notin 0 .. 2
  <2>1. Rank[f] \in S /\ m <= Rank[f]
    BY <1>2, <1>5
  <2> QED
    BY <1>6, <1>7, <2>1
<1>8. ASSUME \A f \in ToSet(fs) : Rank[f] \notin 0 .. 2 PROVE m > 2
  <2>1. \A x \in S : x \notin 0 .. 2
    BY <1>1, <1>8
  <2>2. m \notin 0 .. 2
    BY <1>5, <2>1
  <2> QED
    BY <1>6, <2>2
<1> QED
  BY <1>6, <1>7, <1>8

\* What current is, of each source in the store.
Sound(current, acc, rs) ==
    /\ DOMAIN current \subseteq Sources
    /\ \A s \in DOMAIN current :
          /\ current[s].findings \in Seq(Nat) /\ Ascending(current[s].findings)
          /\ \A f \in ToSet(current[s].findings) : Listed(acc, rs, s, f)

LEMMA CurrentIs == StoreInv => Sound(Current, accepted, reports)
<1> SUFFICES ASSUME StoreInv PROVE Sound(Current, accepted, reports)
  OBVIOUS
<1>1. Consistent(reports, accepted) /\ Numbered(accepted) /\ Named(accepted) /\ reports \in Seq(Reports)
  BY DEF StoreInv, Consistent
<1>2. DOMAIN Current = {r.source : r \in ToSet(reports)}
  BY DEF Current
<1>3. DOMAIN Current \subseteq Sources
  BY <1>1, <1>2, ReportIs DEF ToSet
<1>4. ASSUME NEW s \in DOMAIN Current
      PROVE  Current[s].findings = Findings(OfSource(ByTime(reports), s))
  BY <1>2, <1>4 DEF Current
<1>5. ASSUME NEW s \in DOMAIN Current
      PROVE  /\ Current[s].findings \in Seq(Nat) /\ Ascending(Current[s].findings)
             /\ \A f \in ToSet(Current[s].findings) : Listed(accepted, reports, s, f)
  <2>1. PICK fs : fs = Findings(OfSource(ByTime(reports), s))
    OBVIOUS
  <2>2. fs = Current[s].findings
    BY <1>4, <2>1
  <2>3. fs \in Seq(Nat) /\ Ascending(fs)
    BY <1>1, <2>1, SourceAscends
  <2>4. \A f \in ToSet(fs) : Listed(accepted, reports, s, f)
    BY <1>1, <2>1, ListedIs
  <2> QED
    BY <2>2, <2>3, <2>4
<1> QED
  BY <1>3, <1>5 DEF Sound

\* No finding is listed of two sources, or twice of one: the roll-up counts what the list shows.
LEMMA CountIs ==
    ASSUME NEW current, NEW acc, NEW rs, Sound(current, acc, rs)
    PROVE  Summary(current).count = Len(LatestFindings(current, Sources, 0 .. 5))
<1>1. PICK P : P = UNION {{s} \X DOMAIN current[s].findings : s \in DOMAIN current}
  OBVIOUS
<1>2. PICK all : all = Shown(current, Sources, 0 .. 5)
  OBVIOUS
<1>3. all = UNION {ToSet(current[s].findings) : s \in DOMAIN current}
  <2>1. Sources \cap DOMAIN current = DOMAIN current
    BY DEF Sound, Listed
  <2>2. \A s \in DOMAIN current : \A f \in ToSet(current[s].findings) : Rank[f] \in 0 .. 5
    BY CollectorAssumption DEF Sound, Listed
  <2> QED
    BY <1>2, <2>1, <2>2 DEF Shown
<1>4. all \subseteq 1 .. MaxAccepted
  BY <1>3 DEF Sound, Listed
<1>5. PICK g : g = [p \in P |-> current[p[1]].findings[p[2]]]
  OBVIOUS
<1>6. \A p \in P : /\ p[1] \in DOMAIN current /\ p[2] \in 1 .. Len(current[p[1]].findings)
                   /\ p = <<p[1], p[2]>> /\ g[p] \in ToSet(current[p[1]].findings)
  <2> SUFFICES ASSUME NEW p \in P
               PROVE  /\ p[1] \in DOMAIN current /\ p[2] \in 1 .. Len(current[p[1]].findings)
                      /\ p = <<p[1], p[2]>> /\ g[p] \in ToSet(current[p[1]].findings)
    OBVIOUS
  <2>1. PICK s \in DOMAIN current : p \in {s} \X DOMAIN current[s].findings
    BY <1>1
  <2>2. p[1] = s /\ p[2] \in DOMAIN current[s].findings /\ p = <<p[1], p[2]>>
    BY <2>1
  <2>3. current[s].findings \in Seq(Nat)
    BY DEF Sound, Listed
  <2>4. DOMAIN current[s].findings = 1 .. Len(current[s].findings)
    BY <2>3
  <2>5. g[p] = current[s].findings[p[2]]
    BY <1>5, <2>2
  <2> QED
    BY <2>2, <2>4, <2>5 DEF ToSet
<1>7. g \in [P -> all]
  BY <1>3, <1>5, <1>6
<1>8. ASSUME NEW p \in P, NEW q \in P, g[p] = g[q] PROVE p = q
  <2>1. acc[g[p]].source = p[1] /\ acc[g[q]].source = q[1]
    BY <1>6 DEF Sound, Listed
  <2>2. p[1] = q[1]
    BY <1>8, <2>1
  <2>3. PICK fs : fs = current[p[1]].findings
    OBVIOUS
  <2>4. fs \in Seq(Nat) /\ Ascending(fs) /\ p[2] \in 1 .. Len(fs) /\ q[2] \in 1 .. Len(fs) /\ Len(fs) \in Nat
    BY <1>6, <2>2, <2>3 DEF Sound, Listed
  <2>5. fs[p[2]] = fs[q[2]]
    BY <1>5, <1>8, <2>2, <2>3
  <2>6. ~(p[2] < q[2]) /\ ~(q[2] < p[2])
    BY <2>4, <2>5 DEF Ascending
  <2>7. p[2] = q[2]
    BY <2>4, <2>6
  <2> QED
    BY <1>6, <2>2, <2>7
<1>9. ASSUME NEW f \in all PROVE \E p \in P : g[p] = f
  <2>1. PICK s \in DOMAIN current : f \in ToSet(current[s].findings)
    BY <1>3
  <2>2. PICK i \in DOMAIN current[s].findings : f = current[s].findings[i]
    BY <2>1 DEF ToSet
  <2>3. <<s, i>> \in P
    BY <1>1
  <2>4. g[<<s, i>>] = f
    BY <1>5, <2>2, <2>3
  <2> QED
    BY <2>3, <2>4
<1>10. g \in Bijection(P, all)
  BY <1>7, <1>8, <1>9, Fun_IsBij
<1>11. ExistsBijection(all, P)
  BY <1>10, Fun_BijInverse, Fun_ExistsBij
<1>12. IsFiniteSet(all) /\ Len(LatestFindings(current, Sources, 0 .. 5)) = Cardinality(all)
  BY <1>2, <1>4, ListingIs
<1>13. Cardinality(P) = Cardinality(all)
  BY <1>11, <1>12, FS_Bijection
<1>14. Summary(current).count = Cardinality(P)
  BY <1>1 DEF Summary
<1> QED
  BY <1>12, <1>13, <1>14
\* Every finding that is listed is in the history.
LEMMA RecentHas ==
    ASSUME reports \in Seq(Reports), NEW i \in 1 .. Len(reports)
    PROVE  reports[i] \in ToSet(Recent(0))
<1>1. PICK b : b = ByTime(reports)
  OBVIOUS
<1>2. PICK o : /\ Selects(o, b, reports)
               /\ \A j \in 1 .. Len(reports) : \E k \in 1 .. Len(b) : o[k] = j
  BY <1>1, ByTimeIs
<1>3. PICK k \in 1 .. Len(b) : o[k] = i
  BY <1>2
<1>4. b \in Seq(Reports) /\ b[k] = reports[i] /\ Len(b) \in Nat
  BY <1>2, <1>3 DEF Selects
<1>5. PICK v : v = Reverse(b)
  OBVIOUS
<1>6. v = [m \in 1 .. Len(b) |-> b[(Len(b) - m) + 1]]
  BY <1>5 DEF Reverse
<1>7. Recent(0) = v
  BY <1>1, <1>5 DEF Recent
<1>8. PICK m \in 1 .. Len(b) : m = (Len(b) - k) + 1
  BY <1>4
<1>9. v[m] = b[k] /\ m \in DOMAIN v
  BY <1>4, <1>6, <1>8
<1> QED
  BY <1>4, <1>7, <1>9 DEF ToSet

\* A source's status, and the roll-up, are clean exactly when the list filtered to them shows
\* nothing of rank two or worse.
LEMMA CleanIs ==
    ASSUME NEW current, NEW acc, NEW rs, Sound(current, acc, rs)
    PROVE  /\ Summary(current).clean = (LatestFindings(current, Sources, 0 .. 2) = <<>>)
           /\ \A s \in DOMAIN current :
                 Summary(current).tools[s].clean = (LatestFindings(current, {s}, 0 .. 2) = <<>>)
<1>1. ASSUME NEW among
      PROVE  LatestFindings(current, among, 0 .. 2) = <<>> <=> Shown(current, among, 0 .. 2) = {}
  <2>1. Shown(current, among, 0 .. 2) \subseteq 1 .. MaxAccepted
    BY DEF Shown, Sound, Listed
  <2> QED
    BY <2>1, ListingIs
<1>2. ASSUME NEW s \in DOMAIN current
      PROVE  /\ Summary(current).tools[s].worst = Worst(current[s].findings)
             /\ Summary(current).tools[s].clean = (Worst(current[s].findings) > 2)
  BY <1>2 DEF Summary, ToolStatus
<1>3. ASSUME NEW s \in DOMAIN current
      PROVE  (Worst(current[s].findings) > 2) <=> (\A f \in ToSet(current[s].findings) : Rank[f] \notin 0 .. 2)
  <2>1. \A f \in ToSet(current[s].findings) : f \in 1 .. MaxAccepted
    BY DEF Sound, Listed
  <2> QED
    BY <2>1, WorstIs
<1>4. Shown(current, Sources, 0 .. 2) = {} <=>
        \A s \in DOMAIN current : \A f \in ToSet(current[s].findings) : Rank[f] \notin 0 .. 2
  BY DEF Shown, Sound, Listed
<1>5. ASSUME NEW s \in DOMAIN current
      PROVE  Shown(current, {s}, 0 .. 2) = {} <=> \A f \in ToSet(current[s].findings) : Rank[f] \notin 0 .. 2
  BY DEF Shown
<1>6. Summary(current).clean = (\A s \in DOMAIN current : Worst(current[s].findings) > 2)
  <2>1. Summary(current).clean =
          (\A s \in DOMAIN Summary(current).tools : Summary(current).tools[s].worst > 2)
    BY DEF Summary
  <2>2. DOMAIN Summary(current).tools = DOMAIN current
    BY DEF Summary
  <2> QED
    BY <1>2, <2>1, <2>2
<1>7. Summary(current).clean <=> LatestFindings(current, Sources, 0 .. 2) = <<>>
  BY <1>1, <1>3, <1>4, <1>6
<1>8. \A s \in DOMAIN current :
        Summary(current).tools[s].clean <=> LatestFindings(current, {s}, 0 .. 2) = <<>>
  BY <1>1, <1>2, <1>3, <1>5
<1>9. Summary(current).clean \in BOOLEAN
  BY <1>6
<1>10. ASSUME NEW s \in DOMAIN current PROVE Summary(current).tools[s].clean \in BOOLEAN
  <2>1. PICK w : w = Worst(current[s].findings)
    OBVIOUS
  <2>2. CASE w > 2
    <3>1. (w > 2) = TRUE
      BY Zenon, <2>2
    <3> QED
      BY Zenon, <1>2, <2>1, <3>1
  <2>3. CASE ~(w > 2)
    <3>1. (w > 2) = FALSE
      BY <2>3
    <3> QED
      BY Zenon, <1>2, <2>1, <3>1
  <2> QED
    BY <2>2, <2>3
<1>11. Summary(current).clean = (LatestFindings(current, Sources, 0 .. 2) = <<>>)
  BY Zenon, <1>7, <1>9
<1>12. \A s \in DOMAIN current :
         Summary(current).tools[s].clean = (LatestFindings(current, {s}, 0 .. 2) = <<>>)
  BY Zenon, <1>8, <1>10
<1> QED
  BY <1>11, <1>12

\* The views agree: the roll-up and a source's status are clean exactly when the list shows
\* nothing of rank two or worse of them, the roll-up counts what the list shows, and what is
\* listed is in the history (Summary, LatestFindings, Recent over one current).
THEOREM ViewsTellTheSame == Spec => []ViewsAgree
<1>1. StoreInv => ViewsAgree
  <2> SUFFICES ASSUME StoreInv PROVE ViewsAgree
    OBVIOUS
  <2>1. PICK current : current = Current
    OBVIOUS
  <2>2. Sound(current, accepted, reports) /\ reports \in Seq(Reports)
    BY <2>1, CurrentIs DEF StoreInv, Consistent
  <2>3. /\ Summary(current).clean = (LatestFindings(current, Sources, 0 .. 2) = <<>>)
        /\ \A s \in DOMAIN current :
              Summary(current).tools[s].clean = (LatestFindings(current, {s}, 0 .. 2) = <<>>)
    BY ZenonT(30), <2>2, CleanIs
  <2>4. Summary(current).count = Len(LatestFindings(current, Sources, 0 .. 5))
    BY ZenonT(30), <2>2, CountIs
  <2>5. ToSet(LatestFindings(current, Sources, 0 .. 5)) \subseteq UNION {ToSet(r.finding) : r \in ToSet(Recent(0))}
    <3> SUFFICES ASSUME NEW f \in ToSet(LatestFindings(current, Sources, 0 .. 5))
                 PROVE  \E r \in ToSet(Recent(0)) : f \in ToSet(r.finding)
      OBVIOUS
    <3>1. Shown(current, Sources, 0 .. 5) \subseteq 1 .. MaxAccepted
      BY <2>2 DEF Shown, Sound, Listed
    <3>2. f \in Shown(current, Sources, 0 .. 5)
      BY <3>1, ListingIs
    <3>3. PICK s \in DOMAIN current : f \in ToSet(current[s].findings)
      BY <3>2 DEF Shown
    <3>4. PICK i \in 1 .. Len(reports) : reports[i].finding = <<f>>
      BY <2>2, <3>3 DEF Sound, Listed
    <3>5. f \in ToSet(<<f>>)
      BY DEF ToSet
    <3> QED
      BY <2>2, <3>4, <3>5, RecentHas
  <2> QED
    BY <2>1, <2>3, <2>4, <2>5 DEF ViewsAgree
<1> QED
  BY <1>1, StoreAlways, PTL

=============================================================================
