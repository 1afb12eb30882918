---------------------------- MODULE DeliveryProofs ----------------------------
(* Theorems about Delivery, for any number of findings, any caps and any     *)
(* number of outages, lost answers, crashes and restarts.  The promises hold *)
(* as long as no two flushes overlap.                                        *)
EXTENDS Delivery, FiniteSetTheorems, WellFoundedInduction, SequenceTheorems, TLAPS

-----------------------------------------------------------------------------
(* The inductive invariant.                                                  *)

InFlush(f) == pc[f] \notin {"idle", "done"}

(* Only one flush is in progress; the last flush begins with the ticker's    *)
(* over, and leaves nothing in memory; a flush that has not drained the      *)
(* buffer, or has returned, holds nothing.                                   *)
Control ==
    /\ \A f, g \in Flushers : InFlush(f) /\ InFlush(g) => f = g
    /\ pc["ticker"] # "done"
    /\ pc["final"] # "idle" => proc = "stopping" /\ batch["ticker"] = <<>>
    /\ pc["final"] \notin {"idle", "warned"} => items = <<>>
    /\ proc = "down" => items = <<>> /\ \A f \in Flushers : pc[f] = "idle"
    /\ \A f \in Flushers : pc[f] \in {"idle", "warned", "done"} => batch[f] = <<>>

(* The replay's list is the directory; what it sends is its oldest file, or, *)
(* once the directory is empty, the fresh report; the number a write has     *)
(* loaded is still the last one, and no file has a later one.                *)
Replaying ==
    /\ proc # "down" => \A s \in DOMAIN spool : s <= seq
    /\ \A f \in Flushers :
          /\ pc[f] \in {"replay", "resend", "acked"} => todo[f] = DOMAIN spool
          /\ pc[f] = "resend" => \E s \in DOMAIN spool : Oldest(f, s) /\ sending[f] = spool[s]
          /\ pc[f] = "fresh" => DOMAIN spool = {} /\ sending[f] = batch[f]
          /\ pc[f] = "acked" => \A s \in DOMAIN spool : Oldest(f, s) => ToSet(spool[s]) \subseteq Delivered
          /\ pc[f] = "store" => reg[f] = seq

Ascending(s) == \A i, j \in 1 .. Len(s) : i < j => s[i] < s[j]

Below(S, T) == \A m \in S, n \in T : m < n

(* Findings are spooled, drained and buffered in the order they were made.   *)
Ordered ==
    /\ Ascending(items)
    /\ \A f \in Flushers : Ascending(batch[f])
    /\ \A s \in DOMAIN spool : Ascending(spool[s])
    /\ \A s, t \in DOMAIN spool : s < t => Below(ToSet(spool[s]), ToSet(spool[t]))
    /\ \A f \in Flushers : /\ Below(Spooled, ToSet(batch[f]))
                           /\ Below(ToSet(batch[f]), ToSet(items))
    /\ Below(Spooled, ToSet(items))

(* The collector has nothing younger than what it still lacks; nothing that  *)
(* was given up is still on its way; every finding is accounted for.         *)
Sound ==
    /\ Below(Delivered, (InMemory \cup Spooled) \ Delivered)
    /\ Delivered \cap ToSet(items) = {}
    /\ (InMemory \cup Spooled) \cap (trimmed \cup loud \cup crashed) = {}
    /\ InMemory \cup Spooled \cup Settled = 1 .. produced

(* A file may have been delivered once more than answers and restarts        *)
(* explain, when it has just been acknowledged or the process died then.     *)
Acked(s) == proc = "down" \/ \E f \in Flushers : pc[f] = "acked" /\ Oldest(f, s)

Counted ==
    /\ \A f \in Flushers : \A n \in ToSet(batch[f]) : Copies(n) <= lostAcks
    /\ \A s \in DOMAIN spool : \A n \in ToSet(spool[s]) :
          Copies(n) <= lostAcks + restarts + (IF Acked(s) THEN 1 ELSE 0)
    /\ \A n \in 1 .. produced : Copies(n) <= 1 + lostAcks + restarts

Orderly == overlap \/ (Control /\ Replaying /\ Ordered /\ Sound /\ Counted)

-----------------------------------------------------------------------------
(* Sequences.                                                                *)

(* The findings of a report.                                                 *)
LEMMA InToSet ==
    ASSUME NEW S, NEW s \in Seq(S)
    PROVE  /\ ToSet(s) \subseteq S
           /\ \A i \in 1 .. Len(s) : s[i] \in ToSet(s)
           /\ \A x \in ToSet(s) : \E i \in 1 .. Len(s) : x = s[i]
<1>1. DOMAIN s = 1 .. Len(s) /\ \A i \in 1 .. Len(s) : s[i] \in S
  OBVIOUS
<1> QED
  BY <1>1 DEF ToSet

(* A report is about findings.                                               *)
LEMMA InReport == \A s \in Seq(1 .. Findings) : ToSet(s) \subseteq 1 .. Findings
BY InToSet

(* What appending and concatenating do to them.                              *)
LEMMA ToSetAppend ==
    ASSUME NEW S, NEW s \in Seq(S), NEW x \in S
    PROVE  Append(s, x) \in Seq(S) /\ ToSet(Append(s, x)) = ToSet(s) \cup {x}
<1> DEFINE a == Append(s, x)
<1>1. /\ a \in Seq(S) /\ Len(a) = Len(s) + 1 /\ Len(s) \in Nat
      /\ \A i \in 1 .. Len(s) : a[i] = s[i] /\ i \in 1 .. Len(a)
      /\ a[Len(a)] = x /\ Len(a) \in 1 .. Len(a)
      /\ \A i \in 1 .. Len(a) : i = Len(a) \/ i \in 1 .. Len(s)
  OBVIOUS
<1> HIDE DEF a
<1>2. ToSet(a) \subseteq ToSet(s) \cup {x}
  BY <1>1, InToSet
<1>3. ToSet(s) \cup {x} \subseteq ToSet(a)
  BY <1>1, InToSet
<1> QED
  BY <1>1, <1>2, <1>3 DEF a

LEMMA ToSetConcat ==
    ASSUME NEW S, NEW s \in Seq(S), NEW t \in Seq(S)
    PROVE  s \o t \in Seq(S) /\ ToSet(s \o t) = ToSet(s) \cup ToSet(t)
<1> DEFINE a == s \o t
<1>1. /\ a \in Seq(S) /\ Len(a) = Len(s) + Len(t) /\ Len(s) \in Nat /\ Len(t) \in Nat
      /\ \A i \in 1 .. Len(s) : a[i] = s[i]
      /\ \A i \in 1 .. Len(t) : a[Len(s) + i] = t[i]
  OBVIOUS
<1> HIDE DEF a
<1>2. ASSUME NEW x \in ToSet(a) PROVE x \in ToSet(s) \cup ToSet(t)
  <2>1. PICK i \in 1 .. Len(a) : x = a[i]
    BY <1>1, InToSet
  <2>2. CASE i \in 1 .. Len(s)
    BY <1>1, <2>1, <2>2, InToSet
  <2>3. CASE i \notin 1 .. Len(s)
    <3>1. i - Len(s) \in 1 .. Len(t) /\ i = Len(s) + (i - Len(s))
      BY <1>1, <2>3
    <3>2. x = t[i - Len(s)]
      BY <1>1, <2>1, <3>1
    <3> QED
      BY <3>1, <3>2, InToSet
  <2> QED
    BY <2>2, <2>3
<1>3. ASSUME NEW x \in ToSet(s) PROVE x \in ToSet(a)
  <2>1. PICK i \in 1 .. Len(s) : x = s[i]
    BY InToSet
  <2>2. i \in 1 .. Len(a) /\ x = a[i]
    BY <1>1, <2>1
  <2> QED
    BY <1>1, <2>2, InToSet
<1>4. ASSUME NEW x \in ToSet(t) PROVE x \in ToSet(a)
  <2>1. PICK i \in 1 .. Len(t) : x = t[i]
    BY InToSet
  <2>2. Len(s) + i \in 1 .. Len(a) /\ x = a[Len(s) + i]
    BY <1>1, <2>1
  <2> QED
    BY <1>1, <2>2, InToSet
<1>5. ToSet(a) = ToSet(s) \cup ToSet(t)
  BY <1>2, <1>3, <1>4
<1> QED
  BY <1>1, <1>5 DEF a

(* The buffer's cap keeps the newest findings in their order.                *)
LEMMA NewestKeeps ==
    ASSUME NEW S, NEW s \in Seq(S)
    PROVE  /\ Newest(s) \in Seq(S)
           /\ Len(Newest(s)) <= BufferMax /\ Len(Newest(s)) <= Len(s)
           /\ ToSet(Newest(s)) \subseteq ToSet(s)
           /\ Len(s) > 0 => s[Len(s)] \in ToSet(Newest(s))
           /\ S \subseteq Nat /\ Ascending(s) => Ascending(Newest(s))
<1> DEFINE k == Len(s) - BufferMax
<1>0. BufferMax \in Nat /\ BufferMax > 0 /\ Len(s) \in Nat
  BY DeliveryAssumption
<1>1. CASE Len(s) <= BufferMax
  <2>1. Newest(s) = s
    BY <1>0, <1>1 DEF Newest
  <2>2. Len(s) > 0 => Len(s) \in 1 .. Len(s)
    BY <1>0
  <2> QED
    BY <1>0, <1>1, <2>1, <2>2, InToSet
<1>2. CASE Len(s) > BufferMax
  <2>1. Newest(s) = SubSeq(s, k + 1, Len(s))
    BY <1>0, <1>2 DEF Newest
  <2>2. k \in Nat /\ k + 1 \in Int /\ Len(s) \in Int /\ \A i \in k + 1 .. Len(s) : s[i] \in S
    BY <1>0, <1>2
  <2>3. /\ Newest(s) \in Seq(S)
        /\ Len(Newest(s)) = (IF k + 1 <= Len(s) THEN Len(s) - (k + 1) + 1 ELSE 0)
        /\ \A i \in 1 .. Len(s) - (k + 1) + 1 : Newest(s)[i] = s[(k + 1) + i - 1]
    BY <2>1, <2>2, SubSeqProperties
  <2>4. Len(Newest(s)) = BufferMax
    BY <1>0, <1>2, <2>3
  <2>5. \A i \in 1 .. BufferMax : Newest(s)[i] = s[k + i] /\ k + i \in 1 .. Len(s)
    BY <1>0, <1>2, <2>2, <2>3
  <2>6. ToSet(Newest(s)) \subseteq ToSet(s)
    <3> SUFFICES ASSUME NEW x \in ToSet(Newest(s)) PROVE x \in ToSet(s)
      OBVIOUS
    <3>1. PICK i \in 1 .. Len(Newest(s)) : x = Newest(s)[i]
      BY <2>3, InToSet
    <3>2. k + i \in 1 .. Len(s) /\ x = s[k + i]
      BY <2>4, <2>5, <3>1
    <3> QED
      BY <3>2, InToSet
  <2>7. ASSUME S \subseteq Nat, Ascending(s) PROVE Ascending(Newest(s))
    <3> SUFFICES ASSUME NEW i \in 1 .. BufferMax, NEW j \in 1 .. BufferMax, i < j PROVE Newest(s)[i] < Newest(s)[j]
      BY <2>4 DEF Ascending
    <3>1. k + i < k + j
      BY <2>2
    <3> QED
      BY <2>5, <2>7, <3>1 DEF Ascending
  <2>8. s[Len(s)] \in ToSet(Newest(s))
    <3>1. BufferMax \in 1 .. BufferMax /\ k + BufferMax = Len(s)
      BY <1>0
    <3>2. Newest(s)[BufferMax] = s[Len(s)]
      BY <2>5, <3>1
    <3> QED
      BY <2>3, <2>4, <3>1, <3>2, InToSet
  <2> QED
    BY <1>0, <1>2, <2>3, <2>4, <2>6, <2>7, <2>8
<1> QED
  BY <1>0, <1>1, <1>2

(* A younger finding comes last.                                             *)
LEMMA AscendingAppend ==
    ASSUME NEW S, S \subseteq Nat, NEW s \in Seq(S), NEW n \in Nat, Ascending(s), Below(ToSet(s), {n})
    PROVE  Ascending(Append(s, n))
<1> SUFFICES ASSUME NEW i \in 1 .. Len(s) + 1, NEW j \in 1 .. Len(s) + 1, i < j
             PROVE  Append(s, n)[i] < Append(s, n)[j]
  BY DEF Ascending
<1>1. i \in 1 .. Len(s) /\ s[i] \in ToSet(s) /\ Append(s, n)[i] = s[i]
  BY InToSet
<1>2. CASE j = Len(s) + 1
  BY <1>1, <1>2 DEF Below
<1>3. CASE j # Len(s) + 1
  BY <1>1, <1>3 DEF Ascending
<1> QED
  BY <1>2, <1>3

-----------------------------------------------------------------------------
(* Types.                                                                    *)

(* A non-empty set of numbers has a least one.                               *)
LEMMA LeastOf ==
    ASSUME NEW S, S \subseteq Nat, S # {}
    PROVE  \E s \in S : \A t \in S : s <= t
<1>1. \E s \in S : \A t \in S : ~(<<t, s>> \in OpToRel(<, Nat))
  BY NatLessThanWellFounded, WFMin
<1>2. \A s, t \in Nat : t < s => <<t, s>> \in OpToRel(<, Nat)
  BY DEF OpToRel
<1>3. PICK s \in S : \A t \in S : ~(<<t, s>> \in OpToRel(<, Nat))
  BY <1>1
<1>4. ASSUME NEW t \in S PROVE s <= t
  <2>1. s \in Nat /\ t \in Nat /\ ~(t < s)
    BY <1>2, <1>3
  <2> QED
    BY <2>1
<1> QED
  BY <1>4

(* The count cap bounds the directory.                                       *)
LEMMA KeptBounded ==
    ASSUME NEW D, D \subseteq Nat, IsFiniteSet(D)
    PROVE  Kept(D) \subseteq D /\ IsFiniteSet(Kept(D)) /\ Cardinality(Kept(D)) <= SpoolMax
<1>1. Kept(D) \subseteq D /\ IsFiniteSet(Kept(D))
  BY FS_Subset DEF Kept
<1>2. CASE Kept(D) = {}
  BY <1>2, FS_EmptySet, DeliveryAssumption
<1>3. CASE Kept(D) # {}
  <2>1. PICK s \in Kept(D) : \A t \in Kept(D) : s <= t
    BY <1>1, <1>3, LeastOf
  <2> DEFINE T == {t \in D : t > s}
  <2>2. IsFiniteSet(T) /\ Cardinality(T) \in Nat /\ Cardinality(T) < SpoolMax
    BY <2>1, FS_Subset, FS_CardinalityType DEF Kept
  <2>3. IsFiniteSet(T \cup {s}) /\ Cardinality(T \cup {s}) <= Cardinality(T) + 1
    <3> HIDE DEF T
    <3>1. /\ IsFiniteSet(T \cup {s})
          /\ Cardinality(T \cup {s}) = IF s \in T THEN Cardinality(T) ELSE Cardinality(T) + 1
      BY <2>2, FS_AddElement
    <3> QED
      BY <2>2, <3>1
  <2>4. Kept(D) \subseteq T \cup {s}
    <3> SUFFICES ASSUME NEW t \in Kept(D), t # s PROVE t \in T
      OBVIOUS
    <3>1. t \in D /\ t \in Nat /\ s \in Nat /\ s <= t
      BY <1>1, <2>1
    <3> QED
      BY <3>1
  <2>5. Cardinality(Kept(D)) <= Cardinality(T \cup {s}) /\ Cardinality(Kept(D)) \in Nat /\ Cardinality(T \cup {s}) \in Nat
    BY <1>1, <2>3, <2>4, FS_Subset, FS_CardinalityType
  <2> QED
    BY <1>1, <2>2, <2>3, <2>5, DeliveryAssumption
<1> QED
  BY <1>2, <1>3

Typed == TypeOK /\ IsFiniteSet(DOMAIN spool)

(* An exhausted or shortened directory is a directory.                       *)
LEMMA Shortened ==
    ASSUME Typed, NEW s
    PROVE  /\ DOMAIN Without(s) = DOMAIN spool \ {s}
           /\ \A t \in DOMAIN spool \ {s} : Without(s)[t] = spool[t]
           /\ IsFiniteSet(DOMAIN Without(s)) /\ DOMAIN Without(s) \subseteq Nat \ {0}
           /\ Cardinality(DOMAIN Without(s)) <= SpoolMax
           /\ Range(Without(s)) \subseteq Seq(1 .. Findings)
<1>1. DOMAIN Without(s) = DOMAIN spool \ {s} /\ \A t \in DOMAIN spool \ {s} : Without(s)[t] = spool[t]
  BY DEF Without, Restrict
<1>2. DOMAIN Without(s) \subseteq DOMAIN spool /\ IsFiniteSet(DOMAIN spool)
      /\ Cardinality(DOMAIN spool) <= SpoolMax
  BY <1>1 DEF Typed, TypeOK
<1>3. /\ IsFiniteSet(DOMAIN Without(s)) /\ Cardinality(DOMAIN Without(s)) <= Cardinality(DOMAIN spool)
      /\ Cardinality(DOMAIN Without(s)) \in Nat /\ Cardinality(DOMAIN spool) \in Nat
  BY <1>2, FS_Subset, FS_CardinalityType
<1>4. Range(Without(s)) \subseteq Seq(1 .. Findings)
  BY <1>1 DEF Typed, TypeOK, Range
<1> QED
  BY <1>1, <1>2, <1>3, <1>4, DeliveryAssumption DEF Typed, TypeOK

(* The directory a write leaves when the disk takes the report.              *)
Stored(n, report) ==
    LET dir == [s \in DOMAIN spool \cup {n} |-> IF s = n THEN report ELSE spool[s]]
    IN  Restrict(dir, Kept(DOMAIN dir))

LEMMA StoredIs ==
    ASSUME Typed, NEW n \in Nat \ {0}, NEW report \in Seq(1 .. Findings)
    PROVE  /\ DOMAIN Stored(n, report) = Kept(DOMAIN spool \cup {n})
           /\ Kept(DOMAIN spool \cup {n}) \subseteq DOMAIN spool \cup {n}
           /\ \A t \in DOMAIN Stored(n, report) : Stored(n, report)[t] = IF t = n THEN report ELSE spool[t]
           /\ IsFiniteSet(DOMAIN Stored(n, report)) /\ DOMAIN Stored(n, report) \subseteq Nat \ {0}
           /\ Cardinality(DOMAIN Stored(n, report)) <= SpoolMax
           /\ Range(Stored(n, report)) \subseteq Seq(1 .. Findings)
<1> DEFINE D == DOMAIN spool \cup {n}
<1>1. DOMAIN Stored(n, report) = Kept(D)
  BY DEF Stored, Restrict
<1>2. IsFiniteSet(D) /\ D \subseteq Nat \ {0}
  BY FS_AddElement DEF Typed, TypeOK
<1>3. Kept(D) \subseteq D /\ IsFiniteSet(Kept(D)) /\ Cardinality(Kept(D)) <= SpoolMax
  <2>1. D \subseteq Nat
    BY <1>2
  <2> HIDE DEF D
  <2> QED
    BY <1>2, <2>1, KeptBounded
<1>4. \A t \in DOMAIN Stored(n, report) : Stored(n, report)[t] = IF t = n THEN report ELSE spool[t]
  BY <1>1, <1>3 DEF Stored, Restrict
<1>5. \A t \in DOMAIN Stored(n, report) : t = n \/ t \in DOMAIN spool
  BY <1>1, <1>3
<1>6. Range(Stored(n, report)) \subseteq Seq(1 .. Findings)
  BY <1>4, <1>5 DEF Typed, TypeOK, Range
<1> QED
  BY <1>1, <1>2, <1>3, <1>4, <1>6

LEMMA TypedInit == Init => Typed
<1> SUFFICES ASSUME Init PROVE Typed
  OBVIOUS
<1>1. DOMAIN spool = {} /\ Range(spool) = {}
  BY DEF Init, Range
<1>2. IsFiniteSet(DOMAIN spool) /\ Cardinality(DOMAIN spool) = 0
  BY <1>1, FS_EmptySet
<1>3. <<>> \in Seq(1 .. Findings) /\ Len(<<>>) <= BufferMax /\ 0 \in 0 .. Findings
      /\ 0 \in 0 .. MaxLostAcks /\ 0 \in 0 .. MaxRestarts /\ 0 <= SpoolMax
  BY DeliveryAssumption
<1> QED
  BY <1>1, <1>2, <1>3 DEF Init, Typed, TypeOK

LEMMA TypedNext == Typed /\ [Next]_vars => Typed'
<1> SUFFICES ASSUME Typed, [Next]_vars PROVE Typed'
  OBVIOUS
<1> USE DEF Typed, TypeOK, Goto
<1>1. CASE Add
  <2> DEFINE all == Append(items, produced + 1)
  <2>1. all \in Seq(1 .. Findings) /\ ToSet(all) = ToSet(items) \cup {produced + 1} /\ ToSet(items) \subseteq 1 .. Findings
    <3>1. produced + 1 \in 1 .. Findings
      BY <1>1, DeliveryAssumption DEF Add
    <3>2. items \in Seq(1 .. Findings)
      OBVIOUS
    <3> HIDE DEF Typed, TypeOK
    <3>3. ToSet(items) \subseteq 1 .. Findings
      BY <3>2, InReport
    <3>4. PICK S : S = 1 .. Findings
      OBVIOUS
    <3>5. PICK n : n = produced + 1
      OBVIOUS
    <3>6. Append(items, n) \in Seq(S) /\ ToSet(Append(items, n)) = ToSet(items) \cup {n}
      <4>1. n \in S /\ items \in Seq(S)
        BY <3>1, <3>2, <3>4, <3>5
      <4> QED
        BY <4>1, ToSetAppend
    <3> QED
      BY <3>3, <3>4, <3>5, <3>6
  <2> HIDE DEF all
  <2>2. /\ Newest(all) \in Seq(1 .. Findings) /\ Len(Newest(all)) <= BufferMax /\ Len(Newest(all)) <= Len(all)
        /\ Len(all) \in Nat /\ Len(Newest(all)) \in Nat
    BY <2>1, NewestKeeps
  <2>3. ToSet(all) \subseteq 1 .. Findings
    BY <2>1, InToSet
  <2>4. /\ produced' = produced + 1 /\ items' = Newest(all) /\ dropped' = dropped + (Len(all) - Len(Newest(all)))
        /\ trimmed' = trimmed \cup (ToSet(all) \ ToSet(Newest(all))) /\ produced < Findings
    BY <1>1 DEF Add, all
  <2>5. produced' \in 0 .. Findings /\ dropped' \in Nat /\ trimmed' \subseteq 1 .. Findings
    BY <2>2, <2>3, <2>4, DeliveryAssumption
  <2> QED
    BY <1>1, <2>2, <2>4, <2>5 DEF Add
<1>2. ASSUME NEW f \in Flushers, FlushStart(f) PROVE Typed'
  BY <1>2 DEF FlushStart, mem
<1>3. ASSUME NEW f \in Flushers, Drain(f) PROVE Typed'
  BY <1>3, DeliveryAssumption, SMTT(30) DEF Drain, hist
<1>4. ASSUME NEW f \in Flushers, ReplayList(f) PROVE Typed'
  BY <1>4 DEF ReplayList, hist, mem
<1>5. ASSUME NEW f \in Flushers, ReplayNext(f) PROVE Typed'
  <2>1. CASE todo[f] = {} /\ Goto(f, "fresh") /\ sending' = [sending EXCEPT ![f] = batch[f]] /\ UNCHANGED <<spool, todo, loud>>
    BY <1>5, <2>1 DEF ReplayNext, mem
  <2>2. ASSUME NEW s \in DOMAIN spool, Goto(f, "resend"), sending' = [sending EXCEPT ![f] = spool[s]], UNCHANGED <<spool, todo, loud>>
        PROVE  Typed'
    <3>1. spool[s] \in Seq(1 .. Findings)
      BY DEF Range
    <3> QED
      BY <1>5, <2>2, <3>1 DEF ReplayNext, mem
  <2>3. ASSUME NEW s \in todo[f], loud' = loud \cup IF s \in DOMAIN spool THEN ToSet(spool[s]) ELSE {},
               spool' = Without(s), todo' = [todo EXCEPT ![f] = @ \ {s}], UNCHANGED <<pc, sending>>
        PROVE  Typed'
    <3>1. s \in DOMAIN spool => ToSet(spool[s]) \subseteq 1 .. Findings
      BY InReport DEF Range
    <3>2. /\ IsFiniteSet(DOMAIN spool') /\ DOMAIN spool' \subseteq Nat \ {0}
          /\ Cardinality(DOMAIN spool') <= SpoolMax /\ Range(spool') \subseteq Seq(1 .. Findings)
      BY <2>3, Shortened
    <3>3. loud' \subseteq 1 .. Findings
      BY <2>3, <3>1
    <3> QED
      BY <1>5, <2>3, <3>2, <3>3 DEF ReplayNext, mem
  <2> QED
    BY <1>5, <2>1, <2>2, <2>3 DEF ReplayNext
<1>6. ASSUME NEW f \in Flushers, PostOK(f) PROVE Typed'
  <2>1. received' \in Seq(1 .. Findings)
    BY <1>6, ToSetConcat DEF PostOK
  <2>2. /\ sending' \in [Flushers -> Seq(1 .. Findings)] /\ batch' \in [Flushers -> Seq(1 .. Findings)]
        /\ todo' \in [Flushers -> SUBSET (Nat \ {0})]
    <3>1. \/ batch' = batch /\ todo' = todo
          \/ batch' = [batch EXCEPT ![f] = <<>>] /\ todo' = [todo EXCEPT ![f] = {}]
      BY <1>6 DEF PostOK, Return
    <3>2. sending' = [sending EXCEPT ![f] = <<>>] /\ <<>> \in Seq(1 .. Findings)
      BY <1>6 DEF PostOK
    <3> QED
      BY <3>1, <3>2
  <2>3. pc' \in [Flushers -> {"idle", "warned", "drained", "replay", "resend", "acked",
                            "fresh", "write", "store", "done"}]
    <3>1. Goto(f, "acked") \/ Goto(f, "idle") \/ Goto(f, "done")
      BY <1>6 DEF PostOK, Return, Finished
    <3> QED
      BY <3>1
  <2>4. UNCHANGED <<produced, mem, spool, reg, proc, up, hist, overlap>>
    BY <1>6 DEF PostOK
  <2> QED
    BY <2>1, <2>2, <2>3, <2>4 DEF mem, hist
<1>7. ASSUME NEW f \in Flushers, PostFail(f) PROVE Typed'
  <2>1. received' \in Seq(1 .. Findings) /\ lostAcks' \in 0 .. MaxLostAcks
    <3>1. received \o sending[f] \in Seq(1 .. Findings)
      BY ToSetConcat
    <3>2. /\ received' = received \/ received' = received \o sending[f]
          /\ lostAcks' = lostAcks \/ (lostAcks < MaxLostAcks /\ lostAcks' = lostAcks + 1)
      BY <1>7 DEF PostFail
    <3>3. lostAcks' \in 0 .. MaxLostAcks
      BY <3>2, DeliveryAssumption, SMTT(30)
    <3> QED
      BY <3>1, <3>2, <3>3
  <2> QED
    BY <1>7, <2>1 DEF PostFail, OnFailure, mem
<1>8. ASSUME NEW f \in Flushers, RemoveSent(f) PROVE Typed'
  <2>1. PICK s \in todo[f] : spool' = Without(s) /\ todo' = [todo EXCEPT ![f] = @ \ {s}]
    BY <1>8 DEF RemoveSent
  <2>2. /\ IsFiniteSet(DOMAIN spool') /\ DOMAIN spool' \subseteq Nat \ {0}
        /\ Cardinality(DOMAIN spool') <= SpoolMax /\ Range(spool') \subseteq Seq(1 .. Findings)
    BY <2>1, Shortened
  <2> QED
    BY <1>8, <2>1, <2>2 DEF RemoveSent, mem, hist
<1>9. ASSUME NEW f \in Flushers, WriteLoad(f) PROVE Typed'
  BY <1>9 DEF WriteLoad, mem, hist
<1>10. ASSUME NEW f \in Flushers, WriteStore(f) PROVE Typed'
  <2> DEFINE n == reg[f] + 1
             dir == [s \in DOMAIN spool \cup {n} |-> IF s = n THEN batch[f] ELSE spool[s]]
  <2>1. n \in Nat \ {0} /\ batch[f] \in Seq(1 .. Findings) /\ ToSet(batch[f]) \subseteq 1 .. Findings
    BY InReport
  <2>2. Evicted(dir) \subseteq 1 .. Findings
    <3>1. \A s \in DOMAIN dir : dir[s] \in Seq(1 .. Findings)
      BY <2>1 DEF Range
    <3> HIDE DEF dir
    <3> QED
      BY <3>1, InReport DEF Evicted
  <2>3. /\ seq' = n
        /\ \/ spool' = Stored(n, batch[f]) /\ loud' = loud \cup Evicted(dir)
           \/ loud' = loud \cup ToSet(batch[f]) /\ UNCHANGED spool
        /\ Return(f) /\ reg' = [reg EXCEPT ![f] = 0]
        /\ UNCHANGED <<produced, items, dropped, sending, proc, up, received, trimmed,
                   warned, crashed, lostAcks, restarts, overlap>>
    BY <1>10 DEF WriteStore, Stored
  <2> HIDE DEF n, dir
  <2>5. spool' = spool \/ spool' = Stored(n, batch[f])
    BY <2>3
  <2>6. loud' \subseteq 1 .. Findings
    BY <2>1, <2>2, <2>3
  <2>4. /\ IsFiniteSet(DOMAIN spool') /\ DOMAIN spool' \subseteq Nat \ {0}
        /\ Cardinality(DOMAIN spool') <= SpoolMax /\ Range(spool') \subseteq Seq(1 .. Findings)
        /\ loud' \subseteq 1 .. Findings
    <3>1. Typed /\ n \in Nat \ {0} /\ batch[f] \in Seq(1 .. Findings)
      BY <2>1
    <3>2. /\ IsFiniteSet(DOMAIN Stored(n, batch[f])) /\ DOMAIN Stored(n, batch[f]) \subseteq Nat \ {0}
          /\ Cardinality(DOMAIN Stored(n, batch[f])) <= SpoolMax
          /\ Range(Stored(n, batch[f])) \subseteq Seq(1 .. Findings)
      <4> HIDE DEF Typed, TypeOK
      <4> QED
        BY <3>1, StoredIs, ZenonT(30)
    <3> QED
      BY <2>5, <2>6, <3>2
  <2> QED
    BY <2>1, <2>3, <2>4 DEF Return, Finished
<1>11. CASE Stop
  BY <1>11 DEF Stop, mem, hist, flush
<1>12. CASE Exit
  BY <1>12, DeliveryAssumption, SMTT(30) DEF Exit, Wipe, hist
<1>13. CASE Crash
  <2>1. InMemory \subseteq 1 .. Findings
    <3>1. ToSet(items) \subseteq 1 .. Findings /\ \A f \in Flushers : ToSet(batch[f]) \subseteq 1 .. Findings
      BY InReport
    <3> QED
      BY <3>1 DEF InMemory
  <2>2. <<>> \in Seq(1 .. Findings) /\ Len(<<>>) <= BufferMax
    BY DeliveryAssumption
  <2>3. crashed' \subseteq 1 .. Findings
    BY <1>13, <2>1 DEF Crash
  <2> QED
    BY <1>13, <2>2, <2>3 DEF Crash, Wipe
<1>14. CASE Restart
  BY <1>14, DeliveryAssumption, SMTT(30) DEF Restart, flush
<1>15. CASE CollectorDown
  BY <1>15 DEF CollectorDown, mem, hist, flush
<1>16. CASE CollectorUp
  BY <1>16 DEF CollectorUp, mem, hist, flush
<1>17. CASE UNCHANGED vars
  BY <1>17 DEF vars, mem, hist, flush
<1> QED
  BY <1>1, <1>2, <1>3, <1>4, <1>5, <1>6, <1>7, <1>8, <1>9, <1>10, <1>11, <1>12, <1>13, <1>14,
     <1>15, <1>16, <1>17 DEF Next, FlushStep

(* Delivery keeps to its types.                                              *)
THEOREM TypeCorrect == Spec => []TypeOK
<1>1. Typed => TypeOK
  BY DEF Typed
<1> QED
  BY <1>1, TypedInit, TypedNext, PTL DEF Spec

-----------------------------------------------------------------------------
(* One flush at a time.                                                      *)

(* A report without findings.                                                *)
LEMMA Empty == ToSet(<<>>) = {} /\ Ascending(<<>>)
BY DEF ToSet, Ascending

(* While one flush is in progress the other holds nothing and agentd runs.   *)
LEMMA Alone ==
    ASSUME Typed, Control, NEW f \in Flushers, InFlush(f)
    PROVE  /\ \A g \in Flushers \ {f} : ~InFlush(g) /\ batch[g] = <<>>
           /\ proc # "down"
BY DEF Typed, TypeOK, Control, InFlush

LEMMA ControlNext ==
    ASSUME Typed, Control, ~overlap', [Next]_vars
    PROVE  Control'
<1> USE DEF Typed, TypeOK, Control, InFlush, Flushers, Goto
<1>1. CASE Add
  BY <1>1 DEF Add
<1>2. ASSUME NEW f \in Flushers, FlushStart(f) PROVE Control'
  BY <1>2 DEF FlushStart, MayFlush, mem
<1>3. ASSUME NEW f \in Flushers, Drain(f) PROVE Control'
  BY <1>3 DEF Drain, hist
<1>4. ASSUME NEW f \in Flushers, ReplayList(f) PROVE Control'
  BY <1>4 DEF ReplayList, hist, mem
<1>5. ASSUME NEW f \in Flushers, ReplayNext(f) PROVE Control'
  <2>1. /\ pc[f] = "replay" /\ UNCHANGED <<items, batch, proc>>
        /\ pc' = pc \/ Goto(f, "fresh") \/ Goto(f, "resend")
    BY <1>5 DEF ReplayNext, mem
  <2> QED
    BY <2>1
<1>6. ASSUME NEW f \in Flushers, PostOK(f) PROVE Control'
  <2>1. /\ pc[f] \in {"resend", "fresh"} /\ UNCHANGED <<items, proc>>
        /\ \/ Goto(f, "acked") /\ UNCHANGED batch
           \/ Goto(f, Finished(f)) /\ batch' = [batch EXCEPT ![f] = <<>>]
    BY <1>6 DEF PostOK, Return, mem
  <2> QED
    BY <2>1 DEF Finished
<1>7. ASSUME NEW f \in Flushers, PostFail(f) PROVE Control'
  BY <1>7 DEF PostFail, OnFailure, mem
<1>8. ASSUME NEW f \in Flushers, RemoveSent(f) PROVE Control'
  BY <1>8 DEF RemoveSent, mem
<1>9. ASSUME NEW f \in Flushers, WriteLoad(f) PROVE Control'
  BY <1>9 DEF WriteLoad, mem
<1>10. ASSUME NEW f \in Flushers, WriteStore(f) PROVE Control'
  BY <1>10 DEF WriteStore, Return, Finished
<1>11. CASE Stop
  BY <1>11 DEF Stop, mem, flush
<1>12. CASE Exit \/ Crash
  BY <1>12 DEF Exit, Crash, Wipe
<1>13. CASE Restart
  BY <1>13 DEF Restart, flush
<1>14. CASE CollectorDown \/ CollectorUp \/ UNCHANGED vars
  BY <1>14 DEF CollectorDown, CollectorUp, vars, mem, flush
<1> QED
  BY <1>1, <1>2, <1>3, <1>4, <1>5, <1>6, <1>7, <1>8, <1>9, <1>10, <1>11, <1>12, <1>13, <1>14
  DEF Next, FlushStep

(* The oldest file on a replay's list is one.                                *)
LEMMA OneOldest ==
    ASSUME Typed, NEW f \in Flushers, NEW s, NEW t, Oldest(f, s), Oldest(f, t)
    PROVE  s = t
<1>1. s \in Nat /\ t \in Nat /\ s <= t /\ t <= s
  BY DEF Oldest, Typed, TypeOK
<1> QED
  BY <1>1

LEMMA ReplayingNext ==
    ASSUME Typed, Control, Replaying, ~overlap', [Next]_vars
    PROVE  Replaying'
<1> USE DEF Replaying, Goto, Oldest
<1>a. ASSUME NEW f \in Flushers, InFlush(f)
      PROVE  /\ proc # "down" /\ DOMAIN pc = Flushers
             /\ todo \in [Flushers -> SUBSET Nat] /\ batch \in [Flushers -> Seq(1 .. Findings)]
             /\ sending \in [Flushers -> Seq(1 .. Findings)] /\ reg \in [Flushers -> Nat]
             /\ \A g \in Flushers : g # f => pc[g] \in {"idle", "done"}
  <2>1. proc # "down" /\ \A g \in Flushers \ {f} : pc[g] \in {"idle", "done"}
    BY <1>a, Alone DEF InFlush
  <2> QED
    BY <2>1 DEF Typed, TypeOK
<1>b. ASSUME NEW s PROVE /\ DOMAIN Without(s) = DOMAIN spool \ {s}
                         /\ \A t \in DOMAIN spool \ {s} : Without(s)[t] = spool[t]
  BY Shortened
<1>1. CASE Add
  BY <1>1 DEF Add, Delivered
<1>2. ASSUME NEW f \in Flushers, FlushStart(f) PROVE Replaying'
  BY <1>2 DEF FlushStart, MayFlush, mem, Delivered, Typed, TypeOK
<1>3. ASSUME NEW f \in Flushers, Drain(f) PROVE Replaying'
  BY <1>3, <1>a DEF Drain, hist, Delivered, InFlush
<1>4. ASSUME NEW f \in Flushers, ReplayList(f) PROVE Replaying'
  BY <1>4, <1>a DEF ReplayList, hist, mem, Delivered, InFlush
<1>5. ASSUME NEW f \in Flushers, ReplayNext(f) PROVE Replaying'
  <2>1. /\ pc[f] = "replay" /\ InFlush(f)
        /\ UNCHANGED <<produced, mem, batch, reg, proc, up, received>>
    BY <1>5 DEF ReplayNext, InFlush
  <2>2. CASE todo[f] = {} /\ Goto(f, "fresh") /\ sending' = [sending EXCEPT ![f] = batch[f]] /\ UNCHANGED <<spool, todo, loud>>
    BY <1>a, <2>1, <2>2 DEF mem, Delivered
  <2>3. ASSUME NEW s \in DOMAIN spool, Oldest(f, s), Goto(f, "resend"), sending' = [sending EXCEPT ![f] = spool[s]], UNCHANGED <<spool, todo, loud>>
        PROVE  Replaying'
    BY <1>a, <2>1, <2>3 DEF mem, Delivered
  <2>4. ASSUME NEW s \in todo[f], spool' = Without(s), todo' = [todo EXCEPT ![f] = @ \ {s}], UNCHANGED <<pc, sending>>
        PROVE  Replaying'
    <3>1. /\ DOMAIN spool' = DOMAIN spool \ {s} /\ \A t \in DOMAIN spool' : t \in DOMAIN spool
          /\ todo'[f] = todo[f] \ {s} /\ todo[f] = DOMAIN spool
      BY <1>a, <1>b, <2>1, <2>4
    <3>2. /\ \A g \in Flushers : pc'[g] = pc[g] /\ (g # f => pc[g] \in {"idle", "done"})
          /\ pc[f] = "replay" /\ proc # "down" /\ seq' = seq
      BY <1>a, <2>1, <2>4 DEF mem
    <3>3. \A t \in DOMAIN spool' : t <= seq'
      BY <3>1, <3>2
    <3>4. \A g \in Flushers : pc'[g] \notin {"resend", "fresh", "acked", "store"}
      BY <3>2
    <3>5. \A g \in Flushers : pc'[g] = "replay" => todo'[g] = DOMAIN spool'
      BY <3>1, <3>2
    <3> QED
      BY <3>3, <3>4, <3>5
  <2> QED
    BY <1>5, <2>2, <2>3, <2>4 DEF ReplayNext
<1>6. ASSUME NEW f \in Flushers, PostOK(f) PROVE Replaying'
  <2>1. /\ pc[f] \in {"resend", "fresh"} /\ InFlush(f) /\ received' = received \o sending[f]
        /\ sending' = [sending EXCEPT ![f] = <<>>] /\ UNCHANGED <<spool, seq, reg, proc>>
    BY <1>6 DEF PostOK, InFlush, mem
  <2>2. Delivered' = Delivered \cup ToSet(sending[f])
    BY <2>1, ToSetConcat DEF Delivered, Typed, TypeOK
  <2>3. CASE pc[f] = "resend"
    <3>1. Goto(f, "acked") /\ UNCHANGED <<batch, todo>>
      BY <1>6, <2>3 DEF PostOK
    <3>2. \A s \in DOMAIN spool : Oldest(f, s) => ToSet(spool[s]) \subseteq Delivered'
      BY <2>2, <2>3, OneOldest
    <3> QED
      BY <1>a, <2>1, <2>3, <3>1, <3>2
  <2>4. CASE pc[f] = "fresh"
    BY <1>6, <1>a, <2>1, <2>4 DEF PostOK, Return, Finished
  <2> QED
    BY <2>1, <2>3, <2>4
<1>7. ASSUME NEW f \in Flushers, PostFail(f) PROVE Replaying'
  BY <1>7, <1>a DEF PostFail, OnFailure, mem, InFlush
<1>8. ASSUME NEW f \in Flushers, RemoveSent(f) PROVE Replaying'
  <2>1. PICK s \in todo[f] : spool' = Without(s) /\ todo' = [todo EXCEPT ![f] = @ \ {s}]
    BY <1>8 DEF RemoveSent
  <2>2. pc[f] = "acked" /\ Goto(f, "replay") /\ UNCHANGED <<seq, batch, sending, reg, proc, received>>
    BY <1>8 DEF RemoveSent, mem
  <2>3. DOMAIN spool' = DOMAIN spool \ {s} /\ todo'[f] = DOMAIN spool'
    BY <1>a, <1>b, <2>1, <2>2 DEF InFlush
  <2>4. \A g \in Flushers : pc'[g] \in {"idle", "done", "replay"} /\ (pc'[g] = "replay" => g = f)
    BY <1>a, <2>2 DEF InFlush
  <2> QED
    BY <2>2, <2>3, <2>4
<1>9. ASSUME NEW f \in Flushers, WriteLoad(f) PROVE Replaying'
  BY <1>9, <1>a DEF WriteLoad, mem, InFlush
<1>10. ASSUME NEW f \in Flushers, WriteStore(f) PROVE Replaying'
  <2> DEFINE n == reg[f] + 1
  <2>1. /\ pc[f] = "store" /\ seq' = n
        /\ spool' = spool \/ spool' = Stored(n, batch[f])
        /\ pc' = [pc EXCEPT ![f] = Finished(f)] /\ UNCHANGED <<proc, sending, received>>
        /\ reg' = [reg EXCEPT ![f] = 0] /\ batch' = [batch EXCEPT ![f] = <<>>]
        /\ todo' = [todo EXCEPT ![f] = {}]
    BY <1>10 DEF WriteStore, Stored, Return
  <2>2. n \in Nat \ {0} /\ batch[f] \in Seq(1 .. Findings) /\ reg[f] = seq /\ seq \in Nat /\ InFlush(f)
        /\ DOMAIN spool \subseteq Nat
    BY <2>1 DEF Typed, TypeOK, InFlush
  <2>3. DOMAIN spool' \subseteq DOMAIN spool \cup {n}
    <3> HIDE DEF n
    <3>1. DOMAIN Stored(n, batch[f]) \subseteq DOMAIN spool \cup {n}
      <4> HIDE DEF Replaying, Oldest
      <4>1. Kept(DOMAIN spool \cup {n}) \subseteq DOMAIN spool \cup {n}
        BY <2>2, StoredIs
      <4>2. DOMAIN Stored(n, batch[f]) = Kept(DOMAIN spool \cup {n})
        BY <2>2, StoredIs
      <4> QED
        BY <4>1, <4>2
    <3> QED
      BY <2>1, <3>1
  <2>4. proc # "down" /\ \A s \in DOMAIN spool' : s <= seq'
    BY <1>a, <2>1, <2>2, <2>3
  <2>5. \A g \in Flushers : pc'[g] \in {"idle", "done"}
    BY <1>a, <2>1, <2>2 DEF Finished
  <2> QED
    BY <2>4, <2>5
<1>11. CASE Stop
  BY <1>11 DEF Stop, mem, flush, Delivered
<1>12. CASE Exit \/ Crash
  BY <1>12 DEF Exit, Crash, Wipe
<1>13. CASE Restart
  BY <1>13 DEF Restart, flush, Control, Primed
<1>14. CASE CollectorDown \/ CollectorUp \/ UNCHANGED vars
  BY <1>14 DEF CollectorDown, CollectorUp, vars, mem, flush, Delivered
<1> QED
  BY <1>1, <1>2, <1>3, <1>4, <1>5, <1>6, <1>7, <1>8, <1>9, <1>10, <1>11, <1>12, <1>13, <1>14
  DEF Next, FlushStep

-----------------------------------------------------------------------------
(* The order of the findings.                                                *)

(* What a step can only take from: buffer, drained reports and directory.    *)
Shrinks ==
    /\ items' \in {items, <<>>}
    /\ \A f \in Flushers : batch'[f] \in {batch[f], <<>>}
    /\ DOMAIN spool' \subseteq DOMAIN spool
    /\ \A s \in DOMAIN spool' : spool'[s] = spool[s]

LEMMA OrderedShrinks ==
    ASSUME Typed, Ordered, Shrinks
    PROVE  Ordered'
<1>1. /\ Ascending(items') /\ \A f \in Flushers : Ascending(batch'[f])
      /\ ToSet(items') \subseteq ToSet(items)
      /\ \A f \in Flushers : ToSet(batch'[f]) \subseteq ToSet(batch[f])
  BY Empty DEF Shrinks, Ordered
<1>2. Spooled' \subseteq Spooled
  BY DEF Shrinks, Spooled
<1>3. \A s, t \in DOMAIN spool' : s < t => Below(ToSet(spool'[s]), ToSet(spool'[t]))
  BY DEF Shrinks, Ordered
<1>4. \A s \in DOMAIN spool' : Ascending(spool'[s])
  BY DEF Shrinks, Ordered
<1>5. \A S, T, S2, T2 : Below(S, T) /\ S2 \subseteq S /\ T2 \subseteq T => Below(S2, T2)
  BY DEF Below
<1>6. /\ \A f \in Flushers : /\ Below(Spooled', ToSet(batch'[f]))
                             /\ Below(ToSet(batch'[f]), ToSet(items'))
      /\ Below(Spooled', ToSet(items'))
  BY <1>1, <1>2, <1>5 DEF Ordered
<1> QED
  BY <1>1, <1>3, <1>4, <1>6 DEF Ordered

(* What is still on its way, and what was given up.                          *)
OnItsWay == InMemory \cup Spooled

Lost == trimmed \cup loud \cup crashed

LEMMA WhereItIs ==
    /\ \A x : x \in Spooled <=> \E s \in DOMAIN spool : x \in ToSet(spool[s])
    /\ \A x : x \in InMemory <=> x \in ToSet(items) \/ \E f \in Flushers : x \in ToSet(batch[f])
BY DEF Spooled, InMemory

(* Findings in different places are different.                               *)
LEMMA Apart ==
    ASSUME Typed, Ordered
    PROVE  /\ OnItsWay \subseteq 1 .. Findings
           /\ Spooled \cap InMemory = {}
           /\ \A f \in Flushers : ToSet(batch[f]) \cap ToSet(items) = {}
           /\ \A s, t \in DOMAIN spool : s # t => ToSet(spool[s]) \cap ToSet(spool[t]) = {}
<1>1. /\ \A s \in DOMAIN spool : ToSet(spool[s]) \subseteq 1 .. Findings
      /\ \A f \in Flushers : ToSet(batch[f]) \subseteq 1 .. Findings
      /\ ToSet(items) \subseteq 1 .. Findings /\ DOMAIN spool \subseteq Nat
  BY InReport DEF Typed, TypeOK, Range
<1>2. OnItsWay \subseteq 1 .. Findings
  BY <1>1, WhereItIs DEF OnItsWay
<1>3. \A S, T : S \subseteq 1 .. Findings /\ Below(S, T) => S \cap T = {}
  <2> SUFFICES ASSUME NEW S, NEW T, S \subseteq 1 .. Findings, Below(S, T), NEW x \in S, x \in T
               PROVE  FALSE
    OBVIOUS
  <2>1. x < x /\ x \in Nat
    BY DEF Below
  <2> QED
    BY <2>1
<1>4. ASSUME NEW s \in DOMAIN spool, NEW t \in DOMAIN spool, s # t
      PROVE  ToSet(spool[s]) \cap ToSet(spool[t]) = {}
  <2>1. s < t \/ t < s
    BY <1>1, <1>4
  <2> QED
    BY <1>1, <1>3, <2>1 DEF Ordered
<1>5. /\ \A f \in Flushers : ToSet(batch[f]) \cap ToSet(items) = {} /\ Spooled \cap ToSet(batch[f]) = {}
      /\ Spooled \cap ToSet(items) = {}
  BY <1>1, <1>2, <1>3 DEF Ordered, OnItsWay
<1> QED
  BY <1>2, <1>4, <1>5, WhereItIs

(* The findings the buffer's cap keeps when the callback makes another.      *)
LEMMA AddMoves ==
    ASSUME Typed, Ordered, Sound, Add
    PROVE  /\ items' \in Seq(1 .. Findings) /\ Ascending(items')
           /\ ToSet(items') \subseteq ToSet(items) \cup {produced + 1}
           /\ produced + 1 \in ToSet(items')
           /\ trimmed' = trimmed \cup ((ToSet(items) \cup {produced + 1}) \ ToSet(items'))
           /\ produced' = produced + 1 /\ produced \in Nat
           /\ OnItsWay \cup Settled = 1 .. produced
           /\ UNCHANGED <<batch, spool, received, loud, crashed, proc>>
<1> DEFINE all == Append(items, produced + 1)
<1>1. /\ produced \in Nat /\ produced + 1 \in 1 .. Findings /\ items \in Seq(1 .. Findings)
  BY DeliveryAssumption DEF Typed, TypeOK, Add
<1>2. OnItsWay \cup Settled = 1 .. produced
  BY DEF Sound, OnItsWay
<1>3. all \in Seq(1 .. Findings) /\ ToSet(all) = ToSet(items) \cup {produced + 1}
  <2>1. PICK n : n = produced + 1
    OBVIOUS
  <2>2. n \in 1 .. Findings /\ items \in Seq(1 .. Findings)
    BY <1>1, <2>1
  <2>3. Append(items, n) \in Seq(1 .. Findings) /\ ToSet(Append(items, n)) = ToSet(items) \cup {n}
    <3>1. PICK S : S = 1 .. Findings
      OBVIOUS
    <3>2. n \in S /\ items \in Seq(S)
      BY <2>2, <3>1
    <3>3. Append(items, n) \in Seq(S) /\ ToSet(Append(items, n)) = ToSet(items) \cup {n}
      BY <3>2, ToSetAppend
    <3> QED
      BY <3>1, <3>3
  <2> QED
    BY <2>1, <2>3
<1>7. Len(all) > 0 /\ all[Len(all)] = produced + 1
  BY <1>1
<1>4. Ascending(all)
  <2>1. items \in Seq(1 .. Findings) /\ 1 .. Findings \subseteq Nat /\ Ascending(items)
    BY <1>1 DEF Ordered
  <2>2. ToSet(items) \subseteq 1 .. produced
    BY <1>2 DEF OnItsWay, InMemory
  <2>3. Below(ToSet(items), {produced + 1})
    BY <1>1, <2>2 DEF Below
  <2> QED
    BY <1>1, <2>1, <2>3, AscendingAppend
<1> HIDE DEF all
<1>5. /\ Newest(all) \in Seq(1 .. Findings) /\ ToSet(Newest(all)) \subseteq ToSet(all) /\ Ascending(Newest(all))
      /\ produced + 1 \in ToSet(Newest(all))
  <2>1. 1 .. Findings \subseteq Nat
    OBVIOUS
  <2> QED
    BY <1>3, <1>4, <1>7, <2>1, NewestKeeps
<1>6. items' = Newest(all) /\ trimmed' = trimmed \cup (ToSet(all) \ ToSet(Newest(all)))
  BY DEF Add, all
<1> QED
  BY <1>1, <1>2, <1>3, <1>5, <1>6 DEF Add

(* Where a write puts the drained report, and what the bound then evicts.    *)
LEMMA StoreMoves ==
    ASSUME Typed, Control, Replaying, Ordered, NEW f \in Flushers, WriteStore(f)
    PROVE  \E n \in Nat \ {0} :
              /\ pc[f] = "store"
              /\ \A s \in DOMAIN spool : s < n
              /\ \A g \in Flushers \ {f} : batch[g] = <<>>
              /\ batch' = [batch EXCEPT ![f] = <<>>]
              /\ \/ /\ DOMAIN spool' \subseteq DOMAIN spool \cup {n}
                    /\ \A s \in DOMAIN spool' : spool'[s] = IF s = n THEN batch[f] ELSE spool[s]
                    /\ loud' = loud \cup {x \in Spooled \cup ToSet(batch[f]) : x \notin Spooled'}
                 \/ spool' = spool /\ loud' = loud \cup ToSet(batch[f])
              /\ UNCHANGED <<produced, items, proc, received, trimmed, crashed, lostAcks, restarts>>
<1> DEFINE n == reg[f] + 1
           D == DOMAIN spool \cup {n}
           dir == [s \in D |-> IF s = n THEN batch[f] ELSE spool[s]]
<1>1. /\ pc[f] = "store" /\ seq' = n
      /\ \/ spool' = Stored(n, batch[f]) /\ loud' = loud \cup Evicted(dir)
         \/ spool' = spool /\ loud' = loud \cup ToSet(batch[f])
      /\ batch' = [batch EXCEPT ![f] = <<>>]
      /\ UNCHANGED <<produced, items, proc, received, trimmed, crashed, lostAcks, restarts>>
  BY DEF WriteStore, Stored, Return
<1>2. n \in Nat \ {0} /\ batch[f] \in Seq(1 .. Findings) /\ reg[f] = seq /\ seq \in Nat /\ InFlush(f)
      /\ DOMAIN spool \subseteq Nat
  BY <1>1 DEF Typed, TypeOK, InFlush, Replaying
<1>3. (\A g \in Flushers \ {f} : batch[g] = <<>>) /\ \A s \in DOMAIN spool : s < n
  <2>1. (\A g \in Flushers \ {f} : batch[g] = <<>>) /\ proc # "down"
    <3> HIDE DEF n
    <3> QED
      BY <1>2, Alone
  <2> QED
    BY <1>2, <2>1 DEF Replaying
<1>4. ASSUME spool' = Stored(n, batch[f]), loud' = loud \cup Evicted(dir)
      PROVE  /\ DOMAIN spool' \subseteq D
             /\ \A s \in DOMAIN spool' : spool'[s] = IF s = n THEN batch[f] ELSE spool[s]
             /\ loud' = loud \cup {x \in Spooled \cup ToSet(batch[f]) : x \notin Spooled'}
  <2>1. /\ DOMAIN spool' = Kept(D) /\ Kept(D) \subseteq D
        /\ \A t \in DOMAIN spool' : spool'[t] = IF t = n THEN batch[f] ELSE spool[t]
    <3>1. /\ DOMAIN Stored(n, batch[f]) = Kept(D) /\ Kept(D) \subseteq D
          /\ \A t \in DOMAIN Stored(n, batch[f]) : Stored(n, batch[f])[t] = IF t = n THEN batch[f] ELSE spool[t]
      <4> HIDE DEF n
      <4> QED
        BY <1>2, StoredIs
    <3> HIDE DEF n, D, dir
    <3> QED
      BY <1>4, <3>1
  <2>2. \A s, t \in D : s # t => ToSet(dir[s]) \cap ToSet(dir[t]) = {}
    <3>1. \A s \in DOMAIN spool : ToSet(spool[s]) \cap ToSet(batch[f]) = {} /\ s # n
      BY <1>2, <1>3, Apart, WhereItIs
    <3>2. \A s, t \in DOMAIN spool : s # t => ToSet(spool[s]) \cap ToSet(spool[t]) = {}
      BY Apart
    <3> QED
      BY <3>1, <3>2
  <2>3. \A x : x \in Evicted(dir) <=> \E s \in D \ Kept(D) : x \in ToSet(dir[s])
    BY DEF Evicted
  <2>4. \A x : x \in Spooled' <=> \E s \in Kept(D) : x \in ToSet(dir[s])
    BY <2>1 DEF Spooled
  <2>5. \A x : x \in Spooled \cup ToSet(batch[f]) <=> \E s \in D : x \in ToSet(dir[s])
    <3> SUFFICES ASSUME NEW x PROVE x \in Spooled \cup ToSet(batch[f]) <=> \E s \in D : x \in ToSet(dir[s])
      OBVIOUS
    <3>1. n \in D /\ dir[n] = batch[f] /\ \A s \in DOMAIN spool : s \in D /\ dir[s] = spool[s]
      BY <1>2, <1>3
    <3>2. \A s \in D : s = n \/ s \in DOMAIN spool
      OBVIOUS
    <3> HIDE DEF n, D, dir
    <3> QED
      BY <3>1, <3>2, WhereItIs
  <2> HIDE DEF dir, D
  <2>6. Evicted(dir) = {x \in Spooled \cup ToSet(batch[f]) : x \notin Spooled'}
    BY <2>1, <2>2, <2>3, <2>4, <2>5
  <2> QED
    BY <1>4, <2>1, <2>6 DEF dir, D
<1> HIDE DEF n
<1> QED
  BY <1>1, <1>2, <1>3, <1>4

(* What the other steps do to the findings on their way: a POST is           *)
(* committed, a file is forgotten, or nothing moves.                         *)
Commits(f) ==
    /\ pc[f] \in {"resend", "fresh"}
    /\ received' = received \o sending[f]
    /\ \/ lostAcks' = lostAcks + 1 /\ batch' = batch
       \/ lostAcks' = lostAcks /\ pc[f] = "resend" /\ pc' = [pc EXCEPT ![f] = "acked"]
          /\ todo' = todo /\ batch' = batch
       \/ lostAcks' = lostAcks /\ pc[f] = "fresh" /\ batch' = [batch EXCEPT ![f] = <<>>]
    /\ UNCHANGED <<produced, items, spool, trimmed, loud, crashed, proc, restarts>>

Forgets(f) ==
    /\ \E s \in DOMAIN spool :
          /\ Oldest(f, s)
          /\ spool' = Without(s)
          /\ \/ pc[f] = "acked" /\ loud' = loud
             \/ pc[f] = "replay" /\ loud' = loud \cup ToSet(spool[s])
    /\ UNCHANGED <<produced, items, batch, received, trimmed, crashed, lostAcks, proc, restarts>>

Stays ==
    /\ UNCHANGED <<produced, items, batch, spool, received, trimmed, loud, crashed, lostAcks>>
    /\ \/ restarts' = restarts + 1
       \/ restarts' = restarts /\ proc' = "down"
       \/ /\ restarts' = restarts
          /\ proc = "down" => proc' = "down"
          /\ \A f \in Flushers : pc[f] = "acked" => pc'[f] = "acked" /\ todo'[f] = todo[f]

LEMMA Shapes ==
    ASSUME Typed, Control, Replaying, [Next]_vars
    PROVE  \/ Add \/ Crash \/ Stays
           \/ \E f \in Flushers : Drain(f) \/ WriteStore(f) \/ Commits(f) \/ Forgets(f)
<1>0. DOMAIN pc = Flushers /\ DOMAIN todo = Flushers
  BY DEF Typed, TypeOK
<1> USE DEF Goto
<1>2. ASSUME NEW f \in Flushers, FlushStart(f) PROVE Stays
  BY <1>0, <1>2 DEF FlushStart, MayFlush, mem, Stays
<1>4. ASSUME NEW f \in Flushers, ReplayList(f) PROVE Stays
  BY <1>0, <1>4 DEF ReplayList, mem, hist, Stays
<1>5. ASSUME NEW f \in Flushers, ReplayNext(f) PROVE Stays \/ Forgets(f)
  <2>1. todo[f] = DOMAIN spool
    BY <1>5 DEF ReplayNext, Replaying
  <2> QED
    BY <1>0, <1>5, <2>1 DEF ReplayNext, mem, Stays, Forgets
<1>6. ASSUME NEW f \in Flushers, PostOK(f) PROVE Commits(f)
  BY <1>6 DEF PostOK, Return, mem, hist, Commits, Goto
<1>7. ASSUME NEW f \in Flushers, PostFail(f) PROVE Stays \/ Commits(f)
  BY <1>0, <1>7 DEF PostFail, OnFailure, mem, Stays, Commits
<1>8. ASSUME NEW f \in Flushers, RemoveSent(f) PROVE Forgets(f)
  <2>1. todo[f] = DOMAIN spool
    BY <1>8 DEF RemoveSent, Replaying
  <2> QED
    BY <1>8, <2>1 DEF RemoveSent, mem, hist, Forgets
<1>9. ASSUME NEW f \in Flushers, WriteLoad(f) PROVE Stays
  BY <1>0, <1>9 DEF WriteLoad, mem, hist, Stays
<1>11. ASSUME Stop \/ CollectorDown \/ CollectorUp \/ UNCHANGED vars PROVE Stays
  BY <1>11 DEF Stop, CollectorDown, CollectorUp, vars, mem, flush, hist, Stays
<1>12. ASSUME Exit PROVE Stays
  <2>1. items = <<>> /\ batch["ticker"] = <<>> /\ batch["final"] = <<>>
    BY <1>12 DEF Exit, Control, Flushers
  <2>2. batch = [f \in Flushers |-> <<>>]
    BY <2>1 DEF Typed, TypeOK, Flushers
  <2> QED
    BY <1>12, <2>1, <2>2 DEF Exit, Wipe, hist, Stays
<1>13. ASSUME Restart PROVE Stays
  BY <1>13 DEF Restart, flush, Stays
<1> QED
  BY <1>2, <1>4, <1>5, <1>6, <1>7, <1>8, <1>9, <1>11, <1>12, <1>13 DEF Next, FlushStep

LEMMA OrderedNext ==
    ASSUME Typed, Control, Replaying, Ordered, Sound, [Next]_vars
    PROVE  Ordered'
<1>0. batch \in [Flushers -> Seq(1 .. Findings)] /\ ToSet(<<>>) = {} /\ Ascending(<<>>)
  BY Empty DEF Typed, TypeOK
<1>1. ASSUME Add PROVE Ordered'
  <2>1. /\ Ascending(items') /\ ToSet(items') \subseteq ToSet(items) \cup {produced + 1}
        /\ OnItsWay \subseteq 1 .. produced /\ produced \in Nat /\ UNCHANGED <<batch, spool>>
    BY <1>1, AddMoves
  <2>2. ASSUME NEW S, S \subseteq OnItsWay, Below(S, ToSet(items)) PROVE Below(S, ToSet(items'))
    BY <2>1, <2>2 DEF Below
  <2>3. /\ \A f \in Flushers : Below(ToSet(batch[f]), ToSet(items'))
        /\ Below(Spooled, ToSet(items'))
    BY <2>2, WhereItIs DEF OnItsWay, Ordered
  <2>4. Spooled' = Spooled
    BY <2>1 DEF Spooled
  <2> QED
    BY <2>1, <2>3, <2>4 DEF Ordered
<1>2. ASSUME NEW f \in Flushers, Drain(f) PROVE Ordered'
  <2>1. /\ pc[f] = "warned" /\ batch' = [batch EXCEPT ![f] = items] /\ items' = <<>> /\ UNCHANGED spool
    BY <1>2 DEF Drain
  <2>2. Spooled' = Spooled /\ ToSet(items') = {} /\ Ascending(items')
    BY <1>0, <2>1 DEF Spooled
  <2>3. \A g \in Flushers : batch'[g] = IF g = f THEN items ELSE batch[g]
    BY <1>0, <2>1
  <2>4. \A S : Below(S, {})
    BY DEF Below
  <2> QED
    BY <2>1, <2>2, <2>3, <2>4 DEF Ordered
<1>3. ASSUME NEW f \in Flushers, WriteStore(f) PROVE Ordered'
  <2>1. PICK n \in Nat \ {0} :
              /\ \A s \in DOMAIN spool : s < n
              /\ \A g \in Flushers \ {f} : batch[g] = <<>>
              /\ batch' = [batch EXCEPT ![f] = <<>>]
              /\ \/ /\ DOMAIN spool' \subseteq DOMAIN spool \cup {n}
                    /\ \A s \in DOMAIN spool' : spool'[s] = IF s = n THEN batch[f] ELSE spool[s]
                 \/ spool' = spool
              /\ UNCHANGED items
    BY <1>3, StoreMoves
  <2>2. \A g \in Flushers : batch'[g] = <<>>
    BY <1>0, <2>1
  <2>3. CASE spool' = spool
    <3>1. Shrinks
      BY <2>1, <2>2, <2>3 DEF Shrinks
    <3> QED
      BY <3>1, OrderedShrinks
  <2>4. CASE /\ DOMAIN spool' \subseteq DOMAIN spool \cup {n}
             /\ \A s \in DOMAIN spool' : spool'[s] = IF s = n THEN batch[f] ELSE spool[s]
    <3>1. \A s \in DOMAIN spool' : (s = n /\ spool'[s] = batch[f]) \/ (s \in DOMAIN spool /\ s # n /\ spool'[s] = spool[s] /\ s < n)
      BY <2>1, <2>4
    <3>2. \A s \in DOMAIN spool' : Ascending(spool'[s])
      BY <3>1 DEF Ordered
    <3>3. ASSUME NEW s \in DOMAIN spool', NEW t \in DOMAIN spool', s < t
          PROVE  Below(ToSet(spool'[s]), ToSet(spool'[t]))
      <4>1. s \in DOMAIN spool /\ spool'[s] = spool[s]
        <5>1. \A i \in DOMAIN spool : i \in Nat
          BY DEF Typed, TypeOK
        <5> QED
          BY <2>1, <3>1, <3>3, <5>1
      <4>2. Below(Spooled, ToSet(batch[f])) /\ ToSet(spool[s]) \subseteq Spooled
        BY <4>1, WhereItIs DEF Ordered
      <4>3. Below(ToSet(spool[s]), ToSet(batch[f]))
        BY <4>2 DEF Below
      <4> QED
        BY <3>1, <3>3, <4>1, <4>3 DEF Ordered
    <3>4. Spooled' \subseteq Spooled \cup ToSet(batch[f])
      BY <3>1 DEF Spooled
    <3>5. Below(Spooled', ToSet(items'))
      BY <2>1, <3>4 DEF Ordered, Below
    <3>6. \A S : Below(S, {}) /\ Below({}, S)
      BY DEF Below
    <3> QED
      BY <1>0, <2>1, <2>2, <3>2, <3>3, <3>5, <3>6 DEF Ordered
  <2> QED
    BY <2>1, <2>3, <2>4
<1>4. ASSUME \/ Crash \/ Stays
             \/ \E f \in Flushers : Commits(f) \/ Forgets(f)
      PROVE  Ordered'
  <2>1. Crash => Shrinks
    BY DEF Crash, Wipe, Shrinks
  <2>2. Stays => Shrinks
    BY DEF Stays, Shrinks
  <2>3. ASSUME NEW f \in Flushers, Commits(f) PROVE Shrinks
    BY <1>0, <2>3 DEF Commits, Shrinks
  <2>4. ASSUME NEW f \in Flushers, Forgets(f) PROVE Shrinks
    <3>1. PICK s : spool' = Without(s)
      BY <2>4 DEF Forgets
    <3>2. DOMAIN spool' \subseteq DOMAIN spool /\ \A t \in DOMAIN spool' : spool'[t] = spool[t]
      <4>1. DOMAIN Without(s) = DOMAIN spool \ {s} /\ \A t \in DOMAIN spool \ {s} : Without(s)[t] = spool[t]
        BY Shortened
      <4> QED
        BY <3>1, <4>1
    <3>3. items' = items /\ batch' = batch
      BY <2>4 DEF Forgets
    <3> QED
      BY <3>2, <3>3 DEF Shrinks
  <2> QED
    BY <1>4, <2>1, <2>2, <2>3, <2>4, OrderedShrinks
<1> QED
  BY <1>1, <1>2, <1>3, <1>4, Shapes

-----------------------------------------------------------------------------
(* Nothing is lost, nothing overtakes.                                       *)

(* What a step other than a new finding may do: the collector gets some of   *)
(* what was on its way and none of the rest is older; something is given up  *)
(* and is then no longer on its way; nothing else leaves.                    *)
Settles ==
    /\ produced' = produced
    /\ OnItsWay' \subseteq OnItsWay
    /\ ToSet(items') \subseteq ToSet(items)
    /\ Lost \subseteq Lost'
    /\ Lost' \ Lost \subseteq OnItsWay \ OnItsWay'
    /\ Delivered \subseteq Delivered'
    /\ Delivered' \ Delivered \subseteq OnItsWay \ ToSet(items)
    /\ Below(Delivered' \ Delivered, OnItsWay \ Delivered')
    /\ OnItsWay \ OnItsWay' \subseteq Delivered' \cup Lost'
    /\ Delivered' = Delivered \/ Lost' = Lost

LEMMA SoundSettles ==
    ASSUME Sound, Settles
    PROVE  Sound'
<1>1. /\ Below(Delivered, OnItsWay \ Delivered)
      /\ Delivered \cap ToSet(items) = {}
      /\ OnItsWay \cap Lost = {}
      /\ OnItsWay \cup Delivered \cup Lost = 1 .. produced
  BY DEF Sound, OnItsWay, Lost, Settled, Delivered
<1>2. Below(Delivered', OnItsWay' \ Delivered')
  BY <1>1 DEF Settles, Below
<1>3. Delivered' \cap ToSet(items') = {} /\ OnItsWay' \cap Lost' = {}
  BY <1>1 DEF Settles
<1>4. OnItsWay' \cup Delivered' \cup Lost' = 1 .. produced'
  BY <1>1 DEF Settles
<1>5. Settled' = Delivered' \cup Lost'
  BY DEF Settled, Lost, Delivered
<1> QED
  BY <1>2, <1>3, <1>4, <1>5 DEF Sound, OnItsWay, Lost

(* What is posted is the oldest there is.                                    *)
LEMMA SendingOldest ==
    ASSUME Typed, Control, Replaying, Ordered, NEW f \in Flushers, pc[f] \in {"resend", "fresh"}
    PROVE  /\ ToSet(sending[f]) \subseteq OnItsWay \ ToSet(items)
           /\ Below(ToSet(sending[f]), OnItsWay \ ToSet(sending[f]))
           /\ Ascending(sending[f])
           /\ pc[f] = "resend" =>
                 \E s \in DOMAIN spool : Oldest(f, s) /\ ToSet(sending[f]) = ToSet(spool[s])
           /\ pc[f] = "fresh" => /\ OnItsWay = ToSet(batch[f]) \cup ToSet(items) /\ DOMAIN spool = {}
                                 /\ sending[f] = batch[f]
<1>1. CASE pc[f] = "resend"
  <2>1. PICK s \in DOMAIN spool : Oldest(f, s) /\ sending[f] = spool[s]
    BY <1>1 DEF Replaying
  <2>2. DOMAIN spool \subseteq Nat /\ \A t \in DOMAIN spool : t # s => s < t
    BY <1>1, <2>1 DEF Replaying, Oldest, Typed, TypeOK
  <2>3. \A t \in DOMAIN spool : t # s => Below(ToSet(spool[s]), ToSet(spool[t]))
    BY <2>2 DEF Ordered
  <2>4. ToSet(spool[s]) \subseteq Spooled
    BY WhereItIs
  <2>5. /\ \A g \in Flushers : Below(ToSet(spool[s]), ToSet(batch[g]))
        /\ Below(ToSet(spool[s]), ToSet(items))
    BY <2>4 DEF Ordered, Below
  <2>6. ToSet(spool[s]) \subseteq OnItsWay \ ToSet(items)
    BY <2>4, Apart, WhereItIs DEF OnItsWay
  <2>7. Below(ToSet(spool[s]), OnItsWay \ ToSet(spool[s]))
    <3> SUFFICES ASSUME NEW m \in ToSet(spool[s]), NEW n \in OnItsWay \ ToSet(spool[s]) PROVE m < n
      BY DEF Below
    <3>1. \/ \E t \in DOMAIN spool : t # s /\ n \in ToSet(spool[t])
          \/ n \in ToSet(items) \/ \E g \in Flushers : n \in ToSet(batch[g])
      BY WhereItIs DEF OnItsWay
    <3> QED
      BY <2>3, <2>5, <3>1 DEF Below
  <2> QED
    BY <1>1, <2>1, <2>6, <2>7 DEF Ordered
<1>2. CASE pc[f] = "fresh"
  <2>1. DOMAIN spool = {} /\ sending[f] = batch[f] /\ \A g \in Flushers \ {f} : batch[g] = <<>>
    <3>1. InFlush(f)
      BY <1>2 DEF InFlush
    <3> QED
      BY <1>2, <3>1, Alone DEF Replaying
  <2>2. Spooled = {}
    BY <2>1, WhereItIs
  <2>3. InMemory = ToSet(batch[f]) \cup ToSet(items)
    BY <2>1, Empty, WhereItIs
  <2>4. Below(ToSet(batch[f]), ToSet(items)) /\ ToSet(batch[f]) \cap ToSet(items) = {}
    BY Apart DEF Ordered
  <2> QED
    BY <1>2, <2>1, <2>2, <2>3, <2>4 DEF OnItsWay, Ordered, Below
<1> QED
  BY <1>1, <1>2

LEMMA OthersSettle ==
    ASSUME Typed, Control, Replaying, Ordered, Sound, [Next]_vars, ~Add
    PROVE  Settles
<1>0. /\ batch \in [Flushers -> Seq(1 .. Findings)] /\ ToSet(<<>>) = {}
      /\ Delivered \cap ToSet(items) = {} /\ Below(Delivered, OnItsWay \ Delivered)
  BY Empty DEF Typed, TypeOK, Sound, OnItsWay
<1>1. ASSUME NEW f \in Flushers, Drain(f) PROVE Settles
  <2>1. /\ pc[f] = "warned" /\ batch' = [batch EXCEPT ![f] = items] /\ items' = <<>> /\ batch[f] = <<>>
        /\ UNCHANGED <<produced, spool, received, trimmed, loud, crashed>>
    BY <1>1 DEF Drain, hist, Control
  <2>2. \A g \in Flushers : batch'[g] = IF g = f THEN items ELSE batch[g]
    BY <1>0, <2>1
  <2>3. InMemory' = InMemory
    BY <1>0, <2>1, <2>2 DEF InMemory
  <2>4. OnItsWay' = OnItsWay /\ Lost' = Lost /\ Delivered' = Delivered /\ ToSet(items') = {}
    BY <1>0, <2>1, <2>3 DEF OnItsWay, Spooled, Lost, Delivered
  <2> QED
    BY <2>1, <2>4 DEF Settles, Below
<1>2. ASSUME NEW f \in Flushers, WriteStore(f) PROVE Settles
  <2>1. PICK n \in Nat \ {0} :
              /\ \A s \in DOMAIN spool : s < n
              /\ \A g \in Flushers \ {f} : batch[g] = <<>>
              /\ batch' = [batch EXCEPT ![f] = <<>>]
              /\ \/ /\ DOMAIN spool' \subseteq DOMAIN spool \cup {n}
                    /\ \A s \in DOMAIN spool' : spool'[s] = IF s = n THEN batch[f] ELSE spool[s]
                    /\ loud' = loud \cup {x \in Spooled \cup ToSet(batch[f]) : x \notin Spooled'}
                 \/ spool' = spool /\ loud' = loud \cup ToSet(batch[f])
              /\ UNCHANGED <<produced, items, received, trimmed, crashed>>
    BY <1>2, StoreMoves
  <2>2. InMemory' = ToSet(items) /\ InMemory = ToSet(items) \cup ToSet(batch[f]) /\ ToSet(items') = ToSet(items)
    <3>1. \A g \in Flushers : batch'[g] = <<>>
      BY <1>0, <2>1
    <3>2. InMemory = ToSet(items) \cup ToSet(batch[f])
      BY <1>0, <2>1, WhereItIs
    <3>3. InMemory' = ToSet(items)
      BY <1>0, <2>1, <3>1 DEF InMemory
    <3> QED
      BY <2>1, <3>2, <3>3
  <2>3. Spooled' \subseteq Spooled \cup ToSet(batch[f])
    <3>1. \A s \in DOMAIN spool' : ToSet(spool'[s]) = ToSet(batch[f]) \/ (s \in DOMAIN spool /\ spool'[s] = spool[s])
      BY <2>1
    <3> QED
      BY <3>1 DEF Spooled
  <2>4. Lost' = Lost \cup {x \in Spooled \cup ToSet(batch[f]) : x \notin Spooled'}
    <3>1. spool' = spool => Spooled' = Spooled
      BY DEF Spooled
    <3>2. Spooled \cap ToSet(batch[f]) = {}
      BY Apart, WhereItIs
    <3> QED
      BY <2>1, <3>1, <3>2 DEF Lost
  <2>5. ToSet(items) \cap (Spooled \cup ToSet(batch[f])) = {}
    BY Apart, WhereItIs
  <2>6. produced' = produced /\ Delivered' = Delivered
    BY <2>1 DEF Delivered
  <2> QED
    BY <2>2, <2>3, <2>4, <2>5, <2>6 DEF OnItsWay, Settles, Below
<1>3. ASSUME NEW f \in Flushers, Commits(f) PROVE Settles
  <2>1. /\ pc[f] \in {"resend", "fresh"} /\ received' = received \o sending[f]
        /\ UNCHANGED <<produced, items, spool, trimmed, loud, crashed>>
        /\ batch' = batch \/ (pc[f] = "fresh" /\ batch' = [batch EXCEPT ![f] = <<>>])
    BY <1>3 DEF Commits
  <2>2. Delivered' = Delivered \cup ToSet(sending[f])
    BY <2>1, ToSetConcat DEF Delivered, Typed, TypeOK
  <2>3. /\ ToSet(sending[f]) \subseteq OnItsWay \ ToSet(items)
        /\ Below(ToSet(sending[f]), OnItsWay \ ToSet(sending[f]))
        /\ pc[f] = "fresh" => OnItsWay = ToSet(batch[f]) \cup ToSet(items) /\ sending[f] = batch[f]
    BY <2>1, SendingOldest
  <2>4. Lost' = Lost /\ Spooled' = Spooled /\ ToSet(items') = ToSet(items)
    BY <2>1 DEF Lost, Spooled
  <2>5. InMemory' \subseteq InMemory /\ InMemory \subseteq InMemory' \cup ToSet(sending[f])
    <3>1. CASE batch' = batch
      BY <2>1, <3>1 DEF InMemory
    <3>2. CASE pc[f] = "fresh" /\ batch' = [batch EXCEPT ![f] = <<>>]
      <4>1. \A g \in Flushers : batch'[g] = IF g = f THEN <<>> ELSE batch[g]
        BY <1>0, <3>2
      <4> QED
        BY <1>0, <2>1, <2>3, <3>2, <4>1 DEF InMemory
    <3> QED
      BY <2>1, <3>1, <3>2
  <2>6. produced' = produced
    BY <2>1
  <2> QED
    BY <2>2, <2>3, <2>4, <2>5, <2>6 DEF OnItsWay, Settles, Below
<1>4. ASSUME NEW f \in Flushers, Forgets(f) PROVE Settles
  <2>1. PICK s \in DOMAIN spool :
          /\ Oldest(f, s)
          /\ spool' = Without(s)
          /\ \/ pc[f] = "acked" /\ loud' = loud
             \/ pc[f] = "replay" /\ loud' = loud \cup ToSet(spool[s])
    BY <1>4 DEF Forgets
  <2>2. UNCHANGED <<produced, items, batch, received, trimmed, crashed>>
    BY <1>4 DEF Forgets
  <2>3. Spooled = Spooled' \cup ToSet(spool[s]) /\ Spooled' \cap ToSet(spool[s]) = {}
    <3>1. DOMAIN spool' = DOMAIN spool \ {s} /\ \A t \in DOMAIN spool \ {s} : spool'[t] = spool[t]
      BY <2>1, Shortened
    <3>2. \A t \in DOMAIN spool \ {s} : ToSet(spool[s]) \cap ToSet(spool[t]) = {}
      BY Apart
    <3> QED
      BY <3>1, <3>2 DEF Spooled
  <2>4. InMemory' = InMemory /\ ToSet(items') = ToSet(items) /\ Delivered' = Delivered /\ produced' = produced
    BY <2>2 DEF InMemory, Delivered
  <2>5. InMemory \cap ToSet(spool[s]) = {}
    BY <2>3, Apart
  <2>6. \/ ToSet(spool[s]) \subseteq Delivered /\ Lost' = Lost
        \/ Lost' = Lost \cup ToSet(spool[s])
    BY <2>1, <2>2 DEF Replaying, Lost
  <2> QED
    BY <2>3, <2>4, <2>5, <2>6 DEF OnItsWay, Settles, Below
<1>5. ASSUME Crash PROVE Settles
  <2>1. /\ items' = <<>> /\ \A f \in Flushers : batch'[f] = <<>>
        /\ crashed' = crashed \cup InMemory
        /\ UNCHANGED <<produced, spool, received, trimmed, loud>>
    BY <1>5 DEF Crash, Wipe
  <2>2. InMemory' = {} /\ ToSet(items') = {}
    BY <1>0, <2>1 DEF InMemory
  <2>3. Spooled' = Spooled /\ Delivered' = Delivered /\ Lost' = Lost \cup InMemory /\ produced' = produced
    BY <2>1 DEF Spooled, Delivered, Lost
  <2>4. Spooled \cap InMemory = {}
    BY Apart
  <2> QED
    BY <2>2, <2>3, <2>4 DEF OnItsWay, Settles, Below
<1>6. ASSUME Stays PROVE Settles
  <2>1. /\ OnItsWay' = OnItsWay /\ Lost' = Lost /\ Delivered' = Delivered /\ produced' = produced
        /\ ToSet(items') = ToSet(items)
    BY <1>6 DEF Stays, OnItsWay, InMemory, Spooled, Lost, Delivered
  <2> QED
    BY <2>1 DEF Settles, Below
<1> QED
  BY <1>1, <1>2, <1>3, <1>4, <1>5, <1>6, Shapes

LEMMA SoundNext ==
    ASSUME Typed, Control, Replaying, Ordered, Sound, [Next]_vars
    PROVE  Sound'
<1>1. ASSUME Add PROVE Sound'
  <2>1. /\ ToSet(items') \subseteq ToSet(items) \cup {produced + 1}
        /\ trimmed' = trimmed \cup ((ToSet(items) \cup {produced + 1}) \ ToSet(items'))
        /\ produced' = produced + 1 /\ produced \in Nat
        /\ UNCHANGED <<batch, spool, received, loud, crashed>>
    BY <1>1, AddMoves
  <2> DEFINE H == Spooled \cup UNION {ToSet(batch[f]) : f \in Flushers}
  <2>2. OnItsWay = H \cup ToSet(items) /\ H \cap ToSet(items) = {}
    BY Apart, WhereItIs DEF OnItsWay
  <2>3. OnItsWay' = H \cup ToSet(items')
    BY <2>1 DEF OnItsWay, InMemory, Spooled
  <2>4. /\ Below(Delivered, OnItsWay \ Delivered)
        /\ Delivered \cap ToSet(items) = {}
        /\ OnItsWay \cap Lost = {}
        /\ OnItsWay \cup Delivered \cup Lost = 1 .. produced
    BY DEF Sound, OnItsWay, Lost, Settled, Delivered
  <2>5. Lost' = Lost \cup ((ToSet(items) \cup {produced + 1}) \ ToSet(items')) /\ Delivered' = Delivered
    BY <2>1 DEF Lost, Delivered
  <2> HIDE DEF H
  <2>6. produced + 1 \notin OnItsWay \cup Delivered \cup Lost /\ \A x \in 1 .. produced : x < produced + 1
    BY <2>1, <2>4
  <2>7. Below(Delivered, (H \cup ToSet(items')) \ Delivered)
    BY <2>1, <2>2, <2>4, <2>6 DEF Below
  <2>8. Delivered \cap ToSet(items') = {} /\ OnItsWay' \cap Lost' = {}
    BY <2>1, <2>2, <2>3, <2>4, <2>5, <2>6
  <2>9. OnItsWay' \cup Delivered' \cup Lost' = 1 .. produced'
    <3>1. OnItsWay' \cup Delivered' \cup Lost' = (1 .. produced) \cup {produced + 1}
      BY <2>1, <2>2, <2>3, <2>4, <2>5
    <3> QED
      BY <2>1, <3>1
  <2>10. Settled' = Delivered' \cup Lost'
    BY DEF Settled, Lost, Delivered
  <2> QED
    BY <2>3, <2>5, <2>7, <2>8, <2>9, <2>10 DEF Sound, OnItsWay, Lost
<1> QED
  BY <1>1, OthersSettle, SoundSettles

-----------------------------------------------------------------------------
(* How often a finding is delivered.                                         *)

Repeats(r, n) == Cardinality({i \in 1 .. Len(r) : r[i] = n})

(* A report in ascending order delivers each of its findings once more.      *)
LEMMA CopiesConcat ==
    ASSUME NEW S, S \subseteq Nat, NEW r \in Seq(S), NEW s \in Seq(S), Ascending(s), NEW n
    PROVE  /\ Repeats(r, n) \in Nat /\ Repeats(r \o s, n) \in Nat
           /\ Repeats(r \o s, n) <= Repeats(r, n) + 1
           /\ n \notin ToSet(s) => Repeats(r \o s, n) = Repeats(r, n)
           /\ n \notin ToSet(r) => Repeats(r, n) = 0
<1> DEFINE a == r \o s
           A == {i \in 1 .. Len(r) : r[i] = n}
           B == {i \in 1 .. Len(a) : a[i] = n}
<1>1. /\ Len(a) = Len(r) + Len(s) /\ Len(r) \in Nat /\ Len(s) \in Nat
      /\ \A i \in 1 .. Len(r) : a[i] = r[i]
      /\ \A i \in 1 .. Len(s) : a[Len(r) + i] = s[i]
  OBVIOUS
<1> HIDE DEF a
<1>2. IsFiniteSet(A) /\ Cardinality(A) \in Nat
  <2>1. IsFiniteSet(1 .. Len(r))
    BY <1>1, FS_Interval
  <2> QED
    BY <2>1, FS_Subset, FS_CardinalityType
<1>3. \A i \in 1 .. Len(a) : i \in 1 .. Len(r) \/ (i - Len(r) \in 1 .. Len(s) /\ i = Len(r) + (i - Len(r)))
  BY <1>1
<1>6. \A i \in 1 .. Len(a) :
         (i \in 1 .. Len(r) /\ a[i] = r[i]) \/ \E j \in 1 .. Len(s) : i = Len(r) + j /\ a[i] = s[j]
  <2> SUFFICES ASSUME NEW i \in 1 .. Len(a), i \notin 1 .. Len(r)
               PROVE  \E j \in 1 .. Len(s) : i = Len(r) + j /\ a[i] = s[j]
    BY <1>1
  <2>1. i - Len(r) \in 1 .. Len(s) /\ i = Len(r) + (i - Len(r))
    BY <1>3
  <2> QED
    BY <1>1, <2>1
<1>7. \A i \in 1 .. Len(r) : i \in 1 .. Len(a) /\ a[i] = r[i]
  BY <1>1
<1>8. n \notin ToSet(r) => Cardinality(A) = 0
  <2>1. n \notin ToSet(r) => A = {}
    BY InToSet
  <2> QED
    BY <2>1, FS_EmptySet
<1>9. Repeats(r, n) = Cardinality(A) /\ Repeats(r \o s, n) = Cardinality(B)
  BY DEF Repeats, a
<1>4. CASE n \notin ToSet(s)
  <2>0. \A j \in 1 .. Len(s) : s[j] # n
    BY <1>4, InToSet
  <2>1. B = A
    BY <1>6, <1>7, <2>0
  <2> HIDE DEF A, B
  <2> QED
    BY <1>2, <2>1, <1>4, <1>8, <1>9
<1>5. CASE n \in ToSet(s)
  <2>1. PICK k \in 1 .. Len(s) : n = s[k]
    BY <1>5, InToSet
  <2>2. \A i \in 1 .. Len(s) : s[i] = n => i = k
    <3> SUFFICES ASSUME NEW i \in 1 .. Len(s), s[i] = n, i # k PROVE FALSE
      OBVIOUS
    <3>1. i < k \/ k < i
      BY <1>1
    <3>2. s[i] < s[k] \/ s[k] < s[i]
      BY <3>1 DEF Ascending
    <3>3. s[i] = s[k]
      BY <2>1
    <3>4. s[i] \in S
      OBVIOUS
    <3>5. s[i] \in Nat
      BY <3>4
    <3>6. s[i] < s[i]
      BY <3>2, <3>3
    <3> QED
      BY <3>5, <3>6
  <2>3. B = A \cup {Len(r) + k}
    <3>1. Len(r) + k \in 1 .. Len(a) /\ a[Len(r) + k] = n
      BY <1>1, <2>1
    <3>2. B \subseteq A \cup {Len(r) + k}
      BY <1>6, <2>2
    <3>3. A \cup {Len(r) + k} \subseteq B
      BY <1>7, <3>1
    <3> QED
      BY <3>2, <3>3
  <2>4. Len(r) + k \notin A
    BY <1>1
  <2>5. Cardinality(B) = Cardinality(A) + 1
    <3> HIDE DEF A, B
    <3> QED
      BY <1>2, <2>3, <2>4, FS_AddElement
  <2> QED
    BY <1>2, <1>5, <2>5, <1>8, <1>9
<1> QED
  BY <1>4, <1>5

LEMMA CopiesOf ==
    ASSUME Typed, NEW n
    PROVE  /\ Copies(n) \in Nat
           /\ n \notin Delivered => Copies(n) = 0
<1>1. received \in Seq(1 .. Findings) /\ 1 .. Findings \subseteq Nat /\ <<>> \in Seq(1 .. Findings)
  BY DEF Typed, TypeOK
<1>2. DOMAIN received = 1 .. Len(received)
  BY <1>1
<1>3. Copies(n) = Repeats(received, n)
  BY <1>2 DEF Copies, Repeats
<1> QED
  BY <1>1, <1>3, CopiesConcat, Empty DEF Delivered

LEMMA CountedNext ==
    ASSUME Typed, Control, Replaying, Ordered, Sound, Counted, [Next]_vars
    PROVE  Counted'
<1>0. /\ batch \in [Flushers -> Seq(1 .. Findings)] /\ ToSet(<<>>) = {}
      /\ Delivered \subseteq 1 .. produced /\ OnItsWay \subseteq 1 .. produced /\ Delivered \cap ToSet(items) = {}
      /\ produced \in Nat /\ lostAcks \in Nat /\ restarts \in Nat
  BY Empty, DeliveryAssumption DEF Typed, TypeOK, Sound, OnItsWay, Settled, Delivered
<1>a. ASSUME NEW f \in Flushers, InFlush(f), pc[f] # "acked"
      PROVE  \A s \in DOMAIN spool : ~Acked(s)
  <2>1. proc # "down" /\ \A g \in Flushers : pc[g] # "acked"
    BY <1>a, Alone DEF InFlush
  <2> QED
    BY <2>1 DEF Acked
<1>1. ASSUME Add PROVE Counted'
  <2>1. /\ produced' = produced + 1 /\ UNCHANGED <<batch, spool, received, proc, pc, todo, lostAcks, restarts>>
    BY <1>1 DEF Add
  <2>2. Copies(produced + 1) = 0
    BY <1>0, CopiesOf
  <2>3. \A n : Copies(n)' = Copies(n)
    BY <2>1 DEF Copies
  <2>4. \A s : Acked(s)' <=> Acked(s)
    BY <2>1 DEF Acked, Oldest
  <2> QED
    BY <1>0, <2>1, <2>2, <2>3, <2>4 DEF Counted
<1>2. ASSUME NEW f \in Flushers, Drain(f) PROVE Counted'
  <2>1. /\ pc[f] = "warned" /\ InFlush(f) /\ pc' = [pc EXCEPT ![f] = "drained"]
        /\ batch' = [batch EXCEPT ![f] = items]
        /\ UNCHANGED <<spool, received, produced, lostAcks, restarts>>
    BY <1>2 DEF Drain, hist, Goto, InFlush
  <2>2. \A n \in ToSet(items) : Copies(n) = 0
    BY <1>0, CopiesOf
  <2>3. \A n : Copies(n)' = Copies(n)
    BY <2>1 DEF Copies
  <2>4. \A g \in Flushers : batch'[g] = IF g = f THEN items ELSE batch[g]
    BY <1>0, <2>1
  <2>5. \A s \in DOMAIN spool : ~Acked(s)
    BY <1>a, <2>1
  <2> QED
    BY <1>0, <2>1, <2>2, <2>3, <2>4, <2>5, CopiesOf DEF Counted
<1>3. ASSUME NEW f \in Flushers, WriteStore(f) PROVE Counted'
  <2>1. PICK n \in Nat \ {0} :
              /\ pc[f] = "store"
              /\ \A g \in Flushers \ {f} : batch[g] = <<>>
              /\ batch' = [batch EXCEPT ![f] = <<>>]
              /\ \/ /\ DOMAIN spool' \subseteq DOMAIN spool \cup {n}
                    /\ \A s \in DOMAIN spool' : spool'[s] = IF s = n THEN batch[f] ELSE spool[s]
                 \/ spool' = spool
              /\ UNCHANGED <<produced, received, lostAcks, restarts>>
    BY <1>3, StoreMoves
  <2>2. \A g \in Flushers : batch'[g] = <<>>
    BY <1>0, <2>1
  <2>3. \A s \in DOMAIN spool : ~Acked(s)
    BY <1>a, <2>1 DEF InFlush
  <2>4. \A s \in DOMAIN spool' : spool'[s] = batch[f] \/ (s \in DOMAIN spool /\ spool'[s] = spool[s])
    BY <2>1
  <2>5. \A m : Copies(m)' = Copies(m) /\ Copies(m) \in Nat
    BY <2>1, CopiesOf DEF Copies
  <2>6. \A s \in DOMAIN spool' : \A m \in ToSet(spool'[s]) : Copies(m) <= lostAcks + restarts
    BY <1>0, <2>3, <2>4, <2>5 DEF Counted
  <2> QED
    BY <1>0, <2>1, <2>2, <2>5, <2>6 DEF Counted
<1>4. ASSUME NEW f \in Flushers, Commits(f) PROVE Counted'
  <2>1. /\ pc[f] \in {"resend", "fresh"} /\ InFlush(f) /\ received' = received \o sending[f]
        /\ UNCHANGED <<produced, spool, proc, restarts>>
    BY <1>4 DEF Commits, InFlush
  <2>2. /\ ToSet(sending[f]) \subseteq OnItsWay /\ Ascending(sending[f])
        /\ pc[f] = "resend" =>
              \E s \in DOMAIN spool : Oldest(f, s) /\ ToSet(sending[f]) = ToSet(spool[s])
        /\ pc[f] = "fresh" => DOMAIN spool = {} /\ sending[f] = batch[f]
    BY <2>1, SendingOldest
  <2>3. \A n : /\ Copies(n) \in Nat /\ Copies(n)' \in Nat /\ Copies(n)' <= Copies(n) + 1
               /\ n \notin ToSet(sending[f]) => Copies(n)' = Copies(n)
    <3>1. received \in Seq(1 .. Findings) /\ sending[f] \in Seq(1 .. Findings) /\ 1 .. Findings \subseteq Nat
      BY DEF Typed, TypeOK
    <3>2. received' \in Seq(1 .. Findings)
      BY <2>1, <3>1
    <3>4. DOMAIN received = 1 .. Len(received) /\ DOMAIN received' = 1 .. Len(received')
      BY <3>1, <3>2
    <3>3. \A n : Copies(n) = Repeats(received, n) /\ Copies(n)' = Repeats(received \o sending[f], n)
      BY <2>1, <3>4 DEF Copies, Repeats
    <3> QED
      BY <2>2, <3>1, <3>3, CopiesConcat
  <2>4. \A s \in DOMAIN spool : ~Acked(s)
    BY <1>a, <2>1
  <2>5. /\ \A n \in ToSet(sending[f]) : Copies(n) <= lostAcks + restarts
        /\ pc[f] = "fresh" => \A n \in ToSet(sending[f]) : Copies(n) <= lostAcks
    BY <1>0, <2>1, <2>2, <2>3, <2>4 DEF Counted
  <2>6. \A n \in 1 .. produced : Copies(n)' <= 1 + lostAcks + restarts
    BY <1>0, <2>3, <2>5 DEF Counted
  <2>7. /\ \A g \in Flushers : \A n \in ToSet(batch[g]) : Copies(n) <= lostAcks
        /\ \A s \in DOMAIN spool : \A n \in ToSet(spool[s]) : Copies(n) <= lostAcks + restarts
    BY <1>0, <2>3, <2>4 DEF Counted
  <2>8. CASE lostAcks' = lostAcks + 1 /\ batch' = batch
    BY <1>0, <2>1, <2>3, <2>6, <2>7, <2>8 DEF Counted
  <2>9. CASE lostAcks' = lostAcks /\ pc[f] = "resend" /\ pc' = [pc EXCEPT ![f] = "acked"]
             /\ todo' = todo /\ batch' = batch
    <3>1. PICK s \in DOMAIN spool : Oldest(f, s) /\ ToSet(sending[f]) = ToSet(spool[s])
      BY <2>2, <2>9
    <3>2. Acked(s)'
      BY <2>9, <3>1 DEF Acked, Oldest, Typed, TypeOK
    <3>3. \A g \in Flushers : ToSet(batch[g]) \cap ToSet(spool[s]) = {}
      BY Apart, WhereItIs
    <3>4. \A t \in DOMAIN spool : t # s => ToSet(spool[t]) \cap ToSet(spool[s]) = {}
      BY Apart
    <3>5. \A g \in Flushers : \A n \in ToSet(batch[g]) : Copies(n)' <= lostAcks
      BY <2>3, <2>7, <3>1, <3>3
    <3>6. \A t \in DOMAIN spool : \A n \in ToSet(spool[t]) : Copies(n)' <= lostAcks + restarts + (IF Acked(t)' THEN 1 ELSE 0)
      <4> SUFFICES ASSUME NEW t \in DOMAIN spool, NEW n \in ToSet(spool[t])
                   PROVE  Copies(n)' <= lostAcks + restarts + (IF Acked(t)' THEN 1 ELSE 0)
        OBVIOUS
      <4>1. CASE t = s
        BY <1>0, <2>3, <2>7, <3>2, <4>1
      <4>2. CASE t # s
        BY <1>0, <2>3, <2>7, <3>1, <3>4, <4>2
      <4> QED
        BY <4>1, <4>2
    <3> QED
      BY <2>1, <2>6, <2>9, <3>5, <3>6 DEF Counted
  <2>10. CASE lostAcks' = lostAcks /\ pc[f] = "fresh" /\ batch' = [batch EXCEPT ![f] = <<>>]
    <3>1. \A g \in Flushers : batch'[g] = <<>>
      BY <1>0, <2>1, <2>10, Alone
    <3>2. DOMAIN spool' = {}
      BY <2>1, <2>2, <2>10
    <3> QED
      BY <1>0, <2>1, <2>6, <2>10, <3>1, <3>2 DEF Counted
  <2> QED
    BY <1>4, <2>8, <2>9, <2>10 DEF Commits
<1>5. ASSUME NEW f \in Flushers, Forgets(f) PROVE Counted'
  <2>1. PICK s \in DOMAIN spool : Oldest(f, s) /\ spool' = Without(s) /\ pc[f] \in {"acked", "replay"}
    BY <1>5 DEF Forgets
  <2>2. UNCHANGED <<produced, batch, received, lostAcks, restarts>> /\ InFlush(f)
    BY <1>5, <2>1 DEF Forgets, InFlush
  <2>3. DOMAIN spool' = DOMAIN spool \ {s} /\ \A t \in DOMAIN spool \ {s} : spool'[t] = spool[t]
    BY <2>1, Shortened
  <2>4. \A t \in DOMAIN spool' : ~Acked(t)
    <3>1. proc # "down" /\ \A g \in Flushers \ {f} : pc[g] # "acked"
      BY <2>2, Alone DEF InFlush
    <3>2. \A t : Oldest(f, t) => t = s
      BY <2>1, OneOldest
    <3> QED
      BY <2>3, <3>1, <3>2 DEF Acked
  <2>5. \A n : Copies(n)' = Copies(n) /\ Copies(n) \in Nat
    BY <2>2, CopiesOf DEF Copies
  <2>6. \A t \in DOMAIN spool' : \A n \in ToSet(spool'[t]) : Copies(n) <= lostAcks + restarts
    BY <2>3, <2>4, <1>0, <2>5 DEF Counted
  <2> QED
    BY <1>0, <2>2, <2>5, <2>6 DEF Counted
<1>6. ASSUME Crash \/ Stays PROVE Counted'
  <2>1. /\ UNCHANGED <<produced, spool, received, lostAcks>>
        /\ \A f \in Flushers : batch'[f] \in {batch[f], <<>>}
        /\ \/ restarts' = restarts + 1
           \/ restarts' = restarts /\ proc' = "down"
           \/ /\ restarts' = restarts
              /\ proc = "down" => proc' = "down"
              /\ \A f \in Flushers : pc[f] = "acked" => pc'[f] = "acked" /\ todo'[f] = todo[f]
    BY <1>6 DEF Crash, Wipe, Stays
  <2>2. \A n : Copies(n)' = Copies(n) /\ Copies(n) \in Nat
    BY <2>1, CopiesOf DEF Copies
  <2>3. \A f \in Flushers : ToSet(batch'[f]) \subseteq ToSet(batch[f])
    BY <1>0, <2>1
  <2>4. CASE restarts' = restarts + 1
    BY <1>0, <2>1, <2>2, <2>3, <2>4 DEF Counted
  <2>5. CASE restarts' = restarts /\ \A s \in DOMAIN spool : Acked(s) => Acked(s)'
    BY <1>0, <2>1, <2>2, <2>3, <2>5 DEF Counted
  <2> QED
    BY <2>1, <2>4, <2>5 DEF Acked, Oldest
<1> QED
  BY <1>1, <1>2, <1>3, <1>4, <1>5, <1>6, Shapes

-----------------------------------------------------------------------------
(* The promises of delivery.                                                 *)

(* The first deliveries are in ascending order.                              *)
FirstsAscend(r) ==
    \A i, j \in DOMAIN r : i < j /\ r[i] > r[j] => \E k \in 1 .. i : r[k] = r[j]

(* What is posted is delivered already or younger than all that is.          *)
LEMMA FirstsConcat ==
    ASSUME NEW S, S \subseteq Nat, NEW r \in Seq(S), NEW s \in Seq(S), Ascending(s), FirstsAscend(r),
           Below(ToSet(r), ToSet(s) \ ToSet(r))
    PROVE  FirstsAscend(r \o s)
<1> DEFINE a == r \o s
           L == Len(r)
<1>1. /\ a \in Seq(S) /\ Len(a) = L + Len(s) /\ L \in Nat /\ Len(s) \in Nat
      /\ DOMAIN a = 1 .. Len(a) /\ DOMAIN r = 1 .. L
      /\ \A i \in 1 .. L : a[i] = r[i] /\ r[i] \in S
      /\ \A i \in 1 .. Len(s) : a[L + i] = s[i] /\ s[i] \in S
  OBVIOUS
<1> HIDE DEF a, L
<1> SUFFICES ASSUME NEW i \in 1 .. Len(a), NEW j \in 1 .. Len(a), i < j, a[i] > a[j]
             PROVE  \E k \in 1 .. i : a[k] = a[j]
  BY <1>1 DEF FirstsAscend, a
<1>2. CASE j \in 1 .. L
  <2>1. i \in 1 .. L /\ r[i] > r[j]
    BY <1>1, <1>2
  <2>2. PICK k \in 1 .. i : r[k] = r[j]
    BY <1>1, <1>2, <2>1 DEF FirstsAscend
  <2> QED
    BY <1>1, <1>2, <2>1, <2>2
<1>3. CASE j \notin 1 .. L
  <2>1. j - L \in 1 .. Len(s) /\ j = L + (j - L)
    BY <1>1, <1>3
  <2>2. a[j] = s[j - L] /\ a[j] \in ToSet(s) /\ a[j] \in S
    BY <1>1, <2>1, InToSet, ZenonT(30)
  <2>3. i \in 1 .. L
    <3> SUFFICES ASSUME i \notin 1 .. L PROVE FALSE
      OBVIOUS
    <3>1. i - L \in 1 .. Len(s) /\ i = L + (i - L) /\ i - L < j - L
      BY <1>1
    <3>2. s[i - L] < s[j - L] /\ a[i] = s[i - L] /\ s[i - L] \in S
      BY <1>1, <2>1, <3>1 DEF Ascending
    <3>3. a[i] \in Nat /\ a[j] \in Nat /\ a[i] < a[j]
      BY <2>2, <3>2
    <3> QED
      BY <3>3
  <2>4. a[i] = r[i] /\ r[i] \in ToSet(r) /\ r[i] \in S
    BY <1>1, <2>3, InToSet DEF L
  <2>5. a[i] \in Nat /\ a[j] \in Nat
    BY <2>2, <2>4
  <2>6. a[j] \in ToSet(r)
    <3> SUFFICES ASSUME a[j] \notin ToSet(r) PROVE FALSE
      OBVIOUS
    <3>1. a[i] < a[j]
      BY <2>2, <2>4 DEF Below
    <3> QED
      BY <2>5, <3>1
  <2>7. PICK k \in 1 .. L : r[k] = a[j]
    BY <2>6, InToSet DEF L
  <2>8. CASE k <= i
    BY <1>1, <2>3, <2>7, <2>8
  <2>9. CASE i < k
    <3>1. r[i] > r[k]
      BY <2>4, <2>7
    <3>2. PICK m \in 1 .. i : r[m] = r[k]
      BY <1>1, <2>3, <2>9, <3>1 DEF FirstsAscend
    <3>3. m \in 1 .. L
      BY <1>1, <2>3
    <3> QED
      BY <1>1, <2>7, <3>2, <3>3
  <2> QED
    BY <2>3, <2>7, <2>8, <2>9
<1> QED
  BY <1>2, <1>3

(* The conjuncts hold together, as long as no two flushes overlap.           *)
Promised ==
    /\ Typed
    /\ overlap \/ (Control /\ Replaying /\ Ordered /\ Sound /\ Counted /\ FirstsAscend(received))

LEMMA PromisedInit == Init => Promised
<1> SUFFICES ASSUME Init PROVE Promised
  OBVIOUS
<1>1. /\ produced = 0 /\ items = <<>> /\ DOMAIN spool = {} /\ DOMAIN received = {} /\ received = <<>>
      /\ proc = "running" /\ trimmed = {} /\ loud = {} /\ crashed = {}
      /\ \A f \in Flushers : pc[f] = "idle" /\ batch[f] = <<>>
  BY DEF Init
<1>2. ToSet(<<>>) = {} /\ Ascending(<<>>)
  BY Empty
<1>3. Control
  BY <1>1 DEF Control, InFlush, Flushers
<1>4. Replaying
  BY <1>1 DEF Replaying
<1>5. InMemory = {} /\ Spooled = {} /\ Delivered = {}
  BY <1>1, <1>2 DEF InMemory, Spooled, Delivered
<1>6. Ordered
  BY <1>1, <1>2, <1>5 DEF Ordered, Below
<1>7. Sound
  BY <1>1, <1>2, <1>5 DEF Sound, Settled, Delivered, Below
<1>8. Counted
  BY <1>1, <1>2 DEF Counted
<1>9. FirstsAscend(received)
  BY <1>1 DEF FirstsAscend
<1> QED
  BY <1>3, <1>4, <1>6, <1>7, <1>8, <1>9, TypedInit DEF Promised

LEMMA PromisedNext == Promised /\ [Next]_vars => Promised'
<1> SUFFICES ASSUME Promised, [Next]_vars PROVE Promised'
  OBVIOUS
<1>1. Typed /\ Typed'
  BY TypedNext DEF Promised
<1>2. overlap => overlap'
  BY DEF Next, Add, FlushStep, FlushStart, Drain, ReplayList, ReplayNext, PostOK, PostFail, RemoveSent,
         WriteLoad, WriteStore, Stop, Exit, Crash, Restart, CollectorDown, CollectorUp, vars
<1>3. CASE overlap'
  BY <1>1, <1>3 DEF Promised
<1>4. CASE ~overlap'
  <2>1. Control /\ Replaying /\ Ordered /\ Sound /\ Counted /\ FirstsAscend(received)
    BY <1>2, <1>4 DEF Promised
  <2>2. Control' /\ Replaying' /\ Ordered' /\ Sound' /\ Counted'
    BY <1>1, <1>4, <2>1, ControlNext, ReplayingNext, OrderedNext, SoundNext, CountedNext
  <2>3. FirstsAscend(received)'
    <3>1. CASE UNCHANGED received
      BY <2>1, <3>1 DEF FirstsAscend
    <3>2. ASSUME NEW f \in Flushers, Commits(f) PROVE FirstsAscend(received)'
      <4>1. /\ pc[f] \in {"resend", "fresh"} /\ received' = received \o sending[f]
            /\ received \in Seq(1 .. Findings) /\ sending[f] \in Seq(1 .. Findings) /\ 1 .. Findings \subseteq Nat
        BY <1>1, <3>2 DEF Commits, Typed, TypeOK
      <4>2. ToSet(sending[f]) \subseteq OnItsWay /\ Ascending(sending[f])
        BY <1>1, <2>1, <4>1, SendingOldest
      <4>3. Below(ToSet(received), ToSet(sending[f]) \ ToSet(received))
        BY <2>1, <4>2 DEF Sound, Delivered, OnItsWay, Below
      <4>4. FirstsAscend(received \o sending[f])
        BY <2>1, <4>1, <4>2, <4>3, FirstsConcat
      <4> QED
        BY <4>1, <4>4, ZenonT(30) DEF FirstsAscend
    <3>3. UNCHANGED received \/ \E f \in Flushers : Commits(f)
      <4>1. Add => UNCHANGED received
        BY DEF Add
      <4>2. ASSUME NEW f \in Flushers, Drain(f) \/ Forgets(f) \/ WriteStore(f) PROVE UNCHANGED received
        BY <4>2 DEF Drain, Forgets, WriteStore
      <4>3. Crash \/ Stays => UNCHANGED received
        BY DEF Crash, Stays
      <4> QED
        BY <1>1, <2>1, <4>1, <4>2, <4>3, Shapes
    <3> QED
      BY <3>1, <3>2, <3>3
  <2> QED
    BY <1>1, <2>2, <2>3 DEF Promised
<1> QED
  BY <1>3, <1>4

(* As long as no two flushes overlap, no finding vanishes, whatever the      *)
(* collector, the disk and restarts do; none overtakes an older one; and one *)
(* arrives more than once only for an answer that was lost or a process that *)
(* died.                                                                     *)
THEOREM AtLeastOnce == Spec => []AtLeastOnceInOrder
<1>1. Promised => AtLeastOnceInOrder
  <2> SUFFICES ASSUME Promised, ~overlap PROVE NoLoss /\ FirstsAscend(received) /\ Counted
    BY DEF AtLeastOnceInOrder, NoLossUnlessOverlap, InOrder, FirstsAscend, DuplicatesExplained, Counted
  <2>1. InMemory \cup Spooled \cup Settled = 1 .. produced
    BY DEF Promised, Sound
  <2> QED
    BY <2>1 DEF Promised, NoLoss
<1> QED
  BY <1>1, PromisedInit, PromisedNext, PTL DEF Spec

-----------------------------------------------------------------------------
(* Delivery implements the channel.                                          *)

LEMMA ChannelStep ==
    ASSUME Promised, ~overlap, [Next]_vars
    PROVE  [Chan!Next]_(Chan!vars)
<1> DEFINE pending == OnItsWay \ Delivered
           abandoned == Lost \ Delivered
<1>1. Typed /\ Control /\ Replaying /\ Ordered /\ Sound
  BY DEF Promised
<1>2. /\ Delivered \cap ToSet(items) = {} /\ OnItsWay \cap Lost = {}
      /\ OnItsWay \cup Delivered \cup Lost = 1 .. produced
  BY <1>1 DEF Sound, OnItsWay, Lost, Settled, Delivered
<1>3. CASE Add
  <2>1. /\ ToSet(items') \subseteq ToSet(items) \cup {produced + 1}
        /\ produced + 1 \in ToSet(items')
        /\ trimmed' = trimmed \cup ((ToSet(items) \cup {produced + 1}) \ ToSet(items'))
        /\ produced' = produced + 1 /\ produced \in Nat
        /\ UNCHANGED <<batch, spool, received, loud, crashed>>
    BY <1>1, <1>3, AddMoves
  <2> DEFINE H == Spooled \cup UNION {ToSet(batch[f]) : f \in Flushers}
             lost == ToSet(items) \ ToSet(items')
  <2>2. OnItsWay = H \cup ToSet(items) /\ H \cap ToSet(items) = {}
    BY <1>1, Apart, WhereItIs DEF OnItsWay
  <2>3. OnItsWay' = H \cup ToSet(items')
    BY <2>1 DEF OnItsWay, InMemory, Spooled
  <2>4. Lost' = Lost \cup lost /\ Delivered' = Delivered
    BY <2>1 DEF Lost, Delivered
  <2>5. produced + 1 \notin OnItsWay \cup Delivered \cup Lost
    BY <1>2, <2>1
  <2> HIDE DEF H
  <2>6. lost \subseteq pending
    BY <1>2, <2>2
  <2>7. pending' = (pending \ lost) \cup {produced + 1}
    BY <1>2, <2>1, <2>2, <2>3, <2>4, <2>5
  <2>8. abandoned' = abandoned \cup lost
    BY <1>2, <2>4
  <2>9. Chan!Make(lost)
    BY <2>1, <2>4, <2>6, <2>7, <2>8 DEF Chan!Make, OnItsWay, Lost
  <2> QED
    BY <2>6, <2>9 DEF Chan!Next, OnItsWay
<1>4. CASE ~Add
  <2>1. Settles
    BY <1>1, <1>4, OthersSettle
  <2>2. CASE Delivered' = Delivered
    <3> DEFINE lost == pending \ pending'
    <3>1. pending' = pending \ lost /\ abandoned' = abandoned \cup lost
      BY <2>1, <2>2 DEF Settles
    <3>2. Chan!Abandon(lost)
      BY <2>1, <2>2, <3>1 DEF Chan!Abandon, OnItsWay, Lost, Settles
    <3> QED
      BY <3>2 DEF Chan!Next, OnItsWay
  <2>3. CASE Lost' = Lost
    <3> DEFINE b == Delivered' \ Delivered
    <3>1. b \subseteq pending /\ pending' = pending \ b /\ abandoned' = abandoned /\ Delivered' = Delivered \cup b
      BY <1>2, <2>1, <2>3 DEF Settles
    <3>2. \A n \in b, m \in pending \ b : n < m
      BY <2>1 DEF Settles, Below
    <3>3. produced' = produced
      BY <2>1 DEF Settles
    <3>4. Chan!Deliver(b)
      BY <3>1, <3>2, <3>3 DEF Chan!Deliver, OnItsWay, Lost
    <3> QED
      BY <3>1, <3>4 DEF Chan!Next, OnItsWay
  <2> QED
    BY <2>1, <2>2, <2>3 DEF Settles
<1> QED
  BY <1>3, <1>4

(* As long as no two flushes overlap, every step of buffer, flush, spool,    *)
(* crash and restart is a step of the channel or invisible to it: no finding *)
(* is lost silently or overtaken by a younger one.                           *)
THEOREM Implements == Spec /\ []~overlap => ImplementsChannel
<1>1. Init => Chan!Init
  <2> SUFFICES ASSUME Init PROVE Chan!Init
    OBVIOUS
  <2>1. /\ produced = 0 /\ items = <<>> /\ DOMAIN spool = {} /\ received = <<>>
        /\ trimmed = {} /\ loud = {} /\ crashed = {}
        /\ \A f \in Flushers : batch[f] = <<>>
    BY DEF Init
  <2>2. InMemory = {} /\ Spooled = {} /\ Delivered = {}
    BY <2>1, Empty DEF InMemory, Spooled, Delivered
  <2> QED
    BY <2>1, <2>2 DEF Chan!Init
<1> QED
  BY <1>1, ChannelStep, PromisedInit, PromisedNext, PTL DEF Spec, ImplementsChannel, Chan!Spec

=============================================================================
