---------------------------- MODULE WalLogProofs ----------------------------
(***************************************************************************)
(* Proofs about WalLog, for every segment size, bound and number of        *)
(* faults: the type invariant, that no two segments claim one offset, that *)
(* a readable record sits at the offset it was given, that crashes lose    *)
(* nothing Append and Sync vouched for, and that the whole implements the  *)
(* plain log of OffsetLog.                                                 *)
(*                                                                         *)
(* The first three are properties of the segment list alone, so the proof  *)
(* is about lists: LogOK(ss, w) says a list of segments is sound with      *)
(* respect to the written records w, the lemmas say which operations on a  *)
(* list keep it sound, and each action is a few such operations.  The same *)
(* operations are then shown to keep the records and what is on the disk   *)
(* (DInv), and to change what a reader sees the way OffsetLog may (RInv).  *)
(***************************************************************************)
EXTENDS WalLog, FiniteSetTheorems, TLAPS

\* A non-empty list of segments, coherent, disjoint, with every record where
\* w says it was written.
LogOK(ss, w) ==
    /\ ss \in Seq(Segment) /\ ss # <<>>
    /\ \A i \in DOMAIN ss : WellFormed(ss[i])
    /\ \A i, j \in DOMAIN ss : i < j => nextOffset(ss[i]) <= ss[j].base
    /\ \A i \in DOMAIN ss : \A j \in 1..Len(ss[i].recs) :
           [id |-> ss[i].recs[j], off |-> ss[i].base + j - 1] \in w

\* t is what is left of s after some of its last records are gone.
Shrinks(t, s) ==
    /\ WellFormed(t)
    /\ t.base = s.base
    /\ Len(t.recs) <= Len(s.recs)
    /\ \A j \in 1..Len(t.recs) : t.recs[j] = s.recs[j]

\* The inductive invariant.
IInv ==
    /\ LogOK(segs, written)
    /\ status \in {"open", "closed", "down"}
    /\ written \subseteq [id: Nat, off: Nat] /\ IsFiniteSet(written)
    /\ acked \subseteq Nat /\ flushed \subseteq Nat /\ reclaimed \subseteq Nat
    /\ faults \in [DOMAIN FaultBound -> Nat]

-----------------------------------------------------------------------------
(* Segments *)

\* What a segment's type says of its offsets.
LEMMA SegmentOffsets ==
    ASSUME NEW s \in Segment
    PROVE  /\ s.base \in Nat
           /\ s.recs \in Seq(Nat) /\ Len(s.recs) \in Nat
           /\ nextOffset(s) \in Nat /\ nextOffset(s) = s.base + Len(s.recs)
           /\ s.base <= nextOffset(s)
  BY DEF Segment, nextOffset

\* A fresh segment is coherent.
LEMMA NewSegmentWellFormed ==
    ASSUME NEW b \in Nat
    PROVE  WellFormed(NewSegment(b))
  BY DEF WellFormed, NewSegment, Segment

\* A segment that keeps all its records is not shrunk.
LEMMA SameShrinks ==
    ASSUME NEW s, WellFormed(s), NEW t \in Segment, t.base = s.base, t.recs = s.recs,
           t.whole = s.whole, t.synced <= Len(s.recs), t.frags = 0 => s.frags = 0
    PROVE  Shrinks(t, s)
  BY DEF WellFormed, Shrinks, Segment

\* Syncing, closing or tearing a segment keeps its records.
LEMMA SameRecords ==
    ASSUME NEW s, WellFormed(s)
    PROVE  /\ Shrinks(s, s)
           /\ Shrinks(SyncSegment(s), s)
           /\ Shrinks(CloseSegment(s), s)
           /\ Shrinks(TearTo(s), s)
           /\ SyncSegment(s).recs = s.recs
           /\ SyncSegment(s).base = s.base
  <1>1. s \in Segment /\ Len(s.recs) \in Nat /\ s.synced <= Len(s.recs)
    BY DEF WellFormed, Segment
  <1>2. /\ SyncSegment(s) \in Segment
        /\ SyncSegment(s).base = s.base /\ SyncSegment(s).recs = s.recs
        /\ SyncSegment(s).whole = s.whole /\ SyncSegment(s).frags = s.frags
        /\ SyncSegment(s).synced \in {s.synced, Len(s.recs)}
    BY <1>1 DEF SyncSegment, Segment
  <1>3. /\ CloseSegment(s) \in Segment
        /\ CloseSegment(s).base = s.base /\ CloseSegment(s).recs = s.recs
        /\ CloseSegment(s).whole = s.whole /\ CloseSegment(s).frags = s.frags
        /\ CloseSegment(s).synced = SyncSegment(s).synced
    BY <1>2 DEF CloseSegment, Segment
  <1>4. s.frags \in Nat /\ s.frags + 1 \in Nat
    BY <1>1 DEF Segment
  <1>5. /\ TearTo(s) \in Segment
        /\ TearTo(s).base = s.base /\ TearTo(s).recs = s.recs
        /\ TearTo(s).whole = s.whole /\ TearTo(s).frags = s.frags + 1
        /\ TearTo(s).synced = s.synced
    <2>1. TearTo(s) \in Segment
      BY <1>1, <1>4, SMTT(30) DEF TearTo, Segment
    <2>2. /\ TearTo(s).base = s.base /\ TearTo(s).recs = s.recs
          /\ TearTo(s).whole = s.whole /\ TearTo(s).synced = s.synced
      BY <1>1, SMTT(30) DEF TearTo, Segment
    <2>3. TearTo(s).frags = s.frags + 1
      BY <1>1, SMTT(30) DEF TearTo, Segment
    <2>4. QED
      BY <2>1, <2>2, <2>3
  <1>6. Shrinks(s, s)
    BY <1>1, SameShrinks
  <1>7. Shrinks(SyncSegment(s), s)
    BY <1>1, <1>2, SameShrinks
  <1>8. Shrinks(CloseSegment(s), s)
    BY <1>1, <1>2, <1>3, SameShrinks
  <1>9. Shrinks(TearTo(s), s)
    BY <1>1, <1>4, <1>5, SameShrinks
  <1>10. QED
    BY <1>2, <1>6, <1>7, <1>8, <1>9

\* A segment cut down to its first k records is what is left of it.
LEMMA PrefixShrinks ==
    ASSUME NEW s, WellFormed(s), NEW k \in 0..Len(s.recs), NEW t \in Segment,
           t.base = s.base, t.recs = SubSeq(s.recs, 1, k), t.whole <= k, t.synced <= k,
           t.frags = 0 => t.whole = k
    PROVE  Shrinks(t, s)
  <1>1. s.recs \in Seq(Nat) /\ Len(s.recs) \in Nat /\ k \in Nat /\ k <= Len(s.recs)
    BY DEF WellFormed, Segment
  <1>2. Len(SubSeq(s.recs, 1, k)) = k
        /\ \A j \in 1..k : SubSeq(s.recs, 1, k)[j] = s.recs[j]
    BY <1>1
  <1>3. WellFormed(t)
    BY <1>2 DEF WellFormed
  <1>4. QED
    BY <1>1, <1>2, <1>3 DEF Shrinks

\* Recovery keeps a prefix of the records.
LEMMA RecoverShrinks ==
    ASSUME NEW s, WellFormed(s)
    PROVE  Shrinks(Recover(s), s)
  <1>1. s \in Segment /\ s.whole \in 0..Len(s.recs) /\ s.frags \in Nat
        /\ s.synced <= Len(s.recs) /\ (s.frags = 0 => s.whole = Len(s.recs))
    BY DEF WellFormed, Segment
  <1>2. SubSeq(s.recs, 1, s.whole) \in Seq(Nat)
    BY <1>1 DEF Segment
  <1>3. /\ Recover(s) \in Segment
        /\ Recover(s).base = s.base /\ Recover(s).whole = s.whole
        /\ Recover(s).recs = SubSeq(s.recs, 1, s.whole)
        /\ Recover(s).frags = 0
        /\ Recover(s).synced = IF s.frags > 0 THEN s.whole ELSE s.synced
    BY <1>1, <1>2 DEF Recover, Segment
  <1>4. Recover(s).synced <= s.whole /\ Recover(s).whole <= s.whole
    BY <1>1, <1>3 DEF Segment
  <1>5. QED
    BY <1>1, <1>3, <1>4, PrefixShrinks

\* A power cut keeps a prefix of the records.
LEMMA CutShrinks ==
    ASSUME NEW s, WellFormed(s), NEW t \in CutsOf(s)
    PROVE  Shrinks(t, s)
  <1>1. PICK k \in s.synced..Len(s.recs), torn \in BOOLEAN : t = Cut(s, k, torn)
    BY DEF CutsOf
  <1>2. s \in Segment /\ k \in 0..Len(s.recs) /\ k \in Nat /\ s.whole \in Nat
        /\ s.whole <= Len(s.recs)
    BY DEF WellFormed, Segment
  <1>3. SubSeq(s.recs, 1, k) \in Seq(Nat)
    BY <1>2 DEF Segment
  <1>4. /\ t \in Segment
        /\ t.base = s.base /\ t.recs = SubSeq(s.recs, 1, k) /\ t.synced = k
        /\ t.whole = IF s.whole < k THEN s.whole ELSE k
        /\ t.frags = IF s.whole < k \/ torn THEN 1 ELSE 0
    BY <1>1, <1>2, <1>3 DEF Cut, Segment
  <1>5. t.whole <= k /\ t.synced <= k /\ (t.frags = 0 => t.whole = k)
    BY <1>2, <1>4
  <1>6. QED
    BY <1>2, <1>4, <1>5, PrefixShrinks

\* Appending adds one record and keeps the others.
LEMMA AppendToRecords ==
    ASSUME NEW s, WellFormed(s), NEW r \in Nat
    PROVE  /\ WellFormed(AppendTo(s, r))
           /\ AppendTo(s, r).base = s.base
           /\ Len(AppendTo(s, r).recs) = Len(s.recs) + 1
           /\ \A j \in 1..Len(s.recs) : AppendTo(s, r).recs[j] = s.recs[j]
           /\ AppendTo(s, r).recs[Len(s.recs) + 1] = r
  <1> DEFINE q == Append(s.recs, r)
  <1>1. s \in Segment /\ s.recs \in Seq(Nat) /\ Len(s.recs) \in Nat /\ s.whole \in Nat
        /\ s.whole <= Len(s.recs) /\ s.synced <= Len(s.recs) /\ s.frags \in Nat
        /\ s.synced \in Nat
    BY DEF WellFormed, Segment
  <1>2. q \in Seq(Nat) /\ Len(q) = Len(s.recs) + 1 /\ q[Len(s.recs) + 1] = r
        /\ \A j \in 1..Len(s.recs) : q[j] = s.recs[j]
    BY <1>1
  <1> DEFINE v == IF s.frags = 0 THEN Len(s.recs) + 1 ELSE s.whole
  <1>3. v \in Nat
    BY <1>1
  <1>4. AppendTo(s, r) = [s EXCEPT !.recs = q, !.whole = v, !.dirty = TRUE]
    BY DEF AppendTo
  <1> HIDE DEF q
  <1>5. /\ AppendTo(s, r) \in Segment
        /\ AppendTo(s, r).base = s.base /\ AppendTo(s, r).recs = q
        /\ AppendTo(s, r).frags = s.frags /\ AppendTo(s, r).synced = s.synced
        /\ AppendTo(s, r).whole = v
    <2> HIDE DEF v
    <2>1. QED
      BY <1>1, <1>2, <1>3, <1>4 DEF Segment
  <1>6. WellFormed(AppendTo(s, r))
    BY <1>1, <1>2, <1>5 DEF WellFormed
  <1>7. QED
    BY <1>2, <1>5, <1>6

-----------------------------------------------------------------------------
(* Lists of segments *)

\* Shrinking segments one by one keeps a list sound: this is rotation's sync,
\* a short write, Close, recovery and a power cut.
LEMMA ShrinkLog ==
    ASSUME NEW ss, NEW w, LogOK(ss, w), NEW tt,
           DOMAIN tt = DOMAIN ss, tt = [i \in DOMAIN tt |-> tt[i]],
           \A i \in DOMAIN ss : Shrinks(tt[i], ss[i])
    PROVE  LogOK(tt, w)
  <1>1. DOMAIN ss = 1..Len(ss) /\ Len(ss) \in Nat
    BY DEF LogOK
  <1>2. \A i \in DOMAIN tt : WellFormed(tt[i]) /\ tt[i] \in Segment
    BY DEF Shrinks, WellFormed
  <1>3. tt \in Seq(Segment) /\ tt # <<>> /\ Len(tt) = Len(ss)
    BY <1>1, <1>2 DEF LogOK
  <1>4. ASSUME NEW i \in DOMAIN tt, NEW j \in DOMAIN tt, i < j
        PROVE  nextOffset(tt[i]) <= tt[j].base
    <2>1. nextOffset(ss[i]) <= ss[j].base
      BY <1>4 DEF LogOK
    <2>2. Shrinks(tt[i], ss[i]) /\ Shrinks(tt[j], ss[j]) /\ WellFormed(ss[i]) /\ WellFormed(ss[j])
      BY DEF LogOK
    <2>3. ss[i] \in Segment /\ tt[i] \in Segment /\ tt[j].base = ss[j].base /\ ss[j] \in Segment
          /\ tt[i].base = ss[i].base /\ Len(tt[i].recs) <= Len(ss[i].recs)
      BY <2>2 DEF Shrinks, WellFormed
    <2>4. QED
      BY <2>1, <2>3, SegmentOffsets
  <1>5. ASSUME NEW i \in DOMAIN tt, NEW j \in 1..Len(tt[i].recs)
        PROVE  [id |-> tt[i].recs[j], off |-> tt[i].base + j - 1] \in w
    <2>1. Shrinks(tt[i], ss[i]) /\ WellFormed(ss[i])
      BY DEF LogOK
    <2>2. j \in 1..Len(ss[i].recs) /\ tt[i].recs[j] = ss[i].recs[j] /\ tt[i].base = ss[i].base
      BY <2>1 DEF Shrinks, WellFormed, Segment
    <2>3. QED
      BY <2>2 DEF LogOK
  <1>6. QED
    BY <1>2, <1>3, <1>4, <1>5 DEF LogOK

\* So does replacing one segment by what is left of it.
LEMMA ShrinkOne ==
    ASSUME NEW ss, NEW w, LogOK(ss, w), NEW k \in DOMAIN ss, NEW t, Shrinks(t, ss[k])
    PROVE  LogOK([ss EXCEPT ![k] = t], w)
  <1> DEFINE tt == [ss EXCEPT ![k] = t]
  <1>1. DOMAIN tt = DOMAIN ss /\ tt = [i \in DOMAIN tt |-> tt[i]]
    BY DEF LogOK
  <1>2. \A i \in DOMAIN ss : Shrinks(tt[i], ss[i])
    BY SameRecords DEF LogOK
  <1> HIDE DEF tt
  <1>3. LogOK(tt, w)
    BY <1>1, <1>2, ShrinkLog
  <1>4. QED
    BY <1>3 DEF tt

\* A non-empty run of consecutive segments is sound: deletion from the front
\* (Reclaim), or of a trailing duplicate (Open).
LEMMA SubLog ==
    ASSUME NEW ss, NEW w, LogOK(ss, w), NEW m \in 1..Len(ss), NEW n \in m..Len(ss)
    PROVE  LogOK(SubSeq(ss, m, n), w)
  <1> DEFINE tt == SubSeq(ss, m, n)
  <1>1. ss \in Seq(Segment) /\ m \in Nat /\ n \in Nat /\ Len(ss) \in Nat
    BY DEF LogOK
  <1>2. tt \in Seq(Segment) /\ Len(tt) = n - m + 1 /\ DOMAIN tt = 1..(n - m + 1)
    BY <1>1
  <1>3. \A i \in DOMAIN tt : tt[i] = ss[i + m - 1] /\ i + m - 1 \in DOMAIN ss
    BY <1>1, <1>2
  <1> HIDE DEF tt
  <1>4. tt # <<>>
    BY <1>1, <1>2
  <1>5. \A i, j \in DOMAIN tt : i < j => i + m - 1 < j + m - 1
    BY <1>1, <1>2
  <1>6. LogOK(tt, w)
    BY <1>2, <1>3, <1>4, <1>5 DEF LogOK
  <1>7. QED
    BY <1>6 DEF tt

\* A new segment that starts where the last one ends.
LEMMA ExtendLog ==
    ASSUME NEW ss, NEW w, LogOK(ss, w)
    PROVE  LogOK(Append(ss, NewSegment(nextOffset(ss[Len(ss)]))), w)
  <1> DEFINE n == nextOffset(ss[Len(ss)])
             tt == Append(ss, NewSegment(n))
  <1>1. ss \in Seq(Segment) /\ Len(ss) \in Nat \ {0} /\ DOMAIN ss = 1..Len(ss)
    BY DEF LogOK
  <1>2. \A i \in DOMAIN ss : WellFormed(ss[i]) /\ ss[i] \in Segment
    BY DEF LogOK, WellFormed
  <1>3. n \in Nat
    BY <1>1, <1>2, SegmentOffsets
  <1>4. WellFormed(NewSegment(n)) /\ NewSegment(n) \in Segment
    BY <1>3, NewSegmentWellFormed DEF WellFormed
  <1>5. /\ tt \in Seq(Segment) /\ Len(tt) = Len(ss) + 1 /\ tt # <<>>
        /\ DOMAIN tt = 1..(Len(ss) + 1)
        /\ \A i \in DOMAIN ss : tt[i] = ss[i]
        /\ tt[Len(ss) + 1] = NewSegment(n)
    BY <1>1, <1>4
  <1>6. ASSUME NEW i \in DOMAIN tt, NEW j \in DOMAIN tt, i < j
        PROVE  nextOffset(tt[i]) <= tt[j].base
    <2>1. CASE j \in DOMAIN ss
      BY <1>1, <1>5, <1>6, <2>1 DEF LogOK
    <2>2. CASE j = Len(ss) + 1
      <3>1. i \in DOMAIN ss /\ tt[i] = ss[i]
        BY <1>1, <1>5, <1>6, <2>2
      <3>2. tt[j].base = n
        BY <1>5, <2>2 DEF NewSegment
      <3>3. CASE i = Len(ss)
        BY <3>1, <3>2, <3>3, <1>3
      <3>4. CASE i < Len(ss)
        <4>1. nextOffset(ss[i]) <= ss[Len(ss)].base
          BY <1>1, <3>1, <3>4 DEF LogOK
        <4>2. QED
          BY <4>1, <3>1, <3>2, <1>1, <1>2, SegmentOffsets
      <3>5. QED
        BY <3>1, <3>3, <3>4, <1>1
    <2>3. QED
      BY <2>1, <2>2, <1>1, <1>5
  <1>7. ASSUME NEW i \in DOMAIN tt, NEW j \in 1..Len(tt[i].recs)
        PROVE  [id |-> tt[i].recs[j], off |-> tt[i].base + j - 1] \in w
    <2>1. CASE i \in DOMAIN ss
      BY <1>5, <1>7, <2>1 DEF LogOK
    <2>2. CASE i = Len(ss) + 1
      <3>1. Len(tt[i].recs) = 0
        BY <1>5, <2>2 DEF NewSegment
      <3>2. QED
        BY <3>1
    <2>3. QED
      BY <2>1, <2>2, <1>1, <1>5
  <1>8. \A i \in DOMAIN tt : WellFormed(tt[i])
    BY <1>1, <1>2, <1>4, <1>5
  <1> HIDE DEF tt, n
  <1>9. LogOK(tt, w)
    BY <1>5, <1>6, <1>7, <1>8 DEF LogOK
  <1>10. QED
    BY <1>9 DEF tt, n

\* A record appended to the last segment, once it counts as written.
LEMMA AppendLog ==
    ASSUME NEW ss, NEW w, LogOK(ss, w), NEW r \in Nat
    PROVE  /\ LogOK(AppendLast(ss, r), w \cup {Entry(ss, r)})
           /\ Entry(ss, r) \in [id: Nat, off: Nat]
  <1> DEFINE l == Len(ss)
             tt == AppendLast(ss, r)
             e == Entry(ss, r)
  <1>1. ss \in Seq(Segment) /\ l \in Nat \ {0} /\ DOMAIN ss = 1..l /\ l \in DOMAIN ss
    BY DEF LogOK
  <1>2. \A i \in DOMAIN ss : WellFormed(ss[i]) /\ ss[i] \in Segment
    BY DEF LogOK, WellFormed
  <1>3. /\ WellFormed(AppendTo(ss[l], r)) /\ AppendTo(ss[l], r) \in Segment
        /\ AppendTo(ss[l], r).base = ss[l].base
        /\ Len(AppendTo(ss[l], r).recs) = Len(ss[l].recs) + 1
        /\ \A j \in 1..Len(ss[l].recs) : AppendTo(ss[l], r).recs[j] = ss[l].recs[j]
        /\ AppendTo(ss[l], r).recs[Len(ss[l].recs) + 1] = r
    BY <1>1, <1>2, AppendToRecords DEF WellFormed
  <1>4. /\ tt \in Seq(Segment) /\ tt # <<>> /\ DOMAIN tt = DOMAIN ss
        /\ tt[l] = AppendTo(ss[l], r)
        /\ \A i \in DOMAIN ss : i # l => tt[i] = ss[i]
    BY <1>1, <1>3 DEF AppendLast
  <1>5. e = [id |-> r, off |-> ss[l].base + Len(ss[l].recs)] /\ e \in [id: Nat, off: Nat]
    BY <1>1, <1>2, SegmentOffsets DEF Entry
  <1> HIDE DEF tt, e
  <1>6. ASSUME NEW i \in DOMAIN tt, NEW j \in DOMAIN tt, i < j
        PROVE  nextOffset(tt[i]) <= tt[j].base
    <2>1. i # l /\ tt[i] = ss[i] /\ tt[j].base = ss[j].base
      BY <1>1, <1>3, <1>4, <1>6
    <2>2. QED
      BY <2>1, <1>4, <1>6 DEF LogOK
  <1>7. ASSUME NEW i \in DOMAIN tt, NEW j \in 1..Len(tt[i].recs)
        PROVE  [id |-> tt[i].recs[j], off |-> tt[i].base + j - 1] \in w \cup {e}
    <2>1. CASE i # l
      BY <1>4, <1>7, <2>1 DEF LogOK
    <2>2. CASE i = l
      <3>1. CASE j \in 1..Len(ss[l].recs)
        BY <1>1, <1>3, <1>4, <2>2, <3>1 DEF LogOK
      <3>2. CASE j = Len(ss[l].recs) + 1
        <4>1. tt[i].recs[j] = r /\ tt[i].base + j - 1 = ss[l].base + Len(ss[l].recs)
          BY <1>1, <1>2, <1>3, <1>4, <2>2, <3>2, SegmentOffsets
        <4>2. QED
          BY <4>1, <1>5
      <3>3. Len(ss[l].recs) \in Nat
        BY <1>1, <1>2, SegmentOffsets
      <3>4. QED
        BY <3>1, <3>2, <3>3, <1>3, <1>4, <2>2
    <2>3. QED
      BY <2>1, <2>2
  <1>8. \A i \in DOMAIN tt : WellFormed(tt[i])
    BY <1>2, <1>3, <1>4
  <1>9. LogOK(tt, w \cup {e})
    BY <1>4, <1>6, <1>7, <1>8 DEF LogOK
  <1>10. QED
    BY <1>5, <1>9 DEF tt, e

-----------------------------------------------------------------------------
(* The actions *)

\* The segments Append writes to are sound.
LEMMA RotatedOK ==
    ASSUME IInv
    PROVE  LogOK(Rotated, written)
  <1>1. LogOK(segs, written) /\ Len(segs) \in DOMAIN segs /\ WellFormed(segs[Len(segs)])
    BY DEF IInv, LogOK
  <1> DEFINE s == segs[Len(segs)]
             tt == [segs EXCEPT ![Len(segs)] = SyncSegment(s)]
  <1>2. LogOK(tt, written)
    BY <1>1, SameRecords, ShrinkOne
  <1>3. Len(tt) = Len(segs) /\ tt[Len(tt)] = SyncSegment(s)
    BY <1>1 DEF LogOK
  <1>4. nextOffset(tt[Len(tt)]) = NextOffset
    BY <1>3 DEF NextOffset, nextOffset, active, SyncSegment
  <1>5. LogOK(rotate, written)
    BY <1>2, <1>4, ExtendLog DEF rotate
  <1>6. QED
    BY <1>1, <1>5 DEF Rotated

\* Record numbers are naturals.
LEMMA FreshNat ==
    ASSUME IInv
    PROVE  fresh \in Nat
  BY FS_CardinalityType DEF fresh, IInv

\* Wherever in Append the process dies, the files are sound.
LEMMA DyingOK ==
    ASSUME IInv, NEW d \in DyingStates
    PROVE  /\ LogOK(d.files, d.written)
           /\ d.written \subseteq [id: Nat, off: Nat] /\ IsFiniteSet(d.written)
  <1>1. LogOK(segs, written) /\ LogOK(Rotated, written)
    BY RotatedOK DEF IInv
  <1>2. LogOK(TearLast(Rotated), written)
    <2>1. Len(Rotated) \in DOMAIN Rotated /\ WellFormed(Rotated[Len(Rotated)])
      BY <1>1 DEF LogOK
    <2>2. QED
      BY <1>1, <2>1, SameRecords, ShrinkOne DEF TearLast
  <1>3. /\ LogOK(AppendLast(Rotated, fresh), written \cup {Entry(Rotated, fresh)})
        /\ Entry(Rotated, fresh) \in [id: Nat, off: Nat]
    BY <1>1, FreshNat, AppendLog
  <1>4. IsFiniteSet(written \cup {Entry(Rotated, fresh)})
    BY FS_AddElement DEF IInv
  <1>5. \/ d = [files |-> segs, written |-> written]
        \/ d = [files |-> Rotated, written |-> written]
        \/ d = [files |-> TearLast(Rotated), written |-> written]
        \/ d = [files |-> AppendLast(Rotated, fresh),
                written |-> written \cup {Entry(Rotated, fresh)}]
    BY DEF DyingStates
  <1>6. written \subseteq [id: Nat, off: Nat] /\ IsFiniteSet(written)
    BY DEF IInv
  <1>7. QED
    BY <1>1, <1>2, <1>3, <1>4, <1>5, <1>6

\* The records a list of segments holds are naturals.
LEMMA IdsNat ==
    ASSUME NEW s \in Segment
    PROVE  Ids(s) \subseteq Nat
  BY SegmentOffsets DEF Ids

\* Well-formed segments have the type of segments.
LEMMA SegsInSegment ==
    ASSUME IInv
    PROVE  /\ segs \in Seq(Segment) /\ Len(segs) \in Nat \ {0} /\ DOMAIN segs = 1..Len(segs)
           /\ \A i \in DOMAIN segs : segs[i] \in Segment /\ WellFormed(segs[i])
  BY DEF IInv, LogOK, WellFormed

\* A fault is counted in a natural.
LEMMA FaultCounted ==
    ASSUME IInv, NEW f \in DOMAIN FaultBound, Fault(f)
    PROVE  faults' \in [DOMAIN FaultBound -> Nat]
  BY DEF IInv, Fault

\* The log that Open creates in an empty directory satisfies the invariant.
THEOREM InitIInv == WalInit => IInv
  <1> SUFFICES ASSUME WalInit PROVE IInv
    OBVIOUS
  <1>1. WellFormed(NewSegment(0)) /\ NewSegment(0) \in Segment
    BY NewSegmentWellFormed DEF WellFormed
  <1>2. segs = <<NewSegment(0)>> /\ NewSegment(0).recs = <<>>
    BY DEF WalInit, NewSegment
  <1>3. LogOK(segs, written)
    BY <1>1, <1>2 DEF LogOK
  <1>4. faults \in [DOMAIN FaultBound -> Nat]
    BY DEF WalInit
  <1>5. IsFiniteSet(written)
    BY FS_EmptySet DEF WalInit
  <1>6. QED
    BY <1>3, <1>4, <1>5 DEF WalInit, IInv

\* Every action keeps the invariant.
THEOREM NextIInv == IInv /\ [WalNext]_walVars => IInv'
  <1> SUFFICES ASSUME IInv, [WalNext]_walVars PROVE IInv'
    OBVIOUS
  <1> USE DEF WalNext
  <1>0. LogOK(segs, written) /\ LogOK(Rotated, written)
    BY RotatedOK DEF IInv
  <1>a. active \in Segment /\ WellFormed(active) /\ Len(segs) \in DOMAIN segs
    BY SegsInSegment DEF active
  <1>b. RotateFlushes \subseteq Nat /\ Ids(active) \subseteq Nat
    BY <1>a, IdsNat DEF RotateFlushes
  <1>c. LiveIds \subseteq Nat
    BY SegsInSegment, IdsNat DEF LiveIds
  <1>1. CASE AppendOk
    <2>1. fresh \in Nat
      BY FreshNat
    <2>2. /\ LogOK(AppendLast(Rotated, fresh), written \cup {Entry(Rotated, fresh)})
          /\ Entry(Rotated, fresh) \in [id: Nat, off: Nat]
      BY <1>0, <2>1, AppendLog
    <2>3. IsFiniteSet(written \cup {Entry(Rotated, fresh)})
      BY FS_AddElement DEF IInv
    <2>4. QED
      BY <1>1, <1>b, <2>1, <2>2, <2>3 DEF AppendOk, IInv, FaultBound
  <1>2. CASE AppendShort
    <2>1. LogOK(TearLast(Rotated), written)
      <3>1. Len(Rotated) \in DOMAIN Rotated /\ WellFormed(Rotated[Len(Rotated)])
        BY <1>0 DEF LogOK
      <3>2. QED
        BY <1>0, <3>1, SameRecords, ShrinkOne DEF TearLast
    <2>2. faults' \in [DOMAIN FaultBound -> Nat]
      BY <1>2, FaultCounted DEF AppendShort, FaultBound
    <2>3. QED
      BY <1>2, <1>b, <2>1, <2>2 DEF AppendShort, IInv, FaultBound
  <1>3. CASE Sync
    <2>1. LogOK([segs EXCEPT ![Len(segs)] = SyncSegment(segs[Len(segs)])], written)
      BY <1>0, <1>a, SameRecords, ShrinkOne DEF active
    <2>2. QED
      BY <1>3, <1>b, <2>1 DEF Sync, IInv, FaultBound
  <1>4. ASSUME NEW upTo \in 0..NextOffset, Reclaim(upTo)
        PROVE  IInv'
    <2>1. PICK n \in 1..(Len(segs) - 1) :
              /\ segs' = SubSeq(segs, n + 1, Len(segs))
              /\ reclaimed' = reclaimed \cup UNION {Ids(segs[i]) : i \in 1..n}
      BY <1>4 DEF Reclaim
    <2>2. n + 1 \in 1..Len(segs) /\ Len(segs) \in (n + 1)..Len(segs)
      BY SegsInSegment
    <2>3. LogOK(segs', written)
      BY <1>0, <2>1, <2>2, SubLog
    <2>4. UNION {Ids(segs[i]) : i \in 1..n} \subseteq Nat
      <3>1. 1..n \subseteq DOMAIN segs
        BY SegsInSegment
      <3>2. QED
        BY <3>1, SegsInSegment, IdsNat
    <2>5. QED
      BY <1>4, <2>1, <2>3, <2>4 DEF Reclaim, IInv, FaultBound
  <1>5. ASSUME NEW upTo \in 0..NextOffset, ReclaimFails(upTo)
        PROVE  IInv'
    <2>1. PICK k \in 1..(Len(segs) - 1) :
              /\ Fault("removes")
              /\ segs' = SubSeq([segs EXCEPT ![k] = CloseSegment(segs[k])], k, Len(segs))
              /\ reclaimed' = reclaimed \cup UNION {Ids(segs[i]) : i \in 1..(k - 1)}
      BY <1>5 DEF ReclaimFails
    <2> DEFINE tt == [segs EXCEPT ![k] = CloseSegment(segs[k])]
    <2>2. k \in DOMAIN segs /\ Len(tt) = Len(segs) /\ k \in 1..Len(tt) /\ Len(tt) \in k..Len(tt)
      BY SegsInSegment
    <2>3. LogOK(tt, written)
      BY <1>0, <2>2, SegsInSegment, SameRecords, ShrinkOne
    <2>4. LogOK(segs', written)
      BY <2>1, <2>2, <2>3, SubLog
    <2>5. UNION {Ids(segs[i]) : i \in 1..(k - 1)} \subseteq Nat
      <3>1. 1..(k - 1) \subseteq DOMAIN segs
        BY SegsInSegment
      <3>2. QED
        BY <3>1, SegsInSegment, IdsNat
    <2>6. faults' \in [DOMAIN FaultBound -> Nat]
      BY <2>1, FaultCounted DEF FaultBound
    <2>7. QED
      BY <1>5, <2>1, <2>4, <2>5, <2>6 DEF ReclaimFails, IInv, FaultBound
  <1>6. CASE Close
    <2> DEFINE tt == [i \in DOMAIN segs |-> CloseSegment(segs[i])]
    <2>1. \A i \in DOMAIN segs : Shrinks(tt[i], segs[i])
      BY SegsInSegment, SameRecords
    <2>2. DOMAIN tt = DOMAIN segs /\ tt = [i \in DOMAIN tt |-> tt[i]]
      OBVIOUS
    <2> HIDE DEF tt
    <2>3. LogOK(tt, written)
      BY <1>0, <2>1, <2>2, ShrinkLog
    <2>4. QED
      BY <1>6, <1>c, <2>3 DEF Close, IInv, FaultBound, tt
  <1>7. CASE Kill
    <2>1. PICK d \in DyingStates : segs' = d.files /\ written' = d.written
      BY <1>7 DEF Kill
    <2>2. faults' \in [DOMAIN FaultBound -> Nat]
      BY <1>7, FaultCounted DEF Kill, FaultBound
    <2>3. QED
      BY <1>7, <2>1, <2>2, DyingOK DEF Kill, IInv, FaultBound
  <1>8. CASE PowerCut
    <2>1. PICK d \in DyingStates :
              /\ written' = d.written
              /\ segs' \in {cut \in [DOMAIN d.files -> AnyCut(d.files)] :
                                \A i \in DOMAIN d.files : cut[i] \in CutsOf(d.files[i])}
      BY <1>8 DEF PowerCut
    <2>2. LogOK(d.files, d.written)
      BY DyingOK
    <2>3. \A i \in DOMAIN d.files : Shrinks(segs'[i], d.files[i])
      BY <2>1, <2>2, CutShrinks DEF LogOK
    <2>4. DOMAIN segs' = DOMAIN d.files /\ segs' = [i \in DOMAIN segs' |-> segs'[i]]
      BY <2>1
    <2>5. LogOK(segs', written')
      BY <2>1, <2>2, <2>3, <2>4, ShrinkLog
    <2>6. faults' \in [DOMAIN FaultBound -> Nat]
      BY <1>8, FaultCounted DEF PowerCut, FaultBound
    <2>7. QED
      BY <1>8, <2>1, <2>5, <2>6, DyingOK DEF PowerCut, IInv, FaultBound
  <1>9. CASE Open
    <2>1. PICK n \in DOMAIN segs : segs' = SubSeq(Recovered, 1, n)
      BY <1>9 DEF Open
    <2>2. \A i \in DOMAIN segs : Shrinks(Recovered[i], segs[i])
      BY SegsInSegment, RecoverShrinks DEF Recovered
    <2>3. DOMAIN Recovered = DOMAIN segs /\ Recovered = [i \in DOMAIN Recovered |-> Recovered[i]]
      BY DEF Recovered
    <2>4. LogOK(Recovered, written)
      BY <1>0, <2>2, <2>3, ShrinkLog
    <2>5. 1 \in 1..Len(Recovered) /\ n \in 1..Len(Recovered)
      BY <2>3, <2>4, SegsInSegment DEF LogOK
    <2>6. LogOK(segs', written)
      BY <2>1, <2>4, <2>5, SubLog
    <2>7. QED
      BY <1>9, <2>6 DEF Open, IInv, FaultBound
  <1>10. CASE UNCHANGED walVars
    BY <1>10 DEF walVars, IInv, LogOK, FaultBound
  <1>11. QED
    BY <1>1, <1>2, <1>3, <1>4, <1>5, <1>6, <1>7, <1>8, <1>9, <1>10

\* The invariant implies the properties the runs check.
LEMMA IInvImplies == IInv => WalTypeOK /\ SegmentsDisjoint /\ OffsetsStable
  BY DEF IInv, LogOK, WalTypeOK, SegmentsDisjoint, OffsetsStable

\* The invariant holds in every reachable state.
LEMMA SpecIInv == WalSpec => []IInv
  BY InitIInv, NextIInv, PTL DEF WalSpec

\* Every variable keeps its type and every segment stays coherent, whatever
\* faults hit the log and however often.
THEOREM WalTypeCorrect == WalSpec => []WalTypeOK
  BY SpecIInv, IInvImplies, PTL

\* No offset ever belongs to two segments of Log.segments.
THEOREM SegmentsAlwaysDisjoint == WalSpec => []SegmentsDisjoint
  BY SpecIInv, IInvImplies, PTL

\* A record Log.ReadFrom can return was written whole, at the offset it is
\* found at, through any sequence of rotations, deletions, crashes and
\* recoveries.
THEOREM OffsetsAlwaysStable == WalSpec => []OffsetsStable
  BY SpecIInv, IInvImplies, PTL

-----------------------------------------------------------------------------
(* Durability *)

\* No write has stopped half way: the only fragment a file may hold is the
\* one a crash left at its end, and recovery has removed it.
Settled(s, st) == s.whole = Len(s.recs) /\ (st # "down" => s.frags = 0)

\* A file that is not marked dirty is on the disk, and so is every file once
\* the log is not open.
Vouched(s, st) == ~ s.dirty \/ st # "open" => s.synced = Len(s.recs)

AllSettled(ss, st) == \A i \in DOMAIN ss : Settled(ss[i], st)
AllVouched(ss, st) == \A i \in DOMAIN ss : Vouched(ss[i], st)

\* The records of a list of segments, and those of them on the disk.
AllIds(ss) == UNION {Ids(ss[i]) : i \in DOMAIN ss}
AllDurable(ss) == UNION {DurableIds(ss[i]) : i \in DOMAIN ss}

\* The inductive invariant behind Durable.
DInv ==
    /\ IInv
    /\ faults.shorts = 0 => AllSettled(segs, status)
    /\ faults.kills = 0 /\ faults.shorts = 0 => AllVouched(segs, status)
    /\ Durable

\* A list of segments keeps its records when each segment does.
LEMMA ListKeepsIds ==
    ASSUME NEW ss, NEW tt, DOMAIN ss \subseteq DOMAIN tt,
           \A i \in DOMAIN ss : Ids(ss[i]) \subseteq Ids(tt[i])
    PROVE  AllIds(ss) \subseteq AllIds(tt)
  BY DEF AllIds

\* The same of the records on the disk.
LEMMA ListKeepsDurable ==
    ASSUME NEW ss, NEW tt, DOMAIN ss \subseteq DOMAIN tt,
           \A i \in DOMAIN ss : DurableIds(ss[i]) \subseteq DurableIds(tt[i])
    PROVE  AllDurable(ss) \subseteq AllDurable(tt)
  BY DEF AllDurable

\* A segment that keeps its first records keeps them on the disk too, if it
\* has as many synced.
LEMMA KeepsDurable ==
    ASSUME NEW s, WellFormed(s), NEW t, WellFormed(t), s.synced <= t.synced,
           \A j \in 1..s.synced : t.recs[j] = s.recs[j]
    PROVE  DurableIds(s) \subseteq DurableIds(t)
  <1>1. /\ Len(s.recs) \in Nat /\ s.synced \in Nat /\ s.synced <= Len(s.recs)
        /\ Len(t.recs) \in Nat /\ t.synced \in Nat /\ t.synced <= Len(t.recs)
    BY DEF WellFormed, Segment
  <1>2. SUFFICES ASSUME NEW j \in 1..Len(s.recs), j <= s.synced
                 PROVE  s.recs[j] \in DurableIds(t)
    BY DEF DurableIds
  <1>3. j \in 1..Len(t.recs) /\ j <= t.synced /\ t.recs[j] = s.recs[j]
    BY <1>1, <1>2
  <1>4. QED
    BY <1>3 DEF DurableIds

\* All of a fully synced segment is on the disk.
LEMMA SyncedOnDisk ==
    ASSUME NEW s, WellFormed(s), s.synced = Len(s.recs)
    PROVE  DurableIds(s) = Ids(s)
  BY DEF WellFormed, Segment, DurableIds, Ids

\* What is on the disk is a part of what can be read.
LEMMA DurableAreIds ==
    ASSUME NEW s
    PROVE  DurableIds(s) \subseteq Ids(s)
  BY DEF DurableIds, Ids

\* The fields of a synced and of a closed segment.
LEMMA SyncFields ==
    ASSUME NEW s, WellFormed(s)
    PROVE  /\ WellFormed(SyncSegment(s)) /\ WellFormed(CloseSegment(s))
           /\ SyncSegment(s).recs = s.recs /\ CloseSegment(s).recs = s.recs
           /\ SyncSegment(s).whole = s.whole /\ CloseSegment(s).whole = s.whole
           /\ SyncSegment(s).frags = s.frags /\ CloseSegment(s).frags = s.frags
           /\ ~ SyncSegment(s).dirty /\ ~ CloseSegment(s).dirty
           /\ s.synced <= SyncSegment(s).synced
           /\ CloseSegment(s).synced = SyncSegment(s).synced
           /\ s.dirty \/ s.synced = Len(s.recs) => SyncSegment(s).synced = Len(s.recs)
  <1>1. WellFormed(SyncSegment(s)) /\ WellFormed(CloseSegment(s))
    BY SameRecords DEF Shrinks
  <1>2. s \in Segment /\ s.synced <= Len(s.recs)
    BY DEF WellFormed
  <1>3. /\ SyncSegment(s).recs = s.recs /\ SyncSegment(s).whole = s.whole
        /\ SyncSegment(s).frags = s.frags /\ ~ SyncSegment(s).dirty
        /\ s.synced <= SyncSegment(s).synced
        /\ s.dirty \/ s.synced = Len(s.recs) => SyncSegment(s).synced = Len(s.recs)
    BY <1>2 DEF SyncSegment, Segment
  <1>4. SyncSegment(s) \in Segment
    BY <1>1 DEF WellFormed
  <1>5. /\ CloseSegment(s).recs = SyncSegment(s).recs
        /\ CloseSegment(s).whole = SyncSegment(s).whole
        /\ CloseSegment(s).frags = SyncSegment(s).frags
        /\ CloseSegment(s).synced = SyncSegment(s).synced
        /\ CloseSegment(s).dirty = SyncSegment(s).dirty
    BY <1>4 DEF CloseSegment, Segment
  <1>6. QED
    BY <1>1, <1>3, <1>5

\* Syncing and closing lose nothing, and leave a settled, vouched-for segment
\* settled and wholly on the disk.
LEMMA SyncKeeps ==
    ASSUME NEW s, WellFormed(s), NEW t \in {SyncSegment(s), CloseSegment(s)}
    PROVE  /\ WellFormed(t) /\ Ids(t) = Ids(s)
           /\ DurableIds(s) \subseteq DurableIds(t)
           /\ \A st : Settled(s, st) => Settled(t, st)
           /\ Vouched(s, "open") => /\ t.synced = Len(t.recs) /\ DurableIds(t) = Ids(s)
                                    /\ \A st : Vouched(t, st)
  <1>1. /\ WellFormed(t) /\ t.recs = s.recs /\ t.whole = s.whole /\ t.frags = s.frags
        /\ ~ t.dirty /\ s.synced <= t.synced
        /\ s.dirty \/ s.synced = Len(s.recs) => t.synced = Len(s.recs)
    BY SyncFields
  <1>2. Ids(t) = Ids(s)
    BY <1>1 DEF Ids
  <1>3. DurableIds(s) \subseteq DurableIds(t)
    BY <1>1, KeepsDurable
  <1>4. \A st : Settled(s, st) => Settled(t, st)
    BY <1>1 DEF Settled
  <1>5. ASSUME Vouched(s, "open")
        PROVE  t.synced = Len(t.recs) /\ DurableIds(t) = Ids(s) /\ \A st : Vouched(t, st)
    <2>1. t.synced = Len(t.recs)
      BY <1>1, <1>5 DEF Vouched
    <2>2. QED
      BY <1>1, <1>2, <2>1, SyncedOnDisk DEF Vouched
  <1>6. QED
    BY <1>1, <1>2, <1>3, <1>4, <1>5

\* A fresh segment is settled, vouched for and empty.
LEMMA NewSegmentKept ==
    ASSUME NEW b
    PROVE  Settled(NewSegment(b), "open") /\ Vouched(NewSegment(b), "open")
  BY DEF NewSegment, Settled, Vouched

\* Appending keeps what was there, adds the record, and marks the file dirty.
LEMMA AppendToKeeps ==
    ASSUME NEW s, WellFormed(s), NEW r \in Nat
    PROVE  /\ Ids(s) \cup {r} \subseteq Ids(AppendTo(s, r))
           /\ DurableIds(s) \subseteq DurableIds(AppendTo(s, r))
           /\ Settled(s, "open") => Settled(AppendTo(s, r), "open")
           /\ Vouched(AppendTo(s, r), "open")
  <1> DEFINE t == AppendTo(s, r)
  <1>1. /\ WellFormed(t) /\ Len(t.recs) = Len(s.recs) + 1
        /\ \A j \in 1..Len(s.recs) : t.recs[j] = s.recs[j]
        /\ t.recs[Len(s.recs) + 1] = r
    BY AppendToRecords
  <1>2. s \in Segment /\ Len(s.recs) \in Nat /\ s.synced \in Nat /\ s.synced <= Len(s.recs)
        /\ s.frags \in Nat /\ s.whole \in Nat
    BY DEF WellFormed, Segment
  <1>3. t.synced = s.synced /\ t.frags = s.frags
    BY <1>2 DEF AppendTo, Segment
  <1>4. t.dirty = TRUE
    BY <1>2 DEF AppendTo, Segment
  <1>5. s.frags = 0 => t.whole = Len(s.recs) + 1
    BY <1>2 DEF AppendTo, Segment
  <1> HIDE DEF t
  <1>6. DurableIds(s) \subseteq DurableIds(t)
    BY <1>1, <1>2, <1>3, KeepsDurable
  <1>7. Ids(s) \cup {r} \subseteq Ids(t)
    BY <1>1, <1>2 DEF Ids
  <1>8. Settled(s, "open") => Settled(t, "open")
    BY <1>1, <1>3, <1>5 DEF Settled
  <1>9. Vouched(t, "open")
    BY <1>4 DEF Vouched
  <1>10. QED
    BY <1>6, <1>7, <1>8, <1>9 DEF t

\* A fragment behind the records disturbs none of them.
LEMMA TearToKeeps ==
    ASSUME NEW s, WellFormed(s)
    PROVE  /\ Ids(TearTo(s)) = Ids(s) /\ DurableIds(TearTo(s)) = DurableIds(s)
           /\ Settled(s, "open") => Settled(TearTo(s), "down")
           /\ Vouched(s, "open") => Vouched(TearTo(s), "open")
  <1>1. s \in Segment /\ s.frags \in Nat
    BY DEF WellFormed, Segment
  <1>2. /\ TearTo(s).recs = s.recs /\ TearTo(s).synced = s.synced
        /\ TearTo(s).whole = s.whole /\ TearTo(s).dirty = s.dirty
    BY <1>1, SMTT(30) DEF TearTo, Segment
  <1>3. QED
    BY <1>2 DEF Ids, DurableIds, Settled, Vouched

\* A power cut keeps what was synced, and what it keeps is on the disk.
LEMMA CutKeeps ==
    ASSUME NEW s, WellFormed(s), NEW t \in CutsOf(s)
    PROVE  /\ DurableIds(s) \subseteq DurableIds(t)
           /\ \A st : Vouched(t, st)
           /\ Settled(s, "down") => Settled(t, "down")
  <1>1. PICK k \in s.synced..Len(s.recs), torn \in BOOLEAN : t = Cut(s, k, torn)
    BY DEF CutsOf
  <1>2. s \in Segment /\ s.recs \in Seq(Nat) /\ k \in 0..Len(s.recs) /\ k \in Nat
        /\ s.whole \in Nat /\ s.synced \in Nat /\ Len(s.recs) \in Nat
        /\ s.whole <= Len(s.recs) /\ s.synced <= k
    BY DEF WellFormed, Segment
  <1>3. Len(SubSeq(s.recs, 1, k)) = k /\ \A j \in 1..k : SubSeq(s.recs, 1, k)[j] = s.recs[j]
    BY <1>2
  <1>4. /\ t.recs = SubSeq(s.recs, 1, k) /\ t.synced = k
        /\ t.whole = IF s.whole < k THEN s.whole ELSE k
    BY <1>1, <1>2 DEF Cut, Segment
  <1>5. WellFormed(t)
    BY CutShrinks DEF Shrinks
  <1>6. s.synced <= t.synced /\ \A j \in 1..s.synced : t.recs[j] = s.recs[j]
    BY <1>2, <1>3, <1>4
  <1>7. DurableIds(s) \subseteq DurableIds(t)
    BY <1>5, <1>6, KeepsDurable
  <1>8. Len(t.recs) = k
    BY <1>3, <1>4
  <1>9. Settled(s, "down") => Settled(t, "down")
    BY <1>2, <1>4, <1>8 DEF Settled
  <1>10. QED
    BY <1>4, <1>7, <1>8, <1>9 DEF Vouched

\* Recovery keeps every record of a settled segment, and leaves it vouched for
\* if it was wholly on the disk.
LEMMA RecoverKeeps ==
    ASSUME NEW s, WellFormed(s), NEW st, Settled(s, st)
    PROVE  /\ Ids(Recover(s)) = Ids(s) /\ Settled(Recover(s), "open")
           /\ s.synced = Len(s.recs) => /\ Vouched(Recover(s), "open")
                                        /\ DurableIds(Recover(s)) = DurableIds(s)
  <1> DEFINE t == Recover(s)
  <1>1. s \in Segment /\ s.recs \in Seq(Nat) /\ s.whole = Len(s.recs) /\ Len(s.recs) \in Nat
        /\ s.synced \in Nat
    BY DEF WellFormed, Segment, Settled
  <1>2. SubSeq(s.recs, 1, s.whole) = s.recs
    BY <1>1
  <1>3. /\ t.recs = SubSeq(s.recs, 1, s.whole) /\ t.whole = s.whole /\ t.frags = 0
        /\ t.synced = IF s.frags > 0 THEN s.whole ELSE s.synced
    BY <1>1 DEF Recover, Segment
  <1> HIDE DEF t
  <1>4. t.recs = s.recs /\ t.whole = Len(t.recs)
    BY <1>1, <1>2, <1>3
  <1>5. Ids(t) = Ids(s) /\ Settled(t, "open")
    BY <1>3, <1>4 DEF Ids, Settled
  <1>6. s.synced = Len(s.recs) => t.synced = s.synced
    BY <1>1, <1>3
  <1>7. s.synced = Len(s.recs) => Vouched(t, "open") /\ DurableIds(t) = DurableIds(s)
    BY <1>4, <1>6 DEF Vouched, DurableIds
  <1>8. QED
    BY <1>5, <1>7 DEF t

-----------------------------------------------------------------------------
(* Lists of segments lose nothing *)

\* Replacing the last segment.
LEMMA LastKeeps ==
    ASSUME NEW ss, NEW w, LogOK(ss, w), NEW t,
           Ids(ss[Len(ss)]) \subseteq Ids(t),
           DurableIds(ss[Len(ss)]) \subseteq DurableIds(t)
    PROVE  /\ Len(ss) \in DOMAIN ss
           /\ [ss EXCEPT ![Len(ss)] = t][Len(ss)] = t
           /\ \A i \in DOMAIN ss : i # Len(ss) => [ss EXCEPT ![Len(ss)] = t][i] = ss[i]
           /\ DOMAIN [ss EXCEPT ![Len(ss)] = t] = DOMAIN ss
           /\ AllIds(ss) \subseteq AllIds([ss EXCEPT ![Len(ss)] = t])
           /\ AllDurable(ss) \subseteq AllDurable([ss EXCEPT ![Len(ss)] = t])
           /\ Ids(t) \subseteq AllIds([ss EXCEPT ![Len(ss)] = t])
           /\ DurableIds(t) \subseteq AllDurable([ss EXCEPT ![Len(ss)] = t])
  <1> DEFINE tt == [ss EXCEPT ![Len(ss)] = t]
  <1>1. Len(ss) \in DOMAIN ss /\ DOMAIN tt = DOMAIN ss /\ tt[Len(ss)] = t
        /\ \A i \in DOMAIN ss : i # Len(ss) => tt[i] = ss[i]
    BY DEF LogOK
  <1> HIDE DEF tt
  <1>2. \A i \in DOMAIN ss : Ids(ss[i]) \subseteq Ids(tt[i])
    BY <1>1
  <1>3. \A i \in DOMAIN ss : DurableIds(ss[i]) \subseteq DurableIds(tt[i])
    BY <1>1
  <1>4. AllIds(ss) \subseteq AllIds(tt) /\ AllDurable(ss) \subseteq AllDurable(tt)
    BY <1>1, <1>2, <1>3, ListKeepsIds, ListKeepsDurable
  <1>5. Ids(t) \subseteq AllIds(tt) /\ DurableIds(t) \subseteq AllDurable(tt)
    BY <1>1 DEF AllIds, AllDurable
  <1>6. QED
    BY <1>1, <1>4, <1>5 DEF tt

\* Syncing the last segment puts all of it on the disk.
LEMMA SyncLast ==
    ASSUME NEW ss, NEW w, LogOK(ss, w), NEW tt,
           tt = [ss EXCEPT ![Len(ss)] = SyncSegment(ss[Len(ss)])]
    PROVE  /\ AllIds(ss) \subseteq AllIds(tt) /\ AllDurable(ss) \subseteq AllDurable(tt)
           /\ AllSettled(ss, "open") => AllSettled(tt, "open")
           /\ AllVouched(ss, "open") => /\ AllVouched(tt, "open")
                                        /\ Ids(ss[Len(ss)]) \subseteq AllDurable(tt)
  <1> DEFINE s == ss[Len(ss)]
  <1>1. Len(ss) \in DOMAIN ss /\ WellFormed(s)
    BY DEF LogOK
  <1>2. /\ Ids(SyncSegment(s)) = Ids(s)
        /\ DurableIds(s) \subseteq DurableIds(SyncSegment(s))
        /\ Settled(s, "open") => Settled(SyncSegment(s), "open")
        /\ Vouched(s, "open") => /\ Vouched(SyncSegment(s), "open")
                                 /\ DurableIds(SyncSegment(s)) = Ids(s)
    BY <1>1, SyncKeeps
  <1>3. /\ DOMAIN tt = DOMAIN ss /\ tt[Len(ss)] = SyncSegment(s)
        /\ \A i \in DOMAIN ss : i # Len(ss) => tt[i] = ss[i]
        /\ AllIds(ss) \subseteq AllIds(tt) /\ AllDurable(ss) \subseteq AllDurable(tt)
        /\ DurableIds(SyncSegment(s)) \subseteq AllDurable(tt)
    BY <1>2, LastKeeps
  <1>4. AllSettled(ss, "open") => AllSettled(tt, "open")
    BY <1>1, <1>2, <1>3 DEF AllSettled
  <1>5. AllVouched(ss, "open") => AllVouched(tt, "open") /\ Ids(s) \subseteq AllDurable(tt)
    BY <1>1, <1>2, <1>3 DEF AllVouched
  <1>6. QED
    BY <1>3, <1>4, <1>5

\* Appending to the last segment.
LEMMA AppendLastKeeps ==
    ASSUME NEW ss, NEW w, LogOK(ss, w), NEW r \in Nat
    PROVE  /\ AllIds(ss) \cup {r} \subseteq AllIds(AppendLast(ss, r))
           /\ AllDurable(ss) \subseteq AllDurable(AppendLast(ss, r))
           /\ AllSettled(ss, "open") => AllSettled(AppendLast(ss, r), "open")
           /\ AllVouched(ss, "open") => AllVouched(AppendLast(ss, r), "open")
  <1> DEFINE s == ss[Len(ss)]
             tt == AppendLast(ss, r)
  <1>1. Len(ss) \in DOMAIN ss /\ WellFormed(s)
    BY DEF LogOK
  <1>2. /\ Ids(s) \cup {r} \subseteq Ids(AppendTo(s, r))
        /\ DurableIds(s) \subseteq DurableIds(AppendTo(s, r))
        /\ Settled(s, "open") => Settled(AppendTo(s, r), "open")
        /\ Vouched(AppendTo(s, r), "open")
    BY <1>1, AppendToKeeps
  <1>3. tt = [ss EXCEPT ![Len(ss)] = AppendTo(s, r)]
    BY DEF AppendLast
  <1>4. /\ DOMAIN tt = DOMAIN ss /\ tt[Len(ss)] = AppendTo(s, r)
        /\ \A i \in DOMAIN ss : i # Len(ss) => tt[i] = ss[i]
        /\ AllIds(ss) \subseteq AllIds(tt) /\ AllDurable(ss) \subseteq AllDurable(tt)
        /\ Ids(AppendTo(s, r)) \subseteq AllIds(tt)
    BY <1>2, <1>3, LastKeeps
  <1> HIDE DEF tt
  <1>5. AllSettled(ss, "open") => AllSettled(tt, "open")
    BY <1>1, <1>2, <1>4 DEF AllSettled
  <1>6. AllVouched(ss, "open") => AllVouched(tt, "open")
    BY <1>1, <1>2, <1>4 DEF AllVouched
  <1>7. QED
    BY <1>2, <1>4, <1>5, <1>6 DEF tt

\* A fragment at the end of the last segment.
LEMMA TearLastKeeps ==
    ASSUME NEW ss, NEW w, LogOK(ss, w)
    PROVE  /\ AllIds(ss) \subseteq AllIds(TearLast(ss))
           /\ AllDurable(ss) \subseteq AllDurable(TearLast(ss))
           /\ AllSettled(ss, "open") => AllSettled(TearLast(ss), "down")
  <1> DEFINE s == ss[Len(ss)]
             tt == TearLast(ss)
  <1>1. Len(ss) \in DOMAIN ss /\ WellFormed(s)
    BY DEF LogOK
  <1>2. /\ Ids(TearTo(s)) = Ids(s) /\ DurableIds(TearTo(s)) = DurableIds(s)
        /\ Settled(s, "open") => Settled(TearTo(s), "down")
    BY <1>1, TearToKeeps
  <1>3. tt = [ss EXCEPT ![Len(ss)] = TearTo(s)]
    BY DEF TearLast
  <1>4. /\ DOMAIN tt = DOMAIN ss /\ tt[Len(ss)] = TearTo(s)
        /\ \A i \in DOMAIN ss : i # Len(ss) => tt[i] = ss[i]
        /\ AllIds(ss) \subseteq AllIds(tt) /\ AllDurable(ss) \subseteq AllDurable(tt)
    BY <1>2, <1>3, LastKeeps
  <1> HIDE DEF tt
  <1>5. AllSettled(ss, "open") => AllSettled(tt, "down")
    BY <1>1, <1>2, <1>4 DEF AllSettled, Settled
  <1>6. QED
    BY <1>4, <1>5 DEF tt

\* A new segment behind the last one.
LEMMA ExtendKeeps ==
    ASSUME NEW ss, NEW w, LogOK(ss, w), NEW b
    PROVE  /\ AllIds(ss) \subseteq AllIds(Append(ss, NewSegment(b)))
           /\ AllDurable(ss) \subseteq AllDurable(Append(ss, NewSegment(b)))
           /\ AllSettled(ss, "open") => AllSettled(Append(ss, NewSegment(b)), "open")
           /\ AllVouched(ss, "open") => AllVouched(Append(ss, NewSegment(b)), "open")
  <1> DEFINE n == NewSegment(b)
             tt == Append(ss, n)
  <1>1. ss \in Seq(Segment) /\ Len(ss) \in Nat /\ DOMAIN ss = 1..Len(ss)
    BY DEF LogOK
  <1>2. Settled(n, "open") /\ Vouched(n, "open")
    BY NewSegmentKept
  <1> HIDE DEF n
  <1>3. /\ DOMAIN tt = 1..(Len(ss) + 1) /\ tt[Len(ss) + 1] = n
        /\ \A i \in DOMAIN ss : tt[i] = ss[i]
    BY <1>1
  <1> HIDE DEF tt
  <1>4. DOMAIN ss \subseteq DOMAIN tt /\ \A i \in DOMAIN tt : i \in DOMAIN ss \/ i = Len(ss) + 1
    BY <1>1, <1>3
  <1>5. AllIds(ss) \subseteq AllIds(tt) /\ AllDurable(ss) \subseteq AllDurable(tt)
    BY <1>3, <1>4, ListKeepsIds, ListKeepsDurable
  <1>6. AllSettled(ss, "open") => AllSettled(tt, "open")
    BY <1>2, <1>3, <1>4 DEF AllSettled
  <1>7. AllVouched(ss, "open") => AllVouched(tt, "open")
    BY <1>2, <1>3, <1>4 DEF AllVouched
  <1>8. QED
    BY <1>5, <1>6, <1>7 DEF tt, n

\* Records that leave a list from the front are its first segments' records.
LEMMA FrontKeeps ==
    ASSUME NEW ss, NEW w, LogOK(ss, w), NEW n \in 0..(Len(ss) - 1)
    PROVE  /\ AllIds(ss) \subseteq AllIds(SubSeq(ss, n + 1, Len(ss))) \cup UNION {Ids(ss[i]) : i \in 1..n}
           /\ AllDurable(ss) \subseteq
                AllDurable(SubSeq(ss, n + 1, Len(ss))) \cup UNION {Ids(ss[i]) : i \in 1..n}
           /\ \A i \in DOMAIN SubSeq(ss, n + 1, Len(ss)) :
                  /\ i + n \in DOMAIN ss
                  /\ SubSeq(ss, n + 1, Len(ss))[i] = ss[i + n]
  <1> DEFINE tt == SubSeq(ss, n + 1, Len(ss))
  <1>1. ss \in Seq(Segment) /\ Len(ss) \in Nat /\ n \in Nat /\ n < Len(ss) /\ DOMAIN ss = 1..Len(ss)
    BY DEF LogOK
  <1>2. DOMAIN tt = 1..(Len(ss) - n) /\ \A i \in 1..(Len(ss) - n) : tt[i] = ss[i + n]
    BY <1>1
  <1> HIDE DEF tt
  <1>3. \A i \in DOMAIN tt : i + n \in DOMAIN ss /\ tt[i] = ss[i + n]
    BY <1>1, <1>2
  <1>4. \A i \in DOMAIN ss : i \in 1..n \/ (i - n \in DOMAIN tt /\ tt[i - n] = ss[i])
    BY <1>1, <1>2
  <1>5. AllIds(ss) \subseteq AllIds(tt) \cup UNION {Ids(ss[i]) : i \in 1..n}
    BY <1>4 DEF AllIds
  <1>6. \A i \in DOMAIN ss : DurableIds(ss[i]) \subseteq Ids(ss[i])
    BY DurableAreIds
  <1>7. AllDurable(ss) \subseteq AllDurable(tt) \cup UNION {Ids(ss[i]) : i \in 1..n}
    BY <1>4, <1>6 DEF AllDurable
  <1>8. QED
    BY <1>3, <1>5, <1>7 DEF tt

\* The trailing duplicates that Open drops hold no records.
LEMMA DropKeeps ==
    ASSUME NEW ss, NEW w, LogOK(ss, w), NEW n \in DOMAIN ss, dropTrailingEmptyDuplicates(ss, n)
    PROVE  /\ AllIds(ss) \subseteq AllIds(SubSeq(ss, 1, n))
           /\ AllDurable(ss) \subseteq AllDurable(SubSeq(ss, 1, n))
           /\ \A i \in DOMAIN SubSeq(ss, 1, n) : i \in DOMAIN ss /\ SubSeq(ss, 1, n)[i] = ss[i]
  <1> DEFINE tt == SubSeq(ss, 1, n)
  <1>1. ss \in Seq(Segment) /\ Len(ss) \in Nat /\ n \in 1..Len(ss) /\ DOMAIN ss = 1..Len(ss)
    BY DEF LogOK
  <1>2. DOMAIN tt = 1..n /\ \A i \in 1..n : tt[i] = ss[i]
    BY <1>1
  <1> HIDE DEF tt
  <1>3. \A i \in DOMAIN tt : i \in DOMAIN ss /\ tt[i] = ss[i]
    BY <1>1, <1>2
  <1>4. \A i \in DOMAIN ss : i \in DOMAIN tt \/ (Ids(ss[i]) = {} /\ DurableIds(ss[i]) = {})
    <2>1. SUFFICES ASSUME NEW i \in DOMAIN ss, i \notin DOMAIN tt
                   PROVE  Ids(ss[i]) = {} /\ DurableIds(ss[i]) = {}
      OBVIOUS
    <2>2. i \in (n + 1)..Len(ss)
      BY <1>1, <1>2, <2>1
    <2>3. Len(ss[i].recs) = 0
      BY <2>2 DEF dropTrailingEmptyDuplicates, TrailingDuplicate
    <2>4. QED
      BY <2>3 DEF Ids, DurableIds
  <1>5. AllIds(ss) \subseteq AllIds(tt) /\ AllDurable(ss) \subseteq AllDurable(tt)
    BY <1>3, <1>4 DEF AllIds, AllDurable
  <1>6. QED
    BY <1>3, <1>5 DEF tt

\* The rotation inside Append loses nothing and puts what it seals on the disk.
LEMMA RotatedKeeps ==
    ASSUME IInv
    PROVE  /\ AllIds(segs) \subseteq AllIds(Rotated) /\ AllDurable(segs) \subseteq AllDurable(Rotated)
           /\ AllSettled(segs, "open") => AllSettled(Rotated, "open")
           /\ AllVouched(segs, "open") => /\ AllVouched(Rotated, "open")
                                          /\ RotateFlushes \subseteq AllDurable(Rotated)
  <1> DEFINE s == segs[Len(segs)]
             tt == [segs EXCEPT ![Len(segs)] = SyncSegment(s)]
  <1>1. LogOK(segs, written) /\ Len(segs) \in DOMAIN segs /\ WellFormed(s)
    BY DEF IInv, LogOK
  <1>2. LogOK(tt, written)
    BY <1>1, SameRecords, ShrinkOne
  <1>3. rotate = Append(tt, NewSegment(NextOffset))
    BY DEF rotate
  <1>4. CASE ~ MustRotate
    BY <1>4 DEF Rotated, RotateFlushes
  <1>5. CASE MustRotate
    <2>1. Rotated = Append(tt, NewSegment(NextOffset)) /\ RotateFlushes = Ids(s)
      BY <1>3, <1>5 DEF Rotated, RotateFlushes, active
    <2>2. /\ AllIds(segs) \subseteq AllIds(tt) /\ AllDurable(segs) \subseteq AllDurable(tt)
          /\ AllSettled(segs, "open") => AllSettled(tt, "open")
          /\ AllVouched(segs, "open") => AllVouched(tt, "open") /\ Ids(s) \subseteq AllDurable(tt)
      BY <1>1, SyncLast
    <2> HIDE DEF tt
    <2>3. /\ AllIds(tt) \subseteq AllIds(Rotated) /\ AllDurable(tt) \subseteq AllDurable(Rotated)
          /\ AllSettled(tt, "open") => AllSettled(Rotated, "open")
          /\ AllVouched(tt, "open") => AllVouched(Rotated, "open")
      BY <1>2, <2>1, ExtendKeeps
    <2>4. QED
      BY <2>1, <2>2, <2>3
  <1>6. QED
    BY <1>4, <1>5

\* Wherever in Append the process dies, the files hold all that was there.
LEMMA DyingKeeps ==
    ASSUME IInv, NEW d \in DyingStates
    PROVE  /\ AllIds(segs) \subseteq AllIds(d.files) /\ AllDurable(segs) \subseteq AllDurable(d.files)
           /\ AllSettled(segs, status) => AllSettled(d.files, "down")
  <1>1. \/ d.files = segs
        \/ /\ status = "open"
           /\ d.files \in {Rotated, TearLast(Rotated), AppendLast(Rotated, fresh)}
    BY DEF DyingStates, CanAppend
  <1>2. \A ss, st : AllSettled(ss, st) /\ (st = "open" \/ ss = segs) => AllSettled(ss, "down")
    BY DEF AllSettled, Settled
  <1>3. CASE d.files = segs
    BY <1>2, <1>3
  <1>4. CASE /\ status = "open"
             /\ d.files \in {Rotated, TearLast(Rotated), AppendLast(Rotated, fresh)}
    <2>1. LogOK(Rotated, written) /\ fresh \in Nat
      BY RotatedOK, FreshNat
    <2>2. /\ AllIds(segs) \subseteq AllIds(Rotated) /\ AllDurable(segs) \subseteq AllDurable(Rotated)
          /\ AllSettled(segs, "open") => AllSettled(Rotated, "open")
      BY RotatedKeeps
    <2>3. /\ AllIds(Rotated) \subseteq AllIds(TearLast(Rotated))
          /\ AllDurable(Rotated) \subseteq AllDurable(TearLast(Rotated))
          /\ AllSettled(Rotated, "open") => AllSettled(TearLast(Rotated), "down")
      BY <2>1, TearLastKeeps
    <2>4. /\ AllIds(Rotated) \subseteq AllIds(AppendLast(Rotated, fresh))
          /\ AllDurable(Rotated) \subseteq AllDurable(AppendLast(Rotated, fresh))
          /\ AllSettled(Rotated, "open") => AllSettled(AppendLast(Rotated, fresh), "open")
      BY <2>1, AppendLastKeeps
    <2>5. QED
      BY <1>2, <1>4, <2>2, <2>3, <2>4
  <1>5. QED
    BY <1>1, <1>3, <1>4

\* Durable in terms of lists.
LEMMA DurableLists ==
    Durable <=> /\ faults.cuts = 0 /\ faults.shorts = 0 => acked \subseteq AllIds(segs) \cup reclaimed
                /\ faults.kills = 0 /\ faults.shorts = 0 =>
                       flushed \subseteq AllDurable(segs) \cup reclaimed
  BY DEF Durable, AckedSurviveKills, FlushedSurvivePowerCuts, LiveIds, OnDisk, AllIds, AllDurable

\* A fault only raises its own counter.
LEMMA FaultCounts ==
    ASSUME IInv, NEW f \in DOMAIN FaultBound, Fault(f)
    PROVE  /\ faults'[f] # 0
           /\ \A g \in DOMAIN FaultBound : faults'[g] = 0 => faults[g] = 0
           /\ \A g \in DOMAIN FaultBound : g # f => faults'[g] = faults[g]
  BY DEF IInv, Fault

\* An empty log is durable.
LEMMA InitDInv == WalInit => DInv
  <1> SUFFICES ASSUME WalInit PROVE DInv
    OBVIOUS
  <1>1. IInv
    BY InitIInv
  <1>2. segs = <<NewSegment(0)>> /\ status = "open"
    BY DEF WalInit
  <1>3. AllSettled(segs, status) /\ AllVouched(segs, status)
    BY <1>2, NewSegmentKept DEF AllSettled, AllVouched
  <1>4. Durable
    BY DEF WalInit, Durable, AckedSurviveKills, FlushedSurvivePowerCuts
  <1>5. QED
    BY <1>1, <1>3, <1>4 DEF DInv

\* Every action keeps the log durable.
LEMMA NextDInv == DInv /\ [WalNext]_walVars => DInv'
  <1> SUFFICES ASSUME DInv, [WalNext]_walVars PROVE DInv'
    OBVIOUS
  <1> USE DEF WalNext
  <1>i. IInv /\ IInv'
    BY NextIInv DEF DInv
  <1>s. faults.shorts = 0 => AllSettled(segs, status)
    BY DEF DInv
  <1>v. faults.kills = 0 /\ faults.shorts = 0 => AllVouched(segs, status)
    BY DEF DInv
  <1>d. /\ faults.cuts = 0 /\ faults.shorts = 0 => acked \subseteq AllIds(segs) \cup reclaimed
        /\ faults.kills = 0 /\ faults.shorts = 0 => flushed \subseteq AllDurable(segs) \cup reclaimed
    BY DurableLists DEF DInv
  <1> SUFFICES
        /\ faults'.shorts = 0 => AllSettled(segs', status')
        /\ faults'.kills = 0 /\ faults'.shorts = 0 => AllVouched(segs', status')
        /\ faults'.cuts = 0 /\ faults'.shorts = 0 => acked' \subseteq AllIds(segs') \cup reclaimed'
        /\ faults'.kills = 0 /\ faults'.shorts = 0 =>
               flushed' \subseteq AllDurable(segs') \cup reclaimed'
    BY <1>i DEF DInv, Durable, AckedSurviveKills, FlushedSurvivePowerCuts, LiveIds, OnDisk,
                AllIds, AllDurable, AllSettled, AllVouched
  <1>l. LogOK(segs, written) /\ LogOK(Rotated, written) /\ fresh \in Nat
    BY <1>i, RotatedOK, FreshNat DEF IInv
  <1>r. /\ AllIds(segs) \subseteq AllIds(Rotated) /\ AllDurable(segs) \subseteq AllDurable(Rotated)
        /\ AllSettled(segs, "open") => AllSettled(Rotated, "open")
        /\ AllVouched(segs, "open") => /\ AllVouched(Rotated, "open")
                                       /\ RotateFlushes \subseteq AllDurable(Rotated)
    BY <1>i, RotatedKeeps
  <1>1. CASE AppendOk
    <2>1. /\ segs' = AppendLast(Rotated, fresh) /\ status = "open" /\ status' = "open"
          /\ acked' = acked \cup {fresh} /\ flushed' = flushed \cup RotateFlushes
          /\ reclaimed' = reclaimed /\ faults' = faults
      BY <1>1 DEF AppendOk, CanAppend
    <2>2. /\ AllIds(Rotated) \cup {fresh} \subseteq AllIds(segs')
          /\ AllDurable(Rotated) \subseteq AllDurable(segs')
          /\ AllSettled(Rotated, "open") => AllSettled(segs', "open")
          /\ AllVouched(Rotated, "open") => AllVouched(segs', "open")
      BY <1>l, <2>1, AppendLastKeeps
    <2>3. QED
      BY <1>s, <1>v, <1>d, <1>r, <2>1, <2>2
  <1>2. CASE AppendShort
    <2>1. faults'.shorts # 0
      BY <1>i, <1>2, FaultCounts DEF AppendShort, FaultBound
    <2>2. QED
      BY <2>1
  <1>3. CASE Sync
    <2>1. /\ segs' = [segs EXCEPT ![Len(segs)] = SyncSegment(segs[Len(segs)])]
          /\ status = "open" /\ status' = "open" /\ acked' = acked
          /\ flushed' = flushed \cup Ids(segs[Len(segs)])
          /\ reclaimed' = reclaimed /\ faults' = faults
      BY <1>3 DEF Sync, active
    <2>2. /\ AllIds(segs) \subseteq AllIds(segs') /\ AllDurable(segs) \subseteq AllDurable(segs')
          /\ AllSettled(segs, "open") => AllSettled(segs', "open")
          /\ AllVouched(segs, "open") => /\ AllVouched(segs', "open")
                                         /\ Ids(segs[Len(segs)]) \subseteq AllDurable(segs')
      <3> DEFINE tt == [segs EXCEPT ![Len(segs)] = SyncSegment(segs[Len(segs)])]
      <3>1. segs' = tt
        BY <2>1
      <3>2. /\ AllIds(segs) \subseteq AllIds(tt) /\ AllDurable(segs) \subseteq AllDurable(tt)
            /\ AllSettled(segs, "open") => AllSettled(tt, "open")
            /\ AllVouched(segs, "open") => /\ AllVouched(tt, "open")
                                           /\ Ids(segs[Len(segs)]) \subseteq AllDurable(tt)
        BY <1>l, SyncLast
      <3>3. QED
        BY <3>1, <3>2
    <2>3. QED
      BY <1>s, <1>v, <1>d, <2>1, <2>2
  <1>4. ASSUME NEW upTo \in 0..NextOffset, Reclaim(upTo)
        PROVE  /\ faults'.shorts = 0 => AllSettled(segs', status')
               /\ faults'.kills = 0 /\ faults'.shorts = 0 => AllVouched(segs', status')
               /\ faults'.cuts = 0 /\ faults'.shorts = 0 =>
                      acked' \subseteq AllIds(segs') \cup reclaimed'
               /\ faults'.kills = 0 /\ faults'.shorts = 0 =>
                      flushed' \subseteq AllDurable(segs') \cup reclaimed'
    <2>1. PICK n \in 1..(Len(segs) - 1) :
              /\ segs' = SubSeq(segs, n + 1, Len(segs))
              /\ reclaimed' = reclaimed \cup UNION {Ids(segs[i]) : i \in 1..n}
              /\ status' = status /\ acked' = acked /\ flushed' = flushed /\ faults' = faults
      BY <1>4 DEF Reclaim
    <2>2. n \in 0..(Len(segs) - 1)
      OBVIOUS
    <2>3. /\ AllIds(segs) \subseteq AllIds(segs') \cup UNION {Ids(segs[i]) : i \in 1..n}
          /\ AllDurable(segs) \subseteq AllDurable(segs') \cup UNION {Ids(segs[i]) : i \in 1..n}
          /\ \A i \in DOMAIN segs' : i + n \in DOMAIN segs /\ segs'[i] = segs[i + n]
      BY <1>l, <2>1, <2>2, FrontKeeps
    <2>4. /\ AllSettled(segs, status) => AllSettled(segs', status)
          /\ AllVouched(segs, status) => AllVouched(segs', status)
      BY <2>3 DEF AllSettled, AllVouched
    <2>5. QED
      BY <1>s, <1>v, <1>d, <2>1, <2>3, <2>4
  <1>5. ASSUME NEW upTo \in 0..NextOffset, ReclaimFails(upTo)
        PROVE  /\ faults'.shorts = 0 => AllSettled(segs', status')
               /\ faults'.kills = 0 /\ faults'.shorts = 0 => AllVouched(segs', status')
               /\ faults'.cuts = 0 /\ faults'.shorts = 0 =>
                      acked' \subseteq AllIds(segs') \cup reclaimed'
               /\ faults'.kills = 0 /\ faults'.shorts = 0 =>
                      flushed' \subseteq AllDurable(segs') \cup reclaimed'
    <2>1. PICK k \in 1..(Len(segs) - 1) :
              /\ Fault("removes") /\ status = "open"
              /\ segs' = SubSeq([segs EXCEPT ![k] = CloseSegment(segs[k])], k, Len(segs))
              /\ reclaimed' = reclaimed \cup UNION {Ids(segs[i]) : i \in 1..(k - 1)}
              /\ status' = status /\ acked' = acked /\ flushed' = flushed
      BY <1>5 DEF ReclaimFails
    <2> DEFINE tt == [segs EXCEPT ![k] = CloseSegment(segs[k])]
               n == k - 1
    <2>2. /\ k \in DOMAIN segs /\ DOMAIN tt = DOMAIN segs /\ Len(tt) = Len(segs)
          /\ n \in 0..(Len(tt) - 1) /\ n + 1 = k
          /\ tt[k] = CloseSegment(segs[k]) /\ \A i \in DOMAIN segs : i # k => tt[i] = segs[i]
          /\ \A i \in 1..n : tt[i] = segs[i]
      BY <1>i, SegsInSegment
    <2>3. LogOK(tt, written)
      BY <1>i, <1>l, <2>2, SegsInSegment, SameRecords, ShrinkOne
    <2>4. /\ Ids(tt[k]) = Ids(segs[k]) /\ DurableIds(segs[k]) \subseteq DurableIds(tt[k])
          /\ Settled(segs[k], "open") => Settled(tt[k], "open")
          /\ Vouched(segs[k], "open") => Vouched(tt[k], "open")
      BY <1>i, <2>2, SegsInSegment, SyncKeeps
    <2>5. segs' = SubSeq(tt, n + 1, Len(tt))
      BY <2>1, <2>2
    <2>6. UNION {Ids(tt[i]) : i \in 1..n} = UNION {Ids(segs[i]) : i \in 1..n}
      BY <2>2
    <2> HIDE DEF tt, n
    <2>7. AllIds(segs) \subseteq AllIds(tt) /\ AllDurable(segs) \subseteq AllDurable(tt)
      <3>1. \A i \in DOMAIN segs : Ids(segs[i]) \subseteq Ids(tt[i])
        BY <2>2, <2>4
      <3>2. \A i \in DOMAIN segs : DurableIds(segs[i]) \subseteq DurableIds(tt[i])
        BY <2>2, <2>4
      <3>3. QED
        BY <2>2, <3>1, <3>2, ListKeepsIds, ListKeepsDurable
    <2>8. /\ AllSettled(segs, "open") => AllSettled(tt, "open")
          /\ AllVouched(segs, "open") => AllVouched(tt, "open")
      BY <2>2, <2>4 DEF AllSettled, AllVouched
    <2>9. /\ AllIds(tt) \subseteq AllIds(segs') \cup UNION {Ids(segs[i]) : i \in 1..n}
          /\ AllDurable(tt) \subseteq AllDurable(segs') \cup UNION {Ids(segs[i]) : i \in 1..n}
          /\ \A i \in DOMAIN segs' : i + n \in DOMAIN tt /\ segs'[i] = tt[i + n]
      BY <2>2, <2>3, <2>5, <2>6, FrontKeeps
    <2>10. /\ AllSettled(tt, "open") => AllSettled(segs', "open")
           /\ AllVouched(tt, "open") => AllVouched(segs', "open")
      BY <2>9 DEF AllSettled, AllVouched
    <2>11. reclaimed' = reclaimed \cup UNION {Ids(segs[i]) : i \in 1..n}
      BY <2>1 DEF n
    <2>12. /\ faults'.shorts = faults.shorts /\ faults'.kills = faults.kills
           /\ faults'.cuts = faults.cuts
      BY <1>i, <2>1, FaultCounts DEF FaultBound
    <2>13. QED
      BY <1>s, <1>v, <1>d, <2>1, <2>7, <2>8, <2>9, <2>10, <2>11, <2>12
  <1>6. CASE Close
    <2>1. /\ status = "open" /\ status' = "closed" /\ acked' = acked /\ reclaimed' = reclaimed
          /\ segs' = [i \in DOMAIN segs |-> CloseSegment(segs[i])]
          /\ flushed' = flushed \cup AllIds(segs) /\ faults' = faults
      BY <1>6 DEF Close, LiveIds, AllIds
    <2>2. \A i \in DOMAIN segs :
              /\ Ids(segs'[i]) = Ids(segs[i]) /\ DurableIds(segs[i]) \subseteq DurableIds(segs'[i])
              /\ Settled(segs[i], "open") => Settled(segs'[i], "open")
              /\ Vouched(segs[i], "open") => /\ Vouched(segs'[i], "closed")
                                             /\ DurableIds(segs'[i]) = Ids(segs[i])
      BY <1>i, <2>1, SegsInSegment, SyncKeeps
    <2>3. DOMAIN segs' = DOMAIN segs
      BY <2>1
    <2>4. AllIds(segs) \subseteq AllIds(segs') /\ AllDurable(segs) \subseteq AllDurable(segs')
      BY <2>2, <2>3 DEF AllIds, AllDurable
    <2>5. AllSettled(segs, "open") => AllSettled(segs', "closed")
      BY <2>2, <2>3 DEF AllSettled, Settled
    <2>6. AllVouched(segs, "open") => AllVouched(segs', "closed") /\ AllIds(segs) \subseteq AllDurable(segs')
      BY <2>2, <2>3 DEF AllVouched, AllIds, AllDurable
    <2>7. QED
      BY <1>s, <1>v, <1>d, <2>1, <2>4, <2>5, <2>6
  <1>7. CASE Kill
    <2>1. PICK d \in DyingStates : segs' = d.files
      BY <1>7 DEF Kill
    <2>2. /\ status' = "down" /\ acked' = acked /\ reclaimed' = reclaimed /\ Fault("kills")
      BY <1>7 DEF Kill
    <2>3. faults'.kills # 0 /\ faults'.shorts = faults.shorts /\ faults'.cuts = faults.cuts
      BY <1>i, <2>2, FaultCounts DEF FaultBound
    <2>4. /\ AllIds(segs) \subseteq AllIds(segs')
          /\ AllSettled(segs, status) => AllSettled(segs', "down")
      BY <1>i, <2>1, DyingKeeps
    <2>5. QED
      BY <1>s, <1>d, <2>2, <2>3, <2>4
  <1>8. CASE PowerCut
    <2>1. PICK d \in DyingStates :
              segs' \in {cut \in [DOMAIN d.files -> AnyCut(d.files)] :
                                \A i \in DOMAIN d.files : cut[i] \in CutsOf(d.files[i])}
      BY <1>8 DEF PowerCut
    <2>2. /\ status' = "down" /\ flushed' = flushed /\ reclaimed' = reclaimed /\ Fault("cuts")
      BY <1>8 DEF PowerCut
    <2>3. faults'.cuts # 0 /\ faults'.shorts = faults.shorts /\ faults'.kills = faults.kills
      BY <1>i, <2>2, FaultCounts DEF FaultBound
    <2>4. /\ AllDurable(segs) \subseteq AllDurable(d.files)
          /\ AllSettled(segs, status) => AllSettled(d.files, "down")
      BY <1>i, DyingKeeps
    <2>5. DOMAIN segs' = DOMAIN d.files /\ \A i \in DOMAIN d.files : WellFormed(d.files[i])
      BY <1>i, <2>1, DyingOK DEF LogOK
    <2>6. \A i \in DOMAIN d.files :
              /\ DurableIds(d.files[i]) \subseteq DurableIds(segs'[i])
              /\ Vouched(segs'[i], "down")
              /\ Settled(d.files[i], "down") => Settled(segs'[i], "down")
      BY <2>1, <2>5, CutKeeps
    <2>7. AllDurable(d.files) \subseteq AllDurable(segs')
      BY <2>5, <2>6, ListKeepsDurable
    <2>8. AllVouched(segs', "down") /\ (AllSettled(d.files, "down") => AllSettled(segs', "down"))
      BY <2>5, <2>6 DEF AllSettled, AllVouched
    <2>9. QED
      BY <1>s, <1>d, <2>2, <2>3, <2>4, <2>7, <2>8
  <1>9. CASE Open
    <2>1. PICK n \in DOMAIN segs :
              dropTrailingEmptyDuplicates(Recovered, n) /\ segs' = SubSeq(Recovered, 1, n)
      BY <1>9 DEF Open
    <2>2. /\ status # "open" /\ status' = "open" /\ acked' = acked /\ flushed' = flushed
          /\ reclaimed' = reclaimed /\ faults' = faults
      BY <1>9 DEF Open
    <2>3. DOMAIN Recovered = DOMAIN segs /\ \A i \in DOMAIN segs : Recovered[i] = Recover(segs[i])
      BY DEF Recovered
    <2>4. LogOK(Recovered, written)
      <3>1. \A i \in DOMAIN segs : Shrinks(Recovered[i], segs[i])
        BY <1>i, <2>3, SegsInSegment, RecoverShrinks
      <3>2. Recovered = [i \in DOMAIN Recovered |-> Recovered[i]]
        BY DEF Recovered
      <3>3. QED
        BY <1>l, <2>3, <3>1, <3>2, ShrinkLog
    <2>5. /\ AllIds(Recovered) \subseteq AllIds(segs')
          /\ AllDurable(Recovered) \subseteq AllDurable(segs')
          /\ \A i \in DOMAIN segs' : i \in DOMAIN Recovered /\ segs'[i] = Recovered[i]
      BY <2>1, <2>3, <2>4, DropKeeps
    <2>6. \A i \in DOMAIN segs : Settled(segs[i], status) =>
              /\ Ids(Recovered[i]) = Ids(segs[i]) /\ Settled(Recovered[i], "open")
              /\ Vouched(segs[i], status) => /\ Vouched(Recovered[i], "open")
                                             /\ DurableIds(Recovered[i]) = DurableIds(segs[i])
      BY <1>i, <2>2, <2>3, SegsInSegment, RecoverKeeps DEF Vouched
    <2>7. ASSUME AllSettled(segs, status)
          PROVE  AllIds(segs) \subseteq AllIds(segs') /\ AllSettled(segs', "open")
      <3>1. AllIds(segs) \subseteq AllIds(Recovered)
        BY <2>3, <2>6, <2>7, ListKeepsIds DEF AllSettled
      <3>2. QED
        BY <2>3, <2>5, <2>6, <2>7, <3>1 DEF AllSettled
    <2>8. ASSUME AllSettled(segs, status), AllVouched(segs, status)
          PROVE  AllDurable(segs) \subseteq AllDurable(segs') /\ AllVouched(segs', "open")
      <3>1. AllDurable(segs) \subseteq AllDurable(Recovered)
        BY <2>3, <2>6, <2>8, ListKeepsDurable DEF AllSettled, AllVouched
      <3>2. QED
        BY <2>3, <2>5, <2>6, <2>8, <3>1 DEF AllSettled, AllVouched
    <2>9. QED
      BY <1>s, <1>v, <1>d, <2>2, <2>7, <2>8
  <1>10. CASE UNCHANGED walVars
    BY <1>10, <1>s, <1>v, <1>d DEF walVars
  <1>11. QED
    BY <1>1, <1>2, <1>3, <1>4, <1>5, <1>6, <1>7, <1>8, <1>9, <1>10

\* What Log.Append and Log.Sync promise of crashes: without a short write and
\* while the power holds, no kill, however often and wherever in Append it
\* strikes, loses an acknowledged record that Reclaim did not delete; without
\* a short write and a kill, no power cut loses a record a sync vouched for.
THEOREM LogIsDurable == WalSpec => []Durable
  <1>1. DInv => Durable
    BY DEF DInv
  <1>2. QED
    BY <1>1, InitDInv, NextDInv, PTL DEF WalSpec

-----------------------------------------------------------------------------
(* The log as its readers see it *)

\* The entry at position j of a segment, and the entries of a list of segments.
EntryAt(s, j) == [id |-> s.recs[j], off |-> s.base + j - 1]
ReadableOf(ss) == UNION {{EntryAt(ss[i], j) : j \in 1..Len(ss[i].recs)} : i \in DOMAIN ss}

lastOf(ss) == ss[Len(ss)]

\* Record numbers are never used twice: the ids written are at most as many
\* as the records written.
IdsCounted == \A e \in written : e.id \in 1..Cardinality(written)

\* The inductive invariant behind the refinement.
RInv == IInv /\ IdsCounted

\* What it means to be readable.
LEMMA ReadableIn ==
    ASSUME NEW ss, NEW e
    PROVE  e \in ReadableOf(ss) <=>
               \E i \in DOMAIN ss : \E j \in 1..Len(ss[i].recs) : e = EntryAt(ss[i], j)
  BY DEF ReadableOf

\* A readable entry is a record at a natural offset below the next one.
LEMMA ReadableFits ==
    ASSUME NEW ss, NEW w, LogOK(ss, w)
    PROVE  /\ nextOffset(lastOf(ss)) \in Nat
           /\ \A e \in ReadableOf(ss) : e.off \in Nat /\ e.off < nextOffset(lastOf(ss))
  <1>1. /\ Len(ss) \in DOMAIN ss /\ DOMAIN ss = 1..Len(ss) /\ Len(ss) \in Nat
        /\ \A i \in DOMAIN ss : ss[i] \in Segment
    BY DEF LogOK, WellFormed
  <1>2. nextOffset(lastOf(ss)) \in Nat
    BY <1>1, SegmentOffsets DEF lastOf
  <1>3. ASSUME NEW e \in ReadableOf(ss)
        PROVE  e.off \in Nat /\ e.off < nextOffset(lastOf(ss))
    <2>p. PICK i \in DOMAIN ss : \E j \in 1..Len(ss[i].recs) : e = EntryAt(ss[i], j)
      BY <1>3, ReadableIn
    <2>1. PICK j \in 1..Len(ss[i].recs) : e = EntryAt(ss[i], j)
      BY <2>p
    <2>2. e.off = ss[i].base + j - 1
      BY <2>1 DEF EntryAt
    <2>3. e.off \in Nat /\ e.off < nextOffset(ss[i])
      BY <1>1, <2>2, SegmentOffsets
    <2>4. nextOffset(ss[i]) <= nextOffset(lastOf(ss))
      <3>1. CASE i = Len(ss)
        BY <1>2, <3>1 DEF lastOf
      <3>2. CASE i # Len(ss)
        <4>1. nextOffset(ss[i]) <= ss[Len(ss)].base
          BY <1>1, <3>2 DEF LogOK
        <4>2. QED
          BY <1>1, <4>1, SegmentOffsets DEF lastOf
      <3>3. QED
        BY <3>1, <3>2
    <2>5. nextOffset(ss[i]) \in Nat
      BY <1>1, SegmentOffsets
    <2>6. QED
      BY <1>2, <2>3, <2>4, <2>5
  <1>4. QED
    BY <1>2, <1>3

\* Lists whose segments hold the same records read the same.
LEMMA ReadableSame ==
    ASSUME NEW ss, NEW tt, DOMAIN tt = DOMAIN ss,
           \A i \in DOMAIN ss : tt[i].base = ss[i].base /\ tt[i].recs = ss[i].recs
    PROVE  ReadableOf(tt) = ReadableOf(ss)
  BY DEF ReadableOf, EntryAt

\* Lists whose segments have lost records read no more than before.
LEMMA ReadableShrinks ==
    ASSUME NEW ss, NEW tt, DOMAIN tt \subseteq DOMAIN ss,
           \A i \in DOMAIN tt : WellFormed(ss[i]) /\ Shrinks(tt[i], ss[i])
    PROVE  ReadableOf(tt) \subseteq ReadableOf(ss)
  <1>1. SUFFICES ASSUME NEW e \in ReadableOf(tt) PROVE e \in ReadableOf(ss)
    OBVIOUS
  <1>p. PICK i \in DOMAIN tt : \E j \in 1..Len(tt[i].recs) : e = EntryAt(tt[i], j)
    BY <1>1, ReadableIn
  <1>2. PICK j \in 1..Len(tt[i].recs) : e = EntryAt(tt[i], j)
    BY <1>p
  <1>3. j \in 1..Len(ss[i].recs) /\ tt[i].recs[j] = ss[i].recs[j] /\ tt[i].base = ss[i].base
    BY DEF Shrinks, WellFormed, Segment
  <1>4. e = EntryAt(ss[i], j)
    BY <1>2, <1>3 DEF EntryAt
  <1>5. QED
    BY <1>3, <1>4, ReadableIn

\* A new segment holds nothing.
LEMMA ReadableExtend ==
    ASSUME NEW ss, NEW w, LogOK(ss, w), NEW b
    PROVE  /\ ReadableOf(Append(ss, NewSegment(b))) = ReadableOf(ss)
           /\ b \in Nat => nextOffset(lastOf(Append(ss, NewSegment(b)))) = b
  <1> DEFINE n == NewSegment(b)
             tt == Append(ss, n)
  <1>1. ss \in Seq(Segment) /\ Len(ss) \in Nat /\ DOMAIN ss = 1..Len(ss)
    BY DEF LogOK
  <1>2. Len(n.recs) = 0 /\ n.base = b
    BY DEF NewSegment
  <1> HIDE DEF n
  <1>3. /\ DOMAIN tt = 1..(Len(ss) + 1) /\ tt[Len(ss) + 1] = n /\ Len(tt) = Len(ss) + 1
        /\ \A i \in DOMAIN ss : tt[i] = ss[i]
    BY <1>1
  <1> HIDE DEF tt
  <1>4. \A i \in DOMAIN tt : i \in DOMAIN ss \/ Len(tt[i].recs) = 0
    BY <1>1, <1>2, <1>3
  <1>5. DOMAIN ss \subseteq DOMAIN tt
    BY <1>1, <1>3
  <1>6. \A i \in DOMAIN tt : \A j \in 1..Len(tt[i].recs) : i \in DOMAIN ss
    BY <1>4
  <1>7. ReadableOf(tt) = ReadableOf(ss)
    <2>1. ASSUME NEW e \in ReadableOf(tt) PROVE e \in ReadableOf(ss)
      BY <1>3, <1>6, <2>1, ReadableIn
    <2>2. ASSUME NEW e \in ReadableOf(ss) PROVE e \in ReadableOf(tt)
      BY <1>3, <1>5, <2>2, ReadableIn
    <2>3. QED
      BY <2>1, <2>2
  <1>8. b \in Nat => nextOffset(lastOf(tt)) = b
    BY <1>2, <1>3 DEF nextOffset, lastOf
  <1>9. QED
    BY <1>7, <1>8 DEF tt, n

\* An append adds exactly the new entry, at the next offset.
LEMMA ReadableAppend ==
    ASSUME NEW ss, NEW w, LogOK(ss, w), NEW r \in Nat
    PROVE  /\ ReadableOf(AppendLast(ss, r)) = ReadableOf(ss) \cup {Entry(ss, r)}
           /\ nextOffset(lastOf(AppendLast(ss, r))) = nextOffset(lastOf(ss)) + 1
           /\ Entry(ss, r) = [id |-> r, off |-> nextOffset(lastOf(ss))]
  <1> DEFINE l == Len(ss)
             s == ss[l]
             t == AppendTo(s, r)
             tt == AppendLast(ss, r)
  <1>1. l \in DOMAIN ss /\ WellFormed(s) /\ s \in Segment /\ ss \in Seq(Segment)
    BY DEF LogOK, WellFormed
  <1>2. /\ t.base = s.base /\ Len(t.recs) = Len(s.recs) + 1
        /\ \A j \in 1..Len(s.recs) : t.recs[j] = s.recs[j]
        /\ t.recs[Len(s.recs) + 1] = r
    BY <1>1, AppendToRecords
  <1>3. DOMAIN tt = DOMAIN ss /\ tt[l] = t /\ Len(tt) = l /\ \A i \in DOMAIN ss : i # l => tt[i] = ss[i]
    BY <1>1 DEF AppendLast
  <1>4. s.base \in Nat /\ Len(s.recs) \in Nat
    BY <1>1, SegmentOffsets
  <1>5. Entry(ss, r) = [id |-> r, off |-> s.base + Len(s.recs)]
    BY DEF Entry, nextOffset
  <1>6. /\ Entry(ss, r) = EntryAt(t, Len(s.recs) + 1)
        /\ \A j \in 1..Len(s.recs) : EntryAt(t, j) = EntryAt(s, j)
    BY <1>2, <1>4, <1>5 DEF EntryAt
  <1> HIDE DEF t, tt
  <1>7. ASSUME NEW e \in ReadableOf(tt) PROVE e \in ReadableOf(ss) \cup {Entry(ss, r)}
    <2>p. PICK i \in DOMAIN tt : \E j \in 1..Len(tt[i].recs) : e = EntryAt(tt[i], j)
      BY <1>7, ReadableIn
    <2>1. PICK j \in 1..Len(tt[i].recs) : e = EntryAt(tt[i], j)
      BY <2>p
    <2>2. CASE i # l
      BY <1>3, <2>1, <2>2, ReadableIn
    <2>3. CASE i = l /\ j \in 1..Len(s.recs)
      BY <1>1, <1>3, <1>6, <2>1, <2>3, ReadableIn
    <2>4. CASE i = l /\ j = Len(s.recs) + 1
      BY <1>3, <1>6, <2>1, <2>4
    <2>5. QED
      BY <1>2, <1>3, <1>4, <2>2, <2>3, <2>4
  <1>8. ASSUME NEW e \in ReadableOf(ss) PROVE e \in ReadableOf(tt)
    <2>p. PICK i \in DOMAIN ss : \E j \in 1..Len(ss[i].recs) : e = EntryAt(ss[i], j)
      BY <1>8, ReadableIn
    <2>1. PICK j \in 1..Len(ss[i].recs) : e = EntryAt(ss[i], j)
      BY <2>p
    <2>2. j \in 1..Len(tt[i].recs) /\ e = EntryAt(tt[i], j)
      BY <1>2, <1>3, <1>4, <1>6, <2>1
    <2>3. QED
      BY <1>3, <2>2, ReadableIn
  <1>9. Entry(ss, r) \in ReadableOf(tt)
    <2>1. Len(s.recs) + 1 \in 1..Len(tt[l].recs) /\ Entry(ss, r) = EntryAt(tt[l], Len(s.recs) + 1)
      BY <1>2, <1>3, <1>4, <1>6
    <2>2. QED
      BY <1>1, <1>3, <2>1, ReadableIn
  <1>10. nextOffset(lastOf(tt)) = nextOffset(lastOf(ss)) + 1
    <2>1. lastOf(tt) = t /\ lastOf(ss) = s
      BY <1>3 DEF lastOf
    <2>2. nextOffset(t) = nextOffset(s) + 1
      BY <1>2, <1>4 DEF nextOffset
    <2>3. QED
      BY <2>1, <2>2
  <1>11. ReadableOf(tt) = ReadableOf(ss) \cup {Entry(ss, r)}
    BY <1>7, <1>8, <1>9
  <1>12. QED
    BY <1>10, <1>11 DEF tt, Entry, lastOf

\* Dropping the first segments drops exactly the entries below a base.
LEMMA ReadableFront ==
    ASSUME NEW ss, NEW w, LogOK(ss, w), NEW n \in 0..(Len(ss) - 1)
    PROVE  /\ ReadableOf(SubSeq(ss, n + 1, Len(ss))) = {e \in ReadableOf(ss) : e.off >= ss[n + 1].base}
           /\ lastOf(SubSeq(ss, n + 1, Len(ss))) = lastOf(ss)
           /\ ss[n + 1].base \in 0..nextOffset(lastOf(ss))
  <1> DEFINE tt == SubSeq(ss, n + 1, Len(ss))
             b == ss[n + 1].base
  <1>1. /\ ss \in Seq(Segment) /\ Len(ss) \in Nat /\ n \in Nat /\ n < Len(ss)
        /\ DOMAIN ss = 1..Len(ss) /\ n + 1 \in DOMAIN ss /\ Len(ss) \in DOMAIN ss
        /\ \A i \in DOMAIN ss : ss[i] \in Segment
    BY DEF LogOK, WellFormed
  <1>2. /\ DOMAIN tt = 1..(Len(ss) - n) /\ Len(tt) = Len(ss) - n
        /\ \A i \in 1..(Len(ss) - n) : tt[i] = ss[i + n]
    BY <1>1
  <1> HIDE DEF tt
  <1>3. \A i \in DOMAIN tt : i + n \in DOMAIN ss /\ tt[i] = ss[i + n] /\ i + n >= n + 1
    BY <1>1, <1>2
  <1>4. b \in Nat
    BY <1>1, SegmentOffsets
  <1>5. \A i \in DOMAIN ss : i > n + 1 => b <= ss[i].base
    <2>1. SUFFICES ASSUME NEW i \in DOMAIN ss, i > n + 1 PROVE b <= ss[i].base
      OBVIOUS
    <2>2. nextOffset(ss[n + 1]) <= ss[i].base
      BY <1>1, <2>1 DEF LogOK
    <2>3. QED
      BY <1>1, <2>2, SegmentOffsets
  <1>6. \A i \in DOMAIN ss : i <= n => nextOffset(ss[i]) <= b
    BY <1>1 DEF LogOK
  <1>7. ASSUME NEW e \in ReadableOf(tt) PROVE e \in ReadableOf(ss) /\ e.off >= b
    <2>p. PICK i \in DOMAIN tt : \E j \in 1..Len(tt[i].recs) : e = EntryAt(tt[i], j)
      BY <1>7, ReadableIn
    <2>1. PICK j \in 1..Len(tt[i].recs) : e = EntryAt(tt[i], j)
      BY <2>p
    <2>2. i + n \in DOMAIN ss /\ j \in 1..Len(ss[i + n].recs) /\ e = EntryAt(ss[i + n], j)
      BY <1>3, <2>1
    <2>3. e \in ReadableOf(ss)
      BY <2>2, ReadableIn
    <2>4. ss[i + n].base >= b /\ ss[i + n].base \in Nat
      <3>1. CASE i + n = n + 1
        BY <1>4, <3>1
      <3>2. CASE i + n # n + 1
        BY <1>1, <1>3, <1>4, <1>5, <3>2, SegmentOffsets
      <3>3. QED
        BY <3>1, <3>2
    <2>5. e.off = ss[i + n].base + j - 1
      BY <2>2 DEF EntryAt
    <2>6. QED
      BY <1>4, <2>2, <2>3, <2>4, <2>5
  <1>8. ASSUME NEW e \in ReadableOf(ss), e.off >= b PROVE e \in ReadableOf(tt)
    <2>p. PICK i \in DOMAIN ss : \E j \in 1..Len(ss[i].recs) : e = EntryAt(ss[i], j)
      BY <1>8, ReadableIn
    <2>1. PICK j \in 1..Len(ss[i].recs) : e = EntryAt(ss[i], j)
      BY <2>p
    <2>2. e.off = ss[i].base + j - 1
      BY <2>1 DEF EntryAt
    <2>3. ss[i].base \in Nat /\ Len(ss[i].recs) \in Nat /\ nextOffset(ss[i]) = ss[i].base + Len(ss[i].recs)
      BY <1>1, SegmentOffsets
    <2>4. ~ (i <= n)
      BY <1>4, <1>6, <1>8, <2>1, <2>2, <2>3
    <2>5. i - n \in DOMAIN tt /\ tt[i - n] = ss[i]
      BY <1>1, <1>2, <2>4
    <2>6. QED
      BY <2>1, <2>5, ReadableIn
  <1>9. lastOf(tt) = lastOf(ss)
    BY <1>1, <1>2 DEF lastOf
  <1>10. b \in 0..nextOffset(lastOf(ss))
    <2>1. /\ ss[Len(ss)].base \in Nat /\ nextOffset(lastOf(ss)) \in Nat
          /\ ss[Len(ss)].base <= nextOffset(lastOf(ss))
      BY <1>1, SegmentOffsets DEF lastOf
    <2>2. b <= ss[Len(ss)].base
      BY <1>1, <1>4, <1>5, <2>1
    <2>3. QED
      BY <1>4, <2>1, <2>2
  <1>11. ReadableOf(tt) = {e \in ReadableOf(ss) : e.off >= b}
    BY <1>7, <1>8
  <1>12. QED
    BY <1>9, <1>10, <1>11 DEF tt

\* The rotation inside Append changes nothing a reader sees.
LEMMA RotatedReads ==
    ASSUME IInv
    PROVE  /\ ReadableOf(Rotated) = ReadableOf(segs)
           /\ nextOffset(lastOf(Rotated)) = NextOffset /\ NextOffset \in Nat
  <1> DEFINE s == segs[Len(segs)]
             tt == [segs EXCEPT ![Len(segs)] = SyncSegment(s)]
  <1>1. LogOK(segs, written) /\ Len(segs) \in DOMAIN segs /\ WellFormed(s) /\ s \in Segment
    BY DEF IInv, LogOK, WellFormed
  <1>2. LogOK(tt, written)
    BY <1>1, SameRecords, ShrinkOne
  <1>3. NextOffset = nextOffset(s) /\ NextOffset \in Nat /\ NextOffset = nextOffset(lastOf(segs))
    BY <1>1, SegmentOffsets DEF NextOffset, active, lastOf
  <1>4. DOMAIN tt = DOMAIN segs /\ \A i \in DOMAIN segs : tt[i].base = segs[i].base /\ tt[i].recs = segs[i].recs
    BY <1>1, SameRecords
  <1> HIDE DEF tt
  <1>5. ReadableOf(tt) = ReadableOf(segs)
    BY <1>4, ReadableSame
  <1>6. CASE MustRotate
    <2>1. Rotated = Append(tt, NewSegment(NextOffset))
      BY <1>6 DEF Rotated, rotate, tt
    <2>2. QED
      BY <1>2, <1>3, <1>5, <2>1, ReadableExtend
  <1>7. CASE ~ MustRotate
    BY <1>3, <1>7 DEF Rotated
  <1>8. QED
    BY <1>6, <1>7

\* A fragment at the end changes nothing a reader sees.
LEMMA TearReads ==
    ASSUME NEW ss, NEW w, LogOK(ss, w)
    PROVE  /\ ReadableOf(TearLast(ss)) = ReadableOf(ss)
           /\ nextOffset(lastOf(TearLast(ss))) = nextOffset(lastOf(ss))
  <1> DEFINE s == ss[Len(ss)]
             tt == TearLast(ss)
  <1>1. Len(ss) \in DOMAIN ss /\ WellFormed(s) /\ s \in Segment /\ s.frags \in Nat
        /\ ss \in Seq(Segment)
    BY DEF LogOK, WellFormed, Segment
  <1>2. TearTo(s).base = s.base /\ TearTo(s).recs = s.recs
    BY <1>1, SMTT(30) DEF TearTo, Segment
  <1>3. /\ DOMAIN tt = DOMAIN ss /\ Len(tt) = Len(ss) /\ tt[Len(ss)] = TearTo(s)
        /\ \A i \in DOMAIN ss : i # Len(ss) => tt[i] = ss[i]
    BY <1>1 DEF TearLast
  <1> HIDE DEF tt
  <1>4. \A i \in DOMAIN ss : tt[i].base = ss[i].base /\ tt[i].recs = ss[i].recs
    BY <1>2, <1>3
  <1>5. ReadableOf(tt) = ReadableOf(ss)
    BY <1>3, <1>4, ReadableSame
  <1>6. nextOffset(lastOf(tt)) = nextOffset(lastOf(ss))
    BY <1>2, <1>3 DEF nextOffset, lastOf
  <1>7. QED
    BY <1>5, <1>6 DEF tt

\* A record number is used once.
LEMMA FreshUnused ==
    ASSUME RInv
    PROVE  fresh \in Nat /\ fresh \notin {e.id : e \in written}
  <1>1. Cardinality(written) \in Nat
    BY FS_CardinalityType DEF RInv, IInv
  <1>2. \A e \in written : e.id # fresh
    BY <1>1 DEF RInv, IdsCounted, fresh
  <1>3. QED
    BY <1>1, <1>2 DEF fresh

\* Counting stays right when the next record is written.
LEMMA WrittenCounted ==
    ASSUME RInv, NEW e, e.id = fresh
    PROVE  /\ IsFiniteSet(written \cup {e})
           /\ \A x \in written \cup {e} : x.id \in 1..Cardinality(written \cup {e})
           /\ {x.id : x \in written \cup {e}} = {x.id : x \in written} \cup {fresh}
  <1>1. IsFiniteSet(written) /\ Cardinality(written) \in Nat
    BY FS_CardinalityType DEF RInv, IInv
  <1>2. e \notin written
    BY FreshUnused
  <1>3. IsFiniteSet(written \cup {e}) /\ Cardinality(written \cup {e}) = Cardinality(written) + 1
    BY <1>1, <1>2, FS_AddElement
  <1>4. \A x \in written \cup {e} : x.id \in 1..Cardinality(written \cup {e})
    BY <1>1, <1>3 DEF RInv, IdsCounted, fresh
  <1>5. QED
    BY <1>3, <1>4

\* What a reader finds wherever in Append the process dies: what was there,
\* and perhaps the record that was being added, whose number is then used.
LEMMA DyingReads ==
    ASSUME RInv, NEW d \in DyingStates
    PROVE  /\ LogOK(d.files, d.written)
           /\ \/ /\ ReadableOf(d.files) = ReadableOf(segs)
                 /\ d.written = written
              \/ /\ fresh \in 1..MaxRecords
                 /\ ReadableOf(d.files) = ReadableOf(segs) \cup {[id |-> fresh, off |-> NextOffset]}
                 /\ d.written = written \cup {[id |-> fresh, off |-> NextOffset]}
  <1>1. IInv /\ LogOK(Rotated, written) /\ fresh \in Nat
    BY RotatedOK, FreshNat DEF RInv
  <1>2. LogOK(d.files, d.written)
    BY <1>1, DyingOK
  <1>3. \/ d = [files |-> segs, written |-> written]
        \/ d = [files |-> Rotated, written |-> written]
        \/ d = [files |-> TearLast(Rotated), written |-> written]
        \/ /\ CanAppend
           /\ d = [files |-> AppendLast(Rotated, fresh),
                   written |-> written \cup {Entry(Rotated, fresh)}]
    BY DEF DyingStates
  <1>4. ReadableOf(Rotated) = ReadableOf(segs) /\ nextOffset(lastOf(Rotated)) = NextOffset
    BY <1>1, RotatedReads
  <1>5. ReadableOf(TearLast(Rotated)) = ReadableOf(Rotated)
    BY <1>1, TearReads
  <1>6. CASE d = [files |-> AppendLast(Rotated, fresh),
                  written |-> written \cup {Entry(Rotated, fresh)}] /\ CanAppend
    <2>1. fresh \in 1..MaxRecords
      <3>1. fresh <= MaxRecords
        BY <1>6 DEF CanAppend
      <3>2. fresh >= 1 /\ MaxRecords \in Nat
        BY <1>1, WalConstants, FS_CardinalityType DEF fresh, IInv
      <3>3. QED
        BY <1>1, <3>1, <3>2
    <2>2. QED
      BY <1>1, <1>2, <1>4, <1>6, <2>1, ReadableAppend
  <1>7. QED
    BY <1>2, <1>3, <1>4, <1>5, <1>6

\* The refinement mapping in terms of lists, before and after a step.
LEMMA MappedLists ==
    /\ Readable = ReadableOf(segs) /\ Readable' = ReadableOf(segs')
    /\ NextOffset = nextOffset(lastOf(segs)) /\ NextOffset' = nextOffset(lastOf(segs'))
  BY DEF Readable, ReadableOf, EntryAt, NextOffset, active, lastOf

\* An empty log maps to the initial state of OffsetLog.
LEMMA InitRefines == WalInit => RInv /\ Offsets!OffsetInit
  <1> SUFFICES ASSUME WalInit PROVE RInv /\ Offsets!OffsetInit
    OBVIOUS
  <1>1. segs = <<NewSegment(0)>> /\ status = "open" /\ written = {}
    BY DEF WalInit
  <1>2. NewSegment(0).recs = <<>> /\ NewSegment(0).base = 0
    BY DEF NewSegment
  <1>3. Readable = {}
    BY <1>1, <1>2 DEF Readable
  <1>4. NextOffset = 0
    BY <1>1, <1>2 DEF NextOffset, nextOffset, active
  <1>5. RInv
    BY <1>1, InitIInv DEF RInv, IdsCounted
  <1>6. QED
    BY <1>1, <1>3, <1>4, <1>5 DEF Offsets!OffsetInit

\* A step that shows a reader nothing.
LEMMA Unseen ==
    ASSUME Readable' = Readable, NextOffset' = NextOffset, written' = written,
           (status' = "open") <=> (status = "open")
    PROVE  [Offsets!OffsetNext]_(Offsets!offsetVars)
  BY DEF Offsets!offsetVars

\* Every step maps to a step of OffsetLog or to none: Append adds one record
\* or shows nothing, Reclaim trims the front, a crash and Close stop the log,
\* Open resumes it.
LEMMA NextRefines ==
    RInv /\ [WalNext]_walVars => RInv' /\ [Offsets!OffsetNext]_(Offsets!offsetVars)
  <1> SUFFICES ASSUME RInv, [WalNext]_walVars
               PROVE  RInv' /\ [Offsets!OffsetNext]_(Offsets!offsetVars)
    OBVIOUS
  <1> USE DEF WalNext
  <1>i. IInv /\ IInv' /\ IdsCounted
    BY NextIInv DEF RInv
  <1>m. /\ Readable = ReadableOf(segs) /\ Readable' = ReadableOf(segs')
        /\ NextOffset = nextOffset(lastOf(segs)) /\ NextOffset' = nextOffset(lastOf(segs'))
    BY MappedLists
  <1>l. LogOK(segs, written) /\ LogOK(Rotated, written) /\ fresh \in Nat
    BY <1>i, RotatedOK, FreshNat DEF IInv
  <1>l2. LogOK(segs', written')
    BY <1>i DEF IInv
  <1>f. NextOffset' \in Nat /\ \A e \in Readable' : e.off < NextOffset'
    BY <1>m, <1>l2, ReadableFits
  <1>r. /\ ReadableOf(Rotated) = Readable
        /\ nextOffset(lastOf(Rotated)) = NextOffset /\ NextOffset \in Nat
    BY <1>i, <1>m, RotatedReads
  <1>u. ASSUME written' = written PROVE RInv'
    BY <1>i, <1>u DEF RInv, IdsCounted
  <1>n. fresh \notin {e.id : e \in written}
    BY FreshUnused
  <1>1. CASE AppendOk
    <2>1. /\ segs' = AppendLast(Rotated, fresh) /\ status = "open" /\ status' = "open"
          /\ written' = written \cup {Entry(Rotated, fresh)} /\ fresh <= MaxRecords
      BY <1>1 DEF AppendOk, CanAppend
    <2>2. /\ Readable' = Readable \cup {[id |-> fresh, off |-> NextOffset]}
          /\ NextOffset' = NextOffset + 1
          /\ Entry(Rotated, fresh) = [id |-> fresh, off |-> NextOffset]
      BY <1>l, <1>m, <1>r, <2>1, ReadableAppend
    <2>3. Entry(Rotated, fresh).id = fresh
      BY <2>2
    <2>4. /\ \A x \in written' : x.id \in 1..Cardinality(written')
          /\ {x.id : x \in written'} = {x.id : x \in written} \cup {fresh}
      BY <2>1, <2>3, WrittenCounted
    <2>5. fresh \in 1..MaxRecords
      <3>1. fresh >= 1 /\ MaxRecords \in Nat
        BY <1>i, WalConstants, FS_CardinalityType DEF fresh, IInv
      <3>2. QED
        BY <1>l, <2>1, <3>1
    <2>6. \E r \in 1..MaxRecords : Offsets!Add(r)
      BY <1>n, <2>1, <2>2, <2>4, <2>5 DEF Offsets!Add
    <2>7. RInv'
      BY <1>i, <2>4 DEF RInv, IdsCounted
    <2>8. QED
      BY <2>6, <2>7 DEF Offsets!OffsetNext
  <1>2. CASE AppendShort
    <2>1. segs' = TearLast(Rotated) /\ status' = status /\ written' = written
      BY <1>2 DEF AppendShort
    <2>2. Readable' = Readable /\ NextOffset' = NextOffset
      BY <1>l, <1>m, <1>r, <2>1, TearReads
    <2>3. QED
      BY <1>u, <2>1, <2>2, Unseen
  <1>3. CASE Sync
    <2> DEFINE tt == [segs EXCEPT ![Len(segs)] = SyncSegment(segs[Len(segs)])]
    <2>1. segs' = tt /\ status' = status /\ written' = written
      BY <1>3 DEF Sync
    <2>2. /\ DOMAIN tt = DOMAIN segs /\ Len(tt) = Len(segs)
          /\ \A i \in DOMAIN segs : tt[i].base = segs[i].base /\ tt[i].recs = segs[i].recs
      BY <1>i, SegsInSegment, SameRecords
    <2> HIDE DEF tt
    <2>3. ReadableOf(tt) = ReadableOf(segs)
      BY <2>2, ReadableSame
    <2>4. nextOffset(lastOf(tt)) = nextOffset(lastOf(segs))
      <3>1. Len(segs) \in DOMAIN segs
        BY <1>i, SegsInSegment
      <3>2. QED
        BY <2>2, <3>1 DEF nextOffset, lastOf
    <2>5. QED
      BY <1>m, <1>u, <2>1, <2>3, <2>4, Unseen
  <1>4. ASSUME NEW upTo \in 0..NextOffset, Reclaim(upTo)
        PROVE  RInv' /\ [Offsets!OffsetNext]_(Offsets!offsetVars)
    <2>1. PICK n \in 1..(Len(segs) - 1) : segs' = SubSeq(segs, n + 1, Len(segs))
      BY <1>4 DEF Reclaim
    <2>2. status = "open" /\ status' = "open" /\ written' = written
      BY <1>4 DEF Reclaim
    <2>3. n \in 0..(Len(segs) - 1)
      OBVIOUS
    <2>4. /\ Readable' = {e \in Readable : e.off >= segs[n + 1].base}
          /\ NextOffset' = NextOffset
          /\ segs[n + 1].base \in 0..NextOffset
      BY <1>l, <1>m, <2>1, <2>3, ReadableFront
    <2>5. Offsets!Trim
      BY <2>2, <2>4 DEF Offsets!Trim
    <2>6. QED
      BY <1>u, <2>2, <2>5 DEF Offsets!OffsetNext
  <1>5. ASSUME NEW upTo \in 0..NextOffset, ReclaimFails(upTo)
        PROVE  RInv' /\ [Offsets!OffsetNext]_(Offsets!offsetVars)
    <2>1. PICK k \in 1..(Len(segs) - 1) :
              segs' = SubSeq([segs EXCEPT ![k] = CloseSegment(segs[k])], k, Len(segs))
      BY <1>5 DEF ReclaimFails
    <2>2. status = "open" /\ status' = "open" /\ written' = written
      BY <1>5 DEF ReclaimFails
    <2> DEFINE tt == [segs EXCEPT ![k] = CloseSegment(segs[k])]
               n == k - 1
    <2>3. /\ k \in DOMAIN segs /\ DOMAIN tt = DOMAIN segs /\ Len(tt) = Len(segs)
          /\ n \in 0..(Len(tt) - 1) /\ n + 1 = k
          /\ WellFormed(segs[k])
      BY <1>i, SegsInSegment
    <2>4. LogOK(tt, written)
      BY <1>l, <2>3, SameRecords, ShrinkOne
    <2>5. \A i \in DOMAIN segs : tt[i].base = segs[i].base /\ tt[i].recs = segs[i].recs
      <3>1. CloseSegment(segs[k]).base = segs[k].base /\ CloseSegment(segs[k]).recs = segs[k].recs
        BY <2>3, SameRecords, SyncFields DEF Shrinks
      <3>2. QED
        BY <1>i, <2>3, <3>1, SegsInSegment
    <2>6. segs' = SubSeq(tt, n + 1, Len(tt))
      BY <2>1, <2>3
    <2> HIDE DEF tt, n
    <2>7. ReadableOf(tt) = ReadableOf(segs)
      BY <2>3, <2>5, ReadableSame
    <2>8. nextOffset(lastOf(tt)) = nextOffset(lastOf(segs))
      <3>1. Len(segs) \in DOMAIN segs
        BY <1>i, SegsInSegment
      <3>2. QED
        BY <2>3, <2>5, <3>1 DEF nextOffset, lastOf
    <2>9. /\ Readable' = {e \in Readable : e.off >= tt[n + 1].base}
          /\ NextOffset' = NextOffset
          /\ tt[n + 1].base \in 0..NextOffset
      BY <1>m, <2>3, <2>4, <2>6, <2>7, <2>8, ReadableFront
    <2>10. Offsets!Trim
      BY <2>2, <2>9 DEF Offsets!Trim
    <2>11. QED
      BY <1>u, <2>2, <2>10 DEF Offsets!OffsetNext
  <1>6. CASE Close
    <2>1. /\ status' = "closed" /\ written' = written
          /\ segs' = [i \in DOMAIN segs |-> CloseSegment(segs[i])]
      BY <1>6 DEF Close
    <2>2. \A i \in DOMAIN segs : segs'[i].base = segs[i].base /\ segs'[i].recs = segs[i].recs
      BY <1>i, <2>1, SegsInSegment, SameRecords, SyncFields DEF Shrinks
    <2>3. Readable' = Readable
      <3>1. DOMAIN segs' = DOMAIN segs
        BY <2>1
      <3>2. ReadableOf(segs') = ReadableOf(segs)
        BY <2>2, <3>1, ReadableSame
      <3>3. QED
        BY <1>m, <3>2
    <2>4. Offsets!Stop
      BY <1>f, <2>1, <2>3 DEF Offsets!Stop, Offsets!Fits
    <2>5. QED
      BY <1>u, <2>1, <2>4 DEF Offsets!OffsetNext
  <1>7. ASSUME NEW d \in DyingStates, written' = d.written, status' = "down",
               ReadableOf(segs') \subseteq ReadableOf(d.files)
        PROVE  RInv' /\ [Offsets!OffsetNext]_(Offsets!offsetVars)
    <2> DEFINE e == [id |-> fresh, off |-> NextOffset]
    <2>1. CASE ReadableOf(d.files) = ReadableOf(segs) /\ d.written = written
      <3>1. Offsets!Stop
        BY <1>f, <1>m, <1>7, <2>1 DEF Offsets!Stop, Offsets!Fits
      <3>2. QED
        BY <1>u, <1>7, <2>1, <3>1 DEF Offsets!OffsetNext
    <2>2. CASE /\ fresh \in 1..MaxRecords
               /\ ReadableOf(d.files) = ReadableOf(segs) \cup {e}
               /\ d.written = written \cup {e}
      <3>1. e.id = fresh
        OBVIOUS
      <3>2. /\ \A x \in written' : x.id \in 1..Cardinality(written')
            /\ {x.id : x \in written'} = {x.id : x \in written} \cup {fresh}
        BY <1>7, <2>2, <3>1, WrittenCounted
      <3>3. RInv'
        BY <1>i, <3>2 DEF RInv, IdsCounted
      <3>4. Readable' \subseteq Readable \cup {e}
        BY <1>m, <1>7, <2>2
      <3>5. Offsets!Stop
        BY <1>f, <1>n, <1>7, <2>2, <3>2, <3>4 DEF Offsets!Stop, Offsets!Fits
      <3>6. QED
        BY <3>3, <3>5 DEF Offsets!OffsetNext
    <2>3. QED
      BY <2>1, <2>2, DyingReads
  <1>8. CASE Kill
    <2>1. PICK d \in DyingStates : segs' = d.files /\ written' = d.written /\ status' = "down"
      BY <1>8 DEF Kill
    <2>2. QED
      BY <1>7, <2>1
  <1>9. CASE PowerCut
    <2>1. PICK d \in DyingStates :
              /\ written' = d.written /\ status' = "down"
              /\ segs' \in {cut \in [DOMAIN d.files -> AnyCut(d.files)] :
                                \A i \in DOMAIN d.files : cut[i] \in CutsOf(d.files[i])}
      BY <1>9 DEF PowerCut
    <2>2. DOMAIN segs' = DOMAIN d.files /\ \A i \in DOMAIN d.files : WellFormed(d.files[i])
      BY <1>i, <2>1, DyingOK DEF LogOK
    <2>3. \A i \in DOMAIN d.files : Shrinks(segs'[i], d.files[i])
      BY <2>1, <2>2, CutShrinks
    <2>4. ReadableOf(segs') \subseteq ReadableOf(d.files)
      BY <2>2, <2>3, ReadableShrinks
    <2>5. QED
      BY <1>7, <2>1, <2>4
  <1>10. CASE Open
    <2>1. PICK n \in DOMAIN segs : segs' = SubSeq(Recovered, 1, n)
      BY <1>10 DEF Open
    <2>2. status # "open" /\ status' = "open" /\ written' = written
      BY <1>10 DEF Open
    <2>3. DOMAIN Recovered = DOMAIN segs /\ \A i \in DOMAIN segs : Recovered[i] = Recover(segs[i])
      BY DEF Recovered
    <2>4. /\ DOMAIN segs' \subseteq DOMAIN segs
          /\ \A i \in DOMAIN segs' : segs'[i] = Recovered[i]
      <3>1. n \in 1..Len(segs) /\ DOMAIN segs = 1..Len(segs) /\ Len(segs) \in Nat
        BY <1>i, SegsInSegment
      <3>2. Recovered \in Seq({Recovered[i] : i \in DOMAIN segs}) /\ Len(Recovered) = Len(segs)
        BY <2>3, <3>1 DEF Recovered
      <3>3. DOMAIN SubSeq(Recovered, 1, n) = 1..n
            /\ \A i \in 1..n : SubSeq(Recovered, 1, n)[i] = Recovered[i]
        BY <3>1, <3>2
      <3>4. QED
        BY <2>1, <3>1, <3>3
    <2>5. \A i \in DOMAIN segs' : WellFormed(segs[i]) /\ Shrinks(segs'[i], segs[i])
      BY <1>i, <2>3, <2>4, SegsInSegment, RecoverShrinks
    <2>6. Readable' \subseteq Readable
      <3>1. ReadableOf(segs') \subseteq ReadableOf(segs)
        BY <2>4, <2>5, ReadableShrinks
      <3>2. QED
        BY <1>m, <3>1
    <2>7. Offsets!Resume
      BY <1>f, <2>2, <2>6 DEF Offsets!Resume, Offsets!Fits
    <2>8. QED
      BY <1>u, <2>2, <2>7 DEF Offsets!OffsetNext
  <1>11. CASE UNCHANGED walVars
    <2>1. segs' = segs /\ status' = status /\ written' = written
      BY <1>11 DEF walVars
    <2>2. QED
      BY <1>m, <1>u, <2>1, Unseen
  <1>12. QED
    BY <1>1, <1>2, <1>3, <1>4, <1>5, <1>6, <1>8, <1>9, <1>10, <1>11

\* Log implements the plain offset log: whatever sequence of rotations,
\* deletions, crashes inside Append, power cuts and recoveries, a reader never
\* finds a record at another offset, twice or changed, and an open log loses
\* records only from its front.
THEOREM LogImplementsOffsetLog == WalSpec => ImplementsOffsetLog
  <1>1. WalInit => RInv /\ Offsets!OffsetInit
    BY InitRefines
  <1>2. RInv /\ [WalNext]_walVars => RInv' /\ [Offsets!OffsetNext]_(Offsets!offsetVars)
    BY NextRefines
  <1>3. QED
    BY <1>1, <1>2, PTL DEF WalSpec, ImplementsOffsetLog, Offsets!OffsetSpec
=============================================================================
