-------------------------- MODULE InProcessBusProofs --------------------------
(***************************************************************************)
(* Proofs about InProcessBus, for every segment size, any number of        *)
(* groups, readers and faults: the type invariant, and that processes that *)
(* are killed, commits that fail, readers that share a group and segments  *)
(* that are deleted under them make no group skip a record, nor deliver    *)
(* one under another's offset.                                             *)
(*                                                                         *)
(* The log's part is WalLogProofs: a step of the bus is a step of the log. *)
(* What is new is what ReadFrom finds in a copy of the segment list that   *)
(* the log has moved on from (Chained, SnapOK), and how the positions of a *)
(* group (its file, its object, its readers) stand to each other and to    *)
(* the log (GroupOK, ReaderOK).                                            *)
(***************************************************************************)
EXTENDS InProcessBus, WalLogProofs, WellFoundedInduction

-----------------------------------------------------------------------------
(* What ReadFrom returns *)

\* A set of naturals has a smallest one, which is how the lemmas below argue about
\* the loop over the segments: there would be a first segment where it goes wrong.
LEMMA LeastNat ==
    ASSUME NEW T \in SUBSET Nat, T # {}
    PROVE  \E m \in T : \A k \in T : m <= k
<1> DEFINE R == OpToRel(<, Nat)
<1>1. IsWellFoundedOn(R, Nat) BY NatLessThanWellFounded
<1>2. \A x \in Nat, y \in Nat : y < x => <<y, x>> \in R BY DEF OpToRel
<1> HIDE DEF R
<1>3. PICK x \in T : \A y \in T : ~ (<<y, x>> \in R) BY <1>1, WFMin
<1>4. \A y \in T : ~ (y < x) BY <1>2, <1>3
<1>5. \A y \in T : x <= y BY <1>4
<1>6. QED BY <1>5

\* What one segment contributes, and the loop's results segment by segment.
Piece(s, offset) == IF nextOffset(s) <= offset THEN <<>> ELSE readFrom(s, offset)
Accumulates(f, ss, offset, n) ==
    f = [k \in 0..n |-> IF k = 0 THEN <<>> ELSE f[k - 1] \o Piece(Current(ss[k]), offset)]

\* The loop can be run over any number of segments.
LEMMA LoopRuns ==
    ASSUME NEW ss, NEW offset, NEW n \in Nat
    PROVE  \E f : Accumulates(f, ss, offset, n)
<1> DEFINE T == {k \in Nat : ~ \E f : Accumulates(f, ss, offset, k)}
<1>1. SUFFICES ASSUME T # {} PROVE FALSE OBVIOUS
<1>2. PICK m \in T : \A k \in T : m <= k BY <1>1, LeastNat
<1>3. CASE m = 0
  <2> DEFINE g == [k \in 0..0 |-> <<>>]
  <2>1. g = [k \in 0..0 |-> IF k = 0 THEN <<>> ELSE g[k - 1] \o Piece(Current(ss[k]), offset)] OBVIOUS
  <2>2. QED BY <1>2, <1>3, <2>1 DEF Accumulates
<1>4. CASE m # 0
  <2>1. m \in Nat /\ m - 1 \in Nat /\ m - 1 \notin T BY <1>2, <1>4
  <2>2. PICK f : Accumulates(f, ss, offset, m - 1) BY <2>1
  <2>3. \A k \in 0..(m - 1) :
          f[k] = IF k = 0 THEN <<>> ELSE f[k - 1] \o Piece(Current(ss[k]), offset)
    BY <2>2 DEF Accumulates
  <2> DEFINE g == [k \in 0..m |-> IF k = m THEN f[m - 1] \o Piece(Current(ss[m]), offset) ELSE f[k]]
  <2>4. ASSUME NEW k \in 0..m
        PROVE  g[k] = IF k = 0 THEN <<>> ELSE g[k - 1] \o Piece(Current(ss[k]), offset)
    <3>1. CASE k = 0 BY <1>4, <2>1, <2>3, <3>1
    <3>2. CASE k = m
      <4>1. g[m - 1] = f[m - 1] BY <1>4, <2>1
      <4>0. m \in 0..m BY <2>1
      <4>2. g[m] = f[m - 1] \o Piece(Current(ss[m]), offset) BY <4>0, Zenon
      <4> HIDE DEF g
      <4>3. QED BY <1>4, <3>2, <4>1, <4>2
    <3>3. CASE k \in 1..(m - 1) BY <1>4, <2>1, <2>3, <3>3
    <3>4. QED BY <2>1, <3>1, <3>2, <3>3
  <2>5. g = [k \in 0..m |-> g[k]] OBVIOUS
  <2> HIDE DEF g
  <2>6. Accumulates(g, ss, offset, m) BY <2>4, <2>5 DEF Accumulates
  <2>7. QED BY <1>2, <2>6
<1>5. QED BY <1>3, <1>4

\* ReadBatch is the loop's last result.
LEMMA ReadBatchRuns ==
    ASSUME NEW ss, NEW offset, Len(ss) \in Nat
    PROVE  \E f : Accumulates(f, ss, offset, Len(ss)) /\ ReadBatch(ss, offset) = f[Len(ss)]
<1>1. \E f : Accumulates(f, ss, offset, Len(ss)) BY LoopRuns
<1> DEFINE F == CHOOSE f : f = [k \in 0..Len(ss) |->
                                  IF k = 0 THEN <<>>
                                  ELSE f[k - 1] \o IF nextOffset(Current(ss[k])) <= offset THEN <<>>
                                                   ELSE readFrom(Current(ss[k]), offset)]
<1>2. Accumulates(F, ss, offset, Len(ss)) BY <1>1 DEF Accumulates, Piece
<1>3. ReadBatch(ss, offset) = F[Len(ss)] BY DEF ReadBatch
<1>4. QED BY <1>2, <1>3

\* A segment contributes its records from the offset on, or all of them when it
\* starts later.
LEMMA PieceReads ==
    ASSUME NEW s \in Segment, NEW offset \in Nat
    PROVE  /\ Piece(s, offset) \in Seq(Nat)
           /\ nextOffset(s) <= offset => Piece(s, offset) = <<>>
           /\ s.base <= offset /\ offset < nextOffset(s) =>
                  /\ Len(Piece(s, offset)) = nextOffset(s) - offset
                  /\ \A i \in 1..(nextOffset(s) - offset) :
                         Piece(s, offset)[i] = s.recs[(offset - s.base) + i]
           /\ offset <= s.base /\ offset < nextOffset(s) => Piece(s, offset) = s.recs
<1>1. /\ s.base \in Nat /\ s.recs \in Seq(Nat) /\ Len(s.recs) \in Nat
      /\ nextOffset(s) = s.base + Len(s.recs) /\ nextOffset(s) \in Nat
  BY SegmentOffsets
<1>2. CASE nextOffset(s) <= offset
  <2>1. Piece(s, offset) = <<>> BY <1>2 DEF Piece
  <2>2. QED BY <1>1, <1>2, <2>1
<1>3. CASE offset < nextOffset(s) /\ offset <= s.base
  <2>1. Piece(s, offset) = readFrom(s, offset) BY <1>1, <1>3 DEF Piece
  <2>2. readFrom(s, offset) = SubSeq(s.recs, 1, Len(s.recs))
    <3>1. ~ (offset > s.base) BY <1>1, <1>3
    <3>2. QED BY <1>1, <3>1 DEF readFrom
  <2>3. SubSeq(s.recs, 1, Len(s.recs)) = s.recs BY <1>1
  <2>4. Piece(s, offset) = s.recs BY <2>1, <2>2, <2>3
  <2>5. s.base <= offset => offset = s.base BY <1>1, <1>3
  <2>6. QED BY <1>1, <1>3, <2>4, <2>5
<1>4. CASE offset < nextOffset(s) /\ offset > s.base
  <2> DEFINE a == offset - s.base
  <2>1. a \in Nat /\ a > 0 /\ a < Len(s.recs) /\ Len(s.recs) - a = nextOffset(s) - offset BY <1>1, <1>4
  <2>2. Piece(s, offset) = SubSeq(s.recs, a + 1, Len(s.recs))
    <3>1. Piece(s, offset) = readFrom(s, offset) BY <1>1, <1>4 DEF Piece
    <3>2. readFrom(s, offset) = SubSeq(s.recs, a + 1, Len(s.recs)) BY <1>4 DEF readFrom
    <3>3. QED BY <3>1, <3>2
  <2> HIDE DEF a
  <2>4. /\ SubSeq(s.recs, a + 1, Len(s.recs)) \in Seq(Nat)
        /\ Len(SubSeq(s.recs, a + 1, Len(s.recs))) = Len(s.recs) - a
        /\ \A i \in 1..(Len(s.recs) - a) : SubSeq(s.recs, a + 1, Len(s.recs))[i] = s.recs[a + i]
    BY <1>1, <2>1
  <2>5. ~ (nextOffset(s) <= offset) /\ ~ (offset <= s.base) BY <1>1, <1>4
  <2>6. /\ Len(Piece(s, offset)) = nextOffset(s) - offset
        /\ \A i \in 1..(nextOffset(s) - offset) : Piece(s, offset)[i] = s.recs[a + i]
    BY <2>1, <2>2, <2>4
  <2>7. QED BY <2>2, <2>4, <2>5, <2>6 DEF a
<1>5. QED BY <1>1, <1>2, <1>3, <1>4

\* What ReadBatch returns is a list of records.
LEMMA ReadBatchTyped ==
    ASSUME NEW ss, Len(ss) \in Nat, NEW offset \in Nat, \A k \in 1..Len(ss) : Current(ss[k]) \in Segment
    PROVE  ReadBatch(ss, offset) \in Seq(Nat)
<1>1. PICK f : Accumulates(f, ss, offset, Len(ss)) /\ ReadBatch(ss, offset) = f[Len(ss)] BY ReadBatchRuns
<1>2. \A k \in 0..Len(ss) : f[k] = IF k = 0 THEN <<>> ELSE f[k - 1] \o Piece(Current(ss[k]), offset)
  BY <1>1 DEF Accumulates
<1> DEFINE T == {k \in 0..Len(ss) : f[k] \notin Seq(Nat)}
<1>3. SUFFICES ASSUME T # {} PROVE FALSE BY <1>1
<1>4. PICK m \in T : \A k \in T : m <= k
  <2>1. T \in SUBSET Nat OBVIOUS
  <2>2. QED BY <1>3, <2>1, LeastNat
<1>5. m # 0
  <2>1. 0 \in 0..Len(ss) /\ <<>> \in Seq(Nat) OBVIOUS
  <2>2. f[0] = <<>> BY <1>2, <2>1
  <2>3. QED BY <2>1, <2>2
<1>6. m \in 1..Len(ss) /\ m - 1 \in 0..Len(ss) /\ m - 1 \notin T BY <1>4, <1>5
<1>7. f[m - 1] \in Seq(Nat) /\ Piece(Current(ss[m]), offset) \in Seq(Nat) BY <1>6, PieceReads
<1>8. f[m] = f[m - 1] \o Piece(Current(ss[m]), offset) BY <1>2, <1>5
<1>9. f[m] \in Seq(Nat) BY <1>7, <1>8
<1>10. QED BY <1>9

\* Segments follow each other without a gap, and only the last may be empty.
Chained(ss) == \A i \in 1..(Len(ss) - 1) : ss[i + 1].base = nextOffset(ss[i]) /\ Len(ss[i].recs) > 0

\* Two lists of records, the second labelled from where the first ends.
LEMMA JoinLabels ==
    ASSUME NEW a \in Seq(Nat), NEW p \in Seq(Nat), NEW offset \in Nat, NEW w,
           \A i \in 1..Len(a) : [id |-> a[i], off |-> offset + i - 1] \in w,
           \A i \in 1..Len(p) : [id |-> p[i], off |-> offset + (Len(a) + i) - 1] \in w
    PROVE  /\ a \o p \in Seq(Nat) /\ Len(a \o p) = Len(a) + Len(p)
           /\ \A i \in 1..Len(a \o p) : [id |-> (a \o p)[i], off |-> offset + i - 1] \in w
<1>1. a \o p \in Seq(Nat) /\ Len(a \o p) = Len(a) + Len(p) /\ Len(a) \in Nat /\ Len(p) \in Nat OBVIOUS
<1>2. ASSUME NEW i \in 1..Len(a \o p) PROVE [id |-> (a \o p)[i], off |-> offset + i - 1] \in w
  <2>1. CASE i <= Len(a)
    <3>1. (a \o p)[i] = a[i] /\ i \in 1..Len(a) BY <1>1, <2>1
    <3>2. QED BY <3>1
  <2>2. CASE i > Len(a)
    <3>1. (a \o p)[i] = p[i - Len(a)] /\ i - Len(a) \in 1..Len(p) BY <1>1, <2>2
    <3>2. [id |-> p[i - Len(a)], off |-> offset + (Len(a) + (i - Len(a))) - 1] \in w BY <3>1
    <3>3. Len(a) + (i - Len(a)) = i BY <1>1
    <3>4. QED BY <3>1, <3>2, <3>3
  <2>3. QED BY <1>1, <2>1, <2>2
<1>3. QED BY <1>1, <1>2

\* An index into the records from the offset on is one into all of them.
LEMMA IndexAfter ==
    ASSUME NEW l \in Nat, NEW b \in Nat, NEW o \in Nat, b <= o, NEW i \in 1..((b + l) - o)
    PROVE  (o - b) + i \in 1..l
  OBVIOUS

\* One turn of the loop: what came before ends where the segment starts, or is empty.
LEMMA LoopTurn ==
    ASSUME NEW s \in Segment, NEW offset \in Nat, NEW w, NEW a \in Seq(Nat),
           offset < s.base => Len(a) = s.base - offset,
           s.base <= offset => Len(a) = 0,
           \A i \in 1..Len(a) : [id |-> a[i], off |-> offset + i - 1] \in w,
           \A j \in 1..Len(s.recs) : [id |-> s.recs[j], off |-> s.base + j - 1] \in w
    PROVE  /\ a \o Piece(s, offset) \in Seq(Nat)
           /\ nextOffset(s) <= offset => Len(a \o Piece(s, offset)) = 0
           /\ offset < nextOffset(s) => Len(a \o Piece(s, offset)) = nextOffset(s) - offset
           /\ \A i \in 1..Len(a \o Piece(s, offset)) :
                  [id |-> (a \o Piece(s, offset))[i], off |-> offset + i - 1] \in w
<1>1. /\ s.base \in Nat /\ s.recs \in Seq(Nat) /\ Len(s.recs) \in Nat /\ Len(a) \in Nat
      /\ nextOffset(s) = s.base + Len(s.recs) /\ nextOffset(s) \in Nat
  BY SegmentOffsets
<1> DEFINE p == Piece(s, offset)
<1>2. /\ p \in Seq(Nat)
      /\ nextOffset(s) <= offset => p = <<>>
      /\ s.base <= offset /\ offset < nextOffset(s) =>
             /\ Len(p) = nextOffset(s) - offset
             /\ \A i \in 1..(nextOffset(s) - offset) : p[i] = s.recs[(offset - s.base) + i]
      /\ offset <= s.base /\ offset < nextOffset(s) => p = s.recs
  BY PieceReads
<1> HIDE DEF p
<1>3. Len(p) \in Nat BY <1>2
<1>4. /\ \A i \in 1..Len(p) : [id |-> p[i], off |-> offset + (Len(a) + i) - 1] \in w
      /\ nextOffset(s) <= offset => Len(a) + Len(p) = 0
      /\ offset < nextOffset(s) => Len(a) + Len(p) = nextOffset(s) - offset
  <2>1. CASE nextOffset(s) <= offset
    <3>1. p = <<>> /\ Len(p) = 0 /\ Len(a) = 0 BY <1>1, <1>2, <2>1
    <3>2. QED BY <1>1, <2>1, <3>1
  <2>2. CASE offset < nextOffset(s) /\ s.base <= offset
    <3>1. Len(a) = 0 /\ Len(p) = nextOffset(s) - offset BY <1>2, <2>2
    <3>2. ASSUME NEW i \in 1..Len(p) PROVE [id |-> p[i], off |-> offset + (Len(a) + i) - 1] \in w
      <4>1. i \in 1..(nextOffset(s) - offset) BY <3>1
      <4>2. p[i] = s.recs[(offset - s.base) + i] BY <1>2, <2>2, <4>1
      <4>3. (offset - s.base) + i \in 1..Len(s.recs)
        <5>1. i \in 1..((s.base + Len(s.recs)) - offset) BY <1>1, <4>1
        <5>2. QED BY <1>1, <2>2, <5>1, IndexAfter
      <4>4. [id |-> s.recs[(offset - s.base) + i], off |-> s.base + ((offset - s.base) + i) - 1] \in w
        BY <4>3
      <4>5. s.base + ((offset - s.base) + i) - 1 = offset + (Len(a) + i) - 1 BY <1>1, <3>1
      <4>6. QED BY <4>2, <4>4, <4>5
    <3>3. QED BY <1>1, <1>3, <2>2, <3>1, <3>2
  <2>3. CASE offset < nextOffset(s) /\ offset < s.base
    <3>1. p = s.recs /\ Len(a) = s.base - offset BY <1>1, <1>2, <2>3
    <3>2. ASSUME NEW i \in 1..Len(p) PROVE [id |-> p[i], off |-> offset + (Len(a) + i) - 1] \in w
      <4>1. [id |-> s.recs[i], off |-> s.base + i - 1] \in w BY <3>1
      <4>2. s.base + i - 1 = offset + (Len(a) + i) - 1 BY <1>1, <3>1
      <4>3. QED BY <3>1, <4>1, <4>2
    <3>3. Len(p) = Len(s.recs) BY <3>1
    <3>4. Len(a) + Len(p) = nextOffset(s) - offset BY <1>1, <3>1, <3>3
    <3>5. ~ (nextOffset(s) <= offset) BY <1>1, <2>3
    <3>6. QED BY <3>2, <3>4, <3>5, Zenon
  <2>4. QED BY <1>1, <2>1, <2>2, <2>3
<1>5. /\ a \o p \in Seq(Nat) /\ Len(a \o p) = Len(a) + Len(p)
      /\ \A i \in 1..Len(a \o p) : [id |-> (a \o p)[i], off |-> offset + i - 1] \in w
  BY <1>2, <1>4, JoinLabels
<1>6. QED BY <1>4, <1>5 DEF p

\* From a list without gaps that starts at or before the offset, ReadFrom returns
\* the records at that offset, the next one and so on: the labels Reader.Run counts
\* up are the offsets the records were written at.
LEMMA ReadBatchLabels ==
    ASSUME NEW ss \in Seq(Segment), ss # <<>>, NEW offset \in Nat, NEW w, LogOK(Shared(ss), w),
           Chained(Shared(ss)), Shared(ss)[1].base <= offset
    PROVE  \A i \in 1..Len(ReadBatch(ss, offset)) :
               [id |-> ReadBatch(ss, offset)[i], off |-> offset + i - 1] \in w
<1> DEFINE n == Len(ss)
           cs == Shared(ss)
<1>1. n \in Nat \ {0} /\ DOMAIN ss = 1..n OBVIOUS
<1>2. Len(cs) = n /\ DOMAIN cs = 1..n /\ \A k \in 1..n : cs[k] = Current(ss[k])
  <2>1. DOMAIN cs = 1..n /\ \A k \in 1..n : cs[k] = Current(ss[k]) BY <1>1 DEF Shared
  <2>2. cs \in Seq(Segment) BY DEF LogOK
  <2>3. QED BY <1>1, <2>1, <2>2
<1> HIDE DEF cs
<1>3. \A k \in 1..n : cs[k] \in Segment BY <1>2 DEF LogOK, WellFormed, cs
<1>4. PICK f : Accumulates(f, ss, offset, n) /\ ReadBatch(ss, offset) = f[n] BY <1>1, ReadBatchRuns
<1>5. \A k \in 0..n : f[k] = IF k = 0 THEN <<>> ELSE f[k - 1] \o Piece(cs[k], offset)
  BY <1>2, <1>4 DEF Accumulates
<1> DEFINE Good(k) == /\ f[k] \in Seq(Nat)
                      /\ nextOffset(cs[k]) <= offset => Len(f[k]) = 0
                      /\ offset < nextOffset(cs[k]) => Len(f[k]) = nextOffset(cs[k]) - offset
                      /\ \A i \in 1..Len(f[k]) : [id |-> f[k][i], off |-> offset + i - 1] \in w
           T == {k \in 1..n : ~ Good(k)}
<1>6. T # {} => FALSE
  <2>1. SUFFICES ASSUME T # {} PROVE FALSE OBVIOUS
  <2>2. T \in SUBSET Nat BY <1>1
  <2>3. PICK m \in T : \A k \in T : m <= k
    <3> HIDE DEF T
    <3>1. QED BY <2>1, <2>2, LeastNat
  <2>4. m \in 1..n /\ ~ Good(m) OBVIOUS
  <2>5. m > 1 => m - 1 \in 1..n /\ m - 1 \notin T BY <1>1, <2>3, <2>4
  <2>6. m > 1 => Good(m - 1) BY <2>5
  <2>7. cs[m] \in Segment BY <1>3, <2>4
  <2>8. \A j \in 1..Len(cs[m].recs) : [id |-> cs[m].recs[j], off |-> cs[m].base + j - 1] \in w
    BY <1>2, <2>4 DEF LogOK, cs
  <2>9. m > 1 => cs[m].base = nextOffset(cs[m - 1])
    <3>1. SUFFICES ASSUME m > 1 PROVE cs[m].base = nextOffset(cs[m - 1]) OBVIOUS
    <3>2. m - 1 \in 1..(Len(cs) - 1) /\ (m - 1) + 1 = m BY <1>1, <1>2, <2>4, <3>1
    <3>3. cs[(m - 1) + 1].base = nextOffset(cs[m - 1]) BY <3>2 DEF Chained, cs
    <3>4. QED BY <3>2, <3>3
  <2>10. m = 1 => f[m - 1] = <<>>
    <3>1. 0 \in 0..n BY <1>1
    <3>2. f[0] = <<>> BY <1>5, <3>1
    <3>3. QED BY <3>2
  <2>11. f[m] = f[m - 1] \o Piece(cs[m], offset)
    <3>1. m \in 0..n /\ m # 0 BY <1>1, <2>4
    <3>2. QED BY <1>5, <3>1, Zenon
  <2> DEFINE a == f[m - 1]
  <2>12. a \in Seq(Nat) /\ \A i \in 1..Len(a) : [id |-> a[i], off |-> offset + i - 1] \in w
    <3>1. CASE m = 1
      <4>1. a = <<>> BY <2>10, <3>1
      <4>2. <<>> \in Seq(Nat) /\ 1..Len(<<>>) = {} OBVIOUS
      <4> HIDE DEF a
      <4>3. QED BY <4>1, <4>2
    <3>2. CASE m > 1 BY <2>6, <3>2
    <3>3. QED BY <1>1, <2>4, <3>1, <3>2
  <2>13. cs[m].base \in Nat BY <2>7, SegmentOffsets
  <2>14. /\ offset < cs[m].base => Len(a) = cs[m].base - offset
         /\ cs[m].base <= offset => Len(a) = 0
    <3>1. CASE m = 1
      <4>1. cs[m].base <= offset BY <3>1 DEF cs
      <4>2. QED BY <2>10, <2>13, <3>1, <4>1
    <3>2. CASE m > 1
      <4>1. Good(m - 1) /\ cs[m].base = nextOffset(cs[m - 1]) BY <2>6, <2>9, <3>2
      <4>2. QED BY <4>1
    <3>3. QED BY <1>1, <2>4, <3>1, <3>2
  <2> HIDE DEF a, T
  <2>15. LET q == a \o Piece(cs[m], offset)
         IN  /\ q \in Seq(Nat)
             /\ nextOffset(cs[m]) <= offset => Len(q) = 0
             /\ offset < nextOffset(cs[m]) => Len(q) = nextOffset(cs[m]) - offset
             /\ \A i \in 1..Len(q) : [id |-> q[i], off |-> offset + i - 1] \in w
    BY <2>7, <2>8, <2>12, <2>14, LoopTurn
  <2>16. f[m] = a \o Piece(cs[m], offset) BY <2>11 DEF a
  <2>17. Good(m) BY <2>15, <2>16, Zenon
  <2>18. QED BY <2>4, <2>17
<1>7. Good(n)
  <2>1. n \in 1..n BY <1>1
  <2>2. T = {} BY <1>6
  <2>3. QED BY <2>1, <2>2, Zenon
<1>8. QED BY <1>4, <1>7

-----------------------------------------------------------------------------
(* The inductive invariant *)

\* Every record was written below the next offset, and no two at one offset.
Dated(w, hi) ==
    /\ \A e \in w : e.off < hi
    /\ \A e, d \in w : e.off = d.off => e = d

\* Where a group's file f and its object o stand: within the log, the object at or
\* before the file; the file covers only what the handler got, from the first start
\* x on; d is what the handler got.
GroupOK(f, o, x, d, w, lo, hi) ==
    /\ f.readable <=> x # {}
    /\ f.readable => lo <= f.next /\ f.next <= hi
    /\ ~ f.readable => f.next = 0
    /\ o.loaded => (o.committed <=> f.readable)
    /\ o.committed => o.loaded /\ lo <= o.next /\ o.next <= f.next
    /\ ~ o.committed => o.next = 0
    /\ \A e \in w : \A s \in x : s <= e.off /\ e.off < f.next => e \in d
    /\ d \subseteq w

\* Where a reader s stands to its group's object o, and what its batch holds.
ReaderOK(s, o, d, w, lo, hi) ==
    /\ s.pc = "start" => o.loaded /\ (~ o.committed => lo <= s.from /\ s.from <= hi)
    /\ s.pc \in {"poll", "read", "deliver", "commit"} => o.committed
    /\ s.pc \in {"read", "deliver", "commit"} => s.from <= o.next
    /\ s.pc \in {"deliver", "commit"} =>
           \A i \in 1..Len(s.batch) : [id |-> s.batch[i], off |-> s.from + i - 1] \in w
    /\ s.pc = "commit" => [id |-> s.batch[1], off |-> s.from] \in d

\* Current and Shared with respect to a given list of segments.
CurrentIn(ls, s) ==
    IF \E i \in DOMAIN ls : ls[i].base = s.base
    THEN ls[CHOOSE i \in DOMAIN ls : ls[i].base = s.base]
    ELSE [s EXCEPT !.open = FALSE]
SharedIn(ls, ss) == [i \in DOMAIN ss |-> CurrentIn(ls, ss[i])]

\* What a copy ss of the segment list is good for, whatever the log did since: as
\* its segments are in the log's list ls now, they still follow each other from the
\* offset on.
SnapOK(ls, w, ss, from) ==
    /\ LogOK(SharedIn(ls, ss), w) /\ Chained(SharedIn(ls, ss))
    /\ ss[1].base <= from
    /\ \A k \in 1..Len(ss) : ss[k].base <= lastOf(ls).base

\* The bus while power, writes and offset files hold.
Calm ==
    /\ Chained(segs)
    /\ Dated(written, NextOffset)
    /\ \A g \in Groups : GroupOK(offsetFile[g], group[g], firstStart[g], delivered[g],
                                 written, OldestOffset, NextOffset)
    /\ \A r \in Readers : ReaderOK(reader[r], group[Membership[r]], delivered[Membership[r]],
                                   written, OldestOffset, NextOffset)
    /\ \A r \in Readers : reader[r].pc = "read" => SnapOK(segs, written, reader[r].snap, reader[r].from)

Safe == faults.cuts = 0 /\ faults.shorts = 0 /\ rots = 0

\* No reader outlives its process.
Offline == status # "open" => \A r \in Readers : reader[r].pc = "off"

FileType == [readable: BOOLEAN, next: Nat]
ObjectType == [loaded: BOOLEAN, next: Nat, committed: BOOLEAN]
ReaderType == [pc: {"off", "start", "poll", "read", "deliver", "commit", "failed"},
               from: Nat, snap: Seq(Segment), batch: Seq(Nat)]

BusTypes ==
    /\ offsetFile \in [Groups -> FileType]
    /\ group \in [Groups -> ObjectType]
    /\ reader \in [Readers -> ReaderType]
    /\ \A r \in Readers : reader[r].pc \in {"deliver", "commit"} <=> reader[r].batch # <<>>
    /\ delivered \in [Groups -> SUBSET [id: Nat, off: Nat]]
    /\ firstStart \in [Groups -> SUBSET Nat]
    /\ \A g \in Groups : firstStart[g] = {} \/ \E x \in Nat : firstStart[g] = {x}

BusInv == DInv /\ BusTypes /\ Offline /\ rots \in Nat /\ (Safe => Calm)

-----------------------------------------------------------------------------
(* A step of the bus is a step of the log *)

\* A log's segments, first to last.
LEMMA SegsAre ==
    ASSUME IInv
    PROVE  /\ Len(segs) \in Nat \ {0} /\ DOMAIN segs = 1..Len(segs) /\ segs \in Seq(Segment)
           /\ \A i \in 1..Len(segs) : /\ segs[i] \in Segment
                                      /\ segs[i].base \in Nat /\ nextOffset(segs[i]) \in Nat
                                      /\ segs[i].base <= nextOffset(segs[i])
           /\ \A i, j \in 1..Len(segs) : i < j => nextOffset(segs[i]) <= segs[j].base
           /\ OldestOffset \in Nat /\ NextOffset \in Nat /\ OldestOffset <= NextOffset
           /\ active \in Segment /\ active.base \in Nat
<1>1. Len(segs) \in Nat \ {0} /\ DOMAIN segs = 1..Len(segs) /\ segs \in Seq(Segment) BY DEF IInv, LogOK
<1>2. \A i \in 1..Len(segs) : /\ segs[i] \in Segment
                              /\ segs[i].base \in Nat /\ nextOffset(segs[i]) \in Nat
                              /\ segs[i].base <= nextOffset(segs[i])
  <2>1. \A i \in 1..Len(segs) : segs[i] \in Segment BY <1>1 DEF IInv, LogOK, WellFormed
  <2>2. QED BY <2>1, SegmentOffsets
<1>3. \A i, j \in 1..Len(segs) : i < j => nextOffset(segs[i]) <= segs[j].base BY <1>1 DEF IInv, LogOK
<1>4. 1 \in 1..Len(segs) /\ Len(segs) \in 1..Len(segs) BY <1>1
<1>5. OldestOffset \in Nat /\ NextOffset \in Nat /\ active \in Segment /\ active.base \in Nat
  BY <1>2, <1>4 DEF OldestOffset, NextOffset, active
<1>6. OldestOffset <= NextOffset
  <2>1. CASE Len(segs) = 1 BY <1>2, <1>4, <2>1 DEF OldestOffset, NextOffset, active
  <2>2. CASE Len(segs) > 1
    <3>1. nextOffset(segs[1]) <= segs[Len(segs)].base BY <1>3, <1>4, <2>2
    <3>2. QED BY <1>2, <1>4, <3>1 DEF OldestOffset, NextOffset, active
  <2>3. QED BY <1>1, <2>1, <2>2
<1>7. QED BY <1>1, <1>2, <1>3, <1>5, <1>6

\* The slowest position is one of the groups'.
LEMMA SlowestIs ==
    ASSUME group \in [Groups -> ObjectType]
    PROVE  /\ SlowestPosition \in Nat
           /\ \A g \in Groups : SlowestPosition <= group[g].next
<1> DEFINE S == {group[g].next : g \in Groups}
<1>1. S \in SUBSET Nat BY DEF ObjectType
<1>2. S # {} BY BusConstants
<1>3. SlowestPosition = CHOOSE x \in S : \A y \in S : x <= y BY DEF SlowestPosition, Min
<1>4. \A g \in Groups : group[g].next \in S OBVIOUS
<1> HIDE DEF S
<1>5. \E x \in S : \A y \in S : x <= y BY <1>1, <1>2, LeastNat
<1>6. SlowestPosition \in S /\ \A y \in S : SlowestPosition <= y BY <1>3, <1>5
<1>7. QED BY <1>1, <1>4, <1>6

\* Reclaiming beyond the end of the log is reclaiming up to its end.
LEMMA ReclaimWithin ==
    ASSUME IInv, NEW p \in Nat, Reclaim(p) \/ ReclaimFails(p)
    PROVE  \E q \in 0..NextOffset : Reclaim(q) \/ ReclaimFails(q)
<1>1. /\ Len(segs) \in Nat \ {0} /\ NextOffset \in Nat
      /\ \A i \in 1..Len(segs) : nextOffset(segs[i]) \in Nat
      /\ \A i, j \in 1..Len(segs) : i < j => nextOffset(segs[i]) <= segs[j].base
      /\ \A i \in 1..Len(segs) : segs[i].base \in Nat /\ segs[i].base <= nextOffset(segs[i])
  BY SegsAre
<1>2. CASE p <= NextOffset
  <2>1. p \in 0..NextOffset BY <1>1, <1>2
  <2>2. QED BY <2>1
<1>3. CASE p > NextOffset
  <2>1. \A i \in 1..(Len(segs) - 1) : nextOffset(segs[i]) <= NextOffset
    <3>1. SUFFICES ASSUME NEW i \in 1..(Len(segs) - 1) PROVE nextOffset(segs[i]) <= NextOffset OBVIOUS
    <3>2. i \in 1..Len(segs) /\ Len(segs) \in 1..Len(segs) /\ i < Len(segs) BY <1>1
    <3>3. nextOffset(segs[i]) <= segs[Len(segs)].base BY <1>1, <3>2
    <3>4. NextOffset = nextOffset(segs[Len(segs)]) BY DEF NextOffset, active
    <3>5. QED BY <1>1, <3>2, <3>3, <3>4
  <2>2. \A i \in 1..(Len(segs) - 1) : nextOffset(segs[i]) <= p
    <3>1. SUFFICES ASSUME NEW i \in 1..(Len(segs) - 1) PROVE nextOffset(segs[i]) <= p OBVIOUS
    <3>2. nextOffset(segs[i]) \in Nat BY <1>1
    <3>3. QED BY <1>1, <1>3, <2>1, <3>2
  <2>3. \A i \in 1..(Len(segs) - 1) : Reclaimable(segs[i], p) <=> Reclaimable(segs[i], NextOffset)
    BY <2>1, <2>2 DEF Reclaimable
  <2>4. \A n \in 1..(Len(segs) - 1) : \A i \in 1..n : i \in 1..(Len(segs) - 1) BY <1>1
  <2>5. \A n \in 1..(Len(segs) - 1) : n + 1 = Len(segs) \/ n + 1 \in 1..(Len(segs) - 1) BY <1>1
  <2>6. NextOffset \in 0..NextOffset BY <1>1
  <2>7. Reclaim(p) => Reclaim(NextOffset)
    <3>1. SUFFICES ASSUME Reclaim(p) PROVE Reclaim(NextOffset) OBVIOUS
    <3>2. PICK n \in 1..(Len(segs) - 1) :
             /\ status = "open"
             /\ \A i \in 1..n : Reclaimable(segs[i], p)
             /\ n + 1 = Len(segs) \/ ~ Reclaimable(segs[n + 1], p)
             /\ segs' = SubSeq(segs, n + 1, Len(segs))
             /\ reclaimed' = reclaimed \cup UNION {Ids(segs[i]) : i \in 1..n}
             /\ UNCHANGED <<status, written, acked, flushed, faults>>
      BY <3>1, Zenon DEF Reclaim
    <3>3. \A i \in 1..n : Reclaimable(segs[i], NextOffset) BY <2>3, <2>4, <3>2, Zenon
    <3>4. n + 1 = Len(segs) \/ ~ Reclaimable(segs[n + 1], NextOffset) BY <2>3, <2>5, <3>2, Zenon
    <3>5. QED BY <3>2, <3>3, <3>4, Zenon DEF Reclaim
  <2>8. ReclaimFails(p) => ReclaimFails(NextOffset)
    <3>1. SUFFICES ASSUME ReclaimFails(p) PROVE ReclaimFails(NextOffset) OBVIOUS
    <3>2. PICK k \in 1..(Len(segs) - 1) :
             /\ status = "open"
             /\ Fault("removes")
             /\ \A i \in 1..k : Reclaimable(segs[i], p)
             /\ segs' = SubSeq([segs EXCEPT ![k] = CloseSegment(@)], k, Len(segs))
             /\ reclaimed' = reclaimed \cup UNION {Ids(segs[i]) : i \in 1..(k - 1)}
             /\ UNCHANGED <<status, written, acked, flushed>>
      BY <3>1, Zenon DEF ReclaimFails
    <3>3. \A i \in 1..k : Reclaimable(segs[i], NextOffset) BY <2>3, <2>4, <3>2, Zenon
    <3>4. QED BY <3>2, <3>3, Zenon DEF ReclaimFails
  <2>9. QED BY <2>6, <2>7, <2>8
<1>4. QED BY <1>1, <1>2, <1>3

\* Whatever the bus does, the log takes one of its own steps or none.
LEMMA BusLogStep ==
    ASSUME IInv, BusTypes, [Next]_vars
    PROVE  [WalNext]_walVars
<1>1. CASE Publish BY <1>1 DEF Publish, WalNext
<1>2. CASE SyncLoop BY <1>2 DEF SyncLoop, WalNext
<1>3. CASE ReclaimConsumed
  <2>1. Reclaim(SlowestPosition) \/ ReclaimFails(SlowestPosition) BY <1>3 DEF ReclaimConsumed
  <2>2. SlowestPosition \in Nat BY SlowestIs DEF BusTypes
  <2>3. \E q \in 0..NextOffset : Reclaim(q) \/ ReclaimFails(q) BY <2>1, <2>2, ReclaimWithin
  <2>4. QED BY <2>3 DEF WalNext
<1>4. ASSUME NEW r \in Readers, SubscribeBegin(r) \/ ReaderStep(r) \/ CommitFails(r) \/ Stop(r)
      PROVE  UNCHANGED walVars
  BY <1>4 DEF SubscribeBegin, ReaderStep, CommitFails, Stop, SubscribeStart, Poll, Read, Deliver, CommitStep
<1>5. CASE Shutdown BY <1>5 DEF Shutdown, WalNext
<1>6. CASE Crash BY <1>6 DEF Crash, WalNext
<1>7. CASE Restart BY <1>7 DEF Restart, WalNext
<1>8. ASSUME NEW g \in Groups, Rot(g) PROVE UNCHANGED walVars BY <1>8 DEF Rot
<1>9. CASE UNCHANGED vars BY <1>9 DEF vars
<1>10. QED BY <1>1, <1>2, <1>3, <1>4, <1>5, <1>6, <1>7, <1>8, <1>9 DEF Next

-----------------------------------------------------------------------------
(* Types *)

\* A segment of a copy, as it is now, is the segment with its base.
LEMMA CurrentTyped ==
    ASSUME IInv, NEW s \in Segment
    PROVE  Current(s) \in Segment /\ Current(s).base = s.base
<1>1. CASE \E i \in DOMAIN segs : segs[i].base = s.base
  <2> DEFINE j == CHOOSE i \in DOMAIN segs : segs[i].base = s.base
  <2>1. j \in DOMAIN segs /\ segs[j].base = s.base BY <1>1
  <2>2. Current(s) = segs[j] BY <1>1 DEF Current
  <2> HIDE DEF j
  <2>3. segs[j] \in Segment BY <2>1, SegsAre
  <2>4. QED BY <2>1, <2>2, <2>3
<1>2. CASE ~ \E i \in DOMAIN segs : segs[i].base = s.base
  <2>1. Current(s) = [s EXCEPT !.open = FALSE] BY <1>2 DEF Current
  <2>2. QED BY <2>1 DEF Segment
<1>3. QED BY <1>1, <1>2

\* A copy of the list, as its segments are now.
LEMMA SharedTyped ==
    ASSUME IInv, NEW ss \in Seq(Segment)
    PROVE  /\ Shared(ss) \in Seq(Segment) /\ Len(Shared(ss)) = Len(ss)
           /\ \A k \in 1..Len(ss) : Shared(ss)[k] = Current(ss[k]) /\ ss[k] \in Segment
<1>1. DOMAIN ss = 1..Len(ss) /\ Len(ss) \in Nat /\ \A k \in 1..Len(ss) : ss[k] \in Segment OBVIOUS
<1>2. \A k \in 1..Len(ss) : Current(ss[k]) \in Segment BY <1>1, CurrentTyped
<1> DEFINE C(k) == Current(ss[k])
<1>3. Shared(ss) = [k \in 1..Len(ss) |-> C(k)] BY <1>1 DEF Shared
<1>4. \A k \in 1..Len(ss) : C(k) \in Segment BY <1>2
<1> HIDE DEF C
<1>5. Shared(ss) \in Seq(Segment) /\ Len(Shared(ss)) = Len(ss) /\ \A k \in 1..Len(ss) : Shared(ss)[k] = C(k)
  BY <1>1, <1>3, <1>4
<1>6. QED BY <1>1, <1>5 DEF C

\* A reader that has nothing in hand.
LEMMA IdleTyped ==
    /\ Idle \in ReaderType /\ Idle.pc = "off" /\ Idle.batch = <<>>
    /\ \A p \in {"poll", "failed"} : /\ [Idle EXCEPT !.pc = p] \in ReaderType
                                     /\ [Idle EXCEPT !.pc = p].pc = p /\ [Idle EXCEPT !.pc = p].batch = <<>>
    /\ \A n \in Nat : LET s == [Idle EXCEPT !.pc = "start", !.from = n]
                      IN  s \in ReaderType /\ s.pc = "start" /\ s.batch = <<>> /\ s.from = n
<1>1. <<>> \in Seq(Segment) /\ <<>> \in Seq(Nat) OBVIOUS
<1>2. Idle \in ReaderType /\ Idle.pc = "off" /\ Idle.batch = <<>> BY <1>1 DEF Idle, ReaderType
<1>3. \A p \in {"poll", "failed"} :
          /\ [Idle EXCEPT !.pc = p] \in ReaderType
          /\ [Idle EXCEPT !.pc = p].pc = p /\ [Idle EXCEPT !.pc = p].batch = <<>>
  BY <1>1 DEF Idle, ReaderType
<1>4. ASSUME NEW n \in Nat
      PROVE  LET s == [Idle EXCEPT !.pc = "start", !.from = n]
             IN  s \in ReaderType /\ s.pc = "start" /\ s.batch = <<>> /\ s.from = n
  BY <1>1 DEF Idle, ReaderType
<1>5. QED BY <1>2, <1>3, <1>4

\* One reader moves on.
LEMMA ReaderSet ==
    ASSUME BusTypes, NEW r \in Readers, NEW s \in ReaderType, reader' = [reader EXCEPT ![r] = s],
           s.pc \in {"deliver", "commit"} <=> s.batch # <<>>
    PROVE  /\ reader' \in [Readers -> ReaderType]
           /\ \A q \in Readers : reader'[q].pc \in {"deliver", "commit"} <=> reader'[q].batch # <<>>
           /\ reader'[r] = s /\ \A q \in Readers : q # r => reader'[q] = reader[q]
<1>1. reader \in [Readers -> ReaderType] BY DEF BusTypes
<1>2. reader' \in [Readers -> ReaderType] BY <1>1
<1>3. reader'[r] = s /\ \A q \in Readers : q # r => reader'[q] = reader[q] BY <1>1
<1>4. \A q \in Readers : reader[q].pc \in {"deliver", "commit"} <=> reader[q].batch # <<>> BY DEF BusTypes
<1>5. ASSUME NEW q \in Readers PROVE reader'[q].pc \in {"deliver", "commit"} <=> reader'[q].batch # <<>>
  <2>1. CASE q = r
    <3>1. reader'[q] = s BY <1>3, <2>1
    <3>2. QED BY <3>1
  <2>2. CASE q # r
    <3>1. reader'[q] = reader[q] BY <1>3, <2>2
    <3>2. QED BY <1>4, <3>1
  <2>3. QED BY <2>1, <2>2
<1>6. QED BY <1>2, <1>3, <1>5

\* The rest of a reader's batch.
LEMMA AfterCommitTyped ==
    ASSUME NEW s \in ReaderType, s.pc = "commit", s.batch # <<>>
    PROVE  /\ AfterCommit(s) \in ReaderType
           /\ AfterCommit(s).pc \in {"deliver", "commit"} <=> AfterCommit(s).batch # <<>>
           /\ Len(s.batch) = 1 => AfterCommit(s) = [Idle EXCEPT !.pc = "poll"]
           /\ Len(s.batch) # 1 => /\ AfterCommit(s).pc = "deliver" /\ AfterCommit(s).from = s.from + 1
                                  /\ AfterCommit(s).batch = Tail(s.batch)
<1>1. s.batch \in Seq(Nat) /\ s.from \in Nat /\ s.snap \in Seq(Segment) BY DEF ReaderType
<1>2. CASE Len(s.batch) = 1
  <2>1. AfterCommit(s) = [Idle EXCEPT !.pc = "poll"] BY <1>2 DEF AfterCommit
  <2>2. /\ [Idle EXCEPT !.pc = "poll"] \in ReaderType
        /\ [Idle EXCEPT !.pc = "poll"].pc = "poll" /\ [Idle EXCEPT !.pc = "poll"].batch = <<>>
    BY IdleTyped
  <2>3. QED BY <1>2, <2>1, <2>2
<1>3. CASE Len(s.batch) # 1
  <2> DEFINE t == Tail(s.batch)
             n == s.from + 1
  <2>1. AfterCommit(s) = [s EXCEPT !.pc = "deliver", !.from = n, !.batch = t] BY <1>3 DEF AfterCommit
  <2>2. t \in Seq(Nat) /\ Len(t) = Len(s.batch) - 1 BY <1>1
  <2>3. t # <<>>
    <3>1. Len(s.batch) \in Nat /\ Len(s.batch) # 0 BY <1>1
    <3>2. Len(t) # 0 BY <1>3, <2>2, <3>1
    <3> HIDE DEF t
    <3>3. QED BY <3>2
  <2>4. n \in Nat BY <1>1
  <2> HIDE DEF t, n
  <2>5. /\ AfterCommit(s) \in ReaderType
        /\ AfterCommit(s).pc = "deliver" /\ AfterCommit(s).from = n /\ AfterCommit(s).batch = t
    BY <2>1, <2>2, <2>4 DEF ReaderType
  <2>6. QED BY <1>3, <2>3, <2>5 DEF t, n
<1>4. QED BY <1>2, <1>3

\* What SubscribeBegin caches is a Group object.
LEMMA GroupForTyped ==
    ASSUME BusTypes, NEW g \in Groups
    PROVE  /\ groupFor(g) \in ObjectType
           /\ group[g].loaded => groupFor(g) = group[g]
           /\ ~ group[g].loaded => /\ groupFor(g).next = offsetFile[g].next
                                   /\ groupFor(g).committed = offsetFile[g].readable
           /\ groupFor(g).loaded
<1>1. group[g] \in ObjectType /\ offsetFile[g] \in FileType BY DEF BusTypes
<1>2. OpenGroup(g) \in ObjectType /\ OpenGroup(g).loaded
      /\ OpenGroup(g).next = offsetFile[g].next /\ OpenGroup(g).committed = offsetFile[g].readable
  <2> DEFINE n == offsetFile[g].next
             c == offsetFile[g].readable
  <2>1. n \in Nat /\ c \in BOOLEAN BY <1>1 DEF FileType
  <2>2. OpenGroup(g) = [loaded |-> TRUE, next |-> n, committed |-> c] BY DEF OpenGroup
  <2> HIDE DEF n, c
  <2>3. OpenGroup(g) \in ObjectType /\ OpenGroup(g).loaded /\ OpenGroup(g).next = n /\ OpenGroup(g).committed = c
    BY <2>1, <2>2 DEF ObjectType
  <2>4. QED BY <2>3 DEF n, c
<1>3. CASE group[g].loaded
  <2>1. groupFor(g) = group[g] BY <1>3 DEF groupFor
  <2>2. QED BY <1>1, <1>3, <2>1
<1>4. CASE ~ group[g].loaded
  <2>1. groupFor(g) = OpenGroup(g) BY <1>4 DEF groupFor
  <2>2. QED BY <1>2, <1>4, <2>1
<1>5. QED BY <1>3, <1>4

\* A position in a file and in an object.
LEMMA PositionTyped ==
    ASSUME NEW o \in ObjectType, NEW n \in Nat
    PROVE  /\ [readable |-> TRUE, next |-> n] \in FileType
           /\ [o EXCEPT !.next = n, !.committed = TRUE] \in ObjectType
           /\ [o EXCEPT !.next = n, !.committed = TRUE].next = n
           /\ [o EXCEPT !.next = n, !.committed = TRUE].committed
           /\ [o EXCEPT !.next = n, !.committed = TRUE].loaded = o.loaded
  BY DEF FileType, ObjectType

\* Group.StartAt and Group.Commit, on the file and the object.
LEMMA PositionSet ==
    ASSUME BusTypes, NEW g \in Groups, NEW n \in Nat,
           offsetFile' = [offsetFile EXCEPT ![g] = [readable |-> TRUE, next |-> n]],
           group' = [group EXCEPT ![g].next = n, ![g].committed = TRUE]
    PROVE  /\ offsetFile' \in [Groups -> FileType] /\ group' \in [Groups -> ObjectType]
           /\ offsetFile'[g] = [readable |-> TRUE, next |-> n]
           /\ group'[g].next = n /\ group'[g].committed /\ group'[g].loaded = group[g].loaded
           /\ \A h \in Groups : h # g => offsetFile'[h] = offsetFile[h] /\ group'[h] = group[h]
<1>1. offsetFile \in [Groups -> FileType] /\ group \in [Groups -> ObjectType] BY DEF BusTypes
<1> DEFINE p == [group[g] EXCEPT !.next = n, !.committed = TRUE]
           f == [readable |-> TRUE, next |-> n]
<1>2. /\ f \in FileType /\ p \in ObjectType
      /\ p.next = n /\ p.committed /\ p.loaded = group[g].loaded
  BY <1>1, PositionTyped
<1>3. group' = [group EXCEPT ![g] = p] BY <1>1 DEF ObjectType
<1>4. offsetFile' = [offsetFile EXCEPT ![g] = f] OBVIOUS
<1> HIDE DEF p, f
<1>5. /\ offsetFile' \in [Groups -> FileType] /\ offsetFile'[g] = f
      /\ \A h \in Groups : h # g => offsetFile'[h] = offsetFile[h]
  BY <1>1, <1>2, <1>4
<1>6. /\ group' \in [Groups -> ObjectType] /\ group'[g] = p
      /\ \A h \in Groups : h # g => group'[h] = group[h]
  BY <1>1, <1>2, <1>3
<1>7. QED BY <1>2, <1>5, <1>6 DEF f

\* Where a reader is after reading its copy of the list.
AfterRead(s) ==
    CASE ReadFails(s.snap, s.from) -> [Idle EXCEPT !.pc = "failed"]
      [] ~ ReadFails(s.snap, s.from) /\ ReadBatch(s.snap, s.from) = <<>> -> [Idle EXCEPT !.pc = "poll"]
      [] OTHER -> [pc |-> "deliver", from |-> s.from, snap |-> <<>>, batch |-> ReadBatch(s.snap, s.from)]

LEMMA AfterReadIs ==
    ASSUME IInv, NEW s \in ReaderType
    PROVE  /\ AfterRead(s) \in ReaderType
           /\ AfterRead(s).pc \in {"deliver", "commit"} <=> AfterRead(s).batch # <<>>
           /\ \/ AfterRead(s) = [Idle EXCEPT !.pc = "failed"]
              \/ AfterRead(s) = [Idle EXCEPT !.pc = "poll"]
              \/ AfterRead(s) = [pc |-> "deliver", from |-> s.from, snap |-> <<>>,
                                 batch |-> ReadBatch(s.snap, s.from)]
<1> DEFINE b == ReadBatch(s.snap, s.from)
<1>1. s.snap \in Seq(Segment) /\ s.from \in Nat BY DEF ReaderType
<1>2. b \in Seq(Nat)
  <2>1. Len(s.snap) \in Nat /\ \A k \in 1..Len(s.snap) : s.snap[k] \in Segment BY <1>1
  <2>2. \A k \in 1..Len(s.snap) : Current(s.snap[k]) \in Segment BY <2>1, CurrentTyped
  <2>3. QED BY <1>1, <2>1, <2>2, ReadBatchTyped
<1>3. CASE ReadFails(s.snap, s.from)
  <2>1. AfterRead(s) = [Idle EXCEPT !.pc = "failed"] BY <1>3 DEF AfterRead
  <2>2. QED BY <2>1, IdleTyped
<1>4. CASE ~ ReadFails(s.snap, s.from) /\ b = <<>>
  <2>1. AfterRead(s) = [Idle EXCEPT !.pc = "poll"] BY <1>4 DEF AfterRead
  <2>2. QED BY <2>1, IdleTyped
<1>5. CASE ~ ReadFails(s.snap, s.from) /\ b # <<>>
  <2>1. AfterRead(s) = [pc |-> "deliver", from |-> s.from, snap |-> <<>>, batch |-> b]
    <3> HIDE DEF b
    <3>1. AfterRead(s) = CASE ReadFails(s.snap, s.from) -> [Idle EXCEPT !.pc = "failed"]
              [] ~ ReadFails(s.snap, s.from) /\ b = <<>> -> [Idle EXCEPT !.pc = "poll"]
              [] OTHER -> [pc |-> "deliver", from |-> s.from, snap |-> <<>>, batch |-> b]
      BY DEF AfterRead, b
    <3>2. QED BY <1>5, <3>1
  <2>2. <<>> \in Seq(Segment) OBVIOUS
  <2> HIDE DEF b
  <2>3. AfterRead(s) \in ReaderType /\ AfterRead(s).pc = "deliver" /\ AfterRead(s).batch = b
    BY <1>1, <1>2, <2>1, <2>2 DEF ReaderType
  <2>4. QED BY <1>5, <2>1, <2>3 DEF b
<1>6. QED BY <1>3, <1>4, <1>5

\* Commit writes the position, or finds it already there.
LEMMA CommitSets ==
    ASSUME BusTypes, NEW g \in Groups, NEW n \in Nat, Commit(g, n)
    PROVE  \/ /\ UNCHANGED <<offsetFile, group>>
              /\ n = group[g].next /\ group[g].committed
           \/ /\ offsetFile' = [offsetFile EXCEPT ![g] = [readable |-> TRUE, next |-> n]]
              /\ group' = [group EXCEPT ![g].next = n, ![g].committed = TRUE]
  BY Zenon DEF Commit

\* Every action keeps the types; a reader acts only while the log is open.
LEMMA ReaderTypesStep ==
    ASSUME IInv, BusTypes, Offline, NEW r \in Readers,
           SubscribeBegin(r) \/ ReaderStep(r) \/ CommitFails(r) \/ Stop(r)
    PROVE  BusTypes' /\ Offline' /\ status = "open"
<1> DEFINE g == Membership[r]
           s == reader[r]
<1>1. g \in Groups BY BusConstants
<1>2. /\ s \in ReaderType /\ s.from \in Nat /\ s.batch \in Seq(Nat) /\ s.snap \in Seq(Segment)
      /\ s.pc \in {"deliver", "commit"} <=> s.batch # <<>>
  BY DEF BusTypes, ReaderType
<1>3. segs \in Seq(Segment) /\ OldestOffset \in Nat /\ NextOffset \in Nat BY SegsAre
<1>4. status = "open" /\ status' = status
  <2>1. s.pc # "off" \/ status = "open"
    BY DEF SubscribeBegin, ReaderStep, SubscribeStart, Poll, Read, Deliver, CommitStep, CommitFails, Stop
  <2>2. UNCHANGED walVars
    BY DEF SubscribeBegin, ReaderStep, SubscribeStart, Poll, Read, Deliver, CommitStep, CommitFails, Stop
  <2>3. QED BY <2>1, <2>2 DEF Offline, walVars
<1>5. Offline' BY <1>4 DEF Offline
<1>6. ASSUME NEW t \in ReaderType, reader' = [reader EXCEPT ![r] = t],
             t.pc \in {"deliver", "commit"} <=> t.batch # <<>>,
             offsetFile' \in [Groups -> FileType], group' \in [Groups -> ObjectType],
             delivered' \in [Groups -> SUBSET [id: Nat, off: Nat]],
             firstStart' = firstStart
      PROVE  BusTypes'
  <2>1. /\ reader' \in [Readers -> ReaderType]
        /\ \A q \in Readers : reader'[q].pc \in {"deliver", "commit"} <=> reader'[q].batch # <<>>
    BY <1>6, ReaderSet
  <2>2. /\ firstStart \in [Groups -> SUBSET Nat]
        /\ \A h \in Groups : firstStart[h] = {} \/ \E x \in Nat : firstStart[h] = {x}
    BY DEF BusTypes
  <2>3. QED BY <1>6, <2>1, <2>2 DEF BusTypes
<1>7. /\ offsetFile \in [Groups -> FileType] /\ group \in [Groups -> ObjectType]
      /\ delivered \in [Groups -> SUBSET [id: Nat, off: Nat]]
  BY DEF BusTypes
<1>8. CASE SubscribeBegin(r)
  <2> DEFINE t == IF groupFor(g).committed THEN [Idle EXCEPT !.pc = "poll"]
                  ELSE [Idle EXCEPT !.pc = "start",
                                    !.from = IF StartEarliest THEN OldestOffset ELSE NextOffset]
  <2>1. reader' = [reader EXCEPT ![r] = t] /\ group' = [group EXCEPT ![g] = groupFor(g)]
        /\ offsetFile' = offsetFile /\ delivered' = delivered /\ firstStart' = firstStart
    BY <1>8 DEF SubscribeBegin
  <2>2. t \in ReaderType /\ (t.pc \in {"deliver", "commit"} <=> t.batch # <<>>)
    <3>1. CASE groupFor(g).committed
      <4>1. t = [Idle EXCEPT !.pc = "poll"] BY <3>1
      <4> HIDE DEF t
      <4>2. QED BY <4>1, IdleTyped
    <3>2. CASE ~ groupFor(g).committed
      <4> DEFINE n == IF StartEarliest THEN OldestOffset ELSE NextOffset
      <4>1. t = [Idle EXCEPT !.pc = "start", !.from = n] BY <3>2
      <4>2. n \in Nat BY <1>3
      <4> HIDE DEF t, n
      <4>3. QED BY <4>1, <4>2, IdleTyped
    <3>3. QED BY <3>1, <3>2
  <2> HIDE DEF t
  <2>3. group' \in [Groups -> ObjectType] BY <1>1, <1>7, <2>1, GroupForTyped
  <2>4. BusTypes' BY <1>6, <1>7, <2>1, <2>2, <2>3
  <2>5. QED BY <1>4, <1>5, <2>4
<1>9. CASE SubscribeStart(r)
  <2>1. CASE group[g].committed /\ reader' = [reader EXCEPT ![r] = Idle]
             /\ UNCHANGED <<offsetFile, group, firstStart>>
    <3>1. delivered' = delivered BY <1>9 DEF SubscribeStart
    <3>2. BusTypes' BY <1>6, <1>7, <2>1, <3>1, IdleTyped
    <3>3. QED BY <1>4, <1>5, <3>2
  <2>2. CASE /\ ~ group[g].committed
             /\ offsetFile' = [offsetFile EXCEPT ![g] = [readable |-> TRUE, next |-> s.from]]
             /\ group' = [group EXCEPT ![g].next = s.from, ![g].committed = TRUE]
             /\ firstStart' = [firstStart EXCEPT ![g] = IF @ = {} THEN {s.from} ELSE @]
             /\ reader' = [reader EXCEPT ![r] = [Idle EXCEPT !.pc = "poll"]]
    <3>1. delivered' = delivered BY <1>9 DEF SubscribeStart
    <3>2. offsetFile' \in [Groups -> FileType] /\ group' \in [Groups -> ObjectType]
      BY <1>1, <1>2, <2>2, PositionSet
    <3>3. /\ reader' \in [Readers -> ReaderType]
          /\ \A q \in Readers : reader'[q].pc \in {"deliver", "commit"} <=> reader'[q].batch # <<>>
      BY <2>2, IdleTyped, ReaderSet
    <3>4. /\ firstStart' \in [Groups -> SUBSET Nat]
          /\ \A h \in Groups : firstStart'[h] = {} \/ \E x \in Nat : firstStart'[h] = {x}
      <4> DEFINE x == IF firstStart[g] = {} THEN {s.from} ELSE firstStart[g]
      <4>1. /\ firstStart \in [Groups -> SUBSET Nat]
            /\ \A h \in Groups : firstStart[h] = {} \/ \E n \in Nat : firstStart[h] = {n}
        BY DEF BusTypes
      <4>2. x \in SUBSET Nat /\ (x = {} \/ \E n \in Nat : x = {n}) BY <1>1, <1>2, <4>1
      <4>3. firstStart' = [firstStart EXCEPT ![g] = x] BY <1>1, <2>2
      <4> HIDE DEF x
      <4>4. QED BY <1>1, <4>1, <4>2, <4>3
    <3>5. BusTypes' BY <1>7, <3>1, <3>2, <3>3, <3>4 DEF BusTypes
    <3>6. QED BY <1>4, <1>5, <3>5
  <2>3. QED BY <1>9, <2>1, <2>2, Zenon DEF SubscribeStart
<1>10. CASE Poll(r)
  <2> DEFINE n == group[g].next
             t == [pc |-> "read", from |-> n, snap |-> segs, batch |-> <<>>]
  <2>1. /\ reader' = [reader EXCEPT ![r] = t]
        /\ UNCHANGED <<offsetFile, group, delivered, firstStart>>
    BY <1>10 DEF Poll
  <2>2. n \in Nat /\ <<>> \in Seq(Nat) BY <1>1, <1>7 DEF ObjectType
  <2> HIDE DEF n
  <2>3. t \in ReaderType /\ t.pc = "read" /\ t.batch = <<>> BY <1>3, <2>2 DEF ReaderType
  <2> HIDE DEF t
  <2>4. BusTypes' BY <1>6, <1>7, <2>1, <2>3
  <2>5. QED BY <1>4, <1>5, <2>4
<1>11. CASE Read(r)
  <2>1. /\ reader' = [reader EXCEPT ![r] = AfterRead(s)]
        /\ UNCHANGED <<offsetFile, group, delivered, firstStart>>
    BY <1>11 DEF Read, AfterRead
  <2>2. AfterRead(s) \in ReaderType /\ (AfterRead(s).pc \in {"deliver", "commit"} <=> AfterRead(s).batch # <<>>)
    BY <1>2, AfterReadIs
  <2>3. BusTypes' BY <1>6, <1>7, <2>1, <2>2
  <2>4. QED BY <1>4, <1>5, <2>3
<1>12. CASE Deliver(r)
  <2> DEFINE t == [s EXCEPT !.pc = "commit"]
             e == [id |-> Head(s.batch), off |-> s.from]
  <2>1. s.pc = "deliver" /\ s.batch # <<>> BY <1>2, <1>12 DEF Deliver
  <2>2. Head(s.batch) \in Nat BY <1>2, <2>1
  <2>3. e \in [id: Nat, off: Nat] BY <1>2, <2>2
  <2>4. /\ reader' = [reader EXCEPT ![r] = t]
        /\ delivered' = [delivered EXCEPT ![g] = delivered[g] \cup {e}]
        /\ UNCHANGED <<offsetFile, group, firstStart>>
    BY <1>1, <1>7, <1>12 DEF Deliver, BusTypes
  <2>5. t \in ReaderType /\ t.pc = "commit" /\ t.batch = s.batch BY <1>2 DEF ReaderType
  <2> HIDE DEF t, e
  <2>6. delivered' \in [Groups -> SUBSET [id: Nat, off: Nat]] BY <1>1, <1>7, <2>3, <2>4
  <2>7. BusTypes' BY <1>6, <1>7, <2>1, <2>4, <2>5, <2>6
  <2>8. QED BY <1>4, <1>5, <2>7
<1>13. CASE CommitStep(r)
  <2>1. s.pc = "commit" /\ s.batch # <<>> /\ NextAfter(s) \in Nat BY <1>2, <1>13 DEF CommitStep, NextAfter
  <2>2. delivered' = delivered /\ firstStart' = firstStart BY <1>13 DEF CommitStep
  <2>3. CASE reader' = [reader EXCEPT ![r] = [Idle EXCEPT !.pc = "failed"]] /\ UNCHANGED <<offsetFile, group>>
    <3>1. BusTypes' BY <1>6, <1>7, <2>2, <2>3, IdleTyped
    <3>2. QED BY <1>4, <1>5, <3>1
  <2>4. CASE Commit(g, NextAfter(s)) /\ reader' = [reader EXCEPT ![r] = AfterCommit(@)]
    <3>1. offsetFile' \in [Groups -> FileType] /\ group' \in [Groups -> ObjectType]
      BY <1>1, <1>7, <2>1, <2>4, CommitSets, PositionSet
    <3>2. /\ AfterCommit(s) \in ReaderType
          /\ AfterCommit(s).pc \in {"deliver", "commit"} <=> AfterCommit(s).batch # <<>>
      BY <1>2, <2>1, AfterCommitTyped
    <3>3. reader' = [reader EXCEPT ![r] = AfterCommit(s)] BY <2>4
    <3>4. BusTypes' BY <1>6, <1>7, <2>2, <3>1, <3>2, <3>3
    <3>5. QED BY <1>4, <1>5, <3>4
  <2>5. QED BY <1>13, <2>3, <2>4 DEF CommitStep
<1>14. CASE CommitFails(r)
  <2>1. NextAfter(s) \in Nat BY <1>2 DEF NextAfter
  <2>2. /\ reader' = [reader EXCEPT ![r] = [Idle EXCEPT !.pc = "failed"]]
        /\ UNCHANGED <<group, delivered, firstStart>>
        /\ offsetFile' \in {offsetFile, [offsetFile EXCEPT ![g] = [readable |-> TRUE, next |-> NextAfter(s)]]}
    BY <1>14 DEF CommitFails
  <2>3. offsetFile' \in [Groups -> FileType]
    <3> DEFINE f == [readable |-> TRUE, next |-> NextAfter(s)]
    <3>1. f \in FileType BY <1>1, <1>7, <2>1, PositionTyped
    <3>2. offsetFile' \in {offsetFile, [offsetFile EXCEPT ![g] = f]} BY <2>2
    <3> HIDE DEF f
    <3>3. QED BY <1>1, <1>7, <3>1, <3>2
  <2>4. BusTypes' BY <1>6, <1>7, <2>2, <2>3, IdleTyped
  <2>5. QED BY <1>4, <1>5, <2>4
<1>15. CASE Stop(r)
  <2>1. reader' = [reader EXCEPT ![r] = Idle] /\ UNCHANGED <<offsetFile, group, delivered, firstStart>>
    BY <1>15 DEF Stop
  <2>2. BusTypes' BY <1>6, <1>7, <2>1, IdleTyped
  <2>3. QED BY <1>4, <1>5, <2>2
<1>16. QED BY <1>8, <1>9, <1>10, <1>11, <1>12, <1>13, <1>14, <1>15 DEF ReaderStep

\* A step that leaves what the bus keeps alone, or drops what the process holds.
LEMMA BusTypesStep ==
    ASSUME IInv, BusTypes, Offline, [Next]_vars
    PROVE  BusTypes' /\ Offline'
<1>1. ASSUME UNCHANGED busVars PROVE BusTypes'
  BY <1>1 DEF busVars, BusTypes
<1>2. ASSUME ForgetMemory PROVE BusTypes' /\ Offline'
  <2>1. /\ group' = [g \in Groups |-> Unloaded] /\ reader' = [r \in Readers |-> Idle]
        /\ UNCHANGED <<offsetFile, delivered, firstStart>>
    BY <1>2 DEF ForgetMemory
  <2>2. Unloaded \in ObjectType BY DEF Unloaded, ObjectType
  <2>3. group' \in [Groups -> ObjectType] BY <2>1, <2>2
  <2>4. \A r \in Readers : reader'[r] = Idle BY <2>1
  <2>5. reader' \in [Readers -> ReaderType] BY <2>1, IdleTyped
  <2>6. \A r \in Readers : reader'[r].pc \in {"deliver", "commit"} <=> reader'[r].batch # <<>>
    BY <2>4, IdleTyped
  <2>7. BusTypes' BY <2>1, <2>3, <2>5, <2>6 DEF BusTypes
  <2>8. \A r \in Readers : reader'[r].pc = "off" BY <2>4, IdleTyped
  <2>9. Offline' BY <2>8 DEF Offline
  <2>10. QED BY <2>7, <2>9
<1>3. CASE Publish
  <2>1. UNCHANGED busVars /\ status' = status
    BY <1>3 DEF Publish, AppendOk, AppendShort
  <2>2. QED BY <1>1, <2>1 DEF Offline, busVars
<1>4. CASE SyncLoop
  <2>1. UNCHANGED busVars /\ status' = status BY <1>4 DEF SyncLoop, Sync
  <2>2. QED BY <1>1, <2>1 DEF Offline, busVars
<1>5. CASE ReclaimConsumed
  <2>1. status = "open" /\ status' = "open"
    BY <1>5 DEF ReclaimConsumed, Reclaim, ReclaimFails
  <2>2. /\ reader' = [r \in Readers |-> [reader[r] EXCEPT !.snap = Shared(@)]]
        /\ UNCHANGED <<offsetFile, group, delivered, firstStart>>
    BY <1>5 DEF ReclaimConsumed
  <2>3. ASSUME NEW r \in Readers
        PROVE  /\ reader'[r] \in ReaderType
               /\ reader'[r].pc \in {"deliver", "commit"} <=> reader'[r].batch # <<>>
    <3> DEFINE s == reader[r]
               t == Shared(s.snap)
    <3>1. s \in ReaderType /\ (s.pc \in {"deliver", "commit"} <=> s.batch # <<>>) BY DEF BusTypes
    <3>2. s.snap \in Seq(Segment) BY <3>1 DEF ReaderType
    <3>3. t \in Seq(Segment) BY <3>2, SharedTyped
    <3>4. reader'[r] = [s EXCEPT !.snap = t] BY <2>2
    <3> HIDE DEF s, t
    <3>5. reader'[r] \in ReaderType /\ reader'[r].pc = s.pc /\ reader'[r].batch = s.batch
      BY <3>1, <3>3, <3>4 DEF ReaderType
    <3>6. QED BY <3>1, <3>5
  <2>4. reader' \in [Readers -> ReaderType]
    <3>1. reader' = [r \in Readers |-> reader'[r]] BY <2>2
    <3>2. QED BY <2>3, <3>1
  <2>5. BusTypes' BY <2>2, <2>3, <2>4 DEF BusTypes
  <2>6. QED BY <2>1, <2>5 DEF Offline
<1>6. ASSUME NEW r \in Readers, SubscribeBegin(r) \/ ReaderStep(r) \/ CommitFails(r) \/ Stop(r)
      PROVE  BusTypes' /\ Offline'
  BY <1>6, ReaderTypesStep
<1>7. CASE Shutdown BY <1>2, <1>7 DEF Shutdown
<1>8. CASE Crash BY <1>2, <1>8 DEF Crash
<1>9. CASE Restart
  <2>1. UNCHANGED busVars /\ status' = "open" BY <1>9 DEF Restart, Open
  <2>2. QED BY <1>1, <2>1 DEF Offline
<1>10. ASSUME NEW g \in Groups, Rot(g) PROVE BusTypes' /\ Offline'
  <2>1. /\ offsetFile' = [offsetFile EXCEPT ![g] = NoFile]
        /\ UNCHANGED <<walVars, group, reader, delivered, firstStart>>
    BY <1>10 DEF Rot
  <2>2. NoFile \in FileType BY DEF NoFile, FileType
  <2>3. offsetFile' \in [Groups -> FileType] BY <2>1, <2>2 DEF BusTypes
  <2>4. BusTypes' BY <2>1, <2>3 DEF BusTypes
  <2>5. QED BY <2>1, <2>4 DEF Offline, walVars
<1>11. CASE UNCHANGED vars
  <2>1. UNCHANGED busVars /\ status' = status BY <1>11 DEF vars, walVars
  <2>2. QED BY <1>1, <2>1 DEF Offline, busVars
<1>12. QED BY <1>3, <1>4, <1>5, <1>6, <1>7, <1>8, <1>9, <1>10, <1>11 DEF Next

\* The first state.
LEMMA BusTypesInit == Init => BusTypes /\ Offline
<1> SUFFICES ASSUME Init PROVE BusTypes /\ Offline OBVIOUS
<1>1. NoFile \in FileType BY DEF NoFile, FileType
<1>2. Unloaded \in ObjectType BY DEF Unloaded, ObjectType
<1>3. \A r \in Readers : reader[r] = Idle BY DEF Init
<1>4. \A r \in Readers : reader[r].pc \in {"deliver", "commit"} <=> reader[r].batch # <<>>
  BY <1>3, IdleTyped
<1>5. BusTypes BY <1>1, <1>2, <1>4, IdleTyped DEF Init, BusTypes
<1>6. Offline BY <1>3, IdleTyped DEF Offline
<1>7. QED BY <1>5, <1>6

\* The type invariant follows.
LEMMA BusTypesImply == BusTypes => BusTypeOK
<1> SUFFICES ASSUME BusTypes PROVE BusTypeOK OBVIOUS
<1>1. /\ offsetFile \in [Groups -> [readable: BOOLEAN, next: Nat]]
      /\ group \in [Groups -> [loaded: BOOLEAN, next: Nat, committed: BOOLEAN]]
  BY DEF BusTypes, FileType, ObjectType
<1>2. \A r \in Readers :
        /\ reader[r].pc \in {"off", "start", "poll", "read", "deliver", "commit", "failed"}
        /\ reader[r].from \in Nat
        /\ reader[r].batch \in Seq(Nat)
        /\ reader[r].pc \in {"deliver", "commit"} <=> reader[r].batch # <<>>
  BY DEF BusTypes, ReaderType
<1>3. ASSUME NEW g \in Groups
      PROVE  /\ delivered[g] \subseteq [id: Nat, off: Nat]
             /\ firstStart[g] \subseteq Nat /\ Cardinality(firstStart[g]) <= 1
  <2>1. delivered[g] \subseteq [id: Nat, off: Nat] /\ firstStart[g] \subseteq Nat BY DEF BusTypes
  <2>2. firstStart[g] = {} \/ \E x \in Nat : firstStart[g] = {x} BY DEF BusTypes
  <2>3. Cardinality(firstStart[g]) \in {0, 1} BY <2>2, FS_EmptySet, FS_Singleton
  <2>4. QED BY <2>1, <2>3
<1>4. QED BY <1>1, <1>2, <1>3 DEF BusTypeOK

-----------------------------------------------------------------------------
(* Lists that go on *)

\* The state functions over the log's own list, before and after a step.
LEMMA SharedLists ==
    /\ \A ss : Shared(ss) = SharedIn(segs, ss)
    /\ OldestOffset = segs[1].base /\ OldestOffset' = segs'[1].base
    /\ NextOffset = nextOffset(lastOf(segs)) /\ NextOffset' = nextOffset(lastOf(segs'))
  BY DEF Shared, SharedIn, Current, CurrentIn, OldestOffset, NextOffset, active, lastOf

\* What a sound list is made of.
LEMMA ListIs ==
    ASSUME NEW ls, NEW w, LogOK(ls, w)
    PROVE  /\ Len(ls) \in Nat \ {0} /\ DOMAIN ls = 1..Len(ls) /\ ls \in Seq(Segment)
           /\ \A i \in 1..Len(ls) : /\ WellFormed(ls[i]) /\ ls[i] \in Segment
                                    /\ ls[i].base \in Nat /\ Len(ls[i].recs) \in Nat
                                    /\ nextOffset(ls[i]) = ls[i].base + Len(ls[i].recs)
<1>1. Len(ls) \in Nat \ {0} /\ DOMAIN ls = 1..Len(ls) /\ ls \in Seq(Segment) BY DEF LogOK
<1>2. \A i \in 1..Len(ls) : WellFormed(ls[i]) BY <1>1 DEF LogOK
<1>3. \A i \in 1..Len(ls) : ls[i] \in Segment BY <1>2 DEF WellFormed
<1>4. QED BY <1>1, <1>2, <1>3, SegmentOffsets

\* In a list without gaps the bases rise.
LEMMA BasesRise ==
    ASSUME NEW ls, NEW w, LogOK(ls, w), Chained(ls), NEW i \in 1..Len(ls), NEW j \in 1..Len(ls), i < j
    PROVE  ls[i].base < ls[j].base
<1>1. Len(ls) \in Nat \ {0} /\ DOMAIN ls = 1..Len(ls) BY ListIs
<1>2. /\ ls[i].base \in Nat /\ Len(ls[i].recs) \in Nat /\ ls[j].base \in Nat
      /\ nextOffset(ls[i]) = ls[i].base + Len(ls[i].recs)
  BY ListIs
<1>3. nextOffset(ls[i]) <= ls[j].base BY <1>1 DEF LogOK
<1>4. i \in 1..(Len(ls) - 1) BY <1>1
<1>5. Len(ls[i].recs) > 0 BY <1>4 DEF Chained
<1>6. QED BY <1>2, <1>3, <1>5

\* So a base names one segment.
LEMMA CurrentFound ==
    ASSUME NEW ls, NEW w, LogOK(ls, w), Chained(ls), NEW i \in 1..Len(ls), NEW s, ls[i].base = s.base
    PROVE  CurrentIn(ls, s) = ls[i]
<1>1. Len(ls) \in Nat \ {0} /\ DOMAIN ls = 1..Len(ls) BY ListIs
<1> DEFINE c == CHOOSE j \in DOMAIN ls : ls[j].base = s.base
<1>2. CurrentIn(ls, s) = ls[c] BY <1>1 DEF CurrentIn
<1>3. c \in 1..Len(ls) /\ ls[c].base = s.base BY <1>1
<1> HIDE DEF c
<1>4. ~ (c < i) /\ ~ (i < c)
  <2>1. ASSUME c < i PROVE FALSE
    <3>1. ls[c].base < ls[i].base BY <1>3, <2>1, BasesRise
    <3>2. ls[c].base \in Nat BY <1>3, ListIs
    <3>3. QED BY <1>3, <3>1, <3>2
  <2>2. ASSUME i < c PROVE FALSE
    <3>1. ls[i].base < ls[c].base BY <1>3, <2>2, BasesRise
    <3>2. ls[c].base \in Nat BY <1>3, ListIs
    <3>3. QED BY <1>3, <3>1, <3>2
  <2>3. QED BY <2>1, <2>2
<1>5. c = i BY <1>1, <1>3, <1>4
<1>6. QED BY <1>2, <1>5

\* One that is gone is as it was when it went.
LEMMA CurrentGone ==
    ASSUME NEW ls, NEW w, LogOK(ls, w), NEW s, \A i \in 1..Len(ls) : ls[i].base # s.base
    PROVE  CurrentIn(ls, s) = [s EXCEPT !.open = FALSE]
<1>1. DOMAIN ls = 1..Len(ls) BY ListIs
<1>2. QED BY <1>1 DEF CurrentIn

\* A closed handle changes nothing else.
LEMMA HandleClosed ==
    ASSUME NEW s \in Segment
    PROVE  /\ [s EXCEPT !.open = FALSE] \in Segment
           /\ [s EXCEPT !.open = FALSE].base = s.base /\ [s EXCEPT !.open = FALSE].recs = s.recs
           /\ WellFormed(s) => WellFormed([s EXCEPT !.open = FALSE])
  BY DEF Segment, WellFormed

\* The segments of a copy, one by one.
LEMMA SharedInIs ==
    ASSUME NEW ls, NEW w, LogOK(ls, w), NEW ss \in Seq(Segment)
    PROVE  /\ SharedIn(ls, ss) \in Seq(Segment) /\ Len(SharedIn(ls, ss)) = Len(ss)
           /\ Len(ss) \in Nat
           /\ \A k \in 1..Len(ss) : /\ SharedIn(ls, ss)[k] = CurrentIn(ls, ss[k])
                                    /\ CurrentIn(ls, ss[k]).base = ss[k].base
                                    /\ ss[k] \in Segment /\ ss[k].base \in Nat
<1>1. DOMAIN ss = 1..Len(ss) /\ Len(ss) \in Nat /\ \A k \in 1..Len(ss) : ss[k] \in Segment OBVIOUS
<1>2. DOMAIN ls = 1..Len(ls) /\ \A i \in 1..Len(ls) : ls[i] \in Segment BY ListIs
<1>3. ASSUME NEW s \in Segment PROVE CurrentIn(ls, s) \in Segment /\ CurrentIn(ls, s).base = s.base
  <2>1. CASE \E i \in DOMAIN ls : ls[i].base = s.base
    <3> DEFINE c == CHOOSE j \in DOMAIN ls : ls[j].base = s.base
    <3>1. CurrentIn(ls, s) = ls[c] BY <2>1 DEF CurrentIn
    <3>2. c \in 1..Len(ls) /\ ls[c].base = s.base BY <1>2, <2>1
    <3> HIDE DEF c
    <3>3. QED BY <1>2, <3>1, <3>2
  <2>2. CASE ~ \E i \in DOMAIN ls : ls[i].base = s.base
    <3>1. CurrentIn(ls, s) = [s EXCEPT !.open = FALSE] BY <2>2 DEF CurrentIn
    <3>2. QED BY <3>1, HandleClosed
  <2>3. QED BY <2>1, <2>2
<1> DEFINE C(k) == CurrentIn(ls, ss[k])
<1>4. SharedIn(ls, ss) = [k \in 1..Len(ss) |-> C(k)] BY <1>1 DEF SharedIn
<1>5. \A k \in 1..Len(ss) : C(k) \in Segment /\ C(k).base = ss[k].base BY <1>1, <1>3
<1> HIDE DEF C
<1>6. SharedIn(ls, ss) \in Seq(Segment) /\ Len(SharedIn(ls, ss)) = Len(ss)
      /\ \A k \in 1..Len(ss) : SharedIn(ls, ss)[k] = C(k)
  BY <1>1, <1>4, <1>5
<1>7. \A k \in 1..Len(ss) : ss[k].base \in Nat BY <1>1, SegmentOffsets
<1>8. QED BY <1>1, <1>5, <1>6, <1>7 DEF C

\* A list stays sound and without gaps when only its last segment gets more records.
LEMMA ListKept ==
    ASSUME NEW cc, NEW w, LogOK(cc, w), Chained(cc), NEW v, w \subseteq v, NEW dd \in Seq(Segment),
           Len(dd) = Len(cc),
           \A k \in 1..Len(cc) : WellFormed(dd[k]) /\ dd[k].base = cc[k].base,
           \A k \in 1..(Len(cc) - 1) : dd[k].recs = cc[k].recs,
           \A j \in 1..Len(dd[Len(cc)].recs) :
               [id |-> dd[Len(cc)].recs[j], off |-> dd[Len(cc)].base + j - 1] \in v
    PROVE  LogOK(dd, v) /\ Chained(dd)
<1>1. /\ Len(cc) \in Nat \ {0} /\ DOMAIN cc = 1..Len(cc)
      /\ \A i \in 1..Len(cc) : nextOffset(cc[i]) = cc[i].base + Len(cc[i].recs)
  BY ListIs
<1>2. DOMAIN dd = 1..Len(cc) /\ dd # <<>> BY <1>1
<1>3. \A k \in 1..(Len(cc) - 1) : k \in 1..Len(cc) /\ k + 1 \in 1..Len(cc) BY <1>1
<1>4. \A k \in 1..(Len(cc) - 1) : nextOffset(dd[k]) = nextOffset(cc[k]) /\ Len(dd[k].recs) = Len(cc[k].recs)
  BY <1>3 DEF nextOffset
<1>5. ASSUME NEW i \in DOMAIN dd, NEW j \in DOMAIN dd, i < j PROVE nextOffset(dd[i]) <= dd[j].base
  <2>1. i \in 1..(Len(cc) - 1) /\ i \in DOMAIN cc /\ j \in DOMAIN cc BY <1>1, <1>2, <1>5
  <2>2. nextOffset(cc[i]) <= cc[j].base BY <1>5, <2>1 DEF LogOK
  <2>3. QED BY <1>1, <1>4, <2>1, <2>2
<1>6. ASSUME NEW i \in DOMAIN dd, NEW j \in 1..Len(dd[i].recs)
      PROVE  [id |-> dd[i].recs[j], off |-> dd[i].base + j - 1] \in v
  <2>1. CASE i = Len(cc)
    <3>1. j \in 1..Len(dd[Len(cc)].recs) BY <2>1
    <3>2. QED BY <2>1, <3>1
  <2>2. CASE i # Len(cc)
    <3>1. i \in 1..(Len(cc) - 1) /\ i \in DOMAIN cc BY <1>1, <1>2, <2>2
    <3>2. dd[i].recs = cc[i].recs /\ dd[i].base = cc[i].base BY <1>1, <3>1
    <3>3. [id |-> cc[i].recs[j], off |-> cc[i].base + j - 1] \in w BY <3>1, <3>2 DEF LogOK
    <3>4. QED BY <3>2, <3>3
  <2>3. QED BY <2>1, <2>2
<1>7. LogOK(dd, v) BY <1>1, <1>2, <1>5, <1>6 DEF LogOK
<1>8. ASSUME NEW i \in 1..(Len(dd) - 1) PROVE dd[i + 1].base = nextOffset(dd[i]) /\ Len(dd[i].recs) > 0
  <2>1. i \in 1..(Len(cc) - 1) /\ i + 1 \in 1..Len(cc) BY <1>3
  <2>2. cc[i + 1].base = nextOffset(cc[i]) /\ Len(cc[i].recs) > 0 BY <2>1 DEF Chained
  <2>3. QED BY <1>4, <2>1, <2>2
<1>9. QED BY <1>7, <1>8 DEF Chained

\* The log's list goes on from ls to ms: no segment goes, and only the last one of
\* ls may get records.
Moves(ls, ms) ==
    /\ Len(ls) <= Len(ms)
    /\ \A i \in 1..Len(ls) : ms[i].base = ls[i].base
    /\ \A i \in 1..(Len(ls) - 1) : ms[i].recs = ls[i].recs

\* Then a copy stays good.
LEMMA SnapGrows ==
    ASSUME NEW ls, NEW w, LogOK(ls, w), Chained(ls), NEW ms, NEW v, LogOK(ms, v), Chained(ms),
           w \subseteq v, Moves(ls, ms), NEW ss \in Seq(Segment), NEW from, SnapOK(ls, w, ss, from)
    PROVE  SnapOK(ms, v, ss, from)
<1> DEFINE cc == SharedIn(ls, ss)
           dd == SharedIn(ms, ss)
<1>1. /\ cc \in Seq(Segment) /\ Len(cc) = Len(ss) /\ Len(ss) \in Nat
      /\ \A k \in 1..Len(ss) : /\ cc[k] = CurrentIn(ls, ss[k]) /\ CurrentIn(ls, ss[k]).base = ss[k].base
                               /\ ss[k] \in Segment /\ ss[k].base \in Nat
  BY SharedInIs
<1>2. /\ dd \in Seq(Segment) /\ Len(dd) = Len(ss)
      /\ \A k \in 1..Len(ss) : dd[k] = CurrentIn(ms, ss[k]) /\ CurrentIn(ms, ss[k]).base = ss[k].base
  BY SharedInIs
<1>3. LogOK(cc, w) /\ Chained(cc) /\ \A k \in 1..Len(ss) : ss[k].base <= lastOf(ls).base BY DEF SnapOK
<1>4. Len(ls) \in Nat \ {0} /\ Len(ms) \in Nat \ {0} /\ Len(ls) \in 1..Len(ls) BY ListIs
<1>5. Len(ls) <= Len(ms) /\ \A i \in 1..Len(ls) : i \in 1..Len(ms) BY <1>4 DEF Moves
<1>6. lastOf(ls).base \in Nat /\ lastOf(ms).base \in Nat /\ ms[Len(ls)].base = lastOf(ls).base
  BY <1>4, ListIs DEF lastOf, Moves
<1> HIDE DEF cc, dd
<1>7. ASSUME NEW k \in 1..Len(ss)
      PROVE  /\ WellFormed(dd[k]) /\ dd[k].base = cc[k].base
             /\ k # Len(ss) => dd[k].recs = cc[k].recs
             /\ \A j \in 1..Len(dd[k].recs) : [id |-> dd[k].recs[j], off |-> dd[k].base + j - 1] \in v
  <2>1. dd[k].base = cc[k].base BY <1>1, <1>2
  <2>2. CASE \E i \in 1..Len(ls) : ls[i].base = ss[k].base
    <3>1. PICK i \in 1..Len(ls) : ls[i].base = ss[k].base BY <2>2
    <3>2. cc[k] = ls[i] BY <1>1, <3>1, CurrentFound
    <3>3. i \in 1..Len(ms) /\ ms[i].base = ss[k].base BY <1>5, <3>1 DEF Moves
    <3>4. dd[k] = ms[i] BY <1>2, <3>3, CurrentFound
    <3>5. i \in DOMAIN ms BY <3>3, ListIs
    <3>6. WellFormed(ms[i]) /\ \A j \in 1..Len(ms[i].recs) : [id |-> ms[i].recs[j], off |-> ms[i].base + j - 1] \in v
      BY <3>5 DEF LogOK
    <3>7. k # Len(ss) => ms[i].recs = ls[i].recs
      <4>1. SUFFICES ASSUME k # Len(ss) PROVE ms[i].recs = ls[i].recs OBVIOUS
      <4>2. k \in 1..Len(cc) /\ k + 1 \in 1..Len(cc) /\ k < k + 1 BY <1>1, <4>1
      <4>3. cc[k].base < cc[k + 1].base BY <1>3, <4>2, BasesRise
      <4>4. cc[k + 1].base <= lastOf(ls).base /\ cc[k + 1].base \in Nat BY <1>1, <1>3, <4>2
      <4>5. ls[i].base \in Nat BY ListIs
      <4>6. i # Len(ls) BY <1>6, <3>2, <4>3, <4>4, <4>5 DEF lastOf
      <4>7. i \in 1..(Len(ls) - 1) BY <1>4, <4>6
      <4>8. QED BY <4>7 DEF Moves
    <3>8. QED BY <2>1, <3>2, <3>4, <3>6, <3>7
  <2>3. CASE \A i \in 1..Len(ls) : ls[i].base # ss[k].base
    <3>9. CurrentIn(ls, ss[k]) = [ss[k] EXCEPT !.open = FALSE] BY <2>3, CurrentGone, Zenon
    <3>1. cc[k] = [ss[k] EXCEPT !.open = FALSE] BY <1>1, <3>9
    <3>2. \A i \in 1..Len(ms) : ms[i].base # ss[k].base
      <4>1. SUFFICES ASSUME NEW i \in 1..Len(ms), ms[i].base = ss[k].base PROVE FALSE OBVIOUS
      <4>2. CASE i <= Len(ls)
        <5>1. i \in 1..Len(ls) BY <1>4, <4>2
        <5>2. QED BY <2>3, <4>1, <5>1 DEF Moves
      <4>3. CASE i > Len(ls)
        <5>1. Len(ls) \in 1..Len(ms) BY <1>4, <1>5
        <5>2. ms[Len(ls)].base < ms[i].base BY <4>3, <5>1, BasesRise
        <5>3. QED BY <1>1, <1>3, <1>6, <4>1, <5>2
      <4>4. QED BY <1>4, <4>2, <4>3
    <3>0. CurrentIn(ms, ss[k]) = [ss[k] EXCEPT !.open = FALSE] BY <3>2, CurrentGone, Zenon
    <3>3. dd[k] = [ss[k] EXCEPT !.open = FALSE] BY <1>2, <3>0
    <3>4. dd[k] = cc[k] BY <3>1, <3>3
    <3>5. k \in DOMAIN cc BY <1>1
    <3>6. WellFormed(cc[k]) /\ \A j \in 1..Len(cc[k].recs) : [id |-> cc[k].recs[j], off |-> cc[k].base + j - 1] \in w
      BY <1>3, <3>5 DEF LogOK
    <3>7. QED BY <3>4, <3>6
  <2>4. QED BY <2>2, <2>3
<1>8. Len(cc) \in 1..Len(ss) BY <1>1, <1>3, ListIs
<1>9. \A k \in 1..(Len(cc) - 1) : k \in 1..Len(ss) /\ k # Len(ss) BY <1>1
<1>10. LogOK(dd, v) /\ Chained(dd)
  <2>1. \A k \in 1..Len(cc) : WellFormed(dd[k]) /\ dd[k].base = cc[k].base BY <1>1, <1>7
  <2>2. \A k \in 1..(Len(cc) - 1) : dd[k].recs = cc[k].recs BY <1>7, <1>9
  <2>3. \A j \in 1..Len(dd[Len(cc)].recs) :
            [id |-> dd[Len(cc)].recs[j], off |-> dd[Len(cc)].base + j - 1] \in v
    BY <1>7, <1>8
  <2>4. Len(dd) = Len(cc) BY <1>1, <1>2
  <2>5. QED BY <1>2, <1>3, <2>1, <2>2, <2>3, <2>4, ListKept
<1>11. lastOf(ls).base <= lastOf(ms).base
  <2>1. CASE Len(ls) = Len(ms) BY <1>6, <2>1 DEF lastOf
  <2>2. CASE Len(ls) < Len(ms)
    <3>1. Len(ls) \in 1..Len(ms) /\ Len(ms) \in 1..Len(ms) BY <1>4, <1>5
    <3>2. ms[Len(ls)].base < ms[Len(ms)].base BY <2>2, <3>1, BasesRise
    <3>3. QED BY <1>6, <3>2 DEF lastOf
  <2>3. QED BY <1>4, <1>5, <2>1, <2>2
<1>12. \A k \in 1..Len(ss) : ss[k].base <= lastOf(ms).base BY <1>1, <1>3, <1>6, <1>11
<1>13. ss[1].base <= from BY DEF SnapOK
<1>14. QED BY <1>10, <1>12, <1>13 DEF SnapOK, dd

\* A copy whose first segments are deleted, and with it the log's, stays good: each
\* segment keeps the records it has by then.
LEMMA SnapReclaimed ==
    ASSUME NEW ls, NEW w, LogOK(ls, w), Chained(ls), NEW ms, LogOK(ms, w), Chained(ms),
           \A j \in 1..Len(ms) : \E i \in 1..Len(ls) : ms[j].base = ls[i].base /\ ms[j].recs = ls[i].recs,
           lastOf(ms).base = lastOf(ls).base,
           NEW ss \in Seq(Segment), NEW from, SnapOK(ls, w, ss, from)
    PROVE  SnapOK(ms, w, SharedIn(ls, ss), from)
<1> DEFINE cc == SharedIn(ls, ss)
           dd == SharedIn(ms, cc)
<1>1. /\ cc \in Seq(Segment) /\ Len(cc) = Len(ss) /\ Len(ss) \in Nat
      /\ \A k \in 1..Len(ss) : cc[k] = CurrentIn(ls, ss[k]) /\ CurrentIn(ls, ss[k]).base = ss[k].base
  BY SharedInIs
<1>2. /\ dd \in Seq(Segment) /\ Len(dd) = Len(cc)
      /\ \A k \in 1..Len(cc) : /\ dd[k] = CurrentIn(ms, cc[k]) /\ CurrentIn(ms, cc[k]).base = cc[k].base
                               /\ cc[k] \in Segment
  BY <1>1, SharedInIs
<1>3. /\ LogOK(cc, w) /\ Chained(cc) /\ ss[1].base <= from
      /\ \A k \in 1..Len(ss) : ss[k].base <= lastOf(ls).base
  BY DEF SnapOK
<1>4. Len(cc) \in Nat \ {0} /\ DOMAIN cc = 1..Len(cc) BY <1>3, ListIs
<1> HIDE DEF cc, dd
<1>5. ASSUME NEW k \in 1..Len(cc)
      PROVE  WellFormed(dd[k]) /\ dd[k].base = cc[k].base /\ dd[k].recs = cc[k].recs
  <2>1. CASE \E j \in 1..Len(ms) : ms[j].base = cc[k].base
    <3>1. PICK j \in 1..Len(ms) : ms[j].base = cc[k].base BY <2>1
    <3>2. dd[k] = ms[j] BY <1>2, <3>1, CurrentFound
    <3>3. PICK i \in 1..Len(ls) : ms[j].base = ls[i].base /\ ms[j].recs = ls[i].recs OBVIOUS
    <3>4. ls[i].base = ss[k].base BY <1>1, <3>1, <3>3
    <3>5. cc[k] = ls[i] BY <1>1, <3>4, CurrentFound
    <3>6. WellFormed(ms[j]) BY ListIs
    <3>7. QED BY <3>2, <3>3, <3>5, <3>6
  <2>2. CASE \A j \in 1..Len(ms) : ms[j].base # cc[k].base
    <3>0. CurrentIn(ms, cc[k]) = [cc[k] EXCEPT !.open = FALSE] BY <2>2, CurrentGone, Zenon
    <3>1. dd[k] = [cc[k] EXCEPT !.open = FALSE] BY <1>2, <3>0
    <3>2. WellFormed(cc[k]) BY <1>3, <1>4 DEF LogOK
    <3>3. QED BY <1>2, <3>1, <3>2, HandleClosed
  <2>3. QED BY <2>1, <2>2
<1>6. LogOK(dd, w) /\ Chained(dd)
  <2>1. \A k \in 1..(Len(cc) - 1) : dd[k].recs = cc[k].recs BY <1>4, <1>5
  <2>2. Len(cc) \in 1..Len(cc) BY <1>4
  <2>3. dd[Len(cc)].recs = cc[Len(cc)].recs /\ dd[Len(cc)].base = cc[Len(cc)].base BY <1>5, <2>2
  <2>4. \A j \in 1..Len(cc[Len(cc)].recs) :
            [id |-> cc[Len(cc)].recs[j], off |-> cc[Len(cc)].base + j - 1] \in w
    BY <1>3, <1>4, <2>2 DEF LogOK
  <2>5. \A j \in 1..Len(dd[Len(cc)].recs) :
            [id |-> dd[Len(cc)].recs[j], off |-> dd[Len(cc)].base + j - 1] \in w
    BY <2>3, <2>4
  <2>6. \A k \in 1..Len(cc) : WellFormed(dd[k]) /\ dd[k].base = cc[k].base BY <1>5
  <2>7. w \subseteq w OBVIOUS
  <2>8. QED BY <1>2, <1>3, <2>1, <2>5, <2>6, <2>7, ListKept
<1>7. cc[1].base <= from /\ \A k \in 1..Len(cc) : cc[k].base <= lastOf(ms).base
  <2>1. 1 \in 1..Len(ss) BY <1>1, <1>4
  <2>2. QED BY <1>1, <1>3, <2>1
<1>8. QED BY <1>6, <1>7 DEF SnapOK, cc, dd

\* A copy just taken is the list itself.
LEMMA SnapTaken ==
    ASSUME NEW ls, NEW w, LogOK(ls, w), Chained(ls), NEW from, ls[1].base <= from
    PROVE  SnapOK(ls, w, ls, from)
<1>1. Len(ls) \in Nat \ {0} /\ DOMAIN ls = 1..Len(ls) /\ ls \in Seq(Segment) BY ListIs
<1>2. \A k \in 1..Len(ls) : CurrentIn(ls, ls[k]) = ls[k] BY CurrentFound
<1>3. SharedIn(ls, ls) = ls
  <2>1. SharedIn(ls, ls) = [k \in 1..Len(ls) |-> ls[k]] BY <1>1, <1>2 DEF SharedIn
  <2>2. QED BY <1>1, <2>1
<1>4. ASSUME NEW k \in 1..Len(ls) PROVE ls[k].base <= lastOf(ls).base
  <2>1. Len(ls) \in 1..Len(ls) BY <1>1
  <2>2. ls[k].base \in Nat /\ ls[Len(ls)].base \in Nat BY <2>1, ListIs
  <2>3. k < Len(ls) => ls[k].base < ls[Len(ls)].base BY <2>1, BasesRise
  <2>4. QED BY <1>1, <2>2, <2>3 DEF lastOf
<1>5. QED BY <1>3, <1>4 DEF SnapOK

\* Between w with the next offset hi and v with ho, nothing was written or one
\* record at hi.
Added(w, hi, v, ho) ==
    \/ v = w /\ ho = hi
    \/ \E n \in Nat : v = w \cup {[id |-> n, off |-> hi]} /\ ho = hi + 1

\* From ls, with the records w written, to ms and v: the front stays, and at most a
\* record at the next offset is added.
Onward(ls, w, ms, v) ==
    /\ LogOK(ms, v) /\ Chained(ms) /\ Moves(ls, ms)
    /\ ms[1].base = ls[1].base
    /\ Added(w, nextOffset(lastOf(ls)), v, nextOffset(lastOf(ms)))

\* Indices before the last.
LEMMA BeforeLast ==
    ASSUME NEW n \in Nat, NEW i \in 1..n
    PROVE  /\ i \in 1..(n - 1) <=> i # n
           /\ i # n => i + 1 \in 1..n
  OBVIOUS

LEMMA BeforeLastIn ==
    ASSUME NEW n \in Nat, NEW i \in 1..(n - 1)
    PROVE  i \in 1..n
  OBVIOUS

\* A new version of the last segment.
LEMMA LastReplaced ==
    ASSUME NEW ls, NEW w, LogOK(ls, w), Chained(ls), NEW t \in Segment, t.base = lastOf(ls).base
    PROVE  LET ms == [ls EXCEPT ![Len(ls)] = t]
           IN  /\ Moves(ls, ms) /\ Chained(ms) /\ ms[1].base = ls[1].base
               /\ lastOf(ms) = t /\ Len(ms) = Len(ls)
<1> DEFINE ms == [ls EXCEPT ![Len(ls)] = t]
<1>1. Len(ls) \in Nat \ {0} /\ DOMAIN ls = 1..Len(ls) /\ ls \in Seq(Segment) BY ListIs
<1>2. Len(ls) \in 1..Len(ls) /\ 1 \in 1..Len(ls) BY <1>1
<1>3. /\ ms \in Seq(Segment) /\ Len(ms) = Len(ls) /\ ms[Len(ls)] = t
      /\ \A i \in 1..Len(ls) : i # Len(ls) => ms[i] = ls[i]
  BY <1>1, <1>2
<1> HIDE DEF ms
<1>4. \A i \in 1..Len(ls) : ms[i].base = ls[i].base BY <1>2, <1>3 DEF lastOf
<1>5. ASSUME NEW i \in 1..(Len(ls) - 1) PROVE i \in 1..Len(ls) /\ i # Len(ls) /\ i + 1 \in 1..Len(ls)
  <2>1. i \in 1..Len(ls) BY <1>1, BeforeLastIn
  <2>2. QED BY <1>1, <2>1, BeforeLast
<1>6. \A i \in 1..(Len(ls) - 1) : ms[i] = ls[i] BY <1>3, <1>5
<1>7. Moves(ls, ms)
  <2>0. Len(ls) <= Len(ls) BY <1>1
  <2>1. Len(ls) <= Len(ms) BY <1>3, <2>0, Zenon
  <2>2. \A i \in 1..(Len(ls) - 1) : ms[i].recs = ls[i].recs BY <1>6
  <2>3. QED BY <1>4, <2>1, <2>2, Zenon DEF Moves
<1>8. Chained(ms)
  <2>1. SUFFICES ASSUME NEW i \in 1..(Len(ms) - 1)
                 PROVE  ms[i + 1].base = nextOffset(ms[i]) /\ Len(ms[i].recs) > 0
    BY DEF Chained
  <2>2. i \in 1..(Len(ls) - 1) BY <1>3
  <2>3. ls[i + 1].base = nextOffset(ls[i]) /\ Len(ls[i].recs) > 0 BY <2>2 DEF Chained
  <2>4. QED BY <1>4, <1>5, <1>6, <2>2, <2>3
<1>9. QED BY <1>2, <1>3, <1>4, <1>7, <1>8 DEF lastOf, ms

\* Rotation.
LEMMA RotatedGoes ==
    ASSUME IInv, Chained(segs)
    PROVE  Onward(segs, written, Rotated, written)
<1>1. LogOK(segs, written) /\ LogOK(Rotated, written) BY RotatedOK DEF IInv
<1>2. nextOffset(lastOf(Rotated)) = nextOffset(lastOf(segs)) BY RotatedReads, SharedLists
<1>3. Len(segs) \in Nat \ {0} /\ DOMAIN segs = 1..Len(segs) /\ segs \in Seq(Segment) BY <1>1, ListIs
<1>4. Len(segs) \in 1..Len(segs) BY <1>3
<1>5. CASE ~ MustRotate
  <2>1. Rotated = segs BY <1>5 DEF Rotated
  <2>2. Moves(segs, segs) BY <1>3 DEF Moves
  <2>3. QED BY <1>1, <2>1, <2>2 DEF Onward, Added
<1>6. CASE MustRotate
  <2> DEFINE s == lastOf(segs)
             t == SyncSegment(s)
             ms == [segs EXCEPT ![Len(segs)] = t]
             n == NewSegment(NextOffset)
  <2>1. Rotated = Append(ms, n) BY <1>6 DEF Rotated, rotate, lastOf
  <2>2. WellFormed(s) /\ s \in Segment /\ Len(s.recs) \in Nat BY <1>1, <1>4, ListIs DEF lastOf
  <2>3. t \in Segment /\ t.base = s.base /\ t.recs = s.recs
    BY <2>2, SyncFields, SameRecords DEF WellFormed
  <2> HIDE DEF t
  <2>4. /\ Moves(segs, ms) /\ Chained(ms) /\ ms[1].base = segs[1].base
        /\ lastOf(ms) = t /\ Len(ms) = Len(segs)
    BY <1>1, <2>3, LastReplaced
  <2>5. ms \in Seq(Segment) BY <1>3, <2>3
  <2>6. n.base = NextOffset /\ n \in Segment
    <3>1. NextOffset \in Nat BY SegsAre
    <3>2. QED BY <3>1, NewSegmentWellFormed DEF NewSegment, WellFormed
  <2> HIDE DEF ms, n, s
  <2>7. /\ Rotated \in Seq(Segment) /\ Len(Rotated) = Len(segs) + 1
        /\ Rotated[Len(segs) + 1] = n /\ \A i \in 1..Len(segs) : Rotated[i] = ms[i]
    BY <2>1, <2>4, <2>5, <2>6
  <2>8. \A i \in 1..(Len(segs) - 1) : i \in 1..Len(segs) BY <1>3, BeforeLastIn
  <2>9. Moves(segs, Rotated)
    <3>1. Len(segs) <= Len(Rotated) BY <1>3, <2>7
    <3>2. \A i \in 1..Len(segs) : ms[i].base = segs[i].base BY <2>4 DEF Moves
    <3>3. \A i \in 1..Len(segs) : Rotated[i].base = segs[i].base BY <2>7, <3>2
    <3>4. \A i \in 1..(Len(segs) - 1) : ms[i].recs = segs[i].recs BY <2>4 DEF Moves
    <3>5. \A i \in 1..(Len(segs) - 1) : Rotated[i].recs = segs[i].recs BY <2>7, <2>8, <3>4
    <3>6. QED BY <3>1, <3>3, <3>5, Zenon DEF Moves
  <2>10. Rotated[1].base = segs[1].base
    <3>1. 1 \in 1..Len(segs) BY <1>3
    <3>2. QED BY <2>4, <2>7, <3>1
  <2>11. Chained(Rotated)
    <3>1. SUFFICES ASSUME NEW i \in 1..(Len(Rotated) - 1)
                   PROVE  Rotated[i + 1].base = nextOffset(Rotated[i]) /\ Len(Rotated[i].recs) > 0
      BY DEF Chained
    <3>2. i \in 1..Len(segs) BY <1>3, <2>7
    <3>3. CASE i = Len(segs)
      <4>1. Rotated[i] = t /\ Rotated[i + 1] = n BY <2>4, <2>7, <3>2, <3>3 DEF lastOf
      <4>2. nextOffset(t) = nextOffset(s) BY <2>3 DEF nextOffset
      <4>3. NextOffset = nextOffset(s) BY SharedLists DEF s
      <4>4. Len(s.recs) > 0 BY <1>6 DEF MustRotate, active, s, lastOf
      <4>5. QED BY <2>3, <2>6, <4>1, <4>2, <4>3, <4>4
    <3>4. CASE i # Len(segs)
      <4>0. i \in 1..(Len(segs) - 1) /\ i + 1 \in 1..Len(segs) BY <1>3, <3>2, <3>4, BeforeLast
      <4>1. i \in 1..(Len(ms) - 1) /\ i + 1 \in 1..Len(segs) BY <2>4, <4>0
      <4>2. ms[i + 1].base = nextOffset(ms[i]) /\ Len(ms[i].recs) > 0 BY <2>4, <4>1 DEF Chained
      <4>3. QED BY <2>7, <3>2, <4>1, <4>2
    <3>5. QED BY <3>3, <3>4
  <2>12. QED BY <1>1, <1>2, <2>9, <2>10, <2>11 DEF Onward, Added
<1>7. QED BY <1>5, <1>6

\* Two moves in a row.
LEMMA MovesTwice ==
    ASSUME NEW ls, NEW ms, NEW ns, Moves(ls, ms), Moves(ms, ns),
           Len(ls) \in Nat, Len(ms) \in Nat, Len(ns) \in Nat
    PROVE  Moves(ls, ns)
<1>1. Len(ls) <= Len(ms) /\ Len(ms) <= Len(ns) BY DEF Moves
<1>2. \A i \in 1..Len(ls) : i \in 1..Len(ms) BY <1>1
<1>3. \A i \in 1..(Len(ls) - 1) : i \in 1..(Len(ms) - 1) BY <1>1
<1>4. Len(ls) <= Len(ns) BY <1>1
<1>5. \A i \in 1..Len(ls) : ns[i].base = ls[i].base BY <1>2 DEF Moves
<1>6. \A i \in 1..(Len(ls) - 1) : ns[i].recs = ls[i].recs BY <1>3 DEF Moves
<1>7. QED BY <1>4, <1>5, <1>6 DEF Moves

\* After rotation, a record or a fragment in the last file.
LEMMA WriteGoes ==
    ASSUME IInv, Chained(segs)
    PROVE  /\ Onward(segs, written, TearLast(Rotated), written)
           /\ Onward(segs, written, AppendLast(Rotated, fresh), written \cup {Entry(Rotated, fresh)})
<1> DEFINE rs == Rotated
           s == lastOf(rs)
<1>1. Onward(segs, written, rs, written) BY RotatedGoes
<1>2. LogOK(segs, written) /\ LogOK(rs, written) /\ Chained(rs) /\ Moves(segs, rs) /\ rs[1].base = segs[1].base
  BY <1>1 DEF Onward, Added, IInv
<1>3. nextOffset(lastOf(rs)) = nextOffset(lastOf(segs)) BY RotatedReads, SharedLists
<1>4. fresh \in Nat BY FreshNat
<1> HIDE DEF rs
<1>5. Len(rs) \in Nat \ {0} /\ Len(segs) \in Nat \ {0} /\ rs \in Seq(Segment) BY <1>2, ListIs
<1>6. Len(rs) \in 1..Len(rs) /\ Len(rs) \in DOMAIN rs BY <1>5
<1>7. WellFormed(s) /\ s \in Segment BY <1>2, <1>6, ListIs DEF lastOf
<1>8. ASSUME NEW t, WellFormed(t), t.base = s.base, NEW ms, ms = [rs EXCEPT ![Len(rs)] = t]
      PROVE  Moves(segs, ms) /\ Chained(ms) /\ ms[1].base = segs[1].base
  <2>1. t \in Segment BY <1>8 DEF WellFormed
  <2>2. Moves(rs, ms) /\ Chained(ms) /\ ms[1].base = rs[1].base /\ Len(ms) = Len(rs)
    BY <1>2, <1>8, <2>1, LastReplaced
  <2>3. Moves(segs, ms) BY <1>2, <1>5, <2>2, MovesTwice
  <2>4. QED BY <1>2, <2>2, <2>3
<1>9. Onward(segs, written, TearLast(rs), written)
  <2> DEFINE t == TearTo(s)
             ms == TearLast(rs)
  <2>1. WellFormed(t) /\ t.base = s.base /\ Shrinks(t, s) BY <1>7, SameRecords DEF Shrinks
  <2>2. ms = [rs EXCEPT ![Len(rs)] = t] BY DEF TearLast, lastOf
  <2> HIDE DEF t
  <2>3. Moves(segs, ms) /\ Chained(ms) /\ ms[1].base = segs[1].base BY <1>8, <2>1, <2>2
  <2>4. LogOK(ms, written)
    <3>1. Shrinks(t, rs[Len(rs)]) BY <2>1 DEF lastOf
    <3>2. LogOK([rs EXCEPT ![Len(rs)] = t], written) BY <1>2, <1>6, <3>1, ShrinkOne
    <3>3. QED BY <2>2, <3>2
  <2>5. nextOffset(lastOf(ms)) = nextOffset(lastOf(segs)) BY <1>2, <1>3, TearReads
  <2>6. QED BY <2>3, <2>4, <2>5 DEF Onward, Added
<1>10. Onward(segs, written, AppendLast(rs, fresh), written \cup {Entry(rs, fresh)})
  <2> DEFINE t == AppendTo(s, fresh)
             ms == AppendLast(rs, fresh)
             v == written \cup {Entry(rs, fresh)}
  <2>1. WellFormed(t) /\ t.base = s.base BY <1>4, <1>7, AppendToRecords
  <2>2. ms = [rs EXCEPT ![Len(rs)] = t] BY DEF AppendLast, lastOf
  <2>3. LogOK(ms, v) BY <1>2, <1>4, AppendLog
  <2>4. /\ nextOffset(lastOf(ms)) = nextOffset(lastOf(segs)) + 1
        /\ Entry(rs, fresh) = [id |-> fresh, off |-> nextOffset(lastOf(segs))]
    BY <1>2, <1>3, <1>4, ReadableAppend
  <2>5. v = written \cup {[id |-> fresh, off |-> nextOffset(lastOf(segs))]} BY <2>4
  <2> HIDE DEF t
  <2>6. Moves(segs, ms) /\ Chained(ms) /\ ms[1].base = segs[1].base BY <1>8, <2>1, <2>2
  <2> HIDE DEF ms, v
  <2>7. \E n \in Nat : /\ v = written \cup {[id |-> n, off |-> nextOffset(lastOf(segs))]}
                       /\ nextOffset(lastOf(ms)) = nextOffset(lastOf(segs)) + 1
    BY <1>4, <2>4, <2>5
  <2>8. Onward(segs, written, ms, v) BY <2>3, <2>6, <2>7 DEF Onward, Added
  <2>9. QED BY <2>8 DEF ms, v
<1>11. QED BY <1>9, <1>10 DEF rs

\* Wherever in Append the process dies.
LEMMA DyingGoes ==
    ASSUME IInv, Chained(segs), NEW d \in DyingStates
    PROVE  Onward(segs, written, d.files, d.written)
<1>1. /\ Onward(segs, written, Rotated, written)
      /\ Onward(segs, written, TearLast(Rotated), written)
      /\ Onward(segs, written, AppendLast(Rotated, fresh), written \cup {Entry(Rotated, fresh)})
  BY RotatedGoes, WriteGoes
<1>2. Onward(segs, written, segs, written)
  <2>1. Len(segs) \in Nat /\ Moves(segs, segs) BY SegsAre DEF Moves
  <2>2. QED BY <2>1 DEF Onward, Added, IInv
<1>3. \/ d = [files |-> segs, written |-> written]
      \/ d = [files |-> Rotated, written |-> written]
      \/ d = [files |-> TearLast(Rotated), written |-> written]
      \/ d = [files |-> AppendLast(Rotated, fresh), written |-> written \cup {Entry(Rotated, fresh)}]
  BY DEF DyingStates
<1>4. QED BY <1>1, <1>2, <1>3

\* Sync and Close.
LEMMA SyncGoes ==
    ASSUME IInv, Chained(segs), Sync
    PROVE  Onward(segs, written, segs', written')
<1> DEFINE s == lastOf(segs)
           t == SyncSegment(s)
<1>1. LogOK(segs, written) /\ written' = written BY DEF IInv, Sync
<1>2. segs' = [segs EXCEPT ![Len(segs)] = t] BY DEF Sync, lastOf
<1>3. Len(segs) \in 1..Len(segs) /\ Len(segs) \in DOMAIN segs BY SegsAre
<1>4. WellFormed(s) BY <1>1, <1>3, ListIs DEF lastOf
<1>5. t.base = s.base /\ t.recs = s.recs /\ Shrinks(t, s) BY <1>4, SameRecords
<1>6. t \in Segment BY <1>5 DEF Shrinks, WellFormed
<1> HIDE DEF t
<1>7. /\ Moves(segs, segs') /\ Chained(segs') /\ segs'[1].base = segs[1].base
      /\ lastOf(segs') = t
  BY <1>1, <1>2, <1>5, <1>6, LastReplaced
<1>8. LogOK(segs', written) BY <1>1, <1>2, <1>3, <1>5, ShrinkOne DEF lastOf
<1>9. nextOffset(lastOf(segs')) = nextOffset(lastOf(segs)) BY <1>5, <1>7 DEF nextOffset
<1>10. QED BY <1>1, <1>7, <1>8, <1>9 DEF Onward, Added

LEMMA CloseGoes ==
    ASSUME IInv, Chained(segs), Close, LogOK(segs', written')
    PROVE  Onward(segs, written, segs', written')
<1>1. LogOK(segs, written) /\ written' = written BY DEF IInv, Close
<1>2. segs' = [i \in DOMAIN segs |-> CloseSegment(segs[i])] BY DEF Close
<1>3. Len(segs) \in Nat \ {0} /\ DOMAIN segs = 1..Len(segs) /\ \A i \in 1..Len(segs) : WellFormed(segs[i])
  BY <1>1, ListIs
<1>4. Len(segs') = Len(segs)
  <2> DEFINE C(i) == CloseSegment(segs[i])
  <2>1. segs' = [i \in 1..Len(segs) |-> C(i)] BY <1>2, <1>3
  <2> HIDE DEF C
  <2>2. QED BY <1>3, <2>1
<1>5. ASSUME NEW i \in 1..Len(segs) PROVE segs'[i].base = segs[i].base /\ segs'[i].recs = segs[i].recs
  <2>1. segs'[i] = CloseSegment(segs[i]) /\ WellFormed(segs[i]) BY <1>2, <1>3
  <2>2. QED BY <2>1, SyncFields, SameRecords DEF Shrinks
<1>6. \A i \in 1..(Len(segs) - 1) : i \in 1..Len(segs) BY <1>3, BeforeLastIn
<1>7. Moves(segs, segs')
  <2>1. Len(segs) <= Len(segs) BY <1>3
  <2>2. Len(segs) <= Len(segs') BY <1>4, <2>1, Zenon
  <2>3. QED BY <1>5, <1>6, <2>2, Zenon DEF Moves
<1>8. Chained(segs')
  <2>1. SUFFICES ASSUME NEW i \in 1..(Len(segs') - 1)
                 PROVE  segs'[i + 1].base = nextOffset(segs'[i]) /\ Len(segs'[i].recs) > 0
    BY DEF Chained
  <2>2. i \in 1..(Len(segs) - 1) BY <1>4
  <2>3. i \in 1..Len(segs) /\ i + 1 \in 1..Len(segs) BY <1>3, <2>2, BeforeLast, BeforeLastIn
  <2>4. segs[i + 1].base = nextOffset(segs[i]) /\ Len(segs[i].recs) > 0 BY <2>2 DEF Chained
  <2>5. nextOffset(segs'[i]) = nextOffset(segs[i]) BY <1>5, <2>3 DEF nextOffset
  <2>6. QED BY <1>5, <2>3, <2>4, <2>5
<1>9. segs'[1].base = segs[1].base /\ nextOffset(lastOf(segs')) = nextOffset(lastOf(segs))
  <2>1. 1 \in 1..Len(segs) /\ Len(segs) \in 1..Len(segs) BY <1>3
  <2>2. QED BY <1>4, <1>5, <2>1 DEF nextOffset, lastOf
<1>10. QED BY <1>1, <1>7, <1>8, <1>9 DEF Onward, Added

\* Open on files with no torn fragment among their records: the records stay, and
\* at most an empty last segment goes.
LEMMA OpenKeeps ==
    ASSUME IInv, Chained(segs), AllSettled(segs, status), Open, LogOK(segs', written')
    PROVE  /\ Chained(segs') /\ segs'[1].base = segs[1].base
           /\ nextOffset(lastOf(segs')) = nextOffset(lastOf(segs)) /\ written' = written
<1> DEFINE l == Len(segs)
           rs == Recovered
<1>1. LogOK(segs, written) /\ written' = written BY DEF IInv, Open
<1>2. /\ l \in Nat \ {0} /\ DOMAIN segs = 1..l
      /\ \A i \in 1..l : /\ WellFormed(segs[i]) /\ segs[i].base \in Nat /\ Len(segs[i].recs) \in Nat
                         /\ segs[i].recs \in Seq(Nat)
  <2>1. /\ l \in Nat \ {0} /\ DOMAIN segs = 1..l
        /\ \A i \in 1..l : /\ WellFormed(segs[i]) /\ segs[i].base \in Nat /\ Len(segs[i].recs) \in Nat
                           /\ segs[i] \in Segment
    BY <1>1, ListIs
  <2>2. QED BY <2>1, SegmentOffsets
<1>3. ASSUME NEW i \in 1..l PROVE rs[i] = Recover(segs[i]) /\ rs[i].base = segs[i].base /\ rs[i].recs = segs[i].recs
  <2>1. rs[i] = Recover(segs[i]) BY <1>2 DEF Recovered
  <2>2. segs[i].whole = Len(segs[i].recs) BY <1>2 DEF AllSettled, Settled
  <2>3. Recover(segs[i]).base = segs[i].base BY <1>2, RecoverShrinks DEF Shrinks
  <2>4. Recover(segs[i]).recs = SubSeq(segs[i].recs, 1, segs[i].whole)
    BY <1>2 DEF Recover, WellFormed, Segment
  <2>5. SubSeq(segs[i].recs, 1, Len(segs[i].recs)) = segs[i].recs BY <1>2
  <2>6. QED BY <2>1, <2>2, <2>3, <2>4, <2>5
<1>4. PICK n \in 1..l : dropTrailingEmptyDuplicates(rs, n) /\ segs' = SubSeq(rs, 1, n)
  BY <1>2 DEF Open
<1>5. rs \in Seq(Segment) /\ Len(rs) = l
  <2>1. \A i \in 1..l : Recover(segs[i]) \in Segment BY <1>2, RecoverShrinks DEF Shrinks, WellFormed
  <2>2. rs = [i \in 1..l |-> Recover(segs[i])] BY <1>2 DEF Recovered
  <2> HIDE DEF rs
  <2>3. QED BY <1>2, <2>1, <2>2
<1> HIDE DEF rs, l
<1>6. n \in Nat /\ n >= 1 /\ n <= l BY <1>2
<1>7. Len(segs') = n /\ \A i \in 1..n : segs'[i] = rs[i] /\ i \in 1..l
  <2>1. Len(SubSeq(rs, 1, n)) = n /\ \A i \in 1..n : SubSeq(rs, 1, n)[i] = rs[i] BY <1>2, <1>5, <1>6
  <2>2. \A i \in 1..n : i \in 1..l BY <1>2, <1>6
  <2>3. QED BY <1>4, <2>1, <2>2
<1>8. \A i \in 1..n : segs'[i].base = segs[i].base /\ segs'[i].recs = segs[i].recs BY <1>3, <1>7
<1>9. Chained(segs')
  <2>1. SUFFICES ASSUME NEW i \in 1..(Len(segs') - 1)
                 PROVE  segs'[i + 1].base = nextOffset(segs'[i]) /\ Len(segs'[i].recs) > 0
    BY DEF Chained
  <2>2. i \in 1..(n - 1) BY <1>7
  <2>3. i \in 1..n /\ i + 1 \in 1..n BY <1>6, <2>2, BeforeLast, BeforeLastIn
  <2>4. i \in 1..(l - 1) BY <1>2, <1>6, <2>2
  <2>5. segs[i + 1].base = nextOffset(segs[i]) /\ Len(segs[i].recs) > 0 BY <2>4 DEF Chained, l
  <2>6. nextOffset(segs'[i]) = nextOffset(segs[i]) BY <1>8, <2>3 DEF nextOffset
  <2>7. QED BY <1>8, <2>3, <2>5, <2>6
<1>10. segs'[1].base = segs[1].base
  <2>1. 1 \in 1..n BY <1>6
  <2>2. QED BY <1>8, <2>1
<1>11. nextOffset(lastOf(segs')) = nextOffset(segs[n])
  <2>1. n \in 1..n BY <1>6
  <2>2. QED BY <1>7, <1>8, <2>1 DEF nextOffset, lastOf
<1>12. CASE n = l BY <1>1, <1>9, <1>10, <1>11, <1>12 DEF lastOf, l
<1>13. CASE n # l
  <2>1. n \in 1..(l - 1) /\ n + 1 \in 1..l BY <1>2, <1>13, BeforeLast
  <2>2. \A i \in (n + 1)..l : TrailingDuplicate(rs, i) BY <1>4, <1>5 DEF dropTrailingEmptyDuplicates
  <2>3. n + 1 = l
    <3>1. SUFFICES ASSUME n + 1 # l PROVE FALSE OBVIOUS
    <3>2. n + 1 \in (n + 1)..l /\ n + 1 \in 1..(l - 1) BY <1>2, <1>6, <2>1, <3>1
    <3>3. Len(rs[n + 1].recs) = 0 BY <2>2, <3>2 DEF TrailingDuplicate
    <3>4. Len(segs[n + 1].recs) > 0 BY <3>2 DEF Chained, l
    <3>5. QED BY <1>3, <2>1, <3>3, <3>4
  <2>4. l \in (n + 1)..l BY <1>2, <2>3
  <2>5. Len(rs[l].recs) = 0 /\ l \in 1..l BY <1>2, <2>2, <2>4 DEF TrailingDuplicate
  <2>6. Len(segs[l].recs) = 0 BY <1>3, <2>5
  <2>7. segs[n + 1].base = nextOffset(segs[n]) BY <2>1 DEF Chained, l
  <2>8. nextOffset(segs[l]) = segs[l].base BY <1>2, <2>5, <2>6 DEF nextOffset
  <2>9. nextOffset(lastOf(segs')) = nextOffset(lastOf(segs)) BY <1>11, <2>3, <2>7, <2>8 DEF lastOf, l
  <2>10. QED BY <1>1, <1>9, <1>10, <2>9
<1>14. QED BY <1>12, <1>13

\* The list from its m-th segment on, each with its base and records.
DropsTo(ls, ms, m) ==
    /\ Chained(ms) /\ ms[1].base = ls[m].base
    /\ \A j \in 1..Len(ms) : \E i \in 1..Len(ls) : ms[j].base = ls[i].base /\ ms[j].recs = ls[i].recs
    /\ lastOf(ms).base = lastOf(ls).base /\ nextOffset(lastOf(ms)) = nextOffset(lastOf(ls))

LEMMA FrontDropped ==
    ASSUME NEW ls, NEW w, LogOK(ls, w), Chained(ls), NEW ks \in Seq(Segment), Len(ks) = Len(ls),
           \A i \in 1..Len(ls) : ks[i].base = ls[i].base /\ ks[i].recs = ls[i].recs,
           NEW m \in 1..Len(ls), NEW ms, ms = SubSeq(ks, m, Len(ls))
    PROVE  DropsTo(ls, ms, m)
<1> DEFINE l == Len(ls)
           c == (l - m) + 1
<1>1. l \in Nat \ {0} /\ m \in Nat /\ m >= 1 /\ m <= l BY ListIs
<1>2. c \in Nat /\ c >= 1 BY <1>1
<1>3. Len(ms) = c /\ \A j \in 1..c : ms[j] = ks[(m + j) - 1] BY <1>1, <1>2
<1>4. ASSUME NEW j \in 1..c PROVE (m + j) - 1 \in 1..l BY <1>1
<1>5. \A j \in 1..c : ms[j].base = ls[(m + j) - 1].base /\ ms[j].recs = ls[(m + j) - 1].recs
  BY <1>3, <1>4
<1>6. 1 \in 1..c /\ (m + 1) - 1 = m /\ c \in 1..c /\ (m + c) - 1 = l BY <1>1, <1>2
<1> HIDE DEF c
<1>7. ms[1].base = ls[m].base BY <1>5, <1>6
<1>8. lastOf(ms).base = lastOf(ls).base /\ lastOf(ms).recs = lastOf(ls).recs BY <1>3, <1>5, <1>6 DEF lastOf
<1>9. \A j \in 1..Len(ms) : \E i \in 1..Len(ls) : ms[j].base = ls[i].base /\ ms[j].recs = ls[i].recs
  BY <1>3, <1>4, <1>5
<1>10. Chained(ms)
  <2>1. SUFFICES ASSUME NEW j \in 1..(Len(ms) - 1)
                 PROVE  ms[j + 1].base = nextOffset(ms[j]) /\ Len(ms[j].recs) > 0
    BY DEF Chained
  <2>2. j \in 1..(c - 1) BY <1>3
  <2>3. j \in 1..c /\ j + 1 \in 1..c BY <1>2, <2>2, BeforeLast, BeforeLastIn
  <2> DEFINE i == (m + j) - 1
  <2>4. i \in 1..(l - 1) /\ (m + (j + 1)) - 1 = i + 1 BY <1>1, <2>2 DEF c
  <2>5. ls[i + 1].base = nextOffset(ls[i]) /\ Len(ls[i].recs) > 0 BY <2>4 DEF Chained
  <2>6. ms[j + 1].base = ls[i + 1].base BY <1>5, <2>3, <2>4
  <2>7. ms[j].base = ls[i].base /\ ms[j].recs = ls[i].recs BY <1>5, <2>3
  <2> HIDE DEF i
  <2>8. QED BY <2>5, <2>6, <2>7 DEF nextOffset
<1>11. QED BY <1>7, <1>8, <1>9, <1>10 DEF nextOffset, DropsTo

\* Reclaim: what it deletes is below the position it was given, and it deletes
\* nothing when that is 0.
LEMMA ReclaimDrops ==
    ASSUME IInv, Chained(segs), NEW p \in Nat, Reclaim(p) \/ ReclaimFails(p)
    PROVE  /\ Chained(segs') /\ written' = written /\ p # 0
           /\ segs'[1].base = segs[1].base \/ segs'[1].base <= p
           /\ segs[1].base <= segs'[1].base
           /\ \A j \in 1..Len(segs') : \E i \in 1..Len(segs) :
                  segs'[j].base = segs[i].base /\ segs'[j].recs = segs[i].recs
           /\ lastOf(segs').base = lastOf(segs).base
           /\ nextOffset(lastOf(segs')) = nextOffset(lastOf(segs))
<1> DEFINE l == Len(segs)
<1>1. LogOK(segs, written) BY DEF IInv
<1>2. /\ l \in Nat \ {0} /\ DOMAIN segs = 1..l /\ segs \in Seq(Segment)
      /\ \A i \in 1..l : /\ WellFormed(segs[i]) /\ segs[i].base \in Nat /\ Len(segs[i].recs) \in Nat
                         /\ nextOffset(segs[i]) = segs[i].base + Len(segs[i].recs)
  BY <1>1, ListIs
<1>3. ASSUME NEW m \in 1..l PROVE segs[1].base <= segs[m].base
  <2>1. 1 \in 1..l BY <1>2
  <2>2. segs[1].base \in Nat /\ segs[m].base \in Nat BY <1>2, <2>1
  <2>3. m # 1 => segs[1].base < segs[m].base
    <3>1. SUFFICES ASSUME m # 1 PROVE segs[1].base < segs[m].base OBVIOUS
    <3>2. 1 < m BY <1>2, <3>1
    <3>3. QED BY <1>1, <2>1, <3>2, BasesRise
  <2>4. QED BY <2>2, <2>3
<1>4. ASSUME NEW k \in 1..(l - 1), \A i \in 1..k : Reclaimable(segs[i], p) PROVE p # 0
  <2>1. 1 \in 1..k /\ 1 \in 1..(l - 1) /\ 1 \in 1..l BY <1>2
  <2>2. nextOffset(segs[1]) <= p BY <1>4, <2>1 DEF Reclaimable
  <2>3. Len(segs[1].recs) > 0 BY <2>1 DEF Chained
  <2>4. QED BY <1>2, <2>1, <2>2, <2>3
<1>5. CASE Reclaim(p)
  <2>1. PICK n \in 1..(l - 1) : /\ \A i \in 1..n : Reclaimable(segs[i], p)
                                /\ segs' = SubSeq(segs, n + 1, l) /\ written' = written
    BY <1>5 DEF Reclaim
  <2>2. p # 0 BY <1>4, <2>1
  <2>3. n + 1 \in 1..l /\ n \in 1..n /\ n \in 1..l BY <1>2
  <2>4. /\ Chained(segs') /\ segs'[1].base = segs[n + 1].base
        /\ \A j \in 1..Len(segs') : \E i \in 1..l : segs'[j].base = segs[i].base /\ segs'[j].recs = segs[i].recs
        /\ lastOf(segs').base = lastOf(segs).base /\ nextOffset(lastOf(segs')) = nextOffset(lastOf(segs))
    <3>1. \A i \in 1..Len(segs) : segs[i].base = segs[i].base /\ segs[i].recs = segs[i].recs OBVIOUS
    <3>2. segs \in Seq(Segment) /\ Len(segs) = Len(segs) BY <1>2
    <3>3. DropsTo(segs, segs', n + 1) BY <1>1, <2>1, <2>3, <3>1, <3>2, FrontDropped
    <3>4. QED BY <3>3 DEF DropsTo
  <2>5. segs[n + 1].base = nextOffset(segs[n]) BY DEF Chained
  <2>6. nextOffset(segs[n]) <= p BY <2>1, <2>3 DEF Reclaimable
  <2>7. QED BY <1>3, <2>1, <2>2, <2>3, <2>4, <2>5, <2>6
<1>6. CASE ReclaimFails(p)
  <2>1. PICK k \in 1..(l - 1) :
            /\ \A i \in 1..k : Reclaimable(segs[i], p)
            /\ segs' = SubSeq([segs EXCEPT ![k] = CloseSegment(segs[k])], k, l) /\ written' = written
    BY <1>6 DEF ReclaimFails
  <2>2. p # 0 BY <1>4, <2>1
  <2>3. k \in 1..l BY <1>2, BeforeLastIn
  <2> DEFINE t == CloseSegment(segs[k])
             ks == [segs EXCEPT ![k] = t]
  <2>4. t.base = segs[k].base /\ t.recs = segs[k].recs /\ t \in Segment
    BY <1>2, <2>3, SyncFields, SameRecords DEF Shrinks, WellFormed
  <2> HIDE DEF t
  <2>5. ks \in Seq(Segment) /\ Len(ks) = l BY <1>2, <2>3, <2>4
  <2>6. \A i \in 1..l : ks[i].base = segs[i].base /\ ks[i].recs = segs[i].recs BY <1>2, <2>3, <2>4
  <2>7. segs' = SubSeq(ks, k, l) BY <2>1 DEF t
  <2> HIDE DEF ks
  <2>8. /\ Chained(segs') /\ segs'[1].base = segs[k].base
        /\ \A j \in 1..Len(segs') : \E i \in 1..l : segs'[j].base = segs[i].base /\ segs'[j].recs = segs[i].recs
        /\ lastOf(segs').base = lastOf(segs).base /\ nextOffset(lastOf(segs')) = nextOffset(lastOf(segs))
    <3>1. DropsTo(segs, segs', k) BY <1>1, <2>3, <2>5, <2>6, <2>7, FrontDropped
    <3>2. QED BY <3>1 DEF DropsTo
  <2>9. k = 1 \/ segs[k].base <= p
    <3>1. SUFFICES ASSUME k # 1 PROVE segs[k].base <= p OBVIOUS
    <3>2. k \in 1..k BY <1>2
    <3>3. nextOffset(segs[k]) <= p BY <2>1, <3>2 DEF Reclaimable
    <3>4. QED BY <1>2, <2>3, <3>3
  <2>10. QED BY <1>3, <2>1, <2>2, <2>3, <2>8, <2>9
<1>7. QED BY <1>5, <1>6

-----------------------------------------------------------------------------
(* Groups and readers while the log goes on *)

\* Offsets stay below the next one and belong to one record.
LEMMA DatedOnward ==
    ASSUME NEW w, w \subseteq [id: Nat, off: Nat], NEW hi \in Nat, Dated(w, hi), NEW v, NEW ho \in Nat,
           Added(w, hi, v, ho)
    PROVE  Dated(v, ho) /\ w \subseteq v /\ hi <= ho
<1>1. CASE v = w /\ ho = hi BY <1>1 DEF Dated
<1>2. ASSUME NEW n \in Nat, v = w \cup {[id |-> n, off |-> hi]}, ho = hi + 1
      PROVE  Dated(v, ho) /\ w \subseteq v /\ hi <= ho
  <2> DEFINE z == [id |-> n, off |-> hi]
  <2>1. z.off = hi OBVIOUS
  <2>2. \A e \in w : e.off \in Nat /\ e.off < hi BY DEF Dated
  <2>3. v = w \cup {z} BY <1>2
  <2> HIDE DEF z
  <2>4. \A e \in v : e.off < ho BY <1>2, <2>1, <2>2, <2>3
  <2>5. \A e, d \in v : e.off = d.off => e = d
    <3>1. SUFFICES ASSUME NEW e \in v, NEW d \in v, e.off = d.off PROVE e = d OBVIOUS
    <3>2. CASE e \in w /\ d \in w BY <3>1, <3>2 DEF Dated
    <3>3. CASE e = z /\ d = z BY <3>3
    <3>4. CASE e = z /\ d \in w BY <2>1, <2>2, <3>1, <3>4
    <3>5. CASE e \in w /\ d = z BY <2>1, <2>2, <3>1, <3>5
    <3>6. QED BY <2>3, <3>2, <3>3, <3>4, <3>5
  <2>6. QED BY <1>2, <2>3, <2>4, <2>5 DEF Dated
<1>3. QED BY <1>1, <1>2 DEF Added

\* A group's positions while a record is added; the object may be forgotten.
LEMMA GroupOnward ==
    ASSUME NEW f \in FileType, NEW o \in ObjectType, NEW x, NEW d, NEW w, NEW lo \in Nat, NEW hi \in Nat,
           GroupOK(f, o, x, d, w, lo, hi), NEW v, NEW ho \in Nat, Added(w, hi, v, ho),
           NEW p, p = o \/ p = Unloaded
    PROVE  GroupOK(f, p, x, d, v, lo, ho)
<1>1. f.next \in Nat /\ f.readable \in BOOLEAN BY DEF FileType
<1>2. w \subseteq v /\ hi <= ho /\ \A e \in v : e \in w \/ e.off = hi BY DEF Added
<1>3. f.next <= hi BY DEF GroupOK
<1>4. f.readable <=> x # {} BY DEF GroupOK
<1>5. f.readable => lo <= f.next /\ f.next <= ho BY <1>1, <1>2 DEF GroupOK
<1>6. ~ f.readable => f.next = 0 BY DEF GroupOK
<1>7. /\ p.loaded => (p.committed <=> f.readable)
      /\ p.committed => p.loaded /\ lo <= p.next /\ p.next <= f.next
      /\ ~ p.committed => p.next = 0
  <2>1. CASE p = o BY <2>1 DEF GroupOK
  <2>2. CASE p = Unloaded BY <2>2 DEF Unloaded
  <2>3. QED BY <2>1, <2>2
<1>8. ASSUME NEW e \in v, NEW s \in x, s <= e.off /\ e.off < f.next PROVE e \in d
  <2>1. CASE e \in w BY <1>8, <2>1 DEF GroupOK
  <2>2. CASE e.off = hi BY <1>1, <1>3, <1>8, <2>2
  <2>3. QED BY <1>2, <2>1, <2>2
<1>9. d \subseteq v BY <1>2 DEF GroupOK
<1>10. QED BY <1>4, <1>5, <1>6, <1>7, <1>8, <1>9, Zenon DEF GroupOK

\* A reader's place while a record is added.
LEMMA ReaderOnward ==
    ASSUME NEW s \in ReaderType, NEW o, NEW d, NEW w, NEW lo, NEW hi \in Nat, ReaderOK(s, o, d, w, lo, hi),
           NEW v, w \subseteq v, NEW ho \in Nat, hi <= ho
    PROVE  ReaderOK(s, o, d, v, lo, ho)
<1>1. s.from \in Nat BY DEF ReaderType
<1>2. s.pc = "start" => o.loaded /\ (~ o.committed => lo <= s.from /\ s.from <= ho)
  <2>1. s.from <= hi => s.from <= ho BY <1>1
  <2>2. QED BY <2>1 DEF ReaderOK
<1>3. s.pc \in {"deliver", "commit"} =>
          \A i \in 1..Len(s.batch) : [id |-> s.batch[i], off |-> s.from + i - 1] \in v
  BY DEF ReaderOK
<1>4. /\ s.pc \in {"poll", "read", "deliver", "commit"} => o.committed
      /\ s.pc \in {"read", "deliver", "commit"} => s.from <= o.next
      /\ s.pc = "commit" => [id |-> s.batch[1], off |-> s.from] \in d
  BY DEF ReaderOK
<1>5. QED BY <1>2, <1>3, <1>4, Zenon DEF ReaderOK

\* A reader that is off asks for nothing.
LEMMA OffOK ==
    ASSUME NEW s, s.pc \in {"off", "failed"}, NEW o, NEW d, NEW w, NEW lo, NEW hi
    PROVE  ReaderOK(s, o, d, w, lo, hi)
<1>1. /\ s.pc # "start" /\ s.pc \notin {"poll", "read", "deliver", "commit"}
      /\ s.pc \notin {"read", "deliver", "commit"} /\ s.pc \notin {"deliver", "commit"} /\ s.pc # "commit"
  OBVIOUS
<1>2. QED BY <1>1, Zenon DEF ReaderOK

\* The ends of the log.
LEMMA ListEnds ==
    ASSUME NEW ls, NEW w, LogOK(ls, w)
    PROVE  ls[1].base \in Nat /\ nextOffset(lastOf(ls)) \in Nat
<1>1. Len(ls) \in Nat \ {0} BY ListIs
<1>2. 1 \in 1..Len(ls) /\ Len(ls) \in 1..Len(ls) BY <1>1
<1>3. /\ ls[1].base \in Nat
      /\ ls[Len(ls)].base \in Nat /\ Len(ls[Len(ls)].recs) \in Nat
      /\ nextOffset(ls[Len(ls)]) = ls[Len(ls)].base + Len(ls[Len(ls)].recs)
  BY <1>2, ListIs
<1>4. QED BY <1>3 DEF lastOf

\* The parts of Calm after a step.
CalmParts(ls, w, lo, hi, fs, os, xs, ds, rs) ==
    /\ Chained(ls)
    /\ Dated(w, hi)
    /\ \A g \in Groups : GroupOK(fs[g], os[g], xs[g], ds[g], w, lo, hi)
    /\ \A r \in Readers : ReaderOK(rs[r], os[Membership[r]], ds[Membership[r]], w, lo, hi)
    /\ \A r \in Readers : rs[r].pc = "read" => SnapOK(ls, w, rs[r].snap, rs[r].from)

LEMMA CalmIs ==
    /\ Calm <=> CalmParts(segs, written, segs[1].base, nextOffset(lastOf(segs)),
                          offsetFile, group, firstStart, delivered, reader)
    /\ Calm' <=> CalmParts(segs', written', segs'[1].base, nextOffset(lastOf(segs')),
                           offsetFile', group', firstStart', delivered', reader')
  BY Zenon DEF Calm, CalmParts, OldestOffset, NextOffset, active, lastOf

\* What the bus keeps stays right while the log goes on.
LEMMA CalmGoesOn ==
    ASSUME IInv, BusTypes, Calm, Onward(segs, written, segs', written'), UNCHANGED busVars
    PROVE  Calm'
<1> DEFINE lo == segs[1].base
           hi == nextOffset(lastOf(segs))
           ho == nextOffset(lastOf(segs'))
<1>1. /\ LogOK(segs, written) /\ LogOK(segs', written') /\ Chained(segs') /\ Moves(segs, segs')
      /\ segs'[1].base = lo /\ Added(written, hi, written', ho) /\ written \subseteq [id: Nat, off: Nat]
  BY DEF IInv, Onward
<1>2. lo \in Nat /\ hi \in Nat /\ ho \in Nat BY <1>1, ListEnds
<1>3. CalmParts(segs, written, lo, hi, offsetFile, group, firstStart, delivered, reader) BY CalmIs
<1>4. /\ offsetFile' = offsetFile /\ group' = group /\ firstStart' = firstStart /\ delivered' = delivered
      /\ reader' = reader
  BY DEF busVars
<1>5. /\ offsetFile \in [Groups -> FileType] /\ group \in [Groups -> ObjectType]
      /\ reader \in [Readers -> ReaderType]
  BY DEF BusTypes
<1> HIDE DEF lo, hi, ho
<1>6. Dated(written', ho) /\ written \subseteq written' /\ hi <= ho
  BY <1>1, <1>2, <1>3, DatedOnward DEF CalmParts
<1>7. ASSUME NEW g \in Groups
      PROVE  GroupOK(offsetFile[g], group[g], firstStart[g], delivered[g], written', lo, ho)
  <2>1. GroupOK(offsetFile[g], group[g], firstStart[g], delivered[g], written, lo, hi) BY <1>3 DEF CalmParts
  <2>2. offsetFile[g] \in FileType /\ group[g] \in ObjectType BY <1>5
  <2>3. QED BY <1>1, <1>2, <2>1, <2>2, GroupOnward
<1>8. ASSUME NEW r \in Readers
      PROVE  ReaderOK(reader[r], group[Membership[r]], delivered[Membership[r]], written', lo, ho)
  <2>1. ReaderOK(reader[r], group[Membership[r]], delivered[Membership[r]], written, lo, hi)
    BY <1>3 DEF CalmParts
  <2>2. reader[r] \in ReaderType BY <1>5
  <2>3. QED BY <1>2, <1>6, <2>1, <2>2, ReaderOnward
<1>9. ASSUME NEW r \in Readers, reader[r].pc = "read"
      PROVE  SnapOK(segs', written', reader[r].snap, reader[r].from)
  <2>1. SnapOK(segs, written, reader[r].snap, reader[r].from) BY <1>3, <1>9 DEF CalmParts
  <2>2. reader[r].snap \in Seq(Segment) BY <1>5 DEF ReaderType
  <2>3. Chained(segs) BY <1>3 DEF CalmParts
  <2>4. QED BY <1>1, <1>6, <2>1, <2>2, <2>3, SnapGrows
<1>10. CalmParts(segs', written', lo, ho, offsetFile', group', firstStart', delivered', reader')
  BY <1>1, <1>4, <1>6, <1>7, <1>8, <1>9, Zenon DEF CalmParts
<1>11. QED BY <1>1, <1>10, CalmIs DEF ho

\* The process goes, or comes back: no reader runs, the objects are forgotten or as
\* they were.
LEMMA CalmOffline ==
    ASSUME IInv, BusTypes, Calm, LogOK(segs', written'), Chained(segs'), segs'[1].base = segs[1].base,
           Added(written, nextOffset(lastOf(segs)), written', nextOffset(lastOf(segs'))),
           UNCHANGED <<offsetFile, delivered, firstStart>>,
           group' = group \/ group' = [g \in Groups |-> Unloaded],
           \A r \in Readers : reader'[r].pc = "off"
    PROVE  Calm'
<1> DEFINE lo == segs[1].base
           hi == nextOffset(lastOf(segs))
           ho == nextOffset(lastOf(segs'))
<1>1. /\ LogOK(segs, written) /\ written \subseteq [id: Nat, off: Nat]
      /\ segs'[1].base = lo /\ Added(written, hi, written', ho)
  BY DEF IInv
<1>2. lo \in Nat /\ hi \in Nat /\ ho \in Nat BY <1>1, ListEnds
<1>3. CalmParts(segs, written, lo, hi, offsetFile, group, firstStart, delivered, reader) BY CalmIs
<1>4. offsetFile \in [Groups -> FileType] /\ group \in [Groups -> ObjectType] BY DEF BusTypes
<1> HIDE DEF lo, hi, ho
<1>5. Dated(written', ho) BY <1>1, <1>2, <1>3, DatedOnward DEF CalmParts
<1>6. ASSUME NEW g \in Groups
      PROVE  GroupOK(offsetFile[g], group'[g], firstStart[g], delivered[g], written', lo, ho)
  <2>1. GroupOK(offsetFile[g], group[g], firstStart[g], delivered[g], written, lo, hi) BY <1>3 DEF CalmParts
  <2>2. offsetFile[g] \in FileType /\ group[g] \in ObjectType BY <1>4
  <2>3. group'[g] = group[g] \/ group'[g] = Unloaded OBVIOUS
  <2>4. QED BY <1>1, <1>2, <2>1, <2>2, <2>3, GroupOnward
<1>7. \A r \in Readers : ReaderOK(reader'[r], group'[Membership[r]], delivered'[Membership[r]], written', lo, ho)
  BY OffOK
<1>8. \A r \in Readers : reader'[r].pc # "read" OBVIOUS
<1>9. offsetFile' = offsetFile /\ firstStart' = firstStart /\ delivered' = delivered OBVIOUS
<1>10. CalmParts(segs', written', lo, ho, offsetFile', group', firstStart', delivered', reader')
  BY <1>5, <1>6, <1>7, <1>8, <1>9, Zenon DEF CalmParts
<1>11. QED BY <1>1, <1>10, CalmIs DEF ho

\* A started group's positions when segments below its position are deleted.
LEMMA GroupReclaimed ==
    ASSUME NEW f \in FileType, NEW o \in ObjectType, NEW x, NEW d, NEW w, NEW lo \in Nat, NEW hi \in Nat,
           GroupOK(f, o, x, d, w, lo, hi), o.loaded, NEW p \in Nat, p # 0, p <= o.next,
           NEW la \in Nat, la = lo \/ la <= p
    PROVE  GroupOK(f, o, x, d, w, la, hi) /\ o.committed
<1>1. f.next \in Nat /\ o.next \in Nat BY DEF FileType, ObjectType
<1>2. o.next # 0 BY <1>1
<1>3. o.committed BY <1>2 DEF GroupOK
<1>4. f.readable /\ lo <= o.next /\ o.next <= f.next /\ f.next <= hi BY <1>3 DEF GroupOK
<1>5. la <= o.next /\ la <= f.next BY <1>1, <1>4
<1>6. /\ f.readable <=> x # {}
      /\ \A e \in w : \A s \in x : s <= e.off /\ e.off < f.next => e \in d
      /\ d \subseteq w
  BY DEF GroupOK
<1>7. QED BY <1>3, <1>4, <1>5, <1>6, Zenon DEF GroupOK

\* A reader of a started group does not care where the log starts, nor does its copy
\* matter to what it has in hand.
LEMMA ReaderReclaimed ==
    ASSUME NEW s, NEW t, t.pc = s.pc, t.from = s.from, t.batch = s.batch, NEW o, o.committed,
           NEW d, NEW w, NEW lo, NEW hi, ReaderOK(s, o, d, w, lo, hi), NEW la
    PROVE  ReaderOK(t, o, d, w, la, hi)
  BY Zenon DEF ReaderOK

\* Reclaim deletes no record a group is still owed, nor one a reader is about to read.
LEMMA CalmReclaim ==
    ASSUME IInv, BusTypes, Calm, ReclaimConsumed, LogOK(segs', written')
    PROVE  Calm'
<1> DEFINE lo == segs[1].base
           hi == nextOffset(lastOf(segs))
           la == segs'[1].base
           p == SlowestPosition
<1>1. LogOK(segs, written) /\ Chained(segs) BY DEF IInv, Calm
<1>2. p \in Nat /\ \A g \in Groups : p <= group[g].next BY SlowestIs DEF BusTypes
<1>3. /\ Reclaim(p) \/ ReclaimFails(p)
      /\ \A g \in Groups : group[g].loaded
      /\ reader' = [r \in Readers |-> [reader[r] EXCEPT !.snap = Shared(@)]]
      /\ UNCHANGED <<offsetFile, group, delivered, firstStart>>
  BY DEF ReclaimConsumed
<1> HIDE DEF p
<1>4. /\ Chained(segs') /\ written' = written /\ p # 0
      /\ la = lo \/ la <= p
      /\ \A j \in 1..Len(segs') : \E i \in 1..Len(segs) :
             segs'[j].base = segs[i].base /\ segs'[j].recs = segs[i].recs
      /\ lastOf(segs').base = lastOf(segs).base
      /\ nextOffset(lastOf(segs')) = hi
  BY <1>1, <1>2, <1>3, ReclaimDrops
<1>5. lo \in Nat /\ hi \in Nat /\ la \in Nat BY <1>1, ListEnds
<1>6. CalmParts(segs, written, lo, hi, offsetFile, group, firstStart, delivered, reader) BY CalmIs
<1>7. /\ offsetFile \in [Groups -> FileType] /\ group \in [Groups -> ObjectType]
      /\ reader \in [Readers -> ReaderType]
  BY DEF BusTypes
<1> HIDE DEF lo, hi, la
<1>8. ASSUME NEW g \in Groups
      PROVE  /\ GroupOK(offsetFile[g], group[g], firstStart[g], delivered[g], written, la, hi)
             /\ group[g].committed
  <2>1. GroupOK(offsetFile[g], group[g], firstStart[g], delivered[g], written, lo, hi) BY <1>6 DEF CalmParts
  <2>2. offsetFile[g] \in FileType /\ group[g] \in ObjectType BY <1>7
  <2>3. QED BY <1>2, <1>3, <1>4, <1>5, <2>1, <2>2, GroupReclaimed
<1>9. ASSUME NEW r \in Readers
      PROVE  /\ reader'[r].pc = reader[r].pc /\ reader'[r].from = reader[r].from
             /\ reader'[r].batch = reader[r].batch /\ reader'[r].snap = SharedIn(segs, reader[r].snap)
  <2> DEFINE t == Shared(reader[r].snap)
  <2>1. reader'[r] = [reader[r] EXCEPT !.snap = t] BY <1>3
  <2>2. t = SharedIn(segs, reader[r].snap) BY SharedLists
  <2> HIDE DEF t
  <2>3. reader[r] \in ReaderType BY <1>7
  <2>4. QED BY <2>1, <2>2, <2>3 DEF ReaderType
<1>10. ASSUME NEW r \in Readers
       PROVE  ReaderOK(reader'[r], group[Membership[r]], delivered[Membership[r]], written, la, hi)
  <2>1. ReaderOK(reader[r], group[Membership[r]], delivered[Membership[r]], written, lo, hi)
    BY <1>6 DEF CalmParts
  <2>2. group[Membership[r]].committed BY <1>8, BusConstants
  <2>3. QED BY <1>9, <2>1, <2>2, ReaderReclaimed
<1>11. ASSUME NEW r \in Readers, reader'[r].pc = "read"
       PROVE  SnapOK(segs', written, reader'[r].snap, reader'[r].from)
  <2>1. SnapOK(segs, written, reader[r].snap, reader[r].from) BY <1>6, <1>9, <1>11 DEF CalmParts
  <2>2. reader[r].snap \in Seq(Segment) BY <1>7 DEF ReaderType
  <2>3. SnapOK(segs', written, SharedIn(segs, reader[r].snap), reader[r].from)
    BY <1>1, <1>4, <2>1, <2>2, SnapReclaimed
  <2>4. QED BY <1>9, <2>3
<1>12. CalmParts(segs', written', la, hi, offsetFile', group', firstStart', delivered', reader')
  <2>1. /\ offsetFile' = offsetFile /\ group' = group /\ delivered' = delivered /\ firstStart' = firstStart
        /\ written' = written
    BY <1>3, <1>4
  <2>2. Dated(written, hi) BY <1>6 DEF CalmParts
  <2>3. QED BY <1>4, <1>8, <1>10, <1>11, <2>1, <2>2, Zenon DEF CalmParts
<1>13. QED BY <1>4, <1>12, CalmIs DEF la

-----------------------------------------------------------------------------
(* What a reader does to its group *)

\* A Group object only moves forward while the process runs.
Forward(o, p) ==
    /\ o.loaded => p.loaded
    /\ o.committed => p.committed /\ o.next <= p.next

\* Then the other readers of the group stay in their place.
LEMMA ReaderStays ==
    ASSUME NEW s \in ReaderType, NEW o \in ObjectType, NEW p \in ObjectType, Forward(o, p),
           NEW d, NEW c, d \subseteq c, NEW w, NEW lo, NEW hi, ReaderOK(s, o, d, w, lo, hi)
    PROVE  ReaderOK(s, p, c, w, lo, hi)
<1>1. s.from \in Nat /\ o.next \in Nat /\ p.next \in Nat BY DEF ReaderType, ObjectType
<1>2. s.pc = "start" => p.loaded /\ (~ p.committed => lo <= s.from /\ s.from <= hi)
  BY Zenon DEF ReaderOK, Forward
<1>3. s.pc \in {"poll", "read", "deliver", "commit"} => p.committed BY Zenon DEF ReaderOK, Forward
<1>4. s.pc \in {"read", "deliver", "commit"} => s.from <= p.next
  <2>1. SUFFICES ASSUME s.pc \in {"read", "deliver", "commit"} PROVE s.from <= p.next OBVIOUS
  <2>2. s.pc \in {"poll", "read", "deliver", "commit"} BY <2>1
  <2>3. s.from <= o.next /\ o.committed BY <2>1, <2>2 DEF ReaderOK
  <2>4. o.next <= p.next BY <2>3 DEF Forward
  <2>5. QED BY <1>1, <2>3, <2>4
<1>5. /\ s.pc \in {"deliver", "commit"} =>
             \A i \in 1..Len(s.batch) : [id |-> s.batch[i], off |-> s.from + i - 1] \in w
      /\ s.pc = "commit" => [id |-> s.batch[1], off |-> s.from] \in c
  BY DEF ReaderOK
<1>6. QED BY <1>2, <1>3, <1>4, <1>5, Zenon DEF ReaderOK

\* A step of one reader, with what it must keep of its group and of itself.
LEMMA CalmReader ==
    ASSUME IInv, BusTypes, BusTypes', Calm, NEW r \in Readers, UNCHANGED walVars,
           NEW g \in Groups, g = Membership[r],
           \A h \in Groups : h # g => /\ offsetFile'[h] = offsetFile[h] /\ group'[h] = group[h]
                                      /\ firstStart'[h] = firstStart[h] /\ delivered'[h] = delivered[h],
           \A q \in Readers : q # r => reader'[q] = reader[q],
           GroupOK(offsetFile'[g], group'[g], firstStart'[g], delivered'[g], written, OldestOffset, NextOffset),
           Forward(group[g], group'[g]), delivered[g] \subseteq delivered'[g],
           ReaderOK(reader'[r], group'[g], delivered'[g], written, OldestOffset, NextOffset),
           reader'[r].pc = "read" => SnapOK(segs, written, reader'[r].snap, reader'[r].from)
    PROVE  Calm'
<1> DEFINE lo == segs[1].base
           hi == nextOffset(lastOf(segs))
<1>1. segs' = segs /\ written' = written BY DEF walVars
<1>2. lo = OldestOffset /\ hi = NextOffset BY SharedLists
<1>3. CalmParts(segs, written, lo, hi, offsetFile, group, firstStart, delivered, reader) BY CalmIs
<1>4. /\ group \in [Groups -> ObjectType] /\ group' \in [Groups -> ObjectType]
      /\ reader \in [Readers -> ReaderType]
  BY DEF BusTypes
<1> HIDE DEF lo, hi
<1>5. ASSUME NEW h \in Groups
      PROVE  GroupOK(offsetFile'[h], group'[h], firstStart'[h], delivered'[h], written, lo, hi)
  <2>1. CASE h = g BY <1>2, <2>1
  <2>2. CASE h # g
    <3>1. GroupOK(offsetFile[h], group[h], firstStart[h], delivered[h], written, lo, hi) BY <1>3 DEF CalmParts
    <3>2. QED BY <2>2, <3>1
  <2>3. QED BY <2>1, <2>2
<1>6. ASSUME NEW q \in Readers
      PROVE  ReaderOK(reader'[q], group'[Membership[q]], delivered'[Membership[q]], written, lo, hi)
  <2>1. CASE q = r BY <1>2, <2>1
  <2>2. CASE q # r
    <3>1. ReaderOK(reader[q], group[Membership[q]], delivered[Membership[q]], written, lo, hi)
      BY <1>3 DEF CalmParts
    <3>2. reader'[q] = reader[q] /\ reader[q] \in ReaderType /\ Membership[q] \in Groups
      BY <1>4, <2>2, BusConstants
    <3>3. CASE Membership[q] = g
      <4>1. group[g] \in ObjectType /\ group'[g] \in ObjectType BY <1>4
      <4>2. QED BY <3>1, <3>2, <3>3, <4>1, ReaderStays
    <3>4. CASE Membership[q] # g BY <3>1, <3>2, <3>4
    <3>5. QED BY <3>3, <3>4
  <2>3. QED BY <2>1, <2>2
<1>7. ASSUME NEW q \in Readers, reader'[q].pc = "read"
      PROVE  SnapOK(segs, written, reader'[q].snap, reader'[q].from)
  <2>1. CASE q = r BY <1>7, <2>1
  <2>2. CASE q # r
    <3>1. reader'[q] = reader[q] BY <2>2
    <3>2. QED BY <1>3, <1>7, <3>1 DEF CalmParts
  <2>3. QED BY <2>1, <2>2
<1>8. Chained(segs) /\ Dated(written, hi) BY <1>3 DEF CalmParts
<1>9. CalmParts(segs, written, lo, hi, offsetFile', group', firstStart', delivered', reader')
  BY <1>5, <1>6, <1>7, <1>8, Zenon DEF CalmParts
<1>10. CalmParts(segs', written', segs'[1].base, nextOffset(lastOf(segs')),
                 offsetFile', group', firstStart', delivered', reader')
  BY <1>1, <1>9 DEF lo, hi
<1>11. QED BY <1>10, CalmIs

\* OpenGroup, or the object that is there.
LEMMA GroupOpened ==
    ASSUME NEW f \in FileType, NEW o \in ObjectType, NEW x, NEW d, NEW w, NEW lo \in Nat, NEW hi \in Nat,
           GroupOK(f, o, x, d, w, lo, hi), NEW p \in ObjectType, p.loaded,
           o.loaded => p = o, ~ o.loaded => p.next = f.next /\ p.committed = f.readable
    PROVE  GroupOK(f, p, x, d, w, lo, hi) /\ Forward(o, p)
<1>1. CASE o.loaded
  <2>1. p = o /\ o.next \in Nat BY <1>1 DEF ObjectType
  <2>2. QED BY <2>1 DEF Forward
<1>2. CASE ~ o.loaded
  <2>1. p.next = f.next /\ p.committed = f.readable /\ f.next \in Nat /\ f.readable \in BOOLEAN
    BY <1>2 DEF FileType
  <2>2. ~ o.committed BY <1>2 DEF GroupOK
  <2>3. Forward(o, p) BY <1>2, <2>2 DEF Forward
  <2>4. /\ p.loaded => (p.committed <=> f.readable)
        /\ ~ p.committed => p.next = 0
    BY <2>1 DEF GroupOK
  <2>5. p.committed => p.loaded /\ lo <= p.next /\ p.next <= f.next BY <2>1 DEF GroupOK
  <2>6. /\ f.readable <=> x # {}
        /\ f.readable => lo <= f.next /\ f.next <= hi
        /\ ~ f.readable => f.next = 0
        /\ \A e \in w : \A s \in x : s <= e.off /\ e.off < f.next => e \in d
        /\ d \subseteq w
    BY DEF GroupOK
  <2>7. GroupOK(f, p, x, d, w, lo, hi) BY <2>4, <2>5, <2>6, Zenon DEF GroupOK
  <2>8. QED BY <2>3, <2>7
<1>3. QED BY <1>1, <1>2

\* StartAt on a group that has no position yet.
LEMMA GroupStarted ==
    ASSUME NEW f \in FileType, NEW o \in ObjectType, NEW x, NEW d, NEW w, NEW lo \in Nat, NEW hi \in Nat,
           GroupOK(f, o, x, d, w, lo, hi), o.loaded, ~ o.committed,
           NEW n \in Nat, lo <= n, n <= hi, NEW c \in FileType, c.readable, c.next = n,
           NEW p \in ObjectType, p.loaded, p.committed, p.next = n,
           \A e \in w : e.off \in Nat
    PROVE  x = {} /\ GroupOK(c, p, {n}, d, w, lo, hi) /\ Forward(o, p)
<1>1. ~ f.readable BY DEF GroupOK
<1>2. x = {} BY <1>1 DEF GroupOK
<1>3. \A e \in w : \A s \in {n} : s <= e.off /\ e.off < c.next => e \in d OBVIOUS
<1>4. d \subseteq w BY DEF GroupOK
<1>5. /\ c.readable => lo <= c.next /\ c.next <= hi
      /\ p.committed => p.loaded /\ lo <= p.next /\ p.next <= c.next
  <2>1. lo <= c.next /\ c.next <= hi /\ lo <= p.next /\ p.next <= c.next OBVIOUS
  <2>2. QED BY <2>1, Zenon
<1>6. {n} # {} OBVIOUS
<1>7. GroupOK(c, p, {n}, d, w, lo, hi) BY <1>3, <1>4, <1>5, <1>6, Zenon DEF GroupOK
<1>8. Forward(o, p) BY Zenon DEF Forward
<1>9. QED BY <1>2, <1>7, <1>8

\* The handler gets a record of the log.
LEMMA GroupDelivered ==
    ASSUME NEW f, NEW o, NEW x, NEW d, NEW w, NEW lo, NEW hi,
           GroupOK(f, o, x, d, w, lo, hi), NEW z \in w
    PROVE  GroupOK(f, o, x, d \cup {z}, w, lo, hi)
<1>1. d \cup {z} \subseteq w BY DEF GroupOK
<1>2. \A e \in w : \A s \in x : s <= e.off /\ e.off < f.next => e \in d \cup {z} BY DEF GroupOK
<1>3. QED BY <1>1, <1>2, Zenon DEF GroupOK

\* The position after a record the handler got: in the file, and in the object
\* unless the commit failed.
LEMMA GroupCommitted ==
    ASSUME NEW f \in FileType, NEW o \in ObjectType, NEW x, NEW d, NEW w, NEW lo \in Nat, NEW hi \in Nat,
           GroupOK(f, o, x, d, w, lo, hi), o.committed, Dated(w, hi), \A e \in w : e.off \in Nat,
           NEW from \in Nat, NEW z \in d, z.off = from, from <= o.next, ~ (from + 1 < o.next),
           NEW c \in FileType, c.readable, c.next = from + 1,
           NEW p \in ObjectType, p.loaded = o.loaded, p.committed, p.next \in {o.next, from + 1}
    PROVE  GroupOK(c, p, x, d, w, lo, hi) /\ Forward(o, p)
<1>1. f.next \in Nat /\ o.next \in Nat BY DEF FileType, ObjectType
<1>2. o.loaded /\ f.readable /\ lo <= o.next /\ o.next <= f.next /\ x # {} BY DEF GroupOK
<1>3. z \in w /\ d \subseteq w BY DEF GroupOK
<1>4. from < hi BY <1>3 DEF Dated
<1>5. lo <= p.next /\ p.next <= c.next /\ lo <= c.next /\ c.next <= hi /\ o.next <= p.next
  BY <1>1, <1>2, <1>4
<1>6. ASSUME NEW e \in w, NEW s \in x, s <= e.off /\ e.off < c.next PROVE e \in d
  <2>1. e.off \in Nat OBVIOUS
  <2>2. CASE e.off = from
    <3>1. e = z BY <1>3, <2>2 DEF Dated
    <3>2. QED BY <3>1
  <2>3. CASE e.off # from
    <3>1. e.off < from BY <1>6, <2>1, <2>3
    <3>2. e.off < f.next BY <1>1, <1>2, <2>1, <3>1
    <3>3. QED BY <1>6, <3>2 DEF GroupOK
  <2>4. QED BY <2>2, <2>3
<1>7. p.loaded BY <1>2
<1>8. GroupOK(c, p, x, d, w, lo, hi) BY <1>2, <1>3, <1>5, <1>6, <1>7, Zenon DEF GroupOK
<1>9. Forward(o, p) BY <1>5, <1>7, Zenon DEF Forward
<1>10. QED BY <1>8, <1>9

-----------------------------------------------------------------------------
(* Each step of a reader *)

\* A reader that only gives up, or goes back to polling a started group.
LEMMA GivenUp ==
    ASSUME NEW t, t \in {Idle, [Idle EXCEPT !.pc = "poll"], [Idle EXCEPT !.pc = "failed"]},
           NEW o, t.pc = "poll" => o.committed, NEW d, NEW w, NEW lo, NEW hi
    PROVE  ReaderOK(t, o, d, w, lo, hi) /\ t.pc # "read"
<1>1. CASE t = Idle
  <2>1. t.pc = "off" BY <1>1, IdleTyped
  <2>2. QED BY <2>1, OffOK
<1>2. CASE t = [Idle EXCEPT !.pc = "failed"]
  <2>1. t.pc = "failed" BY <1>2, IdleTyped
  <2>2. QED BY <2>1, OffOK
<1>3. CASE t = [Idle EXCEPT !.pc = "poll"]
  <2>1. t.pc = "poll" BY <1>3, IdleTyped
  <2>2. /\ t.pc # "start" /\ t.pc \notin {"read", "deliver", "commit"} /\ t.pc \notin {"deliver", "commit"}
        /\ t.pc # "commit" /\ t.pc # "read"
    BY <2>1
  <2>3. o.committed BY <2>1
  <2>4. QED BY <2>2, <2>3, Zenon DEF ReaderOK
<1>4. QED BY <1>1, <1>2, <1>3

\* A step that leaves the group alone.
LEMMA CalmAlone ==
    ASSUME IInv, BusTypes, BusTypes', Calm, NEW r \in Readers, UNCHANGED walVars,
           UNCHANGED <<offsetFile, group, delivered, firstStart>>,
           NEW t, reader' = [reader EXCEPT ![r] = t],
           ReaderOK(t, group[Membership[r]], delivered[Membership[r]], written, OldestOffset, NextOffset),
           t.pc = "read" => SnapOK(segs, written, t.snap, t.from)
    PROVE  Calm'
<1> DEFINE g == Membership[r]
<1>1. g \in Groups BY BusConstants
<1>2. reader \in [Readers -> ReaderType] /\ group[g] \in ObjectType BY <1>1 DEF BusTypes
<1>3. reader'[r] = t /\ \A q \in Readers : q # r => reader'[q] = reader[q] BY <1>2
<1>4. GroupOK(offsetFile[g], group[g], firstStart[g], delivered[g], written, OldestOffset, NextOffset)
  BY <1>1 DEF Calm
<1>5. group[g].next <= group[g].next BY <1>2 DEF ObjectType
<1>6. Forward(group[g], group'[g]) BY <1>5 DEF Forward
<1>7. offsetFile' = offsetFile /\ group' = group /\ delivered' = delivered /\ firstStart' = firstStart OBVIOUS
<1>8. GroupOK(offsetFile'[g], group'[g], firstStart'[g], delivered'[g], written, OldestOffset, NextOffset)
  BY <1>4, <1>7
<1>9. ReaderOK(reader'[r], group'[g], delivered'[g], written, OldestOffset, NextOffset) BY <1>3, <1>7
<1>10. reader'[r].pc = "read" => SnapOK(segs, written, reader'[r].snap, reader'[r].from) BY <1>3
<1>11. delivered[g] \subseteq delivered'[g] BY <1>7
<1>12. \A h \in Groups : h # g => /\ offsetFile'[h] = offsetFile[h] /\ group'[h] = group[h]
                                  /\ firstStart'[h] = firstStart[h] /\ delivered'[h] = delivered[h]
  BY <1>7
<1> HIDE DEF g
<1>13. g = Membership[r] BY DEF g
<1>14. QED BY <1>1, <1>3, <1>6, <1>8, <1>9, <1>10, <1>11, <1>12, <1>13, CalmReader

\* Poll: the position is in the log, so the copy reaches back to it.
LEMMA CalmPoll ==
    ASSUME IInv, BusTypes, BusTypes', Calm, NEW r \in Readers, Poll(r)
    PROVE  Calm'
<1> DEFINE g == Membership[r]
           n == group[g].next
           t == [pc |-> "read", from |-> n, snap |-> segs, batch |-> <<>>]
<1>1. g \in Groups BY BusConstants
<1>2. /\ reader[r].pc = "poll" /\ reader' = [reader EXCEPT ![r] = t] /\ UNCHANGED walVars
      /\ UNCHANGED <<offsetFile, group, delivered, firstStart>>
  BY DEF Poll
<1>3. GroupOK(offsetFile[g], group[g], firstStart[g], delivered[g], written, OldestOffset, NextOffset)
  BY <1>1 DEF Calm
<1>4. ReaderOK(reader[r], group[g], delivered[g], written, OldestOffset, NextOffset) BY DEF Calm
<1>5. group[g].committed
  <2>1. reader[r].pc \in {"poll", "read", "deliver", "commit"} BY <1>2
  <2>2. QED BY <1>4, <2>1, Zenon DEF ReaderOK
<1>6. OldestOffset <= n /\ n \in Nat BY <1>1, <1>3, <1>5 DEF GroupOK, BusTypes, ObjectType
<1>7. t.pc = "read" /\ t.from = n /\ t.snap = segs OBVIOUS
<1>8. SnapOK(segs, written, segs, n)
  <2>1. LogOK(segs, written) /\ Chained(segs) BY DEF IInv, Calm
  <2>2. segs[1].base <= n BY <1>6 DEF OldestOffset
  <2>3. QED BY <2>1, <2>2, SnapTaken
<1>9. ReaderOK(t, group[g], delivered[g], written, OldestOffset, NextOffset)
  <2>1. t.pc # "start" /\ t.pc \notin {"deliver", "commit"} /\ t.pc # "commit" BY <1>7
  <2>2. t.from <= group[g].next BY <1>6, <1>7
  <2> HIDE DEF t
  <2>3. QED BY <1>5, <2>1, <2>2, Zenon DEF ReaderOK
<1> HIDE DEF t
<1>10. QED BY <1>2, <1>7, <1>8, <1>9, CalmAlone

\* Read: what a copy gives is labelled right, whatever the log did since.
LEMMA CalmRead ==
    ASSUME IInv, BusTypes, BusTypes', Calm, NEW r \in Readers, Read(r)
    PROVE  Calm'
<1> DEFINE g == Membership[r]
           s == reader[r]
           t == AfterRead(s)
           b == ReadBatch(s.snap, s.from)
<1>1. g \in Groups BY BusConstants
<1>2. /\ s.pc = "read" /\ reader' = [reader EXCEPT ![r] = t] /\ UNCHANGED walVars
      /\ UNCHANGED <<offsetFile, group, delivered, firstStart>>
  BY DEF Read, AfterRead
<1>3. s \in ReaderType /\ s.snap \in Seq(Segment) /\ s.from \in Nat BY DEF BusTypes, ReaderType
<1>4. ReaderOK(s, group[g], delivered[g], written, OldestOffset, NextOffset) BY DEF Calm
<1>5. group[g].committed /\ s.from <= group[g].next
  <2>1. s.pc \in {"poll", "read", "deliver", "commit"} /\ s.pc \in {"read", "deliver", "commit"} BY <1>2
  <2>2. QED BY <1>4, <2>1, Zenon DEF ReaderOK
<1>6. SnapOK(segs, written, s.snap, s.from) BY <1>2 DEF Calm
<1>7. \A i \in 1..Len(b) : [id |-> b[i], off |-> s.from + i - 1] \in written
  <2>1. Shared(s.snap) = SharedIn(segs, s.snap) BY SharedLists
  <2>2. /\ LogOK(Shared(s.snap), written) /\ Chained(Shared(s.snap)) /\ s.snap[1].base <= s.from
    BY <1>6, <2>1 DEF SnapOK
  <2>3. Len(Shared(s.snap)) \in Nat \ {0} BY <2>2, ListIs
  <2>4. Len(Shared(s.snap)) = Len(s.snap) BY <1>3, SharedTyped
  <2>5. s.snap # <<>> /\ 1 \in 1..Len(s.snap) BY <1>3, <2>3, <2>4
  <2>6. Shared(s.snap)[1] = Current(s.snap[1]) /\ s.snap[1] \in Segment BY <1>3, <2>5, SharedTyped
  <2>7. Shared(s.snap)[1].base <= s.from BY <2>2, <2>6, CurrentTyped
  <2>8. QED BY <1>3, <2>2, <2>5, <2>7, ReadBatchLabels
<1>8. \/ t = [Idle EXCEPT !.pc = "failed"]
      \/ t = [Idle EXCEPT !.pc = "poll"]
      \/ t = [pc |-> "deliver", from |-> s.from, snap |-> <<>>, batch |-> b]
  BY <1>3, AfterReadIs
<1> HIDE DEF t, b
<1>9. ReaderOK(t, group[g], delivered[g], written, OldestOffset, NextOffset) /\ t.pc # "read"
  <2>1. CASE t = [Idle EXCEPT !.pc = "failed"] \/ t = [Idle EXCEPT !.pc = "poll"]
    BY <1>5, <2>1, GivenUp
  <2>2. CASE t = [pc |-> "deliver", from |-> s.from, snap |-> <<>>, batch |-> b]
    <3>1. t.pc = "deliver" /\ t.from = s.from /\ t.batch = b BY <2>2
    <3>2. t.pc # "start" /\ t.pc # "commit" /\ t.pc # "read" BY <3>1
    <3>3. t.from <= group[g].next BY <1>5, <3>1
    <3>4. \A i \in 1..Len(t.batch) : [id |-> t.batch[i], off |-> t.from + i - 1] \in written BY <1>7, <3>1
    <3>5. QED BY <1>5, <3>2, <3>3, <3>4, Zenon DEF ReaderOK
  <2>3. QED BY <1>8, <2>1, <2>2
<1>10. QED BY <1>2, <1>9, CalmAlone

\* Stop, and a subscription StartAt refuses.
LEMMA CalmStop ==
    ASSUME IInv, BusTypes, BusTypes', Calm, NEW r \in Readers, UNCHANGED walVars,
           UNCHANGED <<offsetFile, group, delivered, firstStart>>,
           \/ reader' = [reader EXCEPT ![r] = Idle]
           \/ reader' = [reader EXCEPT ![r] = [Idle EXCEPT !.pc = "failed"]]
    PROVE  Calm'
<1>1. ASSUME NEW t, t = Idle \/ t = [Idle EXCEPT !.pc = "failed"], reader' = [reader EXCEPT ![r] = t]
      PROVE  Calm'
  <2>1. t.pc \in {"off", "failed"} BY <1>1, IdleTyped
  <2>2. /\ ReaderOK(t, group[Membership[r]], delivered[Membership[r]], written, OldestOffset, NextOffset)
        /\ t.pc # "read"
    BY <2>1, OffOK
  <2>3. QED BY <1>1, <2>2, CalmAlone
<1>2. QED BY <1>1

\* Subscribe up to the choice of the start.
LEMMA CalmSubscribe ==
    ASSUME IInv, BusTypes, BusTypes', Calm, NEW r \in Readers, SubscribeBegin(r)
    PROVE  Calm'
<1> DEFINE g == Membership[r]
           o == group[g]
           p == groupFor(g)
           n == IF StartEarliest THEN OldestOffset ELSE NextOffset
           t == IF p.committed THEN [Idle EXCEPT !.pc = "poll"]
                ELSE [Idle EXCEPT !.pc = "start", !.from = n]
<1>1. g \in Groups BY BusConstants
<1>2. /\ reader' = [reader EXCEPT ![r] = t] /\ group' = [group EXCEPT ![g] = p] /\ UNCHANGED walVars
      /\ UNCHANGED <<offsetFile, delivered, firstStart>>
  BY DEF SubscribeBegin
<1>3. /\ reader \in [Readers -> ReaderType] /\ group \in [Groups -> ObjectType] /\ o \in ObjectType
      /\ offsetFile[g] \in FileType
  BY <1>1 DEF BusTypes
<1>4. /\ p \in ObjectType /\ p.loaded /\ (o.loaded => p = o)
      /\ ~ o.loaded => p.next = offsetFile[g].next /\ p.committed = offsetFile[g].readable
  BY <1>1, GroupForTyped
<1>5. OldestOffset \in Nat /\ NextOffset \in Nat /\ OldestOffset <= NextOffset BY SegsAre
<1>6. n \in Nat /\ OldestOffset <= n /\ n <= NextOffset BY <1>5
<1>7. \/ t = [Idle EXCEPT !.pc = "poll"] /\ p.committed
      \/ t = [Idle EXCEPT !.pc = "start", !.from = n] /\ ~ p.committed
  <2> HIDE DEF p, n
  <2>1. CASE p.committed BY <2>1
  <2>2. CASE ~ p.committed BY <2>2
  <2>3. QED BY <2>1, <2>2
<1> HIDE DEF p, t, n
<1>8. GroupOK(offsetFile[g], o, firstStart[g], delivered[g], written, OldestOffset, NextOffset)
  BY <1>1 DEF Calm
<1>9. GroupOK(offsetFile[g], p, firstStart[g], delivered[g], written, OldestOffset, NextOffset) /\ Forward(o, p)
  BY <1>3, <1>4, <1>5, <1>8, GroupOpened
<1>10. /\ group'[g] = p /\ \A h \in Groups : h # g => group'[h] = group[h]
       /\ reader'[r] = t /\ \A q \in Readers : q # r => reader'[q] = reader[q]
       /\ offsetFile' = offsetFile /\ delivered' = delivered /\ firstStart' = firstStart
  BY <1>1, <1>2, <1>3
<1>11. ReaderOK(t, p, delivered[g], written, OldestOffset, NextOffset) /\ t.pc # "read"
  <2>1. CASE t = [Idle EXCEPT !.pc = "poll"] /\ p.committed BY <2>1, GivenUp
  <2>2. CASE t = [Idle EXCEPT !.pc = "start", !.from = n]
    <3>1. t.pc = "start" /\ t.from = n BY <1>6, <2>2, IdleTyped
    <3>2. /\ t.pc \notin {"poll", "read", "deliver", "commit"} /\ t.pc \notin {"read", "deliver", "commit"}
          /\ t.pc \notin {"deliver", "commit"} /\ t.pc # "commit" /\ t.pc # "read"
      BY <3>1
    <3>3. OldestOffset <= t.from /\ t.from <= NextOffset BY <1>6, <3>1
    <3>4. QED BY <1>4, <3>2, <3>3, Zenon DEF ReaderOK
  <2>3. QED BY <1>7, <2>1, <2>2
<1>12. GroupOK(offsetFile'[g], group'[g], firstStart'[g], delivered'[g], written, OldestOffset, NextOffset)
  BY <1>9, <1>10
<1>13. ReaderOK(reader'[r], group'[g], delivered'[g], written, OldestOffset, NextOffset) BY <1>10, <1>11
<1>14. Forward(group[g], group'[g]) /\ delivered[g] \subseteq delivered'[g] BY <1>9, <1>10
<1>15. reader'[r].pc = "read" => SnapOK(segs, written, reader'[r].snap, reader'[r].from) BY <1>10, <1>11
<1>16. \A h \in Groups : h # g => /\ offsetFile'[h] = offsetFile[h] /\ group'[h] = group[h]
                                  /\ firstStart'[h] = firstStart[h] /\ delivered'[h] = delivered[h]
  BY <1>10
<1> HIDE DEF g
<1>17. g = Membership[r] BY DEF g
<1>18. QED BY <1>1, <1>2, <1>10, <1>12, <1>13, <1>14, <1>15, <1>16, <1>17, CalmReader

\* StartAt.
LEMMA CalmStart ==
    ASSUME IInv, BusTypes, BusTypes', Calm, NEW r \in Readers, SubscribeStart(r)
    PROVE  Calm'
<1> DEFINE g == Membership[r]
           o == group[g]
           n == reader[r].from
           t == [Idle EXCEPT !.pc = "poll"]
<1>1. g \in Groups BY BusConstants
<1>2. UNCHANGED walVars /\ delivered' = delivered /\ reader[r].pc = "start" BY DEF SubscribeStart
<1>3. CASE reader' = [reader EXCEPT ![r] = Idle] /\ UNCHANGED <<offsetFile, group, firstStart>>
  BY <1>2, <1>3, CalmStop
<1>4. CASE /\ ~ o.committed
           /\ offsetFile' = [offsetFile EXCEPT ![g] = [readable |-> TRUE, next |-> n]]
           /\ group' = [group EXCEPT ![g].next = n, ![g].committed = TRUE]
           /\ firstStart' = [firstStart EXCEPT ![g] = IF @ = {} THEN {n} ELSE @]
           /\ reader' = [reader EXCEPT ![r] = t]
  <2>1. /\ reader \in [Readers -> ReaderType] /\ o \in ObjectType /\ offsetFile[g] \in FileType /\ n \in Nat
        /\ firstStart \in [Groups -> SUBSET Nat]
    BY <1>1 DEF BusTypes, ReaderType
  <2>2. /\ offsetFile'[g] = [readable |-> TRUE, next |-> n]
        /\ group'[g].next = n /\ group'[g].committed /\ group'[g].loaded = o.loaded
        /\ \A h \in Groups : h # g => offsetFile'[h] = offsetFile[h] /\ group'[h] = group[h]
    BY <1>1, <1>4, <2>1, PositionSet
  <2>3. group'[g] \in ObjectType /\ offsetFile'[g] \in FileType BY <1>1 DEF BusTypes
  <2>4. ReaderOK(reader[r], o, delivered[g], written, OldestOffset, NextOffset) BY DEF Calm
  <2>5. o.loaded /\ OldestOffset <= n /\ n <= NextOffset BY <1>2, <1>4, <2>4, Zenon DEF ReaderOK
  <2>6. GroupOK(offsetFile[g], o, firstStart[g], delivered[g], written, OldestOffset, NextOffset)
    BY <1>1 DEF Calm
  <2>7. OldestOffset \in Nat /\ NextOffset \in Nat BY SegsAre
  <2>8. offsetFile'[g].readable /\ offsetFile'[g].next = n BY <2>2
  <2>9. \A e \in written : e.off \in Nat BY DEF IInv
  <2>10. group'[g].loaded /\ group'[g].committed /\ group'[g].next = n /\ ~ o.committed BY <1>4, <2>2, <2>5
  <2> DEFINE c == offsetFile'[g]
             p == group'[g]
             f == offsetFile[g]
             x == firstStart[g]
  <2>31. /\ f \in FileType /\ o \in ObjectType /\ c \in FileType /\ p \in ObjectType /\ n \in Nat
         /\ GroupOK(f, o, x, delivered[g], written, OldestOffset, NextOffset)
         /\ o.loaded /\ ~ o.committed /\ OldestOffset <= n /\ n <= NextOffset
         /\ c.readable /\ c.next = n /\ p.loaded /\ p.committed /\ p.next = n
    BY <2>1, <2>3, <2>5, <2>6, <2>8, <2>10
  <2> HIDE DEF c, p, f, x, o, n
  <2>32. x = {} /\ GroupOK(c, p, {n}, delivered[g], written, OldestOffset, NextOffset) /\ Forward(o, p)
    BY <2>7, <2>9, <2>31, GroupStarted
  <2>11. /\ firstStart[g] = {} /\ Forward(o, group'[g])
         /\ GroupOK(offsetFile'[g], group'[g], {n}, delivered[g], written, OldestOffset, NextOffset)
    BY <2>32 DEF c, p, x
  <2>12. firstStart'[g] = {n} /\ \A h \in Groups : h # g => firstStart'[h] = firstStart[h]
    BY <1>1, <1>4, <2>1, <2>11
  <2>13. reader'[r] = t /\ \A q \in Readers : q # r => reader'[q] = reader[q] BY <1>4, <2>1
  <2>14. t \in {Idle, [Idle EXCEPT !.pc = "poll"], [Idle EXCEPT !.pc = "failed"]} OBVIOUS
  <2> HIDE DEF t
  <2>15. ReaderOK(t, group'[g], delivered'[g], written, OldestOffset, NextOffset) /\ t.pc # "read"
    BY <2>2, <2>14, GivenUp
  <2>16. GroupOK(offsetFile'[g], group'[g], firstStart'[g], delivered'[g], written, OldestOffset, NextOffset)
    BY <1>2, <2>11, <2>12
  <2>17. ReaderOK(reader'[r], group'[g], delivered'[g], written, OldestOffset, NextOffset) BY <2>13, <2>15
  <2>18. Forward(group[g], group'[g]) /\ delivered[g] \subseteq delivered'[g] BY <1>2, <2>11 DEF o
  <2>19. reader'[r].pc = "read" => SnapOK(segs, written, reader'[r].snap, reader'[r].from) BY <2>13, <2>15
  <2>20. \A h \in Groups : h # g => /\ offsetFile'[h] = offsetFile[h] /\ group'[h] = group[h]
                                    /\ firstStart'[h] = firstStart[h] /\ delivered'[h] = delivered[h]
    BY <1>2, <2>2, <2>12
  <2> HIDE DEF g
  <2>21. g = Membership[r] BY DEF g
  <2>22. QED BY <1>1, <1>2, <2>13, <2>16, <2>17, <2>18, <2>19, <2>20, <2>21, CalmReader
<1>5. QED BY <1>3, <1>4, Zenon DEF SubscribeStart

\* The handler is called.
LEMMA CalmDeliver ==
    ASSUME IInv, BusTypes, BusTypes', Calm, NEW r \in Readers, Deliver(r)
    PROVE  Calm'
<1> DEFINE g == Membership[r]
           s == reader[r]
           t == [s EXCEPT !.pc = "commit"]
           z == [id |-> Head(s.batch), off |-> s.from]
<1>1. g \in Groups BY BusConstants
<1>2. /\ reader \in [Readers -> ReaderType] /\ s \in ReaderType /\ s.batch \in Seq(Nat) /\ s.from \in Nat
      /\ s.pc \in {"deliver", "commit"} <=> s.batch # <<>>
      /\ delivered \in [Groups -> SUBSET [id: Nat, off: Nat]] /\ group[g] \in ObjectType
  BY <1>1 DEF BusTypes, ReaderType
<1>3. /\ s.pc = "deliver" /\ reader' = [reader EXCEPT ![r] = t] /\ UNCHANGED walVars
      /\ delivered' = [delivered EXCEPT ![g] = delivered[g] \cup {z}]
      /\ UNCHANGED <<offsetFile, group, firstStart>>
  BY <1>1, <1>2 DEF Deliver
<1>4. s.batch # <<>> /\ Head(s.batch) = s.batch[1] /\ 1 \in 1..Len(s.batch) BY <1>2, <1>3
<1>5. ReaderOK(s, group[g], delivered[g], written, OldestOffset, NextOffset) BY DEF Calm
<1>6. /\ group[g].committed /\ s.from <= group[g].next
      /\ \A i \in 1..Len(s.batch) : [id |-> s.batch[i], off |-> s.from + i - 1] \in written
  <2>1. /\ s.pc \in {"poll", "read", "deliver", "commit"} /\ s.pc \in {"read", "deliver", "commit"}
        /\ s.pc \in {"deliver", "commit"}
    BY <1>3
  <2>2. QED BY <1>5, <2>1, Zenon DEF ReaderOK
<1>7. z \in written
  <2>1. [id |-> s.batch[1], off |-> s.from + 1 - 1] \in written BY <1>4, <1>6
  <2>2. s.from + 1 - 1 = s.from BY <1>2
  <2>3. QED BY <1>4, <2>1, <2>2
<1>8. t.pc = "commit" /\ t.from = s.from /\ t.batch = s.batch BY <1>2 DEF ReaderType
<1>9. z = [id |-> t.batch[1], off |-> t.from] BY <1>4, <1>8
<1> HIDE DEF t, z
<1>10. GroupOK(offsetFile[g], group[g], firstStart[g], delivered[g], written, OldestOffset, NextOffset)
  BY <1>1 DEF Calm
<1>11. GroupOK(offsetFile[g], group[g], firstStart[g], delivered[g] \cup {z}, written, OldestOffset, NextOffset)
  BY <1>7, <1>10, GroupDelivered
<1>12. /\ delivered'[g] = delivered[g] \cup {z} /\ \A h \in Groups : h # g => delivered'[h] = delivered[h]
       /\ reader'[r] = t /\ \A q \in Readers : q # r => reader'[q] = reader[q]
       /\ offsetFile' = offsetFile /\ group' = group /\ firstStart' = firstStart
  BY <1>1, <1>2, <1>3
<1>13. ReaderOK(t, group[g], delivered[g] \cup {z}, written, OldestOffset, NextOffset) /\ t.pc # "read"
  <2>1. t.pc # "start" /\ t.pc # "read" BY <1>8
  <2>2. [id |-> t.batch[1], off |-> t.from] \in delivered[g] \cup {z} BY <1>9
  <2>3. t.from <= group[g].next /\ \A i \in 1..Len(t.batch) : [id |-> t.batch[i], off |-> t.from + i - 1] \in written
    BY <1>6, <1>8
  <2>4. QED BY <1>6, <2>1, <2>2, <2>3, Zenon DEF ReaderOK
<1>14. GroupOK(offsetFile'[g], group'[g], firstStart'[g], delivered'[g], written, OldestOffset, NextOffset)
  BY <1>11, <1>12
<1>15. ReaderOK(reader'[r], group'[g], delivered'[g], written, OldestOffset, NextOffset) BY <1>12, <1>13
<1>16. group[g].next <= group[g].next BY <1>2 DEF ObjectType
<1>17. Forward(group[g], group'[g]) BY <1>12, <1>16, Zenon DEF Forward
<1>18. delivered[g] \subseteq delivered'[g] BY <1>12
<1>19. reader'[r].pc = "read" => SnapOK(segs, written, reader'[r].snap, reader'[r].from) BY <1>12, <1>13
<1>20. \A h \in Groups : h # g => /\ offsetFile'[h] = offsetFile[h] /\ group'[h] = group[h]
                                  /\ firstStart'[h] = firstStart[h] /\ delivered'[h] = delivered[h]
  BY <1>12
<1> HIDE DEF g
<1>21. g = Membership[r] BY DEF g
<1>22. QED BY <1>1, <1>3, <1>12, <1>14, <1>15, <1>17, <1>18, <1>19, <1>20, <1>21, CalmReader

\* A step that moves the position of the reader's group.
LEMMA CalmMoved ==
    ASSUME IInv, BusTypes, BusTypes', Calm, NEW r \in Readers, UNCHANGED walVars,
           UNCHANGED <<delivered, firstStart>>, NEW g \in Groups, g = Membership[r],
           \A h \in Groups : h # g => offsetFile'[h] = offsetFile[h] /\ group'[h] = group[h],
           GroupOK(offsetFile'[g], group'[g], firstStart[g], delivered[g], written, OldestOffset, NextOffset),
           Forward(group[g], group'[g]), NEW t, reader' = [reader EXCEPT ![r] = t], t.pc # "read",
           ReaderOK(t, group'[g], delivered[g], written, OldestOffset, NextOffset)
    PROVE  Calm'
<1>1. reader \in [Readers -> ReaderType] BY DEF BusTypes
<1>2. reader'[r] = t /\ \A q \in Readers : q # r => reader'[q] = reader[q] BY <1>1
<1>3. delivered' = delivered /\ firstStart' = firstStart OBVIOUS
<1>4. \A h \in Groups : h # g => /\ offsetFile'[h] = offsetFile[h] /\ group'[h] = group[h]
                                 /\ firstStart'[h] = firstStart[h] /\ delivered'[h] = delivered[h]
  BY <1>3
<1>5. GroupOK(offsetFile'[g], group'[g], firstStart'[g], delivered'[g], written, OldestOffset, NextOffset)
  BY <1>3
<1>6. ReaderOK(reader'[r], group'[g], delivered'[g], written, OldestOffset, NextOffset) BY <1>2, <1>3
<1>7. delivered[g] \subseteq delivered'[g] BY <1>3
<1>8. reader'[r].pc = "read" => SnapOK(segs, written, reader'[r].snap, reader'[r].from) BY <1>2
<1>9. QED BY <1>2, <1>4, <1>5, <1>6, <1>7, <1>8, CalmReader

\* Where a reader about to commit stands.
LEMMA AtCommit ==
    ASSUME IInv, BusTypes, Calm, NEW r \in Readers, reader[r].pc = "commit"
    PROVE  LET g == Membership[r]
               s == reader[r]
           IN  /\ g \in Groups /\ s \in ReaderType /\ s.from \in Nat /\ s.batch \in Seq(Nat) /\ s.batch # <<>>
               /\ group[g] \in ObjectType /\ offsetFile[g] \in FileType
               /\ group[g].committed /\ s.from <= group[g].next
               /\ \A i \in 1..Len(s.batch) : [id |-> s.batch[i], off |-> s.from + i - 1] \in written
               /\ [id |-> s.batch[1], off |-> s.from] \in delivered[g]
               /\ GroupOK(offsetFile[g], group[g], firstStart[g], delivered[g],
                          written, OldestOffset, NextOffset)
               /\ Dated(written, NextOffset) /\ \A e \in written : e.off \in Nat
               /\ OldestOffset \in Nat /\ NextOffset \in Nat
<1> DEFINE g == Membership[r]
           s == reader[r]
<1>1. g \in Groups BY BusConstants
<1>2. /\ s \in ReaderType /\ s.from \in Nat /\ s.batch \in Seq(Nat) /\ s.batch # <<>>
      /\ group[g] \in ObjectType /\ offsetFile[g] \in FileType
  BY <1>1 DEF BusTypes, ReaderType
<1>3. ReaderOK(s, group[g], delivered[g], written, OldestOffset, NextOffset) BY DEF Calm
<1>4. /\ s.pc \in {"poll", "read", "deliver", "commit"} /\ s.pc \in {"read", "deliver", "commit"}
      /\ s.pc \in {"deliver", "commit"} /\ s.pc = "commit"
  OBVIOUS
<1>5. /\ group[g].committed /\ s.from <= group[g].next
      /\ \A i \in 1..Len(s.batch) : [id |-> s.batch[i], off |-> s.from + i - 1] \in written
      /\ [id |-> s.batch[1], off |-> s.from] \in delivered[g]
  BY <1>3, <1>4, Zenon DEF ReaderOK
<1>6. /\ GroupOK(offsetFile[g], group[g], firstStart[g], delivered[g], written, OldestOffset, NextOffset)
      /\ Dated(written, NextOffset)
  BY <1>1 DEF Calm
<1>7. \A e \in written : e.off \in Nat BY DEF IInv
<1>8. OldestOffset \in Nat /\ NextOffset \in Nat BY SegsAre
<1>9. QED BY <1>1, <1>2, <1>5, <1>6, <1>7, <1>8

\* The rest of the batch stands as the batch did.
LEMMA RestOK ==
    ASSUME NEW s \in ReaderType, s.pc = "commit", s.batch # <<>>, NEW w,
           \A i \in 1..Len(s.batch) : [id |-> s.batch[i], off |-> s.from + i - 1] \in w,
           NEW p \in ObjectType, p.committed, s.from + 1 <= p.next, NEW d, NEW lo, NEW hi
    PROVE  AfterCommit(s).pc # "read" /\ ReaderOK(AfterCommit(s), p, d, w, lo, hi)
<1> DEFINE t == AfterCommit(s)
<1>1. /\ Len(s.batch) = 1 => t = [Idle EXCEPT !.pc = "poll"]
      /\ Len(s.batch) # 1 => t.pc = "deliver" /\ t.from = s.from + 1 /\ t.batch = Tail(s.batch)
  BY AfterCommitTyped
<1>2. s.batch \in Seq(Nat) /\ s.from \in Nat BY DEF ReaderType
<1> HIDE DEF t
<1>3. CASE Len(s.batch) = 1
  <2>1. t = [Idle EXCEPT !.pc = "poll"] BY <1>1, <1>3
  <2>2. ReaderOK(t, p, d, w, lo, hi) /\ t.pc # "read" BY <2>1, GivenUp
  <2>3. QED BY <2>2 DEF t
<1>4. CASE Len(s.batch) # 1
  <2>1. t.pc = "deliver" /\ t.from = s.from + 1 /\ t.batch = Tail(s.batch) BY <1>1, <1>4
  <2>2. t.pc # "start" /\ t.pc # "commit" /\ t.pc # "read" BY <2>1
  <2>3. t.from <= p.next BY <2>1
  <2>4. ASSUME NEW i \in 1..Len(t.batch)
        PROVE  [id |-> t.batch[i], off |-> t.from + i - 1] \in w
    <3>1. Len(t.batch) = Len(s.batch) - 1 /\ t.batch[i] = s.batch[i + 1] BY <1>2, <2>1
    <3>2. i + 1 \in 1..Len(s.batch) BY <1>2, <3>1
    <3>3. [id |-> s.batch[i + 1], off |-> s.from + (i + 1) - 1] \in w BY <3>2
    <3>4. t.from + i - 1 = s.from + (i + 1) - 1 BY <1>2, <2>1
    <3>5. QED BY <3>1, <3>3, <3>4
  <2>5. ReaderOK(t, p, d, w, lo, hi) BY <2>2, <2>3, <2>4, Zenon DEF ReaderOK
  <2>6. QED BY <2>2, <2>5 DEF t
<1>5. QED BY <1>3, <1>4

\* Commit after the handler.
LEMMA CalmCommit ==
    ASSUME IInv, BusTypes, BusTypes', Calm, NEW r \in Readers, CommitStep(r)
    PROVE  Calm'
<1> DEFINE g == Membership[r]
           s == reader[r]
           o == group[g]
           n == NextAfter(s)
           t == AfterCommit(s)
<1>1. s.pc = "commit" /\ UNCHANGED walVars /\ UNCHANGED <<delivered, firstStart>> BY DEF CommitStep
<1>2. /\ g \in Groups /\ s \in ReaderType /\ s.from \in Nat /\ s.batch \in Seq(Nat) /\ s.batch # <<>>
      /\ o \in ObjectType /\ offsetFile[g] \in FileType /\ o.committed /\ s.from <= o.next
      /\ \A i \in 1..Len(s.batch) : [id |-> s.batch[i], off |-> s.from + i - 1] \in written
      /\ [id |-> s.batch[1], off |-> s.from] \in delivered[g]
      /\ GroupOK(offsetFile[g], o, firstStart[g], delivered[g], written, OldestOffset, NextOffset)
      /\ Dated(written, NextOffset) /\ \A e \in written : e.off \in Nat
      /\ OldestOffset \in Nat /\ NextOffset \in Nat
  BY <1>1, AtCommit
<1>3. CASE reader' = [reader EXCEPT ![r] = [Idle EXCEPT !.pc = "failed"]] /\ UNCHANGED <<offsetFile, group>>
  BY <1>1, <1>3, CalmStop
<1>4. CASE ~ CommitRefused(g, n) /\ Commit(g, n) /\ reader' = [reader EXCEPT ![r] = AfterCommit(@)]
  <2>1. n = s.from + 1 /\ n \in Nat /\ ~ (s.from + 1 < o.next) BY <1>2, <1>4 DEF NextAfter, CommitRefused
  <2>2. reader' = [reader EXCEPT ![r] = t] BY <1>4
  <2>3. \/ UNCHANGED <<offsetFile, group>> /\ n = o.next
        \/ /\ offsetFile' = [offsetFile EXCEPT ![g] = [readable |-> TRUE, next |-> n]]
           /\ group' = [group EXCEPT ![g].next = n, ![g].committed = TRUE]
    BY <1>2, <1>4, <2>1, CommitSets
  <2>4. CASE UNCHANGED <<offsetFile, group>> /\ n = o.next
    <3>1. s.from + 1 <= o.next BY <1>2, <2>1, <2>4
    <3>2. t.pc # "read" /\ ReaderOK(t, o, delivered[g], written, OldestOffset, NextOffset)
      BY <1>1, <1>2, <3>1, RestOK
    <3> HIDE DEF t
    <3>3. QED BY <1>1, <2>2, <2>4, <3>2, CalmAlone
  <2>5. CASE /\ offsetFile' = [offsetFile EXCEPT ![g] = [readable |-> TRUE, next |-> n]]
             /\ group' = [group EXCEPT ![g].next = n, ![g].committed = TRUE]
    <3> DEFINE z == [id |-> s.batch[1], off |-> s.from]
               c == offsetFile'[g]
               p == group'[g]
               f == offsetFile[g]
    <3> HIDE DEF n
    <3>1. /\ c = [readable |-> TRUE, next |-> n]
          /\ p.next = n /\ p.committed /\ p.loaded = o.loaded
          /\ \A h \in Groups : h # g => offsetFile'[h] = offsetFile[h] /\ group'[h] = group[h]
      BY <1>2, <2>1, <2>5, PositionSet
    <3>2. c \in FileType /\ p \in ObjectType BY <1>2 DEF BusTypes
    <3>3. c.readable /\ c.next = s.from + 1 BY <2>1, <3>1
    <3>4. p.next \in {o.next, s.from + 1} /\ s.from + 1 <= p.next BY <1>2, <2>1, <3>1
    <3>5. z \in delivered[g] /\ z.off = s.from BY <1>2
    <3>6. t.pc # "read" /\ ReaderOK(t, p, delivered[g], written, OldestOffset, NextOffset)
      <4> HIDE DEF p
      <4>1. QED BY <1>1, <1>2, <3>1, <3>2, <3>4, RestOK
    <3> HIDE DEF z, c, p, f, o, t
    <3>7. GroupOK(f, o, firstStart[g], delivered[g], written, OldestOffset, NextOffset) /\ f \in FileType
      BY <1>2 DEF f
    <3>8. GroupOK(c, p, firstStart[g], delivered[g], written, OldestOffset, NextOffset) /\ Forward(o, p)
      <4> DEFINE k == s.from
                 d == delivered[g]
                 x == firstStart[g]
                 lo == OldestOffset
                 hi == NextOffset
      <4>1. /\ f \in FileType /\ o \in ObjectType /\ lo \in Nat /\ hi \in Nat
            /\ GroupOK(f, o, x, d, written, lo, hi) /\ o.committed /\ Dated(written, hi)
            /\ k \in Nat /\ z \in d /\ z.off = k /\ k <= o.next /\ ~ (k + 1 < o.next)
            /\ c \in FileType /\ c.readable /\ c.next = k + 1
            /\ p \in ObjectType /\ p.loaded = o.loaded /\ p.committed /\ p.next \in {o.next, k + 1}
        BY <1>2, <2>1, <3>1, <3>2, <3>3, <3>4, <3>5, <3>7
      <4>2. \A e \in written : e.off \in Nat BY <1>2
      <4> HIDE DEF k, d, x, lo, hi
      <4>3. GroupOK(c, p, x, d, written, lo, hi) /\ Forward(o, p) BY <4>1, <4>2, GroupCommitted
      <4>4. QED BY <4>3 DEF d, x, lo, hi
    <3>9. /\ GroupOK(offsetFile'[g], group'[g], firstStart[g], delivered[g], written, OldestOffset, NextOffset)
          /\ Forward(group[g], group'[g])
          /\ ReaderOK(t, group'[g], delivered[g], written, OldestOffset, NextOffset)
      BY <3>6, <3>8 DEF c, p, o
    <3> HIDE DEF g
    <3>10. g = Membership[r] BY DEF g
    <3>11. QED BY <1>1, <1>2, <2>2, <3>1, <3>6, <3>9, <3>10, CalmMoved
  <2>6. QED BY <2>3, <2>4, <2>5
<1>5. QED BY <1>3, <1>4, Zenon DEF CommitStep

\* A commit that fails on I/O.
LEMMA CalmCommitFails ==
    ASSUME IInv, BusTypes, BusTypes', Calm, NEW r \in Readers, CommitFails(r)
    PROVE  Calm'
<1> DEFINE g == Membership[r]
           s == reader[r]
           o == group[g]
           n == NextAfter(s)
           t == [Idle EXCEPT !.pc = "failed"]
<1>1. /\ s.pc = "commit" /\ UNCHANGED walVars /\ UNCHANGED <<group, delivered, firstStart>>
      /\ ~ CommitRefused(g, n) /\ reader' = [reader EXCEPT ![r] = t]
  BY DEF CommitFails
<1>2. /\ g \in Groups /\ s.from \in Nat /\ s.batch \in Seq(Nat)
      /\ o \in ObjectType /\ offsetFile[g] \in FileType /\ o.committed /\ s.from <= o.next
      /\ [id |-> s.batch[1], off |-> s.from] \in delivered[g]
      /\ GroupOK(offsetFile[g], o, firstStart[g], delivered[g], written, OldestOffset, NextOffset)
      /\ Dated(written, NextOffset) /\ \A e \in written : e.off \in Nat
      /\ OldestOffset \in Nat /\ NextOffset \in Nat
  BY <1>1, AtCommit
<1>3. CASE offsetFile' = offsetFile BY <1>1, <1>3, CalmStop
<1>4. CASE offsetFile' = [offsetFile EXCEPT ![g] = [readable |-> TRUE, next |-> n]]
  <2>1. n = s.from + 1 /\ n \in Nat /\ ~ (s.from + 1 < o.next) BY <1>1, <1>2 DEF NextAfter, CommitRefused
  <2> DEFINE z == [id |-> s.batch[1], off |-> s.from]
             c == offsetFile'[g]
             f == offsetFile[g]
  <2> HIDE DEF n
  <2>2. /\ c = [readable |-> TRUE, next |-> n]
        /\ \A h \in Groups : h # g => offsetFile'[h] = offsetFile[h]
    BY <1>2, <1>4 DEF BusTypes
  <2>3. c \in FileType BY <1>2 DEF BusTypes
  <2>4. c.readable /\ c.next = s.from + 1 BY <2>1, <2>2
  <2>5. z \in delivered[g] /\ z.off = s.from BY <1>2
  <2>6. t.pc # "read" /\ ReaderOK(t, o, delivered[g], written, OldestOffset, NextOffset)
    <3>1. t \in {Idle, [Idle EXCEPT !.pc = "poll"], [Idle EXCEPT !.pc = "failed"]} OBVIOUS
    <3> HIDE DEF t, o
    <3>2. QED BY <1>2, <3>1, GivenUp
  <2> HIDE DEF z, c, f, o, t
  <2>7. GroupOK(f, o, firstStart[g], delivered[g], written, OldestOffset, NextOffset) /\ f \in FileType
    BY <1>2 DEF f
  <2>8. o.next \in {o.next, s.from + 1} OBVIOUS
  <2>9. GroupOK(c, o, firstStart[g], delivered[g], written, OldestOffset, NextOffset) /\ Forward(o, o)
    <3> DEFINE k == s.from
               d == delivered[g]
               x == firstStart[g]
               lo == OldestOffset
               hi == NextOffset
    <3>1. /\ f \in FileType /\ o \in ObjectType /\ lo \in Nat /\ hi \in Nat
          /\ GroupOK(f, o, x, d, written, lo, hi) /\ o.committed /\ Dated(written, hi)
          /\ k \in Nat /\ z \in d /\ z.off = k /\ k <= o.next /\ ~ (k + 1 < o.next)
          /\ c \in FileType /\ c.readable /\ c.next = k + 1
          /\ o.loaded = o.loaded /\ o.next \in {o.next, k + 1}
      BY <1>2, <2>1, <2>3, <2>4, <2>5, <2>7, <2>8
    <3>2. \A e \in written : e.off \in Nat BY <1>2
    <3> HIDE DEF k, d, x, lo, hi
    <3>3. GroupOK(c, o, x, d, written, lo, hi) /\ Forward(o, o) BY <3>1, <3>2, GroupCommitted
    <3>4. QED BY <3>3 DEF d, x, lo, hi
  <2>10. group' = group BY <1>1
  <2>11. /\ GroupOK(offsetFile'[g], group'[g], firstStart[g], delivered[g], written, OldestOffset, NextOffset)
         /\ Forward(group[g], group'[g])
         /\ ReaderOK(t, group'[g], delivered[g], written, OldestOffset, NextOffset)
    BY <2>6, <2>9, <2>10 DEF c, o
  <2>12. \A h \in Groups : h # g => offsetFile'[h] = offsetFile[h] /\ group'[h] = group[h] BY <2>2, <2>10
  <2> HIDE DEF g
  <2>13. g = Membership[r] BY DEF g
  <2>14. QED BY <1>1, <1>2, <2>6, <2>11, <2>12, <2>13, CalmMoved
<1>5. QED BY <1>3, <1>4 DEF CommitFails

-----------------------------------------------------------------------------
(* The inductive invariant is kept *)

\* What is unsafe stays so: a log step to a state without short writes and power
\* cuts starts in one and is neither.
LEMMA SafeLogStep ==
    ASSUME IInv, [WalNext]_walVars, faults'.cuts = 0, faults'.shorts = 0
    PROVE  faults.cuts = 0 /\ faults.shorts = 0 /\ ~ AppendShort /\ ~ PowerCut
<1>1. "cuts" \in DOMAIN FaultBound /\ "shorts" \in DOMAIN FaultBound /\ "kills" \in DOMAIN FaultBound
      /\ "removes" \in DOMAIN FaultBound
  BY DEF FaultBound
<1>2. ASSUME NEW f \in DOMAIN FaultBound, Fault(f)
      PROVE  faults.cuts = 0 /\ faults.shorts = 0 /\ f # "cuts" /\ f # "shorts"
  BY <1>1, <1>2, FaultCounts
<1>3. ~ AppendShort BY <1>1, <1>2 DEF AppendShort
<1>4. ~ PowerCut BY <1>1, <1>2 DEF PowerCut
<1>5. (\E f \in DOMAIN FaultBound : Fault(f)) \/ faults' = faults
  <2>1. CASE AppendOk \/ Sync \/ Close \/ Open BY <2>1 DEF AppendOk, Sync, Close, Open
  <2>2. CASE Kill BY <1>1, <2>2 DEF Kill
  <2>3. ASSUME NEW q \in 0..NextOffset, Reclaim(q) \/ ReclaimFails(q)
        PROVE  (\E f \in DOMAIN FaultBound : Fault(f)) \/ faults' = faults
    BY <1>1, <2>3 DEF Reclaim, ReclaimFails
  <2>4. CASE UNCHANGED walVars BY <2>4 DEF walVars
  <2>5. QED BY <1>3, <1>4, <2>1, <2>2, <2>3, <2>4 DEF WalNext
<1>6. QED BY <1>2, <1>3, <1>4, <1>5

\* Every step keeps the bus calm while power, writes and offset files hold.
LEMMA CalmStep ==
    ASSUME BusInv, [Next]_vars, IInv', BusTypes', Safe'
    PROVE  Calm'
<1>1. IInv /\ BusTypes /\ Offline /\ rots \in Nat BY DEF BusInv, DInv
<1>2. [WalNext]_walVars BY <1>1, BusLogStep
<1>3. faults.cuts = 0 /\ faults.shorts = 0 /\ ~ AppendShort /\ ~ PowerCut
  BY <1>1, <1>2, SafeLogStep DEF Safe
<1>4. ~ (\E g \in Groups : Rot(g)) BY <1>1 DEF Rot, Safe
<1>5. rots = 0
  <2>1. rots' = 0 BY DEF Safe
  <2>2. ASSUME NEW r \in Readers, SubscribeBegin(r) \/ ReaderStep(r) \/ CommitFails(r) \/ Stop(r)
        PROVE  rots' = rots
    BY <2>2 DEF SubscribeBegin, ReaderStep, SubscribeStart, Poll, Read, Deliver, CommitStep, CommitFails, Stop
  <2>3. CASE Publish \/ SyncLoop \/ Restart \/ UNCHANGED vars
    BY <2>1, <2>3 DEF Publish, SyncLoop, Restart, vars, busVars
  <2>4. CASE ReclaimConsumed BY <2>1, <2>4 DEF ReclaimConsumed
  <2>5. CASE Shutdown \/ Crash BY <2>1, <2>5 DEF Shutdown, Crash, ForgetMemory
  <2>6. QED BY <1>4, <2>1, <2>2, <2>3, <2>4, <2>5 DEF Next
<1>6. Calm /\ Chained(segs) BY <1>3, <1>5 DEF BusInv, Safe, Calm
<1>7. LogOK(segs', written') BY DEF IInv
<1>8. ASSUME Onward(segs, written, segs', written'), ForgetMemory PROVE Calm'
  <2>1. /\ Chained(segs') /\ segs'[1].base = segs[1].base
        /\ Added(written, nextOffset(lastOf(segs)), written', nextOffset(lastOf(segs')))
    BY <1>8 DEF Onward
  <2>2. /\ UNCHANGED <<offsetFile, delivered, firstStart>> /\ group' = [g \in Groups |-> Unloaded]
        /\ \A r \in Readers : reader'[r] = Idle
    BY <1>8 DEF ForgetMemory
  <2>3. \A r \in Readers : reader'[r].pc = "off" BY <2>2, IdleTyped
  <2>4. QED BY <1>1, <1>6, <1>7, <2>1, <2>2, <2>3, CalmOffline
<1>9. CASE Publish
  <2>1. AppendOk /\ UNCHANGED busVars BY <1>3, <1>9 DEF Publish
  <2>2. segs' = AppendLast(Rotated, fresh) /\ written' = written \cup {Entry(Rotated, fresh)}
    BY <2>1 DEF AppendOk
  <2>3. Onward(segs, written, segs', written') BY <1>1, <1>6, <2>2, WriteGoes
  <2>4. QED BY <1>1, <1>6, <2>1, <2>3, CalmGoesOn
<1>10. CASE SyncLoop
  <2>1. Sync /\ UNCHANGED busVars BY <1>10 DEF SyncLoop
  <2>2. QED BY <1>1, <1>6, <2>1, SyncGoes, CalmGoesOn
<1>11. CASE ReclaimConsumed BY <1>1, <1>6, <1>7, <1>11, CalmReclaim
<1>12. ASSUME NEW r \in Readers, SubscribeBegin(r) \/ ReaderStep(r) \/ CommitFails(r) \/ Stop(r)
       PROVE  Calm'
  <2>1. CASE SubscribeBegin(r) BY <1>1, <1>6, <2>1, CalmSubscribe
  <2>2. CASE SubscribeStart(r) BY <1>1, <1>6, <2>2, CalmStart
  <2>3. CASE Poll(r) BY <1>1, <1>6, <2>3, CalmPoll
  <2>4. CASE Read(r) BY <1>1, <1>6, <2>4, CalmRead
  <2>5. CASE Deliver(r) BY <1>1, <1>6, <2>5, CalmDeliver
  <2>6. CASE CommitStep(r) BY <1>1, <1>6, <2>6, CalmCommit
  <2>7. CASE CommitFails(r) BY <1>1, <1>6, <2>7, CalmCommitFails
  <2>8. CASE Stop(r)
    <3>1. /\ UNCHANGED walVars /\ UNCHANGED <<offsetFile, group, delivered, firstStart>>
          /\ reader' = [reader EXCEPT ![r] = Idle]
      BY <2>8 DEF Stop
    <3>2. QED BY <1>1, <1>6, <3>1, CalmStop
  <2>9. QED BY <1>12, <2>1, <2>2, <2>3, <2>4, <2>5, <2>6, <2>7, <2>8 DEF ReaderStep
<1>13. CASE Shutdown
  <2>1. Close /\ ForgetMemory BY <1>13 DEF Shutdown
  <2>2. QED BY <1>1, <1>6, <1>7, <1>8, <2>1, CloseGoes
<1>14. CASE Crash
  <2>1. Kill /\ ForgetMemory BY <1>3, <1>14 DEF Crash
  <2>2. PICK d \in DyingStates : segs' = d.files /\ written' = d.written BY <2>1 DEF Kill
  <2>3. Onward(segs, written, d.files, d.written) BY <1>1, <1>6, DyingGoes
  <2>4. QED BY <1>8, <2>1, <2>2, <2>3
<1>15. CASE Restart
  <2>1. Open /\ UNCHANGED busVars /\ status # "open" BY <1>15 DEF Restart, Open
  <2>2. AllSettled(segs, status) BY <1>3 DEF BusInv, DInv
  <2>3. /\ Chained(segs') /\ segs'[1].base = segs[1].base
        /\ nextOffset(lastOf(segs')) = nextOffset(lastOf(segs)) /\ written' = written
    BY <1>1, <1>6, <1>7, <2>1, <2>2, OpenKeeps
  <2>4. Added(written, nextOffset(lastOf(segs)), written', nextOffset(lastOf(segs'))) BY <2>3 DEF Added
  <2>5. UNCHANGED <<offsetFile, delivered, firstStart>> /\ group' = group /\ reader' = reader
    BY <2>1 DEF busVars
  <2>6. \A r \in Readers : reader'[r].pc = "off" BY <1>1, <2>1, <2>5 DEF Offline
  <2>7. QED BY <1>1, <1>6, <1>7, <2>3, <2>4, <2>5, <2>6, CalmOffline
<1>16. CASE UNCHANGED vars
  <2>1. /\ segs' = segs /\ written' = written /\ offsetFile' = offsetFile /\ group' = group
        /\ firstStart' = firstStart /\ delivered' = delivered /\ reader' = reader
    BY <1>16 DEF vars, walVars, busVars
  <2>2. CalmParts(segs, written, segs[1].base, nextOffset(lastOf(segs)),
                  offsetFile, group, firstStart, delivered, reader)
    BY <1>6, CalmIs
  <2>3. QED BY <2>1, <2>2, CalmIs
<1>17. QED BY <1>4, <1>9, <1>10, <1>11, <1>12, <1>13, <1>14, <1>15, <1>16 DEF Next

LEMMA NextBusInv == BusInv /\ [Next]_vars => BusInv'
<1> SUFFICES ASSUME BusInv, [Next]_vars PROVE BusInv' OBVIOUS
<1>1. DInv /\ IInv /\ BusTypes /\ Offline /\ rots \in Nat BY DEF BusInv, DInv
<1>2. [WalNext]_walVars BY <1>1, BusLogStep
<1>3. DInv' BY <1>1, <1>2, NextDInv
<1>4. BusTypes' /\ Offline' BY <1>1, BusTypesStep
<1>5. rots' \in Nat
  <2>1. ASSUME NEW r \in Readers, SubscribeBegin(r) \/ ReaderStep(r) \/ CommitFails(r) \/ Stop(r)
        PROVE  rots' = rots
    BY <2>1 DEF SubscribeBegin, ReaderStep, SubscribeStart, Poll, Read, Deliver, CommitStep, CommitFails, Stop
  <2>2. CASE Publish \/ SyncLoop \/ Restart \/ UNCHANGED vars
    BY <1>1, <2>2 DEF Publish, SyncLoop, Restart, vars, busVars
  <2>3. CASE ReclaimConsumed BY <1>1, <2>3 DEF ReclaimConsumed
  <2>4. CASE Shutdown \/ Crash BY <1>1, <2>4 DEF Shutdown, Crash, ForgetMemory
  <2>5. ASSUME NEW g \in Groups, Rot(g) PROVE rots' \in Nat BY <1>1, <2>5 DEF Rot
  <2>6. QED BY <1>1, <2>1, <2>2, <2>3, <2>4, <2>5 DEF Next
<1>6. Safe' => Calm' BY <1>3, <1>4, CalmStep DEF DInv
<1>7. QED BY <1>3, <1>4, <1>5, <1>6 DEF BusInv

LEMMA InitBusInv == Init => BusInv
<1> SUFFICES ASSUME Init PROVE BusInv OBVIOUS
<1>1. DInv /\ IInv BY InitDInv DEF Init, DInv
<1>2. BusTypes /\ Offline BY BusTypesInit
<1>3. segs = <<NewSegment(0)>> /\ written = {} /\ rots = 0 BY DEF Init, WalInit
<1>4. Chained(segs) /\ Len(segs) = 1 BY <1>3 DEF Chained
<1>5. ASSUME NEW g \in Groups
      PROVE  GroupOK(offsetFile[g], group[g], firstStart[g], delivered[g], written, OldestOffset, NextOffset)
  <2>1. offsetFile[g] = NoFile /\ group[g] = Unloaded /\ firstStart[g] = {} /\ delivered[g] = {} BY DEF Init
  <2>2. QED BY <1>3, <2>1 DEF GroupOK, NoFile, Unloaded
<1>6. \A r \in Readers : reader[r] = Idle BY DEF Init
<1>7. \A r \in Readers : reader[r].pc = "off" BY <1>6, IdleTyped
<1>8. \A r \in Readers : ReaderOK(reader[r], group[Membership[r]], delivered[Membership[r]],
                                  written, OldestOffset, NextOffset)
  BY <1>7, OffOK
<1>9. Dated(written, NextOffset) BY <1>3 DEF Dated
<1>10. Calm BY <1>4, <1>5, <1>7, <1>8, <1>9 DEF Calm
<1>11. QED BY <1>1, <1>2, <1>3, <1>10 DEF BusInv

LEMMA BusInvImplies == BusInv => BusTypeOK /\ NoSilentSkipOnKills
<1> SUFFICES ASSUME BusInv PROVE BusTypeOK /\ NoSilentSkipOnKills OBVIOUS
<1>1. BusTypeOK BY BusTypesImply DEF BusInv
<1>2. ASSUME Safe PROVE NoSilentSkip /\ LabelsTrue
  <2>1. Calm /\ BusTypes /\ IInv BY <1>2 DEF BusInv, DInv
  <2>2. \A g \in Groups : GroupOK(offsetFile[g], group[g], firstStart[g], delivered[g],
                                  written, OldestOffset, NextOffset)
    BY <2>1 DEF Calm
  <2>3. LabelsTrue BY <2>2 DEF GroupOK, LabelsTrue
  <2>4. ASSUME NEW g \in Groups, NEW e \in Passed(g) PROVE e.id \in DeliveredIds(g)
    <3>1. e \in written /\ offsetFile[g].readable /\ e.off < offsetFile[g].next
      BY <2>4 DEF Passed, Owed
    <3>2. PICK s \in firstStart[g] : e.off >= s BY <2>4 DEF Passed, Owed
    <3>3. s \in Nat /\ e.off \in Nat BY <2>1, <3>1, <3>2 DEF BusTypes, IInv
    <3>4. s <= e.off BY <3>2, <3>3
    <3>5. e \in delivered[g] BY <2>2, <3>1, <3>2, <3>4 DEF GroupOK
    <3>6. QED BY <3>5 DEF DeliveredIds
  <2>5. QED BY <2>3, <2>4 DEF NoSilentSkip
<1>3. NoSilentSkipOnKills BY <1>2 DEF NoSilentSkipOnKills, Safe
<1>4. QED BY <1>1, <1>3

-----------------------------------------------------------------------------
(* Theorems *)

LEMMA SpecBusInv == Spec => []BusInv
  BY InitBusInv, NextBusInv, PTL DEF Spec

\* The bus, its groups and its readers keep their types, whatever crashes, fails or
\* rots: a reader holds a batch exactly while it delivers and commits, and a group's
\* first start is set once.
THEOREM BusTypeCorrect == Spec => []BusTypeOK
  BY SpecBusInv, BusInvImplies, PTL

\* At-least-once delivery: through any number of kills, clean restarts, failed
\* commits, reclaims and readers that share a group, Group.Commit never records a
\* position past a record of the log that the group's handler did not get, and
\* Reader.Run hands over every record under the offset it was appended at.
THEOREM NoGroupSkips == Spec => []NoSilentSkipOnKills
  BY SpecBusInv, BusInvImplies, PTL
=============================================================================
