------------------------------- MODULE WalLog -------------------------------
(***************************************************************************)
(* The durable log behind the in-process bus: shared/bus/wal/log.go and    *)
(* segment.go.  One topic's log is a sequence of segment files; records    *)
(* get offsets that are global to the topic, appends go to the last        *)
(* segment, rotation starts a new one, Reclaim deletes whole segments from *)
(* the front and Open recovers what a crash left behind.                   *)
(*                                                                         *)
(* What is abstracted                                                      *)
(*   - A record is its identity (a number); its size on disk is one unit,  *)
(*     and so is a torn fragment.  SegmentBytes and MaxBytes are in these  *)
(*     units.                                                              *)
(*   - A file is the records it holds, in order, plus the number of torn   *)
(*     fragments among them.  Recovery stops at the first fragment, so the *)
(*     only position that matters is that of the first one ("whole").      *)
(*   - The methods of Log run under l.mu, so each is one step.  A process  *)
(*     can die inside Append, so the crash actions start from each of the  *)
(*     states Append passes through.                                       *)
(*   - Failures that leave the state as it was (a Write that writes        *)
(*     nothing, a failed fsync, a record over maxRecordSize) are           *)
(*     stuttering steps and not written out.                               *)
(*   - A crash that cuts the power keeps what was fsynced, and any part of *)
(*     what was not.  fsync of a file is taken to make its directory entry *)
(*     durable too, as the file systems in use do.                         *)
(***************************************************************************)
EXTENDS Naturals, Sequences, FiniteSets, FiniteSetsExt

CONSTANTS
    SegmentBytes,    \* Options.SegmentBytes, in records
    MaxBytes,        \* Options.MaxBytes, in records; 0 is unbounded
    MaxRecords,      \* bound: records ever written
    MaxShortWrites,  \* bound: writes that fail half way
    MaxKills,        \* bound: process kills
    MaxPowerCuts,    \* bound: power losses
    MaxReclaimFails  \* bound: segment deletions the OS refuses

ASSUME WalConstants ==
    /\ SegmentBytes \in Nat \ {0}
    /\ MaxBytes \in Nat
    /\ MaxRecords \in Nat
    /\ MaxShortWrites \in Nat
    /\ MaxKills \in Nat
    /\ MaxPowerCuts \in Nat
    /\ MaxReclaimFails \in Nat

VARIABLES
    segs,       \* Log.segments, oldest first: both the files and their index
    status,     \* "open"; "closed" by Log.Close; "down" after a crash
    written,    \* history: every record ever written whole, with its offset
    acked,      \* history: the records whose Append returned an offset
    flushed,    \* history: the records a sync that returned nil covered
    reclaimed,  \* history: the records Reclaim deleted
    faults      \* how many faults of each kind have happened

walVars == <<segs, status, written, acked, flushed, reclaimed, faults>>

FaultBound == [shorts   |-> MaxShortWrites, kills |-> MaxKills,
               cuts     |-> MaxPowerCuts,   removes |-> MaxReclaimFails]

-----------------------------------------------------------------------------
(* Segments *)

Segment == [base: Nat,          \* offset of the first record
            recs: Seq(Nat),     \* the indexed records (segment.starts)
            whole: Nat,         \* records before the first torn fragment
            frags: Nat,         \* torn fragments in the file
            synced: Nat,        \* records known to be on the disk
            dirty: BOOLEAN,     \* segment.dirty
            open: BOOLEAN]      \* the file handle is usable

NewSegment(b) == [base |-> b, recs |-> <<>>, whole |-> 0, frags |-> 0,
                  synced |-> 0, dirty |-> FALSE, open |-> TRUE]

nextOffset(s) == s.base + Len(s.recs)

size(s) == Len(s.recs) + s.frags

\* segment.sync: a no-op when nothing has been written since the last one.
SyncSegment(s) ==
    IF s.dirty THEN [s EXCEPT !.synced = Len(s.recs), !.dirty = FALSE] ELSE s

\* segment.append: the record goes after whatever the file holds.
AppendTo(s, r) ==
    [s EXCEPT !.recs  = Append(@, r),
              !.whole = IF s.frags = 0 THEN Len(s.recs) + 1 ELSE @,
              !.dirty = TRUE]

\* segment.append when file.Write stops half way: the fragment stays in the
\* file and the next record goes after it; neither starts nor dirty change.
TearTo(s) == [s EXCEPT !.frags = @ + 1]

\* Faulty variants of recovery: it stops at the fragment but leaves it in the
\* file; it indexes the records after the fragment.
RecoverMerelyStops(s) ==
    [s EXCEPT !.recs = SubSeq(@, 1, s.whole), !.dirty = FALSE, !.open = TRUE,
              !.synced = IF s.frags > 0 THEN s.whole ELSE @]

\* segment.recover: keep the records before the first fragment, truncate the
\* rest and sync if there was anything to truncate.  dirty starts as false.
Recover(s) ==
    [s EXCEPT !.recs   = SubSeq(@, 1, s.whole),
              !.frags  = 0,
              !.synced = IF s.frags > 0 THEN s.whole ELSE @,
              !.dirty  = FALSE,
              !.open   = TRUE]

\* segment.Close
CloseSegment(s) == [SyncSegment(s) EXCEPT !.open = FALSE]

\* External: what a power cut leaves of a file, k records and perhaps a
\* fragment of the next.
Cut(s, k, torn) ==
    [s EXCEPT !.recs   = SubSeq(@, 1, k),
              !.whole  = IF s.whole < k THEN s.whole ELSE k,
              !.frags  = IF s.whole < k \/ torn THEN 1 ELSE 0,
              !.synced = k]

Ids(s) == {s.recs[i] : i \in 1..Len(s.recs)}
DurableIds(s) == {s.recs[i] : i \in {j \in 1..Len(s.recs) : j <= s.synced}}

-----------------------------------------------------------------------------
(* The log *)

active == segs[Len(segs)]

NextOffset == nextOffset(active)
OldestOffset == segs[1].base

LiveIds == UNION {Ids(segs[i]) : i \in DOMAIN segs}
OnDisk == UNION {DurableIds(segs[i]) : i \in DOMAIN segs}

totalBytes == MapThenSumSet(LAMBDA i : size(segs[i]), DOMAIN segs)

AtCapacity == MaxBytes > 0 /\ totalBytes >= MaxBytes

MustRotate == size(active) >= SegmentBytes /\ Len(active.recs) > 0

\* Faulty variants: the new segment starts one offset early; the old one is
\* not synced.
rotateEarly == Append([segs EXCEPT ![Len(segs)] = SyncSegment(@)],
                      NewSegment(NextOffset - 1))

\* Log.rotate: sync the active segment, start a new one where it ends.
rotate == Append([segs EXCEPT ![Len(segs)] = SyncSegment(@)],
                 NewSegment(NextOffset))

\* The segments Append writes to, after its rotation check.
Rotated == IF MustRotate THEN rotate ELSE segs

AppendLast(ss, r) == [ss EXCEPT ![Len(ss)] = AppendTo(@, r)]
TearLast(ss) == [ss EXCEPT ![Len(ss)] = TearTo(@)]

\* Records are numbered in the order they are written.
fresh == Cardinality(written) + 1

Entry(ss, r) == [id |-> r, off |-> nextOffset(ss[Len(ss)])]

\* The records rotation's sync vouches for.
RotateFlushes == IF MustRotate THEN Ids(active) ELSE {}

Fault(f) ==
    /\ faults[f] < FaultBound[f]
    /\ faults' = [faults EXCEPT ![f] = @ + 1]

\* dropTrailingEmptyDuplicates drops the last segment while it is empty and
\* starts where its predecessor ends; n is how many segments are left.
TrailingDuplicate(ss, i) ==
    /\ i > 1
    /\ Len(ss[i].recs) = 0
    /\ ss[i].base = nextOffset(ss[i - 1])

dropTrailingEmptyDuplicates(ss, n) ==
    /\ ~ TrailingDuplicate(ss, n)
    /\ \A i \in (n + 1)..Len(ss) : TrailingDuplicate(ss, i)

-----------------------------------------------------------------------------
(* Actions *)

\* Open on an empty directory.
WalInit ==
    /\ segs = <<NewSegment(0)>>
    /\ status = "open"
    /\ written = {} /\ acked = {} /\ flushed = {} /\ reclaimed = {}
    /\ faults = [f \in DOMAIN FaultBound |-> 0]

CanAppend ==
    /\ status = "open"
    /\ ~ AtCapacity
    /\ fresh <= MaxRecords

\* Log.Append
AppendOk ==
    /\ CanAppend
    /\ segs' = AppendLast(Rotated, fresh)
    /\ written' = written \cup {Entry(Rotated, fresh)}
    /\ acked' = acked \cup {fresh}
    /\ flushed' = flushed \cup RotateFlushes
    /\ UNCHANGED <<status, reclaimed, faults>>

\* Log.Append when the write stops half way: the caller gets an error.
AppendShort ==
    /\ CanAppend
    /\ Fault("shorts")
    /\ segs' = TearLast(Rotated)
    /\ flushed' = flushed \cup RotateFlushes
    /\ UNCHANGED <<status, written, acked, reclaimed>>

\* Log.Sync, called by the sync loop and by callers.
Sync ==
    /\ status = "open"
    /\ segs' = [segs EXCEPT ![Len(segs)] = SyncSegment(@)]
    /\ flushed' = flushed \cup Ids(active)
    /\ UNCHANGED <<status, written, acked, reclaimed, faults>>

\* Reclaim's loop takes a segment whose records are all below upTo.  Closing a
\* file whose handle is already closed is an error and ends the loop.
Reclaimable(s, upTo) == nextOffset(s) <= upTo /\ s.open

\* Log.Reclaim deletes the first n segments: all it can, never the last one.
\* It does not look at l.closed, but a closed log has no handles left to close.
Reclaim(upTo) == \E n \in 1..(Len(segs) - 1) :
    /\ status = "open"
    /\ \A i \in 1..n : Reclaimable(segs[i], upTo)
    /\ n + 1 = Len(segs) \/ ~ Reclaimable(segs[n + 1], upTo)
    /\ segs' = SubSeq(segs, n + 1, Len(segs))
    /\ reclaimed' = reclaimed \cup UNION {Ids(segs[i]) : i \in 1..n}
    /\ UNCHANGED <<status, written, acked, flushed, faults>>

\* Log.Reclaim when os.Remove fails on segment k: those before it are gone,
\* k itself is still listed but its handle is closed.
ReclaimFails(upTo) == \E k \in 1..(Len(segs) - 1) :
    /\ status = "open"
    /\ Fault("removes")
    /\ \A i \in 1..k : Reclaimable(segs[i], upTo)
    /\ segs' = SubSeq([segs EXCEPT ![k] = CloseSegment(@)], k, Len(segs))
    /\ reclaimed' = reclaimed \cup UNION {Ids(segs[i]) : i \in 1..(k - 1)}
    /\ UNCHANGED <<status, written, acked, flushed>>

\* Log.Close: stop the sync loop, sync and close every segment.
Close ==
    /\ status = "open"
    /\ status' = "closed"
    /\ segs' = [i \in DOMAIN segs |-> CloseSegment(segs[i])]
    /\ flushed' = flushed \cup LiveIds
    /\ UNCHANGED <<written, acked, reclaimed, faults>>

\* The files when the process dies: between calls, or inside Append after
\* the rotation, half way through the write, or after it.
DyingStates ==
    {[files |-> segs, written |-> written]} \cup
    IF CanAppend
    THEN {[files |-> Rotated, written |-> written],
          [files |-> TearLast(Rotated), written |-> written],
          [files |-> AppendLast(Rotated, fresh),
           written |-> written \cup {Entry(Rotated, fresh)}]}
    ELSE {}

\* The process is killed: the page cache, so every written byte, survives.
Kill ==
    /\ status = "open"
    /\ Fault("kills")
    /\ \E d \in DyingStates : segs' = d.files /\ written' = d.written
    /\ status' = "down"
    /\ UNCHANGED <<acked, flushed, reclaimed>>

\* What a power cut may leave of a file: at least what was synced.
CutsOf(s) == {Cut(s, k, torn) : k \in s.synced..Len(s.recs), torn \in BOOLEAN}
AnyCut(ss) == UNION {CutsOf(ss[i]) : i \in DOMAIN ss}

\* Power is lost: each file keeps its synced prefix and any part of the rest.
\* A segment Append has sealed in this very call has been synced first.
PowerCut ==
    /\ Fault("cuts")
    /\ \E d \in DyingStates :
           /\ written' = d.written
           /\ segs' \in {cut \in [DOMAIN d.files -> AnyCut(d.files)] :
                            \A i \in DOMAIN d.files : cut[i] \in CutsOf(d.files[i])}
    /\ status' = "down"
    /\ UNCHANGED <<acked, flushed, reclaimed>>

\* Open on the directory a previous process left.
Recovered == [i \in DOMAIN segs |-> Recover(segs[i])]

Open ==
    /\ status # "open"
    /\ status' = "open"
    /\ \E n \in DOMAIN segs :
           /\ dropTrailingEmptyDuplicates(Recovered, n)
           /\ segs' = SubSeq(Recovered, 1, n)
    /\ UNCHANGED <<written, acked, flushed, reclaimed, faults>>

WalNext ==
    \/ AppendOk
    \/ AppendShort
    \/ Sync
    \/ \E upTo \in 0..NextOffset : Reclaim(upTo) \/ ReclaimFails(upTo)
    \/ Close
    \/ Kill
    \/ PowerCut
    \/ Open

WalSpec == WalInit /\ [][WalNext]_walVars

-----------------------------------------------------------------------------
(* Properties *)

\* Every variable has its type, and each segment is coherent: the whole prefix
\* and the synced prefix lie within the records it indexes.
WellFormed(s) ==
    /\ s \in Segment
    /\ s.whole <= Len(s.recs)
    /\ s.synced <= Len(s.recs)
    /\ s.frags = 0 => s.whole = Len(s.recs)

WalTypeOK ==
    /\ segs \in Seq(Segment) /\ segs # <<>>
    /\ \A i \in DOMAIN segs : WellFormed(segs[i])
    /\ status \in {"open", "closed", "down"}
    /\ written \subseteq [id: Nat, off: Nat] /\ IsFiniteSet(written)
    /\ acked \subseteq Nat /\ flushed \subseteq Nat /\ reclaimed \subseteq Nat
    /\ faults \in [DOMAIN FaultBound -> Nat]

\* No offset belongs to two segments, whatever crashed in between: a segment
\* ends at or before its successor's base (existingSegmentBases refuses to
\* guess precisely because it "would risk assigning duplicate offsets").
SegmentsDisjoint ==
    \A i, j \in DOMAIN segs : i < j => nextOffset(segs[i]) <= segs[j].base

\* A record that can be read is one that was written whole, and it sits at the
\* offset it was given: no rotation, deletion, crash or recovery moves it, and
\* a refused (short) write is never readable.
OffsetsStable ==
    \A i \in DOMAIN segs : \A j \in 1..Len(segs[i].recs) :
        [id |-> segs[i].recs[j], off |-> segs[i].base + j - 1] \in written

\* Killing the process loses nothing: as long as power held and no write
\* stopped half way, every acknowledged record is readable or was reclaimed
\* (recover() "runs after a clean shutdown and after a kill -9").
AckedSurviveKills ==
    faults.cuts = 0 /\ faults.shorts = 0 => acked \subseteq LiveIds \cup reclaimed

\* A power cut loses nothing a sync vouched for (Append: "a caller that needs
\* the stronger guarantee calls Sync"), as long as no write stopped half way
\* and the process had not been killed before.
FlushedSurvivePowerCuts ==
    faults.kills = 0 /\ faults.shorts = 0 => flushed \subseteq OnDisk \cup reclaimed

\* What Append and Sync promise of crashes, each of its own kind of crash.
Durable == AckedSurviveKills /\ FlushedSurvivePowerCuts

-----------------------------------------------------------------------------
(* The log as its readers see it *)

Readable == UNION {{[id |-> segs[i].recs[j], off |-> segs[i].base + j - 1] : j \in 1..Len(segs[i].recs)}
                   : i \in DOMAIN segs}

Offsets == INSTANCE OffsetLog WITH Identities <- 1..MaxRecords, entries <- Readable, next <- NextOffset,
                                   used <- {e.id : e \in written}, up <- status = "open"

\* Seen from outside, segments, rotation, deletion, crashes at any point of Append and
\* recovery implement a plain log with offsets (OffsetLog): nothing is ever read at
\* another offset, read twice or read changed, and an open log loses nothing but
\* what Reclaim takes from its front.
ImplementsOffsetLog == Offsets!OffsetSpec
=============================================================================
