---------------------------- MODULE InProcessBus ----------------------------
(***************************************************************************)
(* The in-process bus: shared/bus/inprocess.go over the log of WalLog, the *)
(* consumer groups of wal/group.go and the readers of wal/reader.go.       *)
(*                                                                         *)
(* One topic.  A reader is one Subscription's goroutine for that topic; it *)
(* belongs to the group Membership names, and readers of one group share   *)
(* the Group object, as groupFor caches it.                                *)
(*                                                                         *)
(* What is abstracted                                                      *)
(*   - A handler call is the fact that it happened: its error is swallowed *)
(*     (poison-pill rule), so its outcome decides nothing here.            *)
(*   - The offset file is replaced by rename and synced with its           *)
(*     directory, so a commit is on disk entirely or not at all and        *)
(*     survives a power cut.                                               *)
(*   - Log.Reclaim has no caller in the repository.  The caller modelled   *)
(*     is the one its comments describe: it reclaims up to the slowest     *)
(*     group's position.                                                   *)
(***************************************************************************)
EXTENDS WalLog

CONSTANTS
    Groups,          \* consumer groups of the topic
    Readers,         \* subscriptions
    Membership,      \* the group each reader subscribes to
    StartEarliest,   \* InProcessOptions.StartFromEarliest
    MaxCommitFails,  \* bound: commits that fail on I/O
    MaxRots          \* bound: offset files that become unreadable

ASSUME BusConstants ==
    /\ Groups # {}
    /\ Membership \in [Readers -> Groups]
    /\ StartEarliest \in BOOLEAN
    /\ MaxCommitFails \in Nat
    /\ MaxRots \in Nat

VARIABLES
    offsetFile,  \* <group>.offset: readable or not, and the offset in it
    group,       \* the Group objects: loaded, next, committed
    reader,      \* each reader's place in Reader.Run
    delivered,   \* history: per group, the records handed to its handler and
                 \* the offset they were labelled with
    firstStart,  \* history: where the group was first started
    commitFails, rots

busVars == <<offsetFile, group, reader, delivered, firstStart, commitFails, rots>>
vars == <<walVars, busVars>>

NoFile == [readable |-> FALSE, next |-> 0]
Unloaded == [loaded |-> FALSE, next |-> 0, committed |-> FALSE]
Idle == [pc |-> "off", from |-> 0, snap |-> <<>>, batch |-> <<>>]

Busy(r) == reader[r].pc \notin {"off", "failed"}

-----------------------------------------------------------------------------
(* Groups *)

\* OpenGroup: a missing or unreadable file is a group that never committed.
OpenGroup(g) ==
    [loaded |-> TRUE, next |-> offsetFile[g].next,
     committed |-> offsetFile[g].readable]

\* groupFor: the cached object, or the one OpenGroup makes.
groupFor(g) == IF group[g].loaded THEN group[g] ELSE OpenGroup(g)

\* Group.Commit refuses to move backwards.
CommitRefused(g, next) == next < group[g].next

\* Group.Commit: the file first, then the object.
Commit(g, next) ==
    IF next = group[g].next /\ group[g].committed
    THEN UNCHANGED <<offsetFile, group>>
    ELSE /\ offsetFile' = [offsetFile EXCEPT ![g] = [readable |-> TRUE, next |-> next]]
         /\ group' = [group EXCEPT ![g].next = next, ![g].committed = TRUE]

-----------------------------------------------------------------------------
(* Subscribe *)

\* Subscribe up to the choice of where a new group starts.
SubscribeBegin(r) ==
    LET g == Membership[r] IN
    /\ status = "open"
    /\ ~ Busy(r)
    /\ group' = [group EXCEPT ![g] = groupFor(g)]
    /\ reader' = [reader EXCEPT ![r] =
           IF groupFor(g).committed
           THEN [Idle EXCEPT !.pc = "poll"]
           ELSE [Idle EXCEPT !.pc = "start",
                             !.from = IF StartEarliest THEN OldestOffset ELSE NextOffset]]
    /\ UNCHANGED <<walVars, offsetFile, delivered, firstStart, commitFails, rots>>

\* Group.StartAt, and with it the rest of Subscribe.  Another subscriber may
\* have started the group meanwhile: then StartAt refuses and Subscribe fails.
\* StartAt unlocks before it commits; two of them can only cross so that one
\* wins and the other is refused, which is what either order does.
SubscribeStart(r) ==
    LET g == Membership[r]
        start == reader[r].from
    IN
    /\ reader[r].pc = "start"
    /\ \/ /\ group[g].committed
          /\ reader' = [reader EXCEPT ![r] = Idle]
          /\ UNCHANGED <<offsetFile, group, firstStart>>
       \/ /\ ~ group[g].committed
          /\ offsetFile' = [offsetFile EXCEPT ![g] = [readable |-> TRUE, next |-> start]]
          /\ group' = [group EXCEPT ![g].next = start, ![g].committed = TRUE]
          /\ firstStart' = [firstStart EXCEPT ![g] = IF @ = {} THEN {start} ELSE @]
          /\ reader' = [reader EXCEPT ![r] = [Idle EXCEPT !.pc = "poll"]]
    /\ UNCHANGED <<walVars, delivered, commitFails, rots>>

-----------------------------------------------------------------------------
(* Reader.Run *)

\* Position, and the copy of the segment list ReadFrom takes under the lock.
Poll(r) ==
    /\ reader[r].pc = "poll"
    /\ reader' = [reader EXCEPT ![r] = [pc |-> "read", from |-> group[Membership[r]].next,
                                       snap |-> segs, batch |-> <<>>]]
    /\ UNCHANGED <<walVars, offsetFile, group, delivered, firstStart, commitFails, rots>>

\* A segment of the copy as it is now.  Segments are shared, so the active one
\* may have grown; one Reclaim deleted keeps its index but its file is closed.
Current(s) ==
    IF \E i \in DOMAIN segs : segs[i].base = s.base
    THEN segs[CHOOSE i \in DOMAIN segs : segs[i].base = s.base]
    ELSE [s EXCEPT !.open = FALSE]

\* segment.readFrom: an offset below the base is clamped to it.
readFrom(s, offset) ==
    SubSeq(s.recs, (IF offset > s.base THEN offset - s.base ELSE 0) + 1, Len(s.recs))

\* Faulty variant: the segment being appended to is left out.
ReadBatchSealed(ss, offset) ==
    LET upTo[n \in 0..Len(ss)] ==
            IF n \in {0, Len(ss)} THEN <<>>
            ELSE upTo[n - 1] \o readFrom(Current(ss[n]), offset)
    IN  IF Len(ss) = 1 THEN <<>> ELSE upTo[Len(ss) - 1]

\* Log.ReadFrom over the copied segments.
ReadBatch(ss, offset) ==
    LET upTo[n \in 0..Len(ss)] ==
            IF n = 0 THEN <<>>
            ELSE upTo[n - 1] \o IF nextOffset(Current(ss[n])) <= offset THEN <<>>
                                ELSE readFrom(Current(ss[n]), offset)
    IN  upTo[Len(ss)]

\* Reading through a closed handle fails.
ReadFails(ss, offset) ==
    \E i \in DOMAIN ss : nextOffset(Current(ss[i])) > offset /\ ~ Current(ss[i]).open

\* ReadFrom's reads, outside the log's lock.
Read(r) ==
    LET s == reader[r]
        batch == ReadBatch(s.snap, s.from)
    IN
    /\ s.pc = "read"
    /\ reader' = [reader EXCEPT ![r] =
           CASE ReadFails(s.snap, s.from) -> [Idle EXCEPT !.pc = "failed"]
             [] ~ ReadFails(s.snap, s.from) /\ batch = <<>> -> [Idle EXCEPT !.pc = "poll"]
             [] OTHER -> [pc |-> "deliver", from |-> s.from, snap |-> <<>>, batch |-> batch]]
    /\ UNCHANGED <<walVars, offsetFile, group, delivered, firstStart, commitFails, rots>>

\* The handler is called with the next record of the batch, labelled from + i.
Deliver(r) ==
    /\ reader[r].pc = "deliver"
    /\ delivered' = [delivered EXCEPT ![Membership[r]] =
           @ \cup {[id |-> Head(reader[r].batch), off |-> reader[r].from]}]
    /\ reader' = [reader EXCEPT ![r].pc = "commit"]
    /\ UNCHANGED <<walVars, offsetFile, group, firstStart, commitFails, rots>>

\* Faulty variant: an exhausted batch is not replaced by a poll.
AfterCommitNoPoll(s) == [s EXCEPT !.pc = "deliver", !.from = @ + 1, !.batch = Tail(@)]

\* The rest of the batch after a record, or another poll.  "from" moves along
\* with the batch so that it is always the label of the batch's head.
AfterCommit(s) ==
    IF Len(s.batch) = 1 THEN [Idle EXCEPT !.pc = "poll"]
    ELSE [s EXCEPT !.pc = "deliver", !.from = @ + 1, !.batch = Tail(@)]

\* Faulty variant: one too many.
NextAfterSkips(s) == s.from + 2

\* The position Run commits: the offset after the record it handled.
NextAfter(s) == s.from + 1

\* Commit(offset+1) after the handler returned.  A refusal ends Run.
CommitStep(r) ==
    LET g == Membership[r]
        next == NextAfter(reader[r])
    IN
    /\ reader[r].pc = "commit"
    /\ \/ /\ CommitRefused(g, next)
          /\ reader' = [reader EXCEPT ![r] = [Idle EXCEPT !.pc = "failed"]]
          /\ UNCHANGED <<offsetFile, group>>
       \/ /\ ~ CommitRefused(g, next)
          /\ Commit(g, next)
          /\ reader' = [reader EXCEPT ![r] = AfterCommit(@)]
    /\ UNCHANGED <<walVars, delivered, firstStart, commitFails, rots>>

\* Commit fails on I/O, before the rename or after it (syncDir): the object
\* keeps the old position, the file may have the new one.  Run ends.
CommitFails(r) ==
    LET g == Membership[r]
        next == NextAfter(reader[r])
    IN
    /\ reader[r].pc = "commit"
    /\ ~ CommitRefused(g, next)
    /\ next # group[g].next
    /\ commitFails < MaxCommitFails
    /\ commitFails' = commitFails + 1
    /\ offsetFile' \in {offsetFile, [offsetFile EXCEPT ![g] = [readable |-> TRUE, next |-> next]]}
    /\ reader' = [reader EXCEPT ![r] = [Idle EXCEPT !.pc = "failed"]]
    /\ UNCHANGED <<walVars, group, delivered, firstStart, rots>>

\* The context is cancelled: Run looks at it before a poll and before a record.
Stop(r) ==
    /\ reader[r].pc \in {"poll", "deliver"}
    /\ reader' = [reader EXCEPT ![r] = Idle]
    /\ UNCHANGED <<walVars, offsetFile, group, delivered, firstStart, commitFails, rots>>

-----------------------------------------------------------------------------
(* The process and the disk *)

\* Publish and PublishBatch append one record at a time; a full log refuses.
Publish == (AppendOk \/ AppendShort) /\ UNCHANGED busVars

SyncLoop == Sync /\ UNCHANGED busVars

\* External: the caller of Reclaim, which knows every group's position.
SlowestPosition == Min({group[g].next : g \in Groups})

\* A copied list shares its segments: one that is deleted keeps the index it has
\* by then.
Shared(ss) == [i \in DOMAIN ss |-> Current(ss[i])]

ReclaimConsumed ==
    /\ \A g \in Groups : group[g].loaded
    /\ Reclaim(SlowestPosition) \/ ReclaimFails(SlowestPosition)
    /\ reader' = [r \in Readers |-> [reader[r] EXCEPT !.snap = Shared(@)]]
    /\ UNCHANGED <<offsetFile, group, delivered, firstStart, commitFails, rots>>

\* The readers and the Group objects go with the process.
ForgetMemory ==
    /\ group' = [g \in Groups |-> Unloaded]
    /\ reader' = [r \in Readers |-> Idle]
    /\ UNCHANGED <<offsetFile, delivered, firstStart, commitFails, rots>>

\* A clean exit: the service cancels its subscriptions, then closes the bus.
Shutdown == (\A r \in Readers : ~ Busy(r)) /\ Close /\ ForgetMemory
Crash == (Kill \/ PowerCut) /\ ForgetMemory
Restart == Open /\ UNCHANGED busVars

\* External: an offset file rots while the process is down.
Rot(g) ==
    /\ status # "open"
    /\ rots < MaxRots
    /\ offsetFile[g].readable
    /\ rots' = rots + 1
    /\ offsetFile' = [offsetFile EXCEPT ![g] = NoFile]
    /\ UNCHANGED <<walVars, group, reader, delivered, firstStart, commitFails>>

Init ==
    /\ WalInit
    /\ offsetFile = [g \in Groups |-> NoFile]
    /\ group = [g \in Groups |-> Unloaded]
    /\ reader = [r \in Readers |-> Idle]
    /\ delivered = [g \in Groups |-> {}]
    /\ firstStart = [g \in Groups |-> {}]
    /\ commitFails = 0 /\ rots = 0

ReaderStep(r) ==
    SubscribeStart(r) \/ Poll(r) \/ Read(r) \/ Deliver(r) \/ CommitStep(r)

Next ==
    \/ Publish
    \/ SyncLoop
    \/ ReclaimConsumed
    \/ \E r \in Readers :
        SubscribeBegin(r) \/ ReaderStep(r) \/ CommitFails(r) \/ Stop(r)
    \/ Shutdown
    \/ Crash
    \/ Restart
    \/ \E g \in Groups : Rot(g)

Spec == Init /\ [][Next]_vars

\* A reader's goroutine keeps being scheduled while its subscription runs, and
\* the sync loop's ticker fires as long as the log is open.
FairSpec == Spec /\ WF_vars(SyncLoop) /\ \A r \in Readers : WF_vars(ReaderStep(r))

-----------------------------------------------------------------------------
(* Properties *)

BusTypeOK ==
    /\ offsetFile \in [Groups -> [readable: BOOLEAN, next: Nat]]
    /\ group \in [Groups -> [loaded: BOOLEAN, next: Nat, committed: BOOLEAN]]
    /\ \A r \in Readers :
        /\ reader[r].pc \in {"off", "start", "poll", "read", "deliver", "commit", "failed"}
        /\ reader[r].from \in Nat
        /\ reader[r].batch \in Seq(Nat)
        /\ reader[r].pc \in {"deliver", "commit"} <=> reader[r].batch # <<>>
    /\ \A g \in Groups :
        /\ delivered[g] \subseteq [id: Nat, off: Nat]
        /\ firstStart[g] \subseteq Nat /\ Cardinality(firstStart[g]) <= 1

\* The records a group is owed: those at or after the offset it first started.
Owed(g) == {e \in written : \E s \in firstStart[g] : e.off >= s}

\* The records the group's durable position claims are dealt with.
Passed(g) == {e \in Owed(g) : offsetFile[g].readable /\ e.off < offsetFile[g].next}

DeliveredIds(g) == {d.id : d \in delivered[g]}

\* At-least-once: a group's durable position never passes a record that is in
\* the log and was not handed to its handler (Reader: the offset is committed
\* after the handler returns).
NoSilentSkip ==
    \A g \in Groups : \A e \in Passed(g) : e.id \in LiveIds => e.id \in DeliveredIds(g)

\* A record is delivered under the offset it was appended at (Reader.Run counts
\* the offset up from the start of the batch).
LabelsTrue == \A g \in Groups : delivered[g] \subseteq written

\* While power and offset files hold, a process that is killed and restarted,
\* commits that fail and readers that share a group skip no record, and every
\* record is delivered under its own offset.
NoSilentSkipOnKills ==
    faults.cuts = 0 /\ faults.shorts = 0 /\ rots = 0 => NoSilentSkip /\ LabelsTrue

\* A reader that runs is eventually past every record acknowledged while it
\* runs: it is delivered, or the reader stops, or the process does.
EventuallyDelivered ==
    \A r \in Readers, n \in 1..MaxRecords :
        (Busy(r) /\ \E e \in Owed(Membership[r]) : e.id = n /\ n \in acked \cap LiveIds)
            ~> (n \in DeliveredIds(Membership[r]) \/ ~ Busy(r))
=============================================================================
