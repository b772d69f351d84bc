----------------------------- MODULE AuditChain -----------------------------
(***************************************************************************)
(* The tamper-evident audit trail of gateway-service (auth/audit.go,       *)
(* auth/audit_chain.go): every row carries a hash over its content and the *)
(* hash of the row before it.  Several replicas append to one table, each  *)
(* append a transaction under one advisory lock, and a replica that starts *)
(* first hashes the rows that were written before the chain existed.       *)
(*                                                                         *)
(* A hash is modelled by what it commits to: the records it was computed   *)
(* over, from the genesis hash on.  Two hashes are equal when these are    *)
(* (SHA-256 over length-prefixed fields has no collision worth modelling). *)
(* The serial id is the position in the table: it is assigned while the    *)
(* lock is held.                                                           *)
(***************************************************************************)
EXTENDS Naturals, Sequences

CONSTANTS
    Replicas,   \* gateway processes; each writes one entry at a time
    Records,    \* what is recorded: an action and the state it is about
    Legacy,     \* rows from before the chain existed
    MaxRows,    \* bound: rows in the table
    MaxFaults   \* bound: restarts and failed back-fills

ASSUME AuditConstants ==
    /\ \A r \in Records : DOMAIN r = {"action", "state"}
    /\ Legacy \in Seq(Records)
    /\ MaxRows \in Nat /\ MaxFaults \in Nat

VARIABLES
    rows,    \* the audit_log table, in id order
    lock,    \* the holders of the advisory lock: nobody or one replica
    replica, \* each replica: where it is in starting or in WriteAudit
    gaps,    \* history: back-fills that failed with rows to hash; the gateway serves all the same
    auditFaults \* restarts and failed back-fills so far

auditVars == <<rows, lock, replica, gaps, auditFaults>>

auditGenesisHash == <<>>
NoHash == [set |-> FALSE, prev |-> <<>>, entry |-> <<>>]

\* A replica: the record it writes, the hash it chains onto, and the rows its
\* back-fill has been through.
NoRecord == [action |-> "", state |-> ""]
Writing(pc, rec, tail) == [pc |-> pc, rec |-> rec, tail |-> tail, done |-> <<>>]
Filling(pc, tail, done) == [pc |-> pc, rec |-> NoRecord, tail |-> tail, done |-> done]
Down == Filling("down", <<>>, <<>>)
Up == Filling("up", <<>>, <<>>)

-----------------------------------------------------------------------------
(* The chain *)

computeAuditHash(prev, rec) == Append(prev, rec)

\* A row chained onto prev.
ChainedRow(prev, rec) ==
    [rec |-> rec, hash |-> [set |-> TRUE, prev |-> prev, entry |-> computeAuditHash(prev, rec)]]

\* The hash of the newest row that carries one.
Hashed(table) == {k \in DOMAIN table : table[k].hash.set}
TailOf(table) ==
    IF Hashed(table) = {} THEN auditGenesisHash
    ELSE table[CHOOSE k \in Hashed(table) : \A j \in Hashed(table) : j <= k].hash.entry

\* VerifyAuditChain: each row links to the one before it, and its hash is that
\* of its content.
LinksTo(table, k) == IF k = 1 THEN auditGenesisHash ELSE table[k - 1].hash.entry
VerifiesAt(table, k) ==
    /\ table[k].hash.set
    /\ table[k].hash.prev = LinksTo(table, k)
    /\ table[k].hash.entry = computeAuditHash(LinksTo(table, k), table[k].rec)
VerifyAuditChain(table) == \A k \in DOMAIN table : VerifiesAt(table, k)

-----------------------------------------------------------------------------
(* WriteAudit *)

Becomes(r, state) == replica' = [replica EXCEPT ![r] = state]

\* A request changed something; WriteAudit begins its transaction.
WriteAudit(r, rec) ==
    /\ replica[r].pc = "up"
    /\ Len(rows) < MaxRows
    /\ Becomes(r, Writing("lock", rec, <<>>))
    /\ UNCHANGED <<rows, lock, gaps, auditFaults>>

\* Faulty variant: the transaction alone is trusted to serialise the writers.
AcquireNothing(r) ==
    /\ lock' = lock
    /\ replica[r].pc \in {"lock", "fill-lock"}

\* pg_advisory_xact_lock, held until commit or rollback.
Acquire(r) ==
    /\ lock = {}
    /\ lock' = {r}

Lock(r) ==
    /\ replica[r].pc = "lock"
    /\ Acquire(r)
    /\ Becomes(r, Writing("tail", replica[r].rec, <<>>))
    /\ UNCHANGED <<rows, gaps, auditFaults>>

ReadTail(r) ==
    /\ replica[r].pc = "tail"
    /\ Becomes(r, Writing("insert", replica[r].rec, TailOf(rows)))
    /\ UNCHANGED <<rows, lock, gaps, auditFaults>>

\* The insert and the commit.
Insert(r) ==
    /\ replica[r].pc = "insert"
    /\ rows' = Append(rows, ChainedRow(replica[r].tail, replica[r].rec))
    /\ lock' = lock \ {r}
    /\ Becomes(r, Up)
    /\ UNCHANGED <<gaps, auditFaults>>

\* The transaction fails or runs into its timeout and is rolled back; the failure
\* is logged.
WriteFails(r) ==
    /\ replica[r].pc \in {"lock", "tail", "insert"}
    /\ lock' = lock \ {r}
    /\ Becomes(r, Up)
    /\ UNCHANGED <<rows, gaps, auditFaults>>

-----------------------------------------------------------------------------
(* BackfillAuditChain, before a replica serves *)

\* A replica starts, and finds rows without a hash or none.
Probe(r) ==
    /\ replica[r].pc = "down"
    /\ Becomes(r, IF Hashed(rows) = DOMAIN rows THEN Up ELSE Filling("fill-lock", <<>>, <<>>))
    /\ UNCHANGED <<rows, lock, gaps, auditFaults>>

\* The lock, and the tail the first row is chained onto.
BackfillLock(r) ==
    /\ replica[r].pc = "fill-lock"
    /\ Acquire(r)
    /\ Becomes(r, Filling("fill", TailOf(rows), <<>>))
    /\ UNCHANGED <<rows, gaps, auditFaults>>

\* The next row in id order: one without a hash is chained onto the tail.
BackfillRow(r) ==
    LET s == replica[r]
        row == rows[Len(s.done) + 1]
    IN
    /\ s.pc = "fill" /\ Len(s.done) < Len(rows)
    /\ Becomes(r, IF row.hash.set THEN Filling("fill", s.tail, Append(s.done, row))
                  ELSE Filling("fill", computeAuditHash(s.tail, row.rec),
                               Append(s.done, ChainedRow(s.tail, row.rec))))
    /\ UNCHANGED <<rows, lock, gaps, auditFaults>>

\* The updates and the commit.
BackfillCommit(r) ==
    /\ replica[r].pc = "fill" /\ Len(replica[r].done) = Len(rows)
    /\ rows' = replica[r].done
    /\ lock' = lock \ {r}
    /\ Becomes(r, Up)
    /\ UNCHANGED <<gaps, auditFaults>>

\* The probe or the transaction fails: a warning, and the gateway serves.
BackfillFails(r) ==
    /\ replica[r].pc \in {"down", "fill-lock", "fill"}
    /\ auditFaults < MaxFaults
    /\ auditFaults' = auditFaults + 1
    /\ gaps' = IF Hashed(rows) = DOMAIN rows THEN gaps ELSE gaps + 1
    /\ lock' = lock \ {r}
    /\ Becomes(r, Up)
    /\ UNCHANGED rows

-----------------------------------------------------------------------------

\* A replica stops, at any point: its transaction is rolled back.
Restart(r) ==
    /\ replica[r].pc # "down"
    /\ auditFaults < MaxFaults
    /\ auditFaults' = auditFaults + 1
    /\ lock' = lock \ {r}
    /\ Becomes(r, Down)
    /\ UNCHANGED <<rows, gaps>>

AuditInit ==
    /\ rows = [k \in DOMAIN Legacy |-> [rec |-> Legacy[k], hash |-> NoHash]]
    /\ lock = {}
    /\ replica = [r \in Replicas |-> Down]
    /\ gaps = 0 /\ auditFaults = 0

AuditStep(r) == Lock(r) \/ ReadTail(r) \/ Insert(r) \/ Probe(r) \/ BackfillLock(r)
                \/ BackfillRow(r) \/ BackfillCommit(r)

AuditNext ==
    \E r \in Replicas :
        \/ \E rec \in Records : WriteAudit(r, rec)
        \/ AuditStep(r)
        \/ WriteFails(r)
        \/ BackfillFails(r)
        \/ Restart(r)

AuditSpec == AuditInit /\ [][AuditNext]_auditVars

-----------------------------------------------------------------------------
(* Properties *)

Hash == [set : BOOLEAN, prev : Seq(Records), entry : Seq(Records)]
RowType == [rec : Records, hash : Hash]
Replica == [pc : {"down", "up", "lock", "tail", "insert", "fill-lock", "fill"},
            rec : Records \cup {NoRecord}, tail : Seq(Records), done : Seq(RowType)]

InTransaction(r) == replica[r].pc \in {"tail", "insert", "fill"}

\* Everything has its type, and only the holder of the lock is inside a
\* transaction.
AuditTypeOK ==
    /\ rows \in Seq(RowType)
    /\ lock \subseteq Replicas
    /\ gaps \in Nat /\ auditFaults \in Nat
    /\ replica \in [Replicas -> Replica]
    /\ \A r \in Replicas : InTransaction(r) => lock = {r}

Serving(r) == replica[r].pc \in {"up", "lock", "tail", "insert"}

\* The trail verifies at every moment from the first replica that serves on,
\* however many replicas append, start and stop, as long as no back-fill failed
\* (chainlock.go: without the lock two writers fork the chain).
TrailIntact == (\E r \in Replicas : Serving(r)) /\ gaps = 0 => VerifyAuditChain(rows)

\* An auditor's verification finds changes: in a trail that verifies, a row that
\* is altered, one that is removed from before the last, and two rows that are
\* exchanged are all detected (VerifyAuditChain: "a row was deleted, reordered,
\* or inserted", "has been altered since it was written").
Without(table, k) == [j \in 1..(Len(table) - 1) |-> IF j < k THEN table[j] ELSE table[j + 1]]
Exchanged(table, j, k) == [table EXCEPT ![j] = table[k], ![k] = table[j]]
TamperEvident ==
    VerifyAuditChain(rows) =>
        /\ \A k \in DOMAIN rows, rec \in Records :
               rec # rows[k].rec => ~ VerifyAuditChain([rows EXCEPT ![k].rec = rec])
        /\ \A k \in 1..(Len(rows) - 1) : ~ VerifyAuditChain(Without(rows, k))
        /\ \A j, k \in DOMAIN rows : j # k => ~ VerifyAuditChain(Exchanged(rows, j, k))

\* What verified once is never rewritten: rows are only ever appended to it.
AppendOnly ==
    [][VerifyAuditChain(rows) =>
           Len(rows') >= Len(rows) /\ \A k \in DOMAIN rows : rows'[k] = rows[k]]_auditVars

\* The trail can be relied on: it verifies while it is written, its past is never
\* rewritten, and a verification finds what others changed.
TrailHolds == [](TrailIntact /\ TamperEvident) /\ AppendOnly
=============================================================================
