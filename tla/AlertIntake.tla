----------------------------- MODULE AlertIntake -----------------------------
(***************************************************************************)
(* alert-service between two topics: one partition of "logs", read by its  *)
(* consumer group (shared/kafka/consumer.go), becomes rows of "alerts" and *)
(* then messages of the topic "alerts" (consumer/log_consumer.go,          *)
(* repository/alert_repository.go).  The broker deletes old records, and   *)
(* log-service's RetentionWatcher (shared/kafka/retention_watch.go)        *)
(* compares the group's committed offset with what is left.                *)
(*                                                                         *)
(* Offsets count from 0; a committed offset is the next one to read, -1    *)
(* when the group has none.  A row is identified by its place in rows.     *)
(***************************************************************************)
EXTENDS Integers, Sequences, FiniteSets

CONSTANTS
    MaxRecords,     \* bound: records produced
    MaxAlertFaults, \* bound: failed inserts and publishes, crashes, starts without a producer
    MaxStops        \* bound: orderly stops and rebalances

ASSUME AlertConstants == MaxRecords \in Nat \ {0} /\ {MaxAlertFaults, MaxStops} \subseteq Nat

VARIABLES
    records,    \* the partition: for each offset, whether it decodes and its level alerts
    oldest,     \* the first offset the broker still holds
    committed,  \* of the group
    position,   \* the next offset to handle; -1 while the service is not in the group
    producer,   \* whether the service has a bus to publish to
    rows,       \* table alerts, in order of insertion: the offset each row came from
    pending,    \* rows whose publishing goroutine runs
    forwarded,  \* rows in the topic "alerts"
    watch,      \* the watcher: the edges it has read, and its last report
    gone,       \* history: offsets not inserted (insert failed, or jumped over), rows not forwarded
    crashes, stops, alertFaults

alertVars == <<records, oldest, committed, position, producer, rows, pending, forwarded, watch, gone,
               crashes, stops, alertFaults>>

Newest == Len(records)
Alerting == {o \in 0..(Newest - 1) : records[o + 1] = "alert"}
AlertFault == alertFaults < MaxAlertFaults /\ alertFaults' = alertFaults + 1
NoRead == [edges |-> FALSE, oldest |-> 0, newest |-> 0]
NoReport == [state |-> "none", lost |-> 0]

-----------------------------------------------------------------------------
(* The broker *)

Produce ==
    /\ Newest < MaxRecords
    /\ \E kind \in {"alert", "quiet"} : records' = Append(records, kind)
    /\ UNCHANGED <<oldest, committed, position, producer, rows, pending, forwarded, watch, gone,
                   crashes, stops, alertFaults>>

\* Retention deletes the oldest record, whoever has read it.
Expire ==
    /\ oldest < Newest
    /\ oldest' = oldest + 1
    /\ UNCHANGED <<records, committed, position, producer, rows, pending, forwarded, watch, gone,
                   crashes, stops, alertFaults>>

-----------------------------------------------------------------------------
(* The consumer group *)

\* Offsets.Initial is OffsetNewest: for the first join, and when the committed
\* offset is no longer held.
ResumeAt == IF committed \in oldest..Newest THEN committed ELSE Newest

\* Consume: the session begins; what lies between the old and the new position is
\* never delivered.
Join ==
    /\ position = -1
    /\ position' = ResumeAt
    /\ gone' = [gone EXCEPT !.unread = @ \cup {o \in Alerting : committed <= o /\ o < ResumeAt}]
    /\ \/ producer' = TRUE /\ UNCHANGED alertFaults
       \/ AlertFault /\ producer' = FALSE
    /\ UNCHANGED <<records, oldest, committed, rows, pending, forwarded, watch, crashes, stops>>

\* Handle, and the message is marked whatever it returned.  An undecodable message
\* and a level below ERROR are only marked.
Handle ==
    /\ position # -1 /\ position \in oldest..(Newest - 1)
    /\ position' = position + 1
    /\ \/ /\ position \notin Alerting
          /\ UNCHANGED <<rows, pending, gone, alertFaults>>
       \/ /\ position \in Alerting
          /\ rows' = Append(rows, position)
          /\ IF producer
             THEN pending' = pending \cup {Len(rows) + 1} /\ UNCHANGED gone
             ELSE gone' = [gone EXCEPT !.unsent = @ \cup {Len(rows) + 1}] /\ UNCHANGED pending
          /\ UNCHANGED alertFaults
       \/ /\ position \in Alerting
          /\ AlertFault
          /\ gone' = [gone EXCEPT !.unread = @ \cup {position}]
          /\ UNCHANGED <<rows, pending>>
    /\ UNCHANGED <<records, oldest, committed, producer, forwarded, watch, crashes, stops>>

\* Faulty variant: everything fetched is committed.
CommitMarkedFetched ==
    /\ position > committed
    /\ committed' = Newest

\* The marked offset, when one was marked since.
CommitMarked ==
    /\ position > committed
    /\ committed' = position

\* Once a second while the session lasts.
AutoCommit ==
    /\ position # -1 /\ CommitMarked
    /\ UNCHANGED <<records, oldest, position, producer, rows, pending, forwarded, watch, gone,
                   crashes, stops, alertFaults>>

\* The session ends: a rebalance, a fetch below the oldest offset, or the shutdown.
\* What was marked is committed; the publishing goroutines end with the process only.
EndSession ==
    /\ position # -1 /\ stops < MaxStops
    /\ IF position > committed THEN CommitMarked ELSE UNCHANGED committed
    /\ position' = -1 /\ stops' = stops + 1
    /\ \/ UNCHANGED <<pending, gone>>
       \/ pending' = {} /\ gone' = [gone EXCEPT !.unsent = @ \cup pending]
    /\ UNCHANGED <<records, oldest, producer, rows, forwarded, watch, crashes, alertFaults>>

\* A fetch below the oldest offset ends the session too, however often.
OutOfRange ==
    /\ position # -1 /\ position < oldest
    /\ IF position > committed THEN CommitMarked ELSE UNCHANGED committed
    /\ position' = -1
    /\ UNCHANGED <<records, oldest, producer, rows, pending, forwarded, watch, gone, crashes, stops, alertFaults>>

Crash ==
    /\ position # -1 /\ AlertFault
    /\ position' = -1 /\ crashes' = crashes + 1
    /\ pending' = {} /\ gone' = [gone EXCEPT !.unsent = @ \cup pending]
    /\ UNCHANGED <<records, oldest, committed, producer, rows, forwarded, watch, stops>>

-----------------------------------------------------------------------------

\* The goroutine logs a failed publish and ends.
PublishFailed(r) ==
    /\ AlertFault
    /\ gone' = [gone EXCEPT !.unsent = @ \cup {r}]
    /\ UNCHANGED forwarded

PublishAlert(r) ==
    /\ r \in pending
    /\ pending' = pending \ {r}
    /\ \/ forwarded' = forwarded \cup {r} /\ UNCHANGED <<gone, alertFaults>>
       \/ PublishFailed(r)
    /\ UNCHANGED <<records, oldest, committed, position, producer, rows, watch, crashes, stops>>

-----------------------------------------------------------------------------
(* RetentionWatcher *)

\* classifyRetention; the at-risk fraction is DefaultRiskFraction, a tenth.
classifyRetention(old, new, com) ==
    CASE com < old -> [state |-> "data_lost", lost |-> old - com]
      [] com >= old /\ new > old /\ 10 * (com - old) < new - old -> [state |-> "at_risk", lost |-> 0]
      [] OTHER -> [state |-> "ok", lost |-> 0]

\* Snapshot reads the edges of the partition ...
ReadEdges ==
    /\ ~watch.read.edges
    /\ watch' = [watch EXCEPT !.read = [edges |-> TRUE, oldest |-> oldest, newest |-> Newest]]
    /\ UNCHANGED <<records, oldest, committed, position, producer, rows, pending, forwarded, gone,
                   crashes, stops, alertFaults>>

\* ... and then, in a second call, the group's offset; a group without one is left out.
Report ==
    /\ watch.read.edges
    /\ watch' = [read |-> NoRead,
                 report |-> IF committed < 0 THEN watch.report
                            ELSE classifyRetention(watch.read.oldest, watch.read.newest, committed)]
    /\ UNCHANGED <<records, oldest, committed, position, producer, rows, pending, forwarded, gone,
                   crashes, stops, alertFaults>>

-----------------------------------------------------------------------------

AlertInit ==
    /\ records = <<>> /\ oldest = 0 /\ committed = -1 /\ position = -1 /\ producer = TRUE
    /\ rows = <<>> /\ pending = {} /\ forwarded = {}
    /\ watch = [read |-> NoRead, report |-> NoReport]
    /\ gone = [unread |-> {}, unsent |-> {}]
    /\ crashes = 0 /\ stops = 0 /\ alertFaults = 0

AlertNext ==
    \/ Produce \/ Expire
    \/ Join \/ Handle \/ AutoCommit \/ EndSession \/ OutOfRange \/ Crash
    \/ \E r \in pending : PublishAlert(r)
    \/ ReadEdges \/ Report

AlertSpec == AlertInit /\ [][AlertNext]_alertVars

-----------------------------------------------------------------------------
(* Properties *)

AlertTypeOK ==
    /\ oldest \in 0..Newest /\ committed \in -1..Newest /\ position \in -1..Newest
    /\ \A i \in DOMAIN rows : rows[i] \in Alerting
    /\ pending \cup forwarded \cup gone.unsent \subseteq DOMAIN rows

\* Whatever the group has committed past was dealt with: each alerting record below
\* the committed offset has a row, or its insert failed, or the group was moved past
\* it because it had no position the broker still held.
NoAlertSkipped ==
    \A o \in Alerting : o < committed => o \in gone.unread \/ \E i \in DOMAIN rows : rows[i] = o

\* A record becomes a second row only when a crash came between its handling and
\* the commit of its offset: rebalances and orderly stops repeat nothing.
RowsPerDelivery ==
    \A o \in Alerting : Cardinality({i \in DOMAIN rows : rows[i] = o}) <= 1 + crashes

\* A report of lost records is true when it is made: at least that many records
\* past the group's committed offset are no longer held by the broker.
LossReportsAreTrue ==
    [][watch'.report # watch.report /\ watch'.report.state = "data_lost"
          => oldest - committed >= watch'.report.lost]_alertVars

\* Every alert that was stored reaches the correlator's topic, unless its publish
\* failed or the process that should have published it ended.
StoredAreForwarded ==
    \A r \in 1..(MaxRecords * (1 + MaxAlertFaults)) :
        r \in DOMAIN rows ~> r \in forwarded \cup gone.unsent

\* No alert goes unseen: a record the group is done with was stored, and again only
\* after a crash, however rebalances, automatic commits and retention move the group's
\* position; what was stored is forwarded; and what retention took from the group is
\* reported as it is.
NoAlertUnseen == [](NoAlertSkipped /\ RowsPerDelivery) /\ StoredAreForwarded /\ LossReportsAreTrue
=============================================================================
