---------------------------- MODULE ErrorTracking ----------------------------
(***************************************************************************)
(* Error groups of the gateway: operators resolve, mute, reopen and snooze *)
(* a group, and every gateway runs a worker that pages for a new group and *)
(* for a resolved one that occurs again, which it also reopens             *)
(* (error_tracking_handler.go).  One group of one tenant: the fingerprint  *)
(* keeps the groups of all tenants apart.  A time is a tick of the clock;  *)
(* 0 is Go's zero time.  The 7 days the queries look back are longer than  *)
(* the model's time.                                                       *)
(***************************************************************************)
EXTENDS Naturals, FiniteSets

CONSTANTS Scanners,       \* the gateways, each with a regression worker
          ScanWindow,     \* regressionWindow
          MaxErrTime,     \* bound on the clock
          MaxTriage,      \* bound on the operators' requests
          MaxErrFaults,   \* bound on failed statements and publishes
          MaxErrRestarts  \* bound on restarts of a gateway

ASSUME ErrAssumption ==
    /\ IsFiniteSet(Scanners) /\ ScanWindow \in Nat /\ MaxErrTime \in Nat \ {0}
    /\ MaxTriage \in Nat /\ MaxErrFaults \in Nat /\ MaxErrRestarts \in Nat

VARIABLES
    errClock,
    seen,        \* the group's error spans: first and last occurrence, 0 if none
    triage,      \* its row of error_groups; status Empty if there is none
    triageKnown, \* the tenant has a triage row of some group
    scan,        \* [Scanners -> what the worker's current scan has read and does next]
    alerted,     \* [Scanners -> the worker's edge-trigger state]
    errPages,    \* pages published for the group
    timesResolved, edits, errFaults, errRestarts  \* counts

errVars == <<errClock, seen, triage, triageKnown, scan, alerted, errPages,
             timesResolved, edits, errFaults, errRestarts>>

ErrTimes == 0..MaxErrTime
triageStatuses == {"open", "resolved", "muted", "snoozed"}
NoScan == [at |-> "wait", now |-> 0, first |-> 0, last |-> 0, version |-> 0]
Empty == ""   \* the status of a group without a row, and the kind of what is no event
NoRow == [status |-> Empty, resolvedAt |-> 0, until |-> 0]

\* More pages than this are counted as this many.
PageCap == Cardinality(Scanners) * (MaxTriage + MaxErrFaults + MaxErrRestarts + 2)

ErrTypeOK ==
    /\ errClock \in 1..MaxErrTime
    /\ seen \in [first : ErrTimes, last : ErrTimes] /\ seen.first <= seen.last /\ seen.last <= errClock
    /\ triage \in [status : triageStatuses \cup {Empty}, resolvedAt : ErrTimes, until : 0..MaxErrTime + 1]
    /\ triage.resolvedAt <= errClock /\ (triage.status = "resolved" => triage.resolvedAt > 0)
    /\ (triage.status # Empty => triageKnown) /\ triageKnown \in BOOLEAN
    /\ scan \in [Scanners -> [at : {"wait", "triage", "reopen"}, now : ErrTimes,
                              first : ErrTimes, last : ErrTimes, version : 0..MaxTriage]]
    /\ alerted \in [Scanners -> BOOLEAN]
    /\ errPages \in 0..PageCap
    /\ edits \in 0..MaxTriage /\ timesResolved \in 0..edits
    /\ errFaults \in 0..MaxErrFaults /\ errRestarts \in 0..MaxErrRestarts

ErrInit ==
    /\ errClock = 1 /\ seen = [first |-> 0, last |-> 0]
    /\ triage = NoRow /\ triageKnown \in BOOLEAN
    /\ scan = [s \in Scanners |-> NoScan] /\ alerted = [s \in Scanners |-> FALSE]
    /\ errPages = 0 /\ timesResolved = 0 /\ edits = 0 /\ errFaults = 0 /\ errRestarts = 0

-----------------------------------------------------------------------------
(* The operator's requests *)

\* What a listing shows: a snooze that is over reads as open.
effectiveStatus(row, now) ==
    IF row.status = "snoozed" /\ (row.until = 0 \/ row.until <= now) THEN "open" ELSE row.status

\* The status a listing shows and filters by.
ListErrorGroups == effectiveStatus(triage, errClock)

Edit(row) ==
    /\ edits < MaxTriage /\ edits' = edits + 1
    /\ triage' = row /\ triageKnown' = TRUE
    /\ timesResolved' = IF row.status = "resolved" THEN timesResolved + 1 ELSE timesResolved
    /\ UNCHANGED <<errClock, seen, scan, alerted, errPages, errFaults, errRestarts>>

\* Faulty variant: resolving does not note the time.
setStatusBare(status) == Edit([triage EXCEPT !.status = status, !.resolvedAt = 0])

\* POST resolve, mute, reopen: the snooze column is not written.
setStatus(status) ==
    Edit([triage EXCEPT !.status = status, !.resolvedAt = IF status = "resolved" THEN errClock ELSE 0])

\* PATCH with a status other than snoozed: the snooze is cleared, and resolved_at is
\* written only when resolving.
UpdateErrorGroup(status) ==
    Edit([triage EXCEPT !.status = status, !.until = 0,
                        !.resolvedAt = IF status = "resolved" THEN errClock ELSE @])

\* PATCH that snoozes, or extends a snooze, until a time in the future.
Snooze(until) ==
    /\ until > errClock
    /\ Edit([triage EXCEPT !.status = "snoozed", !.until = until])

-----------------------------------------------------------------------------
(* The regression worker *)

\* Faulty variant: an occurrence at the time of resolving counts as a regression.
classifyErrorGroupLate(row, first, last, now) ==
    CASE row.status = "resolved" /\ row.resolvedAt # 0 /\ last >= row.resolvedAt -> "regression"
      [] row.status = Empty /\ first + ScanWindow > now -> "new"
      [] OTHER -> Empty

classifyErrorGroup(row, first, last, now) ==
    CASE row.status = "resolved" /\ row.resolvedAt # 0 /\ last > row.resolvedAt -> "regression"
      [] row.status = Empty /\ first + ScanWindow > now -> "new"
      [] OTHER -> Empty

\* Only tenants with a triage row are scanned.
distinctTriageTenants == triageKnown

\* What the query over the last week finds of the group.
recentErrorGroups == [at |-> "triage", now |-> errClock, first |-> seen.first, last |-> seen.last, version |-> 0]

\* A tick: the tenants with triage rows are listed, and the groups queried.  A failed
\* query leaves the tenant for the next tick, which changes nothing.
runRegressionScan(s) ==
    /\ scan[s].at = "wait" /\ distinctTriageTenants /\ seen.first # 0
    /\ scan' = [scan EXCEPT ![s] = recentErrorGroups]
    /\ UNCHANGED <<errClock, seen, triage, triageKnown, alerted, errPages,
                   timesResolved, edits, errFaults, errRestarts>>

pageErrorGroup(published) == errPages' = IF published /\ errPages < PageCap THEN errPages + 1 ELSE errPages

\* The decision on the group as read now: page once per spell, then go on to reopen.
Decide(s, row, publishes) ==
    LET kind == classifyErrorGroup(row, scan[s].first, scan[s].last, scan[s].now)
        page == kind # Empty /\ ~ alerted[s]
    IN  /\ alerted' = [alerted EXCEPT ![s] = kind # Empty]
        /\ pageErrorGroup(page /\ publishes)
        /\ scan' = [scan EXCEPT ![s] = IF page /\ kind = "regression"
                                       THEN [@ EXCEPT !.at = "reopen", !.version = edits]
                                       ELSE NoScan]
        /\ UNCHANGED <<errClock, seen, triage, triageKnown, timesResolved, edits, errRestarts>>

\* triageStates answers with an empty map when its query fails: every group then looks
\* untriaged.  A failed publish is only logged.
ReadTriage(s) ==
    /\ scan[s].at = "triage"
    /\ \/ Decide(s, triage, TRUE) /\ UNCHANGED errFaults
       \/ /\ errFaults < MaxErrFaults /\ errFaults' = errFaults + 1
          /\ Decide(s, NoRow, TRUE) \/ Decide(s, triage, FALSE)

\* A failed statement is only logged, and the spell is already marked as alerted.
autoReopen(s) ==
    /\ scan[s].at = "reopen"
    /\ scan' = [scan EXCEPT ![s] = NoScan]
    /\ \/ /\ triage' = [triage EXCEPT !.status = "open", !.resolvedAt = 0]
          /\ UNCHANGED errFaults
       \/ /\ errFaults < MaxErrFaults /\ errFaults' = errFaults + 1
          /\ UNCHANGED triage
    /\ UNCHANGED <<errClock, seen, triageKnown, alerted, errPages, timesResolved, edits, errRestarts>>

-----------------------------------------------------------------------------
(* Around them *)

ErrorSpan ==
    /\ seen' = [first |-> IF seen.first = 0 THEN errClock ELSE seen.first, last |-> errClock]
    /\ UNCHANGED <<errClock, triage, triageKnown, scan, alerted, errPages,
                   timesResolved, edits, errFaults, errRestarts>>

ErrTick ==
    /\ errClock < MaxErrTime /\ errClock' = errClock + 1
    /\ UNCHANGED <<seen, triage, triageKnown, scan, alerted, errPages,
                   timesResolved, edits, errFaults, errRestarts>>

\* Some other group of the tenant is triaged for the first time.
OtherTriage ==
    /\ ~ triageKnown /\ triageKnown' = TRUE
    /\ UNCHANGED <<errClock, seen, triage, scan, alerted, errPages,
                   timesResolved, edits, errFaults, errRestarts>>

\* The edge-trigger state is the process's memory.
RestartScanner(s) ==
    /\ errRestarts < MaxErrRestarts /\ errRestarts' = errRestarts + 1
    /\ scan' = [scan EXCEPT ![s] = NoScan] /\ alerted' = [alerted EXCEPT ![s] = FALSE]
    /\ UNCHANGED <<errClock, seen, triage, triageKnown, errPages, timesResolved, edits, errFaults>>

ErrNext ==
    \/ \E status \in {"resolved", "muted", "open"} : setStatus(status) \/ UpdateErrorGroup(status)
    \/ \E until \in 1..MaxErrTime + 1 : Snooze(until)
    \/ \E s \in Scanners :
          runRegressionScan(s) \/ ReadTriage(s) \/ autoReopen(s) \/ RestartScanner(s)
    \/ ErrorSpan \/ ErrTick \/ OtherTriage

ErrSpec == ErrInit /\ [][ErrNext]_errVars

-----------------------------------------------------------------------------
(* Properties *)

Regressed == triage.status = "resolved" /\ seen.last > triage.resolvedAt

\* autoReopen takes a group out of the state an operator gave it only if the group had
\* regressed, or if the operator's decision came after the worker's read.
DecisionsOnlyLoseRaces ==
    [][triage' # triage /\ edits' = edits =>
          \E s \in Scanners : /\ scan[s].at = "reopen"
                              /\ scan[s].version = edits => Regressed]_errVars

\* A snoozed group comes back to the queue by itself: listings show it as open once its
\* window is over, though nothing writes the row.  The windows are those that end within
\* the model's time.
SnoozeEnds ==
    triage.status = "snoozed" /\ triage.until <= MaxErrTime
        ~> ListErrorGroups # "snoozed" \/ triage.until > MaxErrTime

\* However scans, restarts and requests interleave, a group pages at most once per
\* worker for each time it was resolved, was new, lost the worker's memory or was read
\* wrongly: alerted makes runRegressionScan edge-triggered.
NoPageStorm ==
    errPages <= Cardinality(Scanners) * (1 + timesResolved) + errRestarts + errFaults

\* Triage holds: a decision lasts as long as it was meant to, and a group pages once for
\* what happened to it.
TriageHolds == DecisionsOnlyLoseRaces /\ SnoozeEnds /\ []NoPageStorm
=============================================================================
