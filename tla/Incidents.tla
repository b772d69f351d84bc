----------------------------- MODULE Incidents -----------------------------
(***************************************************************************)
(* How alerts become incidents: the correlator of correlation-service      *)
(* (engine/correlator.go) over the incidents table                         *)
(* (repository/incident_repository.go), fed by the alerts topic.           *)
(*                                                                         *)
(* A worker is the consumer of one partition of the topic.  Alerts are     *)
(* keyed by service, so one service's alerts go to one worker; the worker  *)
(* leaves a message in the topic until its handler has returned.           *)
(*                                                                         *)
(* What is abstracted                                                      *)
(*   - Time is kept as ages: how long ago an alert was triggered, an       *)
(*     incident started and its row was last updated.  Ages stop at the    *)
(*     first value beyond every comparison, so time itself is unbounded.   *)
(*   - Title, root cause, and the content of an analysis.  An analysis is  *)
(*     the set of alerts it has seen.                                      *)
(*   - What follows an analysis (remediation) is another component.        *)
(***************************************************************************)
EXTENDS Naturals, Sequences, FiniteSets

CONSTANTS
    Alerts,           \* alerts that may fire: id, tenant, service, level
    Services,
    Upstream,         \* Upstream[s]: the services s depends on (topology)
    Workers,          \* partitions of the alerts topic
    PartitionOf,      \* the partition of each service
    Sweepers,         \* auto-resolve loops (more than one in a rolling update)
    Window,           \* correlationWindow
    Quiet,            \* quietFor
    MaxLag,           \* bound: how late an alert is consumed
    MaxCrashes,       \* bound: restarts of the service
    MaxPublishFails,  \* bound: publishes to RabbitMQ that fail
    MaxDbFails,       \* bound: queries of Handle that fail
    MaxAnalysisFails  \* bound: analyses that fail

ASSUME IncidentConstants ==
    /\ \A a \in Alerts : a.service \in Services /\ a.level \in 1..5
    /\ Upstream \in [Services -> SUBSET Services]
    /\ PartitionOf \in [Services -> Workers]
    /\ Window \in Nat /\ Quiet \in Nat /\ MaxLag \in Nat
    /\ MaxCrashes \in Nat /\ MaxPublishFails \in Nat /\ MaxDbFails \in Nat
    /\ MaxAnalysisFails \in Nat

VARIABLES
    fired,     \* the alerts that have been published to the topic
    topic,     \* per partition, the messages whose offset is not marked
    marked,    \* per partition, the message marked since Kafka last committed
    worker,    \* each worker's place in Correlator.Handle
    incidents, \* the incidents table; the id is the index
    inflight,  \* Correlator.inflight: the running analyses
    sweeping,  \* per sweeper, the resolved incidents it has yet to announce
    mq,        \* events published to RabbitMQ and not yet consumed, in order
    resolves,  \* history: the "resolved" events published, per incident
    lastAlert, \* history: how long ago an alert was last added, per incident
    dropped,   \* history: alerts given up on because a query failed
    failures   \* how many failures of each kind have happened

incVars == <<fired, topic, marked, worker, incidents, inflight, sweeping, mq,
             resolves, lastAlert, dropped, failures>>

FailureBound == [crashes |-> MaxCrashes, publishes |-> MaxPublishFails,
                 queries |-> MaxDbFails, analyses |-> MaxAnalysisFails]

Fail(kind) ==
    /\ failures[kind] < FailureBound[kind]
    /\ failures' = [failures EXCEPT ![kind] = @ + 1]

Free == [pc |-> "idle", incident |-> 0, built |-> 0]

Least(a, b) == IF a < b THEN a ELSE b

\* Ages beyond these compare like these.
AgeCap == Window + MaxLag + 1
QuietCap == Quiet + 1

Ids == DOMAIN incidents

\* A restart makes a worker handle at most two messages again.
PossibleIds == 1..(Cardinality(Alerts) + 2 * MaxCrashes * Cardinality(Workers))

-----------------------------------------------------------------------------
(* The repository *)

\* started_at >= windowStart, where windowStart is the alert's time - Window.
InWindow(i, age) == incidents[i].age <= age + Window

\* GetOpenByWindow: no condition on the tenant.
OpenByWindow(services, age) ==
    {i \in Ids : /\ incidents[i].status = "OPEN"
                 /\ \E a \in incidents[i].alerts : a.service \in services
                 /\ InWindow(i, age)}

\* ORDER BY started_at DESC LIMIT 1
Newest(ids) == {i \in ids : \A j \in ids : incidents[i].age <= incidents[j].age}

\* The row correlate() builds for an alert nothing matched; alert_count is 0.
NewIncident(m, built) ==
    [tenant |-> m.alert.tenant, status |-> "OPEN", severity |-> m.alert.level,
     count |-> 0, age |-> m.age, quiet |-> built, alerts |-> {m.alert}, analyzed |-> {}]

\* Faulty variant: the conflict does not refresh updated_at.
JoinedSilently(row, alert) ==
    [row EXCEPT !.count = @ + 1, !.alerts = @ \cup {alert}]

\* ON CONFLICT: the severity offered is the row's own, so it never changes;
\* neither does the status.  A link that exists is left alone.
Joined(row, alert) ==
    [row EXCEPT !.count = @ + 1, !.quiet = 0, !.alerts = @ \cup {alert}]

\* The rows ResolveStale updates.
Stale == {i \in Ids : incidents[i].status = "OPEN" /\ incidents[i].quiet > Quiet}

-----------------------------------------------------------------------------
(* Correlator.Handle *)

\* External: alert-service publishes an alert, keyed by its service.
Fire(a) ==
    /\ a \notin fired
    /\ fired' = fired \cup {a}
    /\ topic' = [topic EXCEPT ![PartitionOf[a.service]] = Append(@, [alert |-> a, age |-> 0])]
    /\ UNCHANGED <<marked, worker, incidents, inflight, sweeping, mq, resolves, lastAlert, dropped, failures>>

\* correlate() up to the lookup's answer.  Without an answer from the topology
\* the alert's own service is the only candidate; a query that fails counts as
\* no incident.
Lookup(w) ==
    LET m == Head(topic[w])
        self == {m.alert.service}
    IN
    /\ worker[w].pc = "idle" /\ topic[w] # <<>>
    /\ \/ \E services \in {self, self \cup Upstream[m.alert.service]} :
            LET found == OpenByWindow(services, m.age) IN
            \E i \in IF found = {} THEN {0} ELSE Newest(found) :
                worker' = [worker EXCEPT ![w] = [pc |-> "upsert", incident |-> i, built |-> 0]]
          /\ UNCHANGED failures
       \/ /\ Fail("queries")
          /\ worker' = [worker EXCEPT ![w] = [pc |-> "upsert", incident |-> 0, built |-> 0]]
    /\ UNCHANGED <<fired, topic, marked, incidents, inflight, sweeping, mq, resolves, lastAlert, dropped>>

\* Upsert: one transaction, whatever became of the incident since the lookup.
Upsert(w) ==
    LET m == Head(topic[w])
        i == worker[w].incident
    IN
    /\ worker[w].pc = "upsert"
    /\ incidents' = IF i = 0 THEN Append(incidents, NewIncident(m, worker[w].built))
                    ELSE [incidents EXCEPT ![i] = Joined(@, m.alert)]
    /\ worker' = [worker EXCEPT ![w].pc = "notify",
                                ![w].incident = IF i = 0 THEN Len(incidents) + 1 ELSE i]
    /\ lastAlert' = IF i = 0 THEN Append(lastAlert, worker[w].built)
                    ELSE [lastAlert EXCEPT ![i] = 0]
    /\ UNCHANGED <<fired, topic, marked, inflight, sweeping, mq, resolves, dropped, failures>>

\* The consumer marks a message whatever the handler returned.
Mark(w) ==
    /\ topic' = [topic EXCEPT ![w] = Tail(@)]
    /\ marked' = [marked EXCEPT ![w] = <<Head(topic[w])>>]
    /\ worker' = [worker EXCEPT ![w] = Free]

\* The transaction fails: Handle returns the error and the message is marked.
UpsertFails(w) ==
    /\ worker[w].pc = "upsert"
    /\ Fail("queries")
    /\ dropped' = dropped \cup {Head(topic[w]).alert}
    /\ Mark(w)
    /\ UNCHANGED <<fired, incidents, inflight, sweeping, mq, resolves, lastAlert>>

\* notify: a failure is logged.
Notify(w) ==
    /\ worker[w].pc = "notify"
    /\ \/ mq' = Append(mq, [incident |-> worker[w].incident, action |-> "triggered", tries |-> 0])
          /\ UNCHANGED failures
       \/ Fail("publishes") /\ UNCHANGED mq
    /\ worker' = [worker EXCEPT ![w].pc = "schedule"]
    /\ UNCHANGED <<fired, topic, marked, incidents, inflight, sweeping, resolves, lastAlert, dropped>>

\* scheduleCausalAnalysis, unless one is running for the incident; Handle ends.
Schedule(w) ==
    LET i == worker[w].incident IN
    /\ worker[w].pc = "schedule"
    /\ inflight' = IF \E n \in inflight : n.incident = i THEN inflight
                   ELSE inflight \cup {[incident |-> i, loaded |-> FALSE, alerts |-> {}]}
    /\ Mark(w)
    /\ UNCHANGED <<fired, incidents, sweeping, mq, resolves, lastAlert, dropped, failures>>

-----------------------------------------------------------------------------
(* The analysis goroutine *)

\* AlertsForIncident: the alerts the analysis will have seen.
LoadEvidence(n) ==
    /\ ~ n.loaded
    /\ inflight' = (inflight \ {n}) \cup
           {[n EXCEPT !.loaded = TRUE, !.alerts = incidents[n.incident].alerts]}
    /\ UNCHANGED <<fired, topic, marked, worker, incidents, sweeping, mq, resolves, lastAlert, dropped, failures>>

\* UpdateCausalAnalysis, which refreshes updated_at, and the goroutine's end.
UpdateCausalAnalysis(n) ==
    /\ n.loaded
    /\ incidents' = [incidents EXCEPT ![n.incident].analyzed = n.alerts,
                                      ![n.incident].quiet = 0]
    /\ inflight' = inflight \ {n}
    /\ UNCHANGED <<fired, topic, marked, worker, sweeping, mq, resolves, lastAlert, dropped, failures>>

\* A query or the analysers fail, or the timeout strikes.
AnalysisFails(n) ==
    /\ Fail("analyses")
    /\ inflight' = inflight \ {n}
    /\ UNCHANGED <<fired, topic, marked, worker, incidents, sweeping, mq, resolves, lastAlert, dropped>>

-----------------------------------------------------------------------------
(* The auto-resolve sweeper *)

\* ResolveStale: one UPDATE ... RETURNING.
ResolveStale(s) ==
    /\ sweeping[s] = {}
    /\ Stale # {}
    /\ incidents' = [i \in Ids |-> IF i \in Stale
                                   THEN [incidents[i] EXCEPT !.status = "RESOLVED", !.quiet = 0]
                                   ELSE incidents[i]]
    /\ sweeping' = [sweeping EXCEPT ![s] = Stale]
    /\ UNCHANGED <<fired, topic, marked, worker, inflight, mq, resolves, lastAlert, dropped, failures>>

\* notifyResolved for one of the rows returned: a failure is logged.
NotifyResolved(s) == \E i \in sweeping[s] :
    /\ sweeping' = [sweeping EXCEPT ![s] = @ \ {i}]
    /\ \/ /\ mq' = Append(mq, [incident |-> i, action |-> "resolved", tries |-> 0])
          /\ resolves' = [resolves EXCEPT ![i] = @ + 1]
          /\ UNCHANGED failures
       \/ Fail("publishes") /\ UNCHANGED <<mq, resolves>>
    /\ UNCHANGED <<fired, topic, marked, worker, incidents, inflight, lastAlert, dropped>>

-----------------------------------------------------------------------------
(* Time and restarts *)

\* A tick is far longer than Kafka's commit interval, so marks are committed.
Tick ==
    /\ \A w \in Workers : \A k \in DOMAIN topic[w] : topic[w][k].age < MaxLag
    /\ topic' = [w \in Workers |-> [k \in DOMAIN topic[w] |-> [topic[w][k] EXCEPT !.age = @ + 1]]]
    /\ marked' = [w \in Workers |-> <<>>]
    /\ worker' = [w \in Workers |-> [worker[w] EXCEPT !.built =
                     IF worker[w].pc = "upsert" THEN Least(@ + 1, QuietCap) ELSE @]]
    /\ incidents' = [i \in Ids |-> [incidents[i] EXCEPT !.age = Least(@ + 1, AgeCap),
                                                        !.quiet = Least(@ + 1, QuietCap)]]
    /\ lastAlert' = [i \in Ids |-> Least(lastAlert[i] + 1, QuietCap)]
    /\ UNCHANGED <<fired, inflight, sweeping, mq, resolves, dropped, failures>>

\* Faulty variant: offsets are committed when a message is fetched.
CrashSkipsMessage ==
    /\ Fail("crashes")
    /\ topic' = [w \in Workers |-> IF worker[w].pc = "idle" THEN topic[w] ELSE Tail(topic[w])]
    /\ marked' = [w \in Workers |-> <<>>]
    /\ worker' = [w \in Workers |-> Free]
    /\ inflight' = {}
    /\ sweeping' = [s \in Sweepers |-> {}]
    /\ UNCHANGED <<fired, incidents, mq, resolves, lastAlert, dropped>>

\* The service restarts: goroutines are gone, the message being handled comes
\* back, and so may the one whose mark was not committed yet.
Crash ==
    /\ Fail("crashes")
    /\ \E back \in SUBSET Workers :
           topic' = [w \in Workers |-> IF w \in back THEN marked[w] \o topic[w] ELSE topic[w]]
    /\ marked' = [w \in Workers |-> <<>>]
    /\ worker' = [w \in Workers |-> Free]
    /\ inflight' = {}
    /\ sweeping' = [s \in Sweepers |-> {}]
    /\ UNCHANGED <<fired, incidents, mq, resolves, lastAlert, dropped>>

IncInit ==
    /\ fired = {}
    /\ topic = [w \in Workers |-> <<>>]
    /\ marked = [w \in Workers |-> <<>>]
    /\ worker = [w \in Workers |-> Free]
    /\ incidents = <<>>
    /\ inflight = {}
    /\ sweeping = [s \in Sweepers |-> {}]
    /\ mq = <<>>
    /\ resolves = [i \in PossibleIds |-> 0]
    /\ lastAlert = <<>>
    /\ dropped = {}
    /\ failures = [kind \in DOMAIN FailureBound |-> 0]

HandleStep(w) == Lookup(w) \/ Upsert(w) \/ Notify(w) \/ Schedule(w)

Analysis(n) == LoadEvidence(n) \/ UpdateCausalAnalysis(n) \/ AnalysisFails(n)

SweepStep(s) == ResolveStale(s) \/ NotifyResolved(s)

IncNext ==
    \/ \E a \in Alerts : Fire(a)
    \/ \E w \in Workers : HandleStep(w) \/ UpsertFails(w)
    \/ \E n \in inflight : Analysis(n)
    \/ \E s \in Sweepers : SweepStep(s)
    \/ Tick
    \/ Crash

IncSpec == IncInit /\ [][IncNext]_incVars

\* Consumers, analyses and the ticker of a sweeper keep running, and time passes.
IncFairSpec ==
    /\ IncSpec
    /\ \A w \in Workers : WF_incVars(HandleStep(w))
    /\ \A s \in Sweepers : WF_incVars(SweepStep(s))
    /\ WF_incVars(\E n \in inflight : Analysis(n))
    /\ WF_incVars(Tick)

-----------------------------------------------------------------------------
(* Properties *)

IncTypeOK ==
    /\ fired \subseteq Alerts /\ dropped \subseteq Alerts
    /\ \A w \in Workers :
        /\ worker[w].pc \in {"idle", "upsert", "notify", "schedule"}
        /\ worker[w].pc # "idle" => topic[w] # <<>>
        /\ worker[w].pc \in {"notify", "schedule"} => worker[w].incident \in Ids
        /\ \A k \in DOMAIN topic[w] : /\ topic[w][k].alert \in Alerts
                                      /\ topic[w][k].age \in 0..MaxLag
    /\ \A i \in Ids :
        /\ incidents[i].status \in {"OPEN", "RESOLVED"}
        /\ incidents[i].count \in Nat
        /\ incidents[i].age \in 0..AgeCap /\ incidents[i].quiet \in 0..QuietCap
        /\ incidents[i].alerts \subseteq Alerts
        /\ incidents[i].analyzed \subseteq incidents[i].alerts
    /\ \A n \in inflight : n.incident \in Ids
    /\ \A s \in Sweepers : sweeping[s] \subseteq Ids

LinkedAlerts == UNION {incidents[i].alerts : i \in Ids}
WaitingAlerts == UNION {{topic[w][k].alert : k \in DOMAIN topic[w]} : w \in Workers}

\* No alert disappears: one that was published is waiting to be handled, linked
\* to an incident, or was given up on when a query failed (the consumer marks a
\* message after the handler returned, whatever crashed before).
NoAlertLost == fired \subseteq WaitingAlerts \cup LinkedAlerts \cup dropped

\* The service whose alert opened an incident is one of its alerts' services,
\* and alerts of one service within the window share an incident (README:
\* "Alerts from the same service within a 5-minute sliding window are grouped
\* into a single incident"): two open incidents that hold alerts of one and no
\* other service started more than a window apart.
OneIncidentPerService ==
    failures.queries = 0 =>
        \A i, j \in Ids :
            /\ i # j
            /\ incidents[i].status = "OPEN" /\ incidents[j].status = "OPEN"
            /\ incidents[i].age < AgeCap /\ incidents[j].age < AgeCap
            /\ \E s \in Services : \A a \in incidents[i].alerts \cup incidents[j].alerts : a.service = s
            => \/ incidents[i].age > incidents[j].age + Window
               \/ incidents[j].age > incidents[i].age + Window

\* An incident is resolved only when no alert was added to it for the quiet
\* period (ResolveStale: "had no new alert for at least quietFor"): alerts that
\* join, analyses that end and sweeps may interleave in any way.
ResolvedOnlyWhenQuiet ==
    [][\A i \in Ids : incidents[i].status = "OPEN" /\ incidents'[i].status = "RESOLVED"
           => lastAlert[i] > Quiet]_incVars

\* An incident whose service recovered is eventually resolved: once its alerts
\* stop, it does not stay open for ever (StartAutoResolveSweeper).
QuietIncidentsResolve ==
    \A i \in PossibleIds :
        i \in Ids ~> (i \in Ids /\ incidents[i].status = "RESOLVED")

\* An incident is announced as resolved at most once, with several sweepers and
\* restarts (ResolveStale: "concurrent sweepers can't double-resolve a row").
ResolvedOnce == \A i \in PossibleIds : resolves[i] <= 1

\* An incident is one outage: it takes in the alerts of the window, ends only when they
\* have stopped, does end then, and is announced as ended once.
IncidentIsOneOutage ==
    /\ []OneIncidentPerService /\ ResolvedOnlyWhenQuiet
    /\ QuietIncidentsResolve /\ []ResolvedOnce
=============================================================================
