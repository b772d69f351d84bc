------------------------------ MODULE Metering ------------------------------
(***************************************************************************)
(* Metered ingestion for one tenant and one signal: the quota check        *)
(* (gateway-service quota/quota.go), the usage counters in Redis and their *)
(* mirror in usage_daily (shared/metering/meter.go), around the export     *)
(* handlers of otlp/tenant.go and otlp/http.go.                            *)
(*                                                                         *)
(* A request looks up the plan, reads the counter, adds to it and forwards *)
(* the batch, each a step of its own; every gateway has a plan cache and a *)
(* flusher.  A period stands for a day and its month: the day's counter    *)
(* and the month's are increased together and are one counter here.        *)
(***************************************************************************)
EXTENDS Naturals, FiniteSets

CONSTANTS
    MeterGateways,  \* replicas of gateway-service
    Exports,        \* requests that may be under way at the same time
    PlanLimit,      \* plan |-> monthly limit; 0 is unlimited
    Batch,          \* events in an export
    MaxSent,        \* bound: exports
    MaxPeriods,     \* bound: periods
    MaxPlanChanges, \* bound: changes of the plan
    MaxMeterFaults  \* bound: errors of Postgres, Redis and the collector

ASSUME MeterConstants ==
    /\ IsFiniteSet(MeterGateways) /\ IsFiniteSet(Exports)
    /\ "free" \in DOMAIN PlanLimit /\ \A p \in DOMAIN PlanLimit : PlanLimit[p] \in Nat
    /\ Batch \in Nat \ {0} /\ MaxPeriods \in Nat \ {0}
    /\ MaxSent \in Nat /\ MaxPlanChanges \in Nat /\ MaxMeterFaults \in Nat

VARIABLES
    plan,       \* the tenants row
    planCache,  \* each gateway: the plan it has cached, or "none"
    sending,    \* each request: how far it is, its gateway and the plan it goes by
    counter,    \* Redis: each period's counter
    daily,      \* Postgres: each period's row of usage_daily
    flush,      \* each gateway's flusher: the key it is at, and the value it has read for it
    period,
    tally,      \* history: batches accepted upstream, refused upstream, and not counted
    topLimit,   \* history: the highest limit a check has applied
    sent, planChanges, meterFaults

meterVars == <<plan, planCache, sending, counter, daily, flush, period, tally, topLimit,
               sent, planChanges, meterFaults>>
bounds == <<sent, planChanges, meterFaults>>

Plans == DOMAIN PlanLimit
Periods == 1..MaxPeriods
NotSending == [pc |-> "idle", by |-> "nobody", plan |-> "free"]
StartFlush == [at |-> 1, read |-> FALSE, value |-> 0]
MeterFault == meterFaults < MaxMeterFaults /\ meterFaults' = meterFaults + 1

-----------------------------------------------------------------------------
(* Enforcer.planFor and Allow *)

\* An export arrives at gateway g; a cached plan saves the query.
ReceiveExport(e, g) ==
    /\ sending[e] = NotSending /\ sent < MaxSent
    /\ sent' = sent + 1
    /\ sending' = [sending EXCEPT ![e] =
           [pc |-> IF planCache[g] = "none" THEN "ask" ELSE "check", by |-> g,
            plan |-> IF planCache[g] = "none" THEN "free" ELSE planCache[g]]]
    /\ UNCHANGED <<plan, planCache, counter, daily, flush, period, tally, topLimit,
                   planChanges, meterFaults>>

\* The query; an error reads as the free plan.
AskPlan(e) ==
    /\ sending[e].pc = "ask"
    /\ \/ sending' = [sending EXCEPT ![e].pc = "keep", ![e].plan = plan] /\ UNCHANGED meterFaults
       \/ sending' = [sending EXCEPT ![e].pc = "keep"] /\ MeterFault
    /\ UNCHANGED <<plan, planCache, counter, daily, flush, period, tally, topLimit, sent, planChanges>>

\* The answer is cached from now on, the fallback of an error too.
KeepPlan(e) ==
    /\ sending[e].pc = "keep"
    /\ planCache' = [planCache EXCEPT ![sending[e].by] = sending[e].plan]
    /\ sending' = [sending EXCEPT ![e].pc = "check"]
    /\ UNCHANGED <<plan, counter, daily, flush, period, tally, topLimit, bounds>>

UnderLimit(usage, limit) == limit = 0 \/ usage < limit

\* MonthlyUsage against the limit.  A Redis error reads as no usage.
Allow(e) ==
    LET limit == PlanLimit[sending[e].plan] IN
    /\ sending[e].pc = "check"
    /\ \/ /\ sending' = [sending EXCEPT ![e] =
                             IF UnderLimit(counter[period], limit)
                             THEN [@ EXCEPT !.pc = "count"] ELSE NotSending]
          /\ topLimit' = IF limit > topLimit THEN limit ELSE topLimit
          /\ UNCHANGED <<tally, meterFaults>>
       \/ /\ MeterFault
          /\ sending' = [sending EXCEPT ![e].pc = "count"]
          /\ tally' = [tally EXCEPT !.unchecked = @ + 1]
          /\ UNCHANGED topLimit
    /\ UNCHANGED <<plan, planCache, counter, daily, flush, period, sent, planChanges>>

-----------------------------------------------------------------------------
(* The export: counted, then forwarded *)

\* Faulty variant: the counter is written back as it was read by the check.
RecordReset(e) ==
    /\ sending[e].pc = "count"
    /\ counter' = [counter EXCEPT ![period] = Batch]
    /\ sending' = [sending EXCEPT ![e].pc = "forward"]
    /\ UNCHANGED <<plan, planCache, daily, flush, period, topLimit, tally, bounds>>

\* Record; a Redis error is logged and the export goes on uncounted.
Record(e) ==
    /\ sending[e].pc = "count"
    /\ sending' = [sending EXCEPT ![e].pc = "forward"]
    /\ \/ /\ counter' = [counter EXCEPT ![period] = @ + Batch]
          /\ UNCHANGED <<tally, meterFaults>>
       \/ /\ MeterFault
          /\ tally' = [tally EXCEPT !.uncounted = @ + 1]
          /\ UNCHANGED counter
    /\ UNCHANGED <<plan, planCache, daily, flush, period, topLimit, sent, planChanges>>

\* The collector, or the log sink, takes the batch or does not; a client that is
\* refused sends it again, as another export.
Forward(e) ==
    /\ sending[e].pc = "forward"
    /\ sending' = [sending EXCEPT ![e] = NotSending]
    /\ \/ tally' = [tally EXCEPT !.accepted = @ + 1] /\ UNCHANGED meterFaults
       \/ tally' = [tally EXCEPT !.failed = @ + 1] /\ MeterFault
    /\ UNCHANGED <<plan, planCache, counter, daily, flush, period, topLimit, sent, planChanges>>

-----------------------------------------------------------------------------
(* The flusher of each gateway *)

\* The scan goes over the keys round after round.
NextKey(p) == IF p = MaxPeriods THEN 1 ELSE p + 1

\* The counter is read; a period without a counter has no key.
FlushRead(g) ==
    LET p == flush[g].at IN
    /\ ~ flush[g].read
    /\ flush' = [flush EXCEPT ![g] =
           IF counter[p] = 0 THEN [@ EXCEPT !.at = NextKey(p)]
           ELSE [@ EXCEPT !.read = TRUE, !.value = counter[p]]]
    /\ UNCHANGED <<plan, planCache, sending, counter, daily, period, tally, topLimit, bounds>>

KeyDone(g) == flush' = [flush EXCEPT ![g] = [StartFlush EXCEPT !.at = NextKey(flush[g].at)]]

\* Faulty variant: each flush adds to the row.
FlushUpsertAdding(g) ==
    LET f == flush[g] IN
    /\ f.read
    /\ daily' = [daily EXCEPT ![f.at] = @ + f.value]
    /\ KeyDone(g)
    /\ UNCHANGED <<plan, planCache, sending, counter, period, tally, topLimit, bounds>>

\* The row becomes the value that was read, whatever another replica wrote since;
\* a failed upsert is logged and the scan goes on.
FlushUpsert(g) ==
    LET f == flush[g] IN
    /\ f.read
    /\ \/ daily' = [daily EXCEPT ![f.at] = f.value] /\ UNCHANGED meterFaults
       \/ MeterFault /\ UNCHANGED daily
    /\ KeyDone(g)
    /\ UNCHANGED <<plan, planCache, sending, counter, period, tally, topLimit, sent, planChanges>>

-----------------------------------------------------------------------------
(* Time, plans *)

NextPeriod ==
    /\ period < MaxPeriods
    /\ period' = period + 1
    /\ UNCHANGED <<plan, planCache, sending, counter, daily, flush, tally, topLimit, bounds>>

\* planCacheTTL passes.
PlanAges(g) ==
    /\ planCache[g] # "none"
    /\ planCache' = [planCache EXCEPT ![g] = "none"]
    /\ UNCHANGED <<plan, sending, counter, daily, flush, period, tally, topLimit, bounds>>

\* Billing sets the plan; no cache is told.
ChangePlan(p) ==
    /\ planChanges < MaxPlanChanges /\ p # plan
    /\ plan' = p
    /\ planChanges' = planChanges + 1
    /\ UNCHANGED <<planCache, sending, counter, daily, flush, period, tally, topLimit, sent, meterFaults>>

\* A gateway restarts: its requests are cut off, its cache and flusher start anew.
MeterRestart(g) ==
    /\ MeterFault
    /\ planCache' = [planCache EXCEPT ![g] = "none"]
    /\ flush' = [flush EXCEPT ![g] = StartFlush]
    /\ sending' = [e \in Exports |-> IF sending[e].by = g THEN NotSending ELSE sending[e]]
    /\ tally' = [tally EXCEPT !.failed =
                     @ + Cardinality({e \in Exports : sending[e].by = g /\ sending[e].pc = "forward"})]
    /\ UNCHANGED <<plan, counter, daily, period, topLimit, sent, planChanges>>

-----------------------------------------------------------------------------

MeterInit ==
    /\ plan \in Plans
    /\ planCache = [g \in MeterGateways |-> "none"]
    /\ sending = [e \in Exports |-> NotSending]
    /\ counter = [p \in Periods |-> 0]
    /\ daily = [p \in Periods |-> 0]
    /\ flush = [g \in MeterGateways |-> StartFlush]
    /\ period = 1
    /\ tally = [accepted |-> 0, failed |-> 0, uncounted |-> 0, unchecked |-> 0]
    /\ topLimit = 0
    /\ sent = 0 /\ planChanges = 0 /\ meterFaults = 0

MeterNext ==
    \/ \E e \in Exports :
          \/ \E g \in MeterGateways : ReceiveExport(e, g)
          \/ AskPlan(e) \/ KeepPlan(e) \/ Allow(e) \/ Record(e) \/ Forward(e)
    \/ \E g \in MeterGateways :
          \/ FlushRead(g) \/ FlushUpsert(g) \/ PlanAges(g) \/ MeterRestart(g)
    \/ NextPeriod
    \/ \E p \in Plans : ChangePlan(p)

MeterSpec == MeterInit /\ [][MeterNext]_meterVars

-----------------------------------------------------------------------------
(* Properties *)

MeterTypeOK ==
    /\ plan \in Plans
    /\ planCache \in [MeterGateways -> Plans \cup {"none"}]
    /\ sending \in [Exports -> [pc : {"idle", "ask", "keep", "check", "count", "forward"},
                                by : MeterGateways \cup {"nobody"}, plan : Plans]]
    /\ counter \in [Periods -> 0..(Batch * MaxSent)] /\ daily \in [Periods -> 0..(Batch * MaxSent)]
    /\ flush \in [MeterGateways -> [at : Periods, read : BOOLEAN, value : 0..(Batch * MaxSent)]]
    /\ period \in Periods /\ topLimit \in Nat

\* The check and the count are apart, so requests that are under way together
\* can all pass: a month never holds more than one batch for each of them beyond
\* the last event within the highest limit applied (a new month, a changed plan
\* and a plan cache that fell back to free included), unless Redis failed a check
\* or the plan was unlimited.
OvershootBounded ==
    tally.unchecked = 0 /\ topLimit > 0 /\ (\A p \in Plans : PlanLimit[p] > 0) =>
        \A p \in Periods : counter[p] <= topLimit - 1 + Batch * Cardinality(Exports)

\* What is counted is what was accepted, what is between Record and the end of
\* its forward, and what failed upstream (which the client sends, and pays for,
\* again), less what Redis did not take.
InFlight == Cardinality({e \in Exports : sending[e].pc = "forward"})
Counted[n \in 0..MaxPeriods] == IF n = 0 THEN 0 ELSE Counted[n - 1] + counter[n]
UsageAccountedFor ==
    Counted[MaxPeriods] + Batch * tally.uncounted
        = Batch * (tally.accepted + tally.failed + InFlight)

\* "Postgres mirrors Redis rather than accumulating on top of it": a row never
\* shows more than was counted, however the flushers of the replicas interleave.
MirrorNeverExceeds == \A p \in Periods : daily[p] <= counter[p]

\* What a tenant is shown and billed for a month is what it sent, within bounds: the row
\* follows the counter, the counter what was accepted, and that the limit but for the
\* requests under way.
UsageIsRight == OvershootBounded /\ UsageAccountedFor /\ MirrorNeverExceeds
=============================================================================
