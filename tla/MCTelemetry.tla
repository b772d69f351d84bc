---------------------------- MODULE MCTelemetry -----------------------------
(***************************************************************************)
(* What becomes of telemetry: the intake of logs, the alerts made from     *)
(* them, and the workers that raise alerts of their own. These parts share *)
(* no state, so one model holds them all: a behaviour follows one part,    *)
(* chosen at the start, and the others stay in one initial state, which    *)
(* checks each as a model of its own would.                                *)
(***************************************************************************)
EXTENDS LogIntake, AlertIntake, SloAlerts, RuleAlerts, AnomalyWatch, TLC

CONSTANT Parts   \* the parts this run is about

ASSUME PartsAreKnown ==
    Parts \subseteq {"logs", "alerts", "slo", "rules", "anomaly"}

VARIABLE part    \* the part this behaviour follows

-----------------------------------------------------------------------------
(* Constants *)

\* One client of log-service and the one of the gateway try again.
TwoTryAgain == [b \in Queued \cup Direct |-> IF b = "q2" THEN 1 ELSE 2]

Traffic(month, rates) == [w \in Windows \cup {"month"} |-> IF w = "month" THEN month ELSE rates[w]]
Level(n) == [w \in Windows |-> n]
\* No errors; a steady breach; a breach that is over; a breach of a service so new that
\* the longer windows are empty.
FourScenes ==
    {Traffic(0, Level(0)), Traffic(30, Level(200)),
     Traffic(30, [w \in Windows |-> IF w \in ShortWindows THEN 0 ELSE 200]),
     Traffic(150, [w \in Windows |-> IF w = "5m" THEN 150 ELSE NoEvents])}

-----------------------------------------------------------------------------

TelemetryInit ==
    /\ part \in Parts
    /\ LogInit /\ AlertInit /\ SloInit /\ RuleInit /\ AnomalyInit
    /\ part # "slo" => scene = Traffic(0, Level(0))
    /\ part # "rules" => metrics = [t \in RuleTenants |-> "calm"]
    /\ part # "anomaly" => p99 = 100

telemetryVars == <<part, logVars, alertVars, sloVars, ruleVars, anomalyVars>>

TelemetryNext ==
    \/ /\ part = "logs" /\ LogNext
       /\ UNCHANGED <<part, alertVars, sloVars, ruleVars, anomalyVars>>
    \/ /\ part = "alerts" /\ AlertNext
       /\ UNCHANGED <<part, logVars, sloVars, ruleVars, anomalyVars>>
    \/ /\ part = "slo" /\ SloNext
       /\ UNCHANGED <<part, logVars, alertVars, ruleVars, anomalyVars>>
    \/ /\ part = "rules" /\ RuleNext
       /\ UNCHANGED <<part, logVars, alertVars, sloVars, anomalyVars>>
    \/ /\ part = "anomaly" /\ AnomalyNext
       /\ UNCHANGED <<part, logVars, alertVars, sloVars, ruleVars>>

(* The fairness of each part, in the behaviours that follow it *)

\* A publish ends.
Fair_alerts ==
    /\ \A r \in 1..(MaxRecords * (1 + MaxAlertFaults)) :
          /\ WF_alertVars(part = "alerts" /\ r \in pending /\ PublishAlert(r))

\* The worker ticks and runs through, and time passes.
Fair_slo ==
    /\ WF_sloVars(part = "slo" /\ BeginTick)
    /\ WF_sloVars(part = "slo" /\ ComputeSLI)
    /\ WF_sloVars(part = "slo" /\ InsertSnapshot)
    /\ WF_sloVars(part = "slo" /\ Evaluate)
    /\ WF_sloVars(part = "slo" /\ Fire)
    /\ WF_sloVars(part = "slo" /\ PublishBudgetAlert)
    /\ WF_sloVars(part = "slo" /\ AMinute)

\* The evaluator's two tickers, and time.
Fair_rules ==
    /\ WF_ruleVars(part = "rules" /\ refreshRules)
    /\ WF_ruleVars(part = "rules" /\ MinutePasses)
    /\ \A t \in RuleTenants :
          /\ WF_ruleVars(part = "rules" /\ evaluateRule(t))

TelemetryFairSpec ==
    /\ TelemetryInit /\ [][TelemetryNext]_telemetryVars
    /\ Fair_alerts /\ Fair_slo /\ Fair_rules

\* The type invariants of the parts.
TelemetryTypeOK ==
    CASE part = "logs" -> LogTypeOK
      [] part = "alerts" -> AlertTypeOK
      [] part = "slo" -> SloTypeOK
      [] part = "rules" -> RuleTypeOK
      [] part = "anomaly" -> AnomalyTypeOK
=============================================================================
