----------------------------- MODULE RuleAlerts -----------------------------
(***************************************************************************)
(* User-defined alert rules: the gateway writes them to Postgres           *)
(* (gateway-service/internal/handler/alertrule_handler.go) and the         *)
(* evaluator of correlation-service (engine/alert_rule_evaluator.go,       *)
(* repository/alertrule_repository.go, engine/red_metrics.go) works from a *)
(* copy it reloads every minute.                                           *)
(*                                                                         *)
(* One rule, of tenant Owner, on the service every tenant runs.  A metrics *)
(* row is "few" below minRequestsToConsider, and else meets the rule's     *)
(* condition or not.  A condition that does not compile cannot be written. *)
(***************************************************************************)
EXTENDS Integers

CONSTANTS
    RuleTenants, Owner,
    RuleCooldown,   \* cooldown_seconds, in minutes
    MaxRuleEdits,   \* bound: writes of the rule
    MaxShifts,      \* bound: changes of the metrics
    MaxRuleFaults   \* bound: failed queries and publishes, restarts

ASSUME RuleConstants ==
    /\ Owner \in RuleTenants /\ RuleCooldown \in Nat \ {0}
    /\ {MaxRuleEdits, MaxShifts, MaxRuleFaults} \subseteq Nat

VARIABLES
    rule,       \* the row: none, on, off
    loaded,     \* e.rules holds the rule
    metrics,    \* ClickHouse, by tenant: few, calm, hot
    ruleCooling,\* lastFired, by tenant of the row: minutes left
    sent,       \* history: the match that lasts now was published
    wrongly,    \* history: a notification for a row that did not call for it
    ruleEdits, shifts, ruleFaults

ruleVars == <<rule, loaded, metrics, ruleCooling, sent, wrongly, ruleEdits, shifts, ruleFaults>>

RuleFault == ruleFaults < MaxRuleFaults /\ ruleFaults' = ruleFaults + 1

Written ==
    /\ ruleEdits < MaxRuleEdits /\ ruleEdits' = ruleEdits + 1
    /\ sent' = FALSE
    /\ UNCHANGED <<loaded, metrics, ruleCooling, wrongly, shifts, ruleFaults>>

\* A valid rule is inserted, and enabled; a second one of its name is refused.
CreateAlertRule == rule = "none" /\ rule' = "on" /\ Written

\* Enabled becomes what the request says, and true when it says nothing.
UpdateAlertRule == rule # "none" /\ rule' \in {"on", "off"} /\ Written

DeleteAlertRule == rule # "none" /\ rule' = "none" /\ Written

Shift(t) ==
    /\ shifts < MaxShifts /\ shifts' = shifts + 1
    /\ \E m \in {"few", "calm", "hot"} \ {metrics[t]} : metrics' = [metrics EXCEPT ![t] = m]
    /\ sent' = (sent /\ t # Owner)
    /\ UNCHANGED <<rule, loaded, ruleCooling, wrongly, ruleEdits, ruleFaults>>

\* Every minute; a failed query keeps the previous set.
refreshRules ==
    /\ loaded # (rule = "on")
    /\ loaded' = (rule = "on")
    /\ UNCHANGED <<rule, metrics, ruleCooling, sent, wrongly, ruleEdits, shifts, ruleFaults>>

\* evaluateOnce's filters: a rule sees the rows of its own tenant.
Applies(t) == loaded /\ t = Owner

\* Faulty variant: the cooldown restarts with every match.
evaluateRuleRenewing(t) ==
    /\ Applies(t) /\ metrics[t] = "hot"
    /\ ruleCooling' = [ruleCooling EXCEPT ![t] = RuleCooldown]
    /\ \/ ruleCooling[t] > 0 /\ UNCHANGED <<sent, wrongly, ruleFaults>>
       \/ ruleCooling[t] = 0 /\ sent' = TRUE /\ UNCHANGED <<wrongly, ruleFaults>>
       \/ ruleCooling[t] = 0 /\ RuleFault /\ UNCHANGED <<sent, wrongly>>
    /\ UNCHANGED <<rule, loaded, metrics, ruleEdits, shifts>>

\* publish; a failure is logged.
publish(t) ==
    \/ /\ sent' = (sent \/ t = Owner)
       /\ wrongly' = (wrongly \/ t # Owner)
       /\ UNCHANGED ruleFaults
    \/ RuleFault /\ UNCHANGED <<sent, wrongly>>

\* evaluateRule on a row with enough requests: the condition, the cooldown, which
\* starts before the publish, and the publish.
evaluateRule(t) ==
    /\ Applies(t) /\ metrics[t] = "hot" /\ ruleCooling[t] = 0
    /\ ruleCooling' = [ruleCooling EXCEPT ![t] = RuleCooldown]
    /\ publish(t)
    /\ UNCHANGED <<rule, loaded, metrics, ruleEdits, shifts>>

MinutePasses ==
    /\ \E t \in RuleTenants : ruleCooling[t] > 0
    /\ ruleCooling' = [t \in RuleTenants |-> IF ruleCooling[t] > 0 THEN ruleCooling[t] - 1 ELSE 0]
    /\ UNCHANGED <<rule, loaded, metrics, sent, wrongly, ruleEdits, shifts, ruleFaults>>

\* NewAlertRuleEvaluator and Start: nothing is remembered, the rules are loaded at
\* once if Postgres answers.
RestartEvaluator ==
    /\ RuleFault
    /\ loaded' \in {rule = "on", FALSE}
    /\ ruleCooling' = [t \in RuleTenants |-> 0]
    /\ UNCHANGED <<rule, metrics, sent, wrongly, ruleEdits, shifts>>

RuleInit ==
    /\ rule = "none" /\ loaded = FALSE
    /\ metrics \in [RuleTenants -> {"few", "calm", "hot"}]
    /\ ruleCooling = [t \in RuleTenants |-> 0]
    /\ sent = FALSE /\ wrongly = FALSE
    /\ ruleEdits = 0 /\ shifts = 0 /\ ruleFaults = 0

RuleNext ==
    \/ CreateAlertRule \/ UpdateAlertRule \/ DeleteAlertRule \/ refreshRules \/ MinutePasses \/ RestartEvaluator
    \/ \E t \in RuleTenants : Shift(t) \/ evaluateRule(t)

RuleSpec == RuleInit /\ [][RuleNext]_ruleVars

-----------------------------------------------------------------------------
(* Properties *)

RuleTypeOK ==
    /\ rule \in {"none", "on", "off"} /\ loaded \in BOOLEAN
    /\ metrics \in [RuleTenants -> {"few", "calm", "hot"}]
    /\ ruleCooling \in [RuleTenants -> 0..RuleCooldown]

\* A rule speaks for its own tenant's service only, whichever tenants run a
\* service of that name, and with whatever copy of the rules.
RulesStayHome == ~wrongly

\* A match that lasts is published in the end, although the cooldown starts before
\* a publish that may fail.
MatchIsPublished ==
    (rule = "on" /\ metrics[Owner] = "hot") ~> (sent \/ rule # "on" \/ metrics[Owner] # "hot")

\* A rule speaks in the end, and for its own tenant only.
RuleSpeaksForItsTenant == MatchIsPublished /\ []RulesStayHome
=============================================================================
