------------------------------ MODULE SloAlerts ------------------------------
(***************************************************************************)
(* Error-budget alerts of correlation-service: the definitions handler     *)
(* (handler/slo_handler.go), the worker that measures and stores           *)
(* (engine/slo_worker.go, repository/slo_repository.go) and the burn-rate  *)
(* alerter (engine/burn_rate_alerter.go), for one service.                 *)
(*                                                                         *)
(* A scene is the traffic of the service: for each window the error        *)
(* percentage in tenths, or NoEvents.  A target is known by its budget in  *)
(* percent, so burn >= multiplier becomes tenths >= 10 * multiplier *      *)
(* budget.  Minutes are counted by what is left of the cooldown.           *)
(***************************************************************************)
EXTENDS Integers, Sequences, FiniteSets

CONSTANTS
    Scenes,         \* traffic the environment shows
    Budgets,        \* 100 - slo_target of the definitions users write
    AlertCooldown,  \* the cooldown, in minutes
    MaxSloEdits,    \* bound: definitions written and deleted
    MaxScenes,      \* bound: changes of the traffic
    MaxSloFaults    \* bound: failed queries, inserts and publishes, restarts

ASSUME SloConstants ==
    /\ {AlertCooldown, MaxSloEdits, MaxScenes, MaxSloFaults} \subseteq Nat /\ AlertCooldown > 0
    /\ Budgets \subseteq 0..99

VARIABLES
    definition, \* slo_definitions: the budget, NoSlo without a row
    scene,
    worker,     \* the tick: how far it is, the definition it read, the severity to fire
    cooling,    \* lastAlerted: minutes left, by severity
    told,       \* history: the breach that lasts now was stored or sent
    spacing,    \* history: by severity, minutes since an alert went out; restarts forget
    sloEdits, sceneChanges, sloFaults

sloVars == <<definition, scene, worker, cooling, told, spacing, sloEdits, sceneChanges, sloFaults>>

Severities == {"CRITICAL", "WARNING", "INFO"}
ShortWindows == {"5m", "30m", "2h"}
Windows == ShortWindows \cup {"1h", "6h", "24h", "72h"}
NoSlo == -1
NoEvents == -1
Idle == [pc |-> "idle", budget |-> NoSlo, month |-> NoEvents, severity |-> "none"]

ASSUME ScenesAssumption == Scenes \subseteq [Windows \cup {"month"} -> Int]

\* DefaultMultiWindowThresholds, the most severe first; multipliers in tenths.
MultiWindow == <<[multiplier |-> 144, long |-> "1h", short |-> "5m", severity |-> "CRITICAL"],
                 [multiplier |-> 60, long |-> "6h", short |-> "30m", severity |-> "CRITICAL"],
                 [multiplier |-> 30, long |-> "24h", short |-> "2h", severity |-> "WARNING"],
                 [multiplier |-> 10, long |-> "72h", short |-> "6h", severity |-> "INFO"]>>

\* DefaultBurnRateThresholds.
SingleWindow == <<[multiplier |-> 140, severity |-> "CRITICAL"],
                  [multiplier |-> 60, severity |-> "WARNING"],
                  [multiplier |-> 10, severity |-> "INFO"]>>

\* The severity of the first of the thresholds that are breached (by their place).
FirstOf(thresholds, breached) ==
    IF breached = {} THEN "none"
    ELSE thresholds[CHOOSE i \in breached : \A j \in breached : i <= j].severity

\* windowBurnRate, computeBurnRate: no budget, no burn.
Burns(tenths, budget, multiplier) == budget > 0 /\ tenths >= multiplier * budget

evaluateMultiWindow(sli, budget) ==
    LET Breached(t) == /\ t.long \in DOMAIN sli /\ t.short \in DOMAIN sli
                       /\ Burns(sli[t.long], budget, t.multiplier)
                       /\ Burns(sli[t.short], budget, t.multiplier)
    IN FirstOf(MultiWindow, {i \in DOMAIN MultiWindow : Breached(MultiWindow[i])})

evaluateSingleWindow(month, budget) ==
    FirstOf(SingleWindow,
            {i \in DOMAIN SingleWindow : Burns(month, budget, SingleWindow[i].multiplier)})

\* sliByWindow: the windows that have events and whose query succeeds.
sliByWindow(traffic, failed) ==
    [w \in {w \in Windows \ failed : traffic[w] # NoEvents} |-> traffic[w]]

\* Evaluate, after the early returns.
Severity(traffic, month, budget, failed) ==
    LET sli == sliByWindow(traffic, failed) IN
    IF Cardinality(DOMAIN sli) >= 2 THEN evaluateMultiWindow(sli, budget)
    ELSE evaluateSingleWindow(month, budget)

SloFault == sloFaults < MaxSloFaults /\ sloFaults' = sloFaults + 1

-----------------------------------------------------------------------------
(* Users and traffic *)

Edited(budget) ==
    /\ sloEdits < MaxSloEdits /\ sloEdits' = sloEdits + 1
    /\ definition' = budget /\ definition # budget
    /\ told' = FALSE
    /\ UNCHANGED <<scene, worker, cooling, spacing, sceneChanges, sloFaults>>

\* CreateDefinition is an upsert on the service.
CreateDefinition(budget) == budget \in Budgets /\ Edited(budget)

DeleteDefinition == Edited(NoSlo)

SceneChange ==
    /\ sceneChanges < MaxScenes /\ sceneChanges' = sceneChanges + 1
    /\ scene' \in Scenes \ {scene}
    /\ told' = FALSE
    /\ UNCHANGED <<definition, worker, cooling, spacing, sloEdits, sloFaults>>

\* Faulty variant: the cooldown is renewed instead of running out.
AMinuteStuck ==
    /\ worker.pc # "publish" /\ \E s \in Severities : cooling[s] > 0 \/ spacing[s] < AlertCooldown
    /\ spacing' = [s \in Severities |-> IF spacing[s] < AlertCooldown THEN spacing[s] + 1 ELSE spacing[s]]
    /\ UNCHANGED <<definition, scene, worker, cooling, told, sloEdits, sceneChanges, sloFaults>>

\* A minute passes; the insert and the publish of one alert fall in the same minute.
AMinute ==
    /\ worker.pc # "publish" /\ \E s \in Severities : cooling[s] > 0 \/ spacing[s] < AlertCooldown
    /\ cooling' = [s \in Severities |-> IF cooling[s] > 0 THEN cooling[s] - 1 ELSE 0]
    /\ spacing' = [s \in Severities |-> IF spacing[s] < AlertCooldown THEN spacing[s] + 1 ELSE spacing[s]]
    /\ UNCHANGED <<definition, scene, worker, told, sloEdits, sceneChanges, sloFaults>>

-----------------------------------------------------------------------------
(* tick *)

\* ListDefinitions; a failed list ends the tick.
BeginTick ==
    /\ worker.pc = "idle" /\ definition # NoSlo
    /\ worker' = [Idle EXCEPT !.pc = "measure", !.budget = definition]
    /\ UNCHANGED <<definition, scene, cooling, told, spacing, sloEdits, sceneChanges, sloFaults>>

\* ComputeSLI over the definition's window; a failure skips the service.
ComputeSLI ==
    /\ worker.pc = "measure"
    /\ \/ worker' = [worker EXCEPT !.pc = "store", !.month = scene["month"]] /\ UNCHANGED sloFaults
       \/ SloFault /\ worker' = Idle
    /\ UNCHANGED <<definition, scene, cooling, told, spacing, sloEdits, sceneChanges>>

\* InsertSnapshot; a failure skips the service, and so do, then, no events and no
\* budget.
InsertSnapshot ==
    /\ worker.pc = "store"
    /\ \/ /\ worker' = IF worker.month = NoEvents \/ worker.budget = 0 THEN Idle
                       ELSE [worker EXCEPT !.pc = "evaluate"]
          /\ UNCHANGED sloFaults
       \/ SloFault /\ worker' = Idle
    /\ UNCHANGED <<definition, scene, cooling, told, spacing, sloEdits, sceneChanges>>

\* Evaluate asks for every window, a little later.
Evaluate ==
    /\ worker.pc = "evaluate"
    /\ \E failed \in SUBSET Windows :
          /\ IF failed = {} THEN UNCHANGED sloFaults ELSE SloFault
          /\ LET severity == Severity(scene, worker.month, worker.budget, failed) IN
             worker' = IF severity = "none" THEN Idle
                       ELSE [worker EXCEPT !.pc = "fire", !.severity = severity]
    /\ UNCHANGED <<definition, scene, cooling, told, spacing, sloEdits, sceneChanges>>

\* The alert went out to the table or to the queue: the history notes it.
GoesOut(s) ==
    /\ told' = (told \/ s = Severity(scene, scene["month"], definition, {}))
    /\ spacing' = [spacing EXCEPT ![s] = 0]

\* fireAlert: the cooldown is looked at and started, then the row is written; a
\* failed insert is logged.
Fire ==
    /\ worker.pc = "fire"
    /\ LET s == worker.severity IN
       IF cooling[s] > 0
       THEN worker' = Idle /\ UNCHANGED <<cooling, told, spacing, sloFaults>>
       ELSE /\ worker' = [worker EXCEPT !.pc = "publish"]
            /\ cooling' = [cooling EXCEPT ![s] = AlertCooldown]
            /\ \/ GoesOut(s) /\ UNCHANGED sloFaults
               \/ SloFault /\ UNCHANGED <<told, spacing>>
    /\ UNCHANGED <<definition, scene, sloEdits, sceneChanges>>

\* ... and the notification is published; a failed publish is logged.
PublishBudgetAlert ==
    /\ worker.pc = "publish"
    /\ worker' = Idle
    /\ \/ GoesOut(worker.severity) /\ UNCHANGED sloFaults
       \/ SloFault /\ UNCHANGED <<told, spacing>>
    /\ UNCHANGED <<definition, scene, cooling, sloEdits, sceneChanges>>

\* lastAlerted is in memory; the history starts anew with it.
RestartWorker ==
    /\ SloFault
    /\ worker' = Idle
    /\ cooling' = [s \in Severities |-> 0]
    /\ spacing' = [s \in Severities |-> AlertCooldown]
    /\ UNCHANGED <<definition, scene, told, sloEdits, sceneChanges>>

-----------------------------------------------------------------------------

SloInit ==
    /\ definition = NoSlo /\ scene \in Scenes /\ worker = Idle
    /\ cooling = [s \in Severities |-> 0] /\ told = FALSE
    /\ spacing = [s \in Severities |-> AlertCooldown]
    /\ sloEdits = 0 /\ sceneChanges = 0 /\ sloFaults = 0

SloNext ==
    \/ (\E budget \in Budgets : CreateDefinition(budget)) \/ DeleteDefinition \/ SceneChange \/ AMinute
    \/ BeginTick \/ ComputeSLI \/ InsertSnapshot \/ Evaluate \/ Fire \/ PublishBudgetAlert \/ RestartWorker

SloSpec == SloInit /\ [][SloNext]_sloVars

-----------------------------------------------------------------------------
(* Properties *)

SloTypeOK ==
    /\ definition \in Budgets \cup {NoSlo} /\ scene \in Scenes
    /\ worker.pc \in {"idle", "measure", "store", "evaluate", "fire", "publish"}
    /\ worker.pc \in {"fire", "publish"} => worker.severity \in Severities
    /\ cooling \in [Severities -> 0..AlertCooldown] /\ spacing \in [Severities -> 0..AlertCooldown]

\* Two alerts of one severity are a cooldown apart, whichever of the insert and the
\* publish of the first one failed, while the process lives.
NoAlertStorm ==
    [][\A s \in Severities : spacing'[s] = 0 /\ spacing[s] > 0 /\ worker.pc = "fire"
          => spacing[s] = AlertCooldown]_sloVars

\* A burn that lasts is stored or sent in the end, though the cooldown starts
\* before the alert is stored and both attempts may fail: it is silent for one
\* cooldown, not for good.  Only a target of 100 % never alerts.
BreachIsTold ==
    (definition > 0 /\ Severity(scene, scene["month"], definition, {}) # "none") ~>
        (told \/ definition <= 0 \/ Severity(scene, scene["month"], definition, {}) = "none")

\* A blip that is over alerts nobody: with calm short windows a severity above INFO
\* comes only out of the single-window model, when windows could not be measured.
RecoveredIsQuiet ==
    [][worker.pc = "evaluate" /\ worker'.severity \in {"CRITICAL", "WARNING"} /\ sloFaults' = sloFaults
          => \/ \E w \in ShortWindows : scene[w] > 0
             \/ Cardinality({w \in Windows : scene[w] # NoEvents}) < 2]_sloVars

\* A burn that lasts is told, once per cooldown, and one that is over is not, whatever
\* fails between the start of the cooldown and the publish.
BurnIsToldOnce == BreachIsTold /\ NoAlertStorm /\ RecoveredIsQuiet
=============================================================================
