--------------------------- MODULE ClusterActions ---------------------------
(***************************************************************************)
(* What action-service does to a Kubernetes deployment (k8s/operator.go):  *)
(* roll it back, restart its pods or scale it, each as a read of the       *)
(* deployment, for a rollback a list of its ReplicaSets, and an update     *)
(* that carries the resource version of the read.  Requests run side by    *)
(* side, with the deployment controller, which numbers the revisions some  *)
(* time after a template changed, and with people who use kubectl.         *)
(*                                                                         *)
(* The API server and the controller are external: an update is refused if *)
(* the object has changed since it was read.                               *)
(***************************************************************************)
EXTENDS Naturals, FiniteSetsExt

CONSTANTS
    Templates,       \* pod templates; CHOOSE one to begin with
    Runbooks,        \* bound: the requests that come, side by side or one after the other
    Requests,        \* what they may ask for
    ModeSettings,    \* values of REMEDIATION_MODE
    ReplicaCounts,   \* numbers of replicas a SCALE may ask for
    MaxRollouts,     \* bound: changes by kubectl
    MaxApiFaults     \* bound: failed calls of the API server

ASSUME ClusterAssumption ==
    /\ Templates # {} /\ ReplicaCounts # {} /\ ReplicaCounts \subseteq Nat
    /\ \A q \in Requests : /\ q.action \in {"ROLLBACK", "RESTART_PODS", "SCALE"}
                           /\ q.action = "SCALE" => q.want \in ReplicaCounts

VARIABLES
    deployment,   \* version (resourceVersion), template, revision (its annotation), replicas, stamp
    replicaSets,  \* [template -> the revision of its ReplicaSet, 0 if it has none]
    mode,         \* REMEDIATION_MODE
    connected,    \* a cluster was found at start
    runbook,      \* [Runbooks -> the request]
    previous,     \* history: the template that ran before the one the controller last saw
    rollouts, apiFaults

clusterVars ==
    <<deployment, replicaSets, mode, connected, runbook, previous, rollouts, apiFaults>>

NoRunbook == [at |-> "idle", applied |-> FALSE]

-----------------------------------------------------------------------------
(* The policy *)

\* The spellings ParseMode knows; any other is an error, and the default is kept.
ParsedMode(setting) ==
    CASE setting \in {"off", "disabled", "none"} -> "off"
      [] setting \in {"dry-run", "dry", "plan"} -> "dry-run"
      [] setting \in {"manual", "approval", "approve"} -> "manual"
      [] setting \in {"auto", "automatic"} -> "auto"
      [] OTHER -> "error"

policyFromEnv(setting) == IF ParsedMode(setting) = "error" THEN "manual" ELSE ParsedMode(setting)

AllowsExecution == policyFromEnv(mode) \in {"manual", "auto"}

-----------------------------------------------------------------------------
(* The cluster *)

\* External: a write of the deployment.
Stored(d) == [d EXCEPT !.version = deployment.version + 1]

\* External: the controller gives the template that is to run the next revision.
ControllerSync ==
    LET newest == Max({replicaSets[t] : t \in Templates})
        current == replicaSets[deployment.template]
        next == IF current = newest THEN current ELSE newest + 1
    IN  /\ deployment.revision # next
        /\ replicaSets' = [replicaSets EXCEPT ![deployment.template] = next]
        /\ deployment' = Stored([deployment EXCEPT !.revision = next])
        /\ previous' = CHOOSE t \in Templates : replicaSets[t] = newest
        /\ UNCHANGED <<mode, connected, runbook, rollouts, apiFaults>>

\* External: someone rolls out a template or scales the deployment with kubectl.
Kubectl ==
    /\ rollouts < MaxRollouts
    /\ rollouts' = rollouts + 1
    /\ \/ \E t \in Templates \ {deployment.template} :
            deployment' = Stored([deployment EXCEPT !.template = t])
       \/ \E n \in ReplicaCounts \ {deployment.replicas} :
            deployment' = Stored([deployment EXCEPT !.replicas = n])
    /\ UNCHANGED <<replicaSets, mode, connected, runbook, previous, apiFaults>>

-----------------------------------------------------------------------------
(* A request *)

\* The answer; what the request had read is forgotten.
Answer(r, how, changed) == runbook' = [runbook EXCEPT ![r] = [at |-> how, applied |-> changed]]

\* The call of the API server fails, or the 30 seconds are over.
ApiFails(r) ==
    /\ runbook[r].at \in {"list", "update"}
    /\ apiFaults < MaxApiFaults
    /\ apiFaults' = apiFaults + 1
    /\ Answer(r, "error", FALSE)
    /\ UNCHANGED <<deployment, replicaSets, mode, connected, previous, rollouts>>

\* A live request is downgraded where the policy forbids it.
Dry(dryRun) == dryRun \/ ~ AllowsExecution

\* ExecuteRunbook up to its Get or GetScale.  Without a cluster nothing is done; the plan
\* of a restart and of a scaling is made from this read alone.
ExecuteRunbook(r, q, dryRun) ==
    /\ runbook[r] = NoRunbook
    /\ IF ~ connected \/ (q.action # "ROLLBACK" /\ Dry(dryRun)) THEN Answer(r, "dry", FALSE)
       ELSE runbook' = [runbook EXCEPT ![r] =
                [at |-> IF q.action = "ROLLBACK" THEN "list" ELSE "update", applied |-> FALSE,
                 action |-> q.action, want |-> q.want, dryRun |-> Dry(dryRun),
                 read |-> deployment, chosen |-> deployment.template]]
    /\ UNCHANGED <<deployment, replicaSets, mode, connected, previous, rollouts, apiFaults>>

\* Faulty variant: the oldest of the other revisions.
CandidatesOldest(current, want) ==
    {t \in Templates : /\ replicaSets[t] \notin {0, current}
                       /\ \A o \in Templates : replicaSets[o] \notin {0, current} => replicaSets[t] <= replicaSets[o]}

\* The ReplicaSets to roll back to: the one of the revision asked for, or the newest of
\* those that are not the current one.
Candidates(current, want) ==
    LET others == {t \in Templates : replicaSets[t] \notin {0, current}}
    IN  IF want # 0 THEN {t \in Templates : replicaSets[t] = want}
        ELSE {t \in others : \A o \in others : replicaSets[t] >= replicaSets[o]}

\* The list of ReplicaSets, and the choice.
ListReplicaSets(r) ==
    LET q == runbook[r]
        found == Candidates(q.read.revision, q.want)
    IN  /\ q.at = "list"
        /\ CASE found = {} -> Answer(r, "error", FALSE)
             [] found # {} /\ q.dryRun -> Answer(r, "dry", FALSE)
             [] OTHER -> \E t \in found : runbook' = [runbook EXCEPT ![r].chosen = t, ![r].at = "update"]
        /\ UNCHANGED <<deployment, replicaSets, mode, connected, previous, rollouts, apiFaults>>

\* The deployment as read, with what the action changes of it.
Changed(q) ==
    CASE q.action = "ROLLBACK" -> [q.read EXCEPT !.template = q.chosen]
      [] q.action = "RESTART_PODS" -> [q.read EXCEPT !.stamp = 1 - @]
      [] q.action = "SCALE" -> [q.read EXCEPT !.replicas = q.want]

\* Update, or UpdateScale: refused if the object has another version by now.
UpdateDeployment(r) ==
    LET q == runbook[r] IN
    /\ q.at = "update"
    /\ IF deployment.version = q.read.version
       THEN /\ deployment' = Stored(Changed(q))
            /\ Answer(r, "done", TRUE)
       ELSE Answer(r, "error", FALSE) /\ UNCHANGED deployment
    /\ UNCHANGED <<replicaSets, mode, connected, previous, rollouts, apiFaults>>

\* The update took effect, and its answer was lost.
UpdateUnanswered(r) ==
    LET q == runbook[r] IN
    /\ q.at = "update" /\ deployment.version = q.read.version
    /\ apiFaults < MaxApiFaults
    /\ apiFaults' = apiFaults + 1
    /\ deployment' = Stored(Changed(q))
    /\ Answer(r, "error", TRUE)
    /\ UNCHANGED <<replicaSets, mode, connected, previous, rollouts>>

First == CHOOSE t \in Templates : TRUE

ClusterInit ==
    /\ deployment = [version |-> 0, template |-> First, revision |-> 1,
                     replicas |-> Min(ReplicaCounts), stamp |-> 0]
    /\ replicaSets = [t \in Templates |-> IF t = First THEN 1 ELSE 0]
    /\ mode \in ModeSettings /\ connected \in BOOLEAN
    /\ runbook = [r \in Runbooks |-> NoRunbook] /\ previous = First
    /\ rollouts = 0 /\ apiFaults = 0

ClusterNext ==
    \/ ControllerSync \/ Kubectl
    \/ \E r \in Runbooks :
        \/ \E q \in Requests, dryRun \in BOOLEAN : ExecuteRunbook(r, q, dryRun)
        \/ ListReplicaSets(r) \/ UpdateDeployment(r) \/ ApiFails(r) \/ UpdateUnanswered(r)

ClusterSpec == ClusterInit /\ [][ClusterNext]_clusterVars

-----------------------------------------------------------------------------
(* Properties *)

ClusterTypeOK ==
    /\ deployment.template \in Templates /\ deployment.version \in Nat /\ deployment.stamp \in {0, 1}
    /\ deployment.replicas \in ReplicaCounts
    /\ deployment.revision >= 1 /\ replicaSets \in [Templates -> Nat]
    /\ \A r \in Runbooks : runbook[r].at \in {"idle", "list", "update", "dry", "done", "error"}

\* The step in which request r takes effect.
TakesEffect(r) == ~ runbook[r].applied /\ runbook'[r].applied

\* A rollback that takes effect without a revision asked for brings back the template
\* that ran before, if the controller had numbered the running one; other requests,
\* kubectl and the controller may come in between its three calls (ExecuteRunbook,
\* "undo the last change").
RollbackUndoesLastChange ==
    [][\A r \in Runbooks :
          /\ TakesEffect(r) /\ runbook[r].action = "ROLLBACK" /\ runbook[r].want = 0
          /\ deployment.revision = replicaSets[deployment.template]
          => deployment'.template = previous]_clusterVars

\* A request that takes effect changes the deployment its plan was made from, in the
\* one respect it names: nothing that kubectl or another request did meanwhile is
\* overwritten (the update carries the resource version that was read).
NothingOverwritten ==
    [][\A r \in Runbooks : TakesEffect(r) =>
          LET before == IF runbook[r].action = "ROLLBACK" THEN [deployment EXCEPT !.template = deployment'.template]
                        ELSE IF runbook[r].action = "SCALE" THEN [deployment EXCEPT !.replicas = deployment'.replicas]
                        ELSE [deployment EXCEPT !.stamp = deployment'.stamp]
          IN  deployment' = Stored(before) /\ runbook[r].read = deployment]_clusterVars

\* What a request did is what it reports, and what it may do: after "dry run, nothing
\* was changed" nothing was, after success it was, and nothing ever is under a policy
\* that forbids it (ExecuteRunbook, Result).
ReportsAreTrue ==
    \A r \in Runbooks :
        /\ runbook[r].at = "dry" => ~ runbook[r].applied
        /\ runbook[r].at = "done" => runbook[r].applied
        /\ runbook[r].applied => ParsedMode(mode) \notin {"off", "dry-run"} /\ connected

\* A runbook does what it says to the deployment it looked at, or nothing.
RunbooksAreExact == RollbackUndoesLastChange /\ NothingOverwritten /\ []ReportsAreTrue
=============================================================================
