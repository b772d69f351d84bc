---------------------------- MODULE Remediation ----------------------------
(***************************************************************************)
(* What becomes of the playbook an analysis proposes for an incident: the  *)
(* automation router of correlation-service (engine/automation_router.go), *)
(* the decisions people take through handler/playbook_handler.go, and the  *)
(* agent that runs playbooks (topology-service, handler/api.go), each with *)
(* its own remediation policy (shared/remediation).                        *)
(*                                                                         *)
(* One incident.  Its causal analysis is one JSON column that is read and  *)
(* written as a whole: a task keeps the object it loaded, changes it, and  *)
(* writes it back over whatever the row holds by then.  A task is the      *)
(* analysis goroutine or an HTTP request.                                  *)
(*                                                                         *)
(* What is abstracted                                                      *)
(*   - Confidence is whether it reaches the threshold.                     *)
(*   - The description is not part of the playbook: its risk follows from  *)
(*     the name, as it does for every playbook SuggestPlaybook returns.    *)
(*   - Signatures and timestamps: router and agent share the secret, and a *)
(*     request the agent refuses is one that fails.                        *)
(***************************************************************************)
EXTENDS Naturals, FiniteSets

\* A string field that has not been set (Go's zero value).
Unset == ""

CONSTANTS
    Requests,      \* HTTP requests people send, each of them once
    Users,         \* who sends them
    RoleOf,        \* their roles, as the gateway verified them
    ElevatedRoles, \* REMEDIATION_ELEVATED_ROLES
    Proposals,     \* what an analysis may propose: a playbook, and whether the
                   \* confidence reaches the threshold
    Modes,         \* REMEDIATION_MODE of the router, read when it starts
    AgentModes,    \* REMEDIATION_MODE of the agent
    MaxAnalyses,   \* bound: analyses of the incident
    MaxFaults      \* bound: restarts, failed calls and failed writes in all

AllModes == {"off", "dry-run", "manual", "auto"}

\* A request without an authenticated user is refused before anything else.
ASSUME RemediationConstants ==
    /\ RoleOf \in [Users -> STRING] /\ Unset \notin Users
    /\ \A p \in Proposals : p.playbook \in STRING /\ p.confident \in BOOLEAN
    /\ Modes \subseteq AllModes /\ Modes # {}
    /\ AgentModes \subseteq AllModes /\ AgentModes # {}
    /\ MaxAnalyses \in Nat /\ MaxFaults \in Nat

VARIABLES
    row,       \* the incident's causal column
    analyses,  \* how many analyses the incident has had
    task,      \* what the analysis goroutine and each request are doing
    orphans,   \* calls the agent may still run, though nobody awaits the answer
    mode,      \* Policy.Mode of the router
    agentMode, \* Policy.Mode of the agent
    runs,      \* history: the live runs at the agent, and what led to them
    live,      \* history: how many live runs each analysis has had (up to two)
    faults     \* how many faults of each kind have happened

remVars == <<row, analyses, task, orphans, mode, agentMode, runs, live, faults>>

Tasks == Requests \cup {"analysis"}

Fail(kind) ==
    /\ faults.restarts + faults.losses + faults.writes < MaxFaults
    /\ faults' = [faults EXCEPT ![kind] = @ + 1]

\* The causal object.  "by" stands for ApprovedBy, gen for which analysis it is.
NoAnalysis == [gen |-> 0, playbook |-> Unset, confident |-> FALSE, status |-> Unset,
               by |-> Unset, dryRun |-> FALSE]

NoAnswer == [status |-> Unset, dryRun |-> FALSE]

\* A task: the object it loaded, the user it acts for, the router's mode when it
\* decided to dispatch, and the agent's answer.
Idle == [pc |-> "idle", causal |-> NoAnalysis, user |-> Unset, under |-> "off", answer |-> NoAnswer]

-----------------------------------------------------------------------------
(* shared/remediation *)

AllowsExecution(m) == m \in {"manual", "auto"}

\* Policy.Decide
Decide(m, confident) ==
    CASE m = "off" -> "SUPPRESSED"
      [] m # "off" /\ ~ confident -> "SUGGESTED"
      [] m = "dry-run" /\ confident -> "DRY_RUN"
      [] m = "auto" /\ confident -> "EXECUTE"
      [] OTHER -> "PENDING_APPROVAL"

\* ClassifyRisk: a name no keyword matches is high risk.
ClassifyRisk(playbook) ==
    IF playbook \in {"recycle_db_pool", "restart_service"} THEN "low" ELSE "high"

\* CanApprove: admin is always elevated.
CanApprove(role, risk) ==
    role # Unset /\ (risk = "high" => role \in ElevatedRoles \cup {"admin"})

-----------------------------------------------------------------------------
(* AutomationRouter.  A task that is "sent" has called dispatch: the call of the *)
(* agent is about to be made or on its way.                                  *)

\* persist: a failure is logged, and the task goes on.
Persist(causal) ==
    \/ row' = causal /\ UNCHANGED faults
    \/ Fail("writes") /\ UNCHANGED row

Becomes(t, changes) == task' = [task EXCEPT ![t] = changes]

\* The analysis goroutine is started again and again, a request ends.
Finished(t) == IF t = "analysis" THEN Idle ELSE [Idle EXCEPT !.pc = "done"]

\* The end of an analysis: UpdateCausalAnalysis with a fresh playbook, whatever
\* the row held, and then Route.  One analysis runs at a time.
Analyze == \E p \in Proposals :
    LET causal == [NoAnalysis EXCEPT !.gen = analyses + 1, !.playbook = p.playbook,
                                     !.confident = p.confident, !.status = "SUGGESTED"]
    IN
    /\ task["analysis"].pc = "idle"
    /\ analyses < MaxAnalyses
    /\ analyses' = analyses + 1
    /\ row' = causal
    /\ Becomes("analysis", [Idle EXCEPT !.pc = "route", !.causal = causal])
    /\ UNCHANGED <<orphans, mode, agentMode, runs, live, faults>>

StatusFor(decision) ==
    IF decision \in {"DRY_RUN", "EXECUTE"} THEN "EXECUTING" ELSE decision

\* Route
Route ==
    LET s == task["analysis"]
        decision == Decide(mode, s.causal.confident)
        causal == [s.causal EXCEPT !.status = StatusFor(decision), !.dryRun = decision = "DRY_RUN"]
    IN
    /\ s.pc = "route"
    /\ Persist(causal)
    /\ Becomes("analysis",
           IF causal.status = "EXECUTING"
           THEN [s EXCEPT !.pc = "sent", !.causal = causal, !.under = mode]
           ELSE Idle)
    /\ UNCHANGED <<analyses, orphans, mode, agentMode, runs, live>>

\* A request loads the incident; without an analysis it is answered 404.  The user
\* matters for an approval only.
Load(r, decision, u) ==
    /\ task[r].pc = "idle"
    /\ row # NoAnalysis
    /\ Becomes(r, [Idle EXCEPT !.pc = decision, !.causal = row, !.user = u])
    /\ UNCHANGED <<row, analyses, orphans, mode, agentMode, runs, live, faults>>

Awaiting(causal) == causal.status = "PENDING_APPROVAL"

\* What Approve requires of the loaded object, the user and the policy.
MayApprove(s) ==
    /\ CanApprove(RoleOf[s.user], ClassifyRisk(s.causal.playbook))
    /\ Awaiting(s.causal)
    /\ AllowsExecution(mode)

\* Faulty variant: the object that is persisted and dispatched is read again.
ApproveReloads(r) ==
    LET s == task[r]
        causal == [row EXCEPT !.by = s.user, !.dryRun = FALSE, !.status = "EXECUTING"]
    IN
    /\ s.pc = "approve" /\ MayApprove(s)
    /\ Persist(causal)
    /\ Becomes(r, [s EXCEPT !.pc = "sent", !.causal = causal, !.under = mode])
    /\ UNCHANGED <<analyses, orphans, mode, agentMode, runs, live>>

\* Approve: the approver is recorded, then the playbook is dispatched.
Approve(r) ==
    LET s == task[r]
        causal == [s.causal EXCEPT !.by = s.user, !.dryRun = FALSE, !.status = "EXECUTING"]
    IN
    /\ s.pc = "approve" /\ MayApprove(s)
    /\ Persist(causal)
    /\ Becomes(r, [s EXCEPT !.pc = "sent", !.causal = causal, !.under = mode])
    /\ UNCHANGED <<analyses, orphans, mode, agentMode, runs, live>>

\* Reject
Reject(r) ==
    /\ task[r].pc = "reject" /\ Awaiting(task[r].causal)
    /\ Persist([task[r].causal EXCEPT !.status = "REJECTED"])
    /\ Becomes(r, Finished(r))
    /\ UNCHANGED <<analyses, orphans, mode, agentMode, runs, live>>

\* The decision does not apply: 409 or 403.
Refuse(r) ==
    /\ \/ task[r].pc = "approve" /\ ~ MayApprove(task[r])
       \/ task[r].pc = "reject" /\ ~ Awaiting(task[r].causal)
    /\ Becomes(r, Finished(r))
    /\ UNCHANGED <<row, analyses, orphans, mode, agentMode, runs, live, faults>>

\* DryRun: whatever the status is.
DryRun(r) ==
    /\ task[r].pc = "dry-run"
    /\ Becomes(r, [task[r] EXCEPT !.pc = "sent", !.causal.dryRun = TRUE])
    /\ UNCHANGED <<row, analyses, orphans, mode, agentMode, runs, live, faults>>

\* Faulty variants: what was asked for is recorded; an answer that differs is not read.
OutcomeAsAsked(s) ==
    [s.causal EXCEPT !.status = IF s.causal.dryRun THEN "DRY_RUN" ELSE "EXECUTED"]

OutcomeUnknown(s) ==
    [s.causal EXCEPT !.status = IF s.answer.dryRun = s.causal.dryRun THEN s.answer.status ELSE Unset]

\* The agent's own account of what it did.
Outcome(s) == [s.causal EXCEPT !.status = s.answer.status, !.dryRun = s.answer.dryRun]

\* dispatch records the answer.
Record(t) ==
    /\ task[t].pc = "answered"
    /\ Persist(Outcome(task[t]))
    /\ Becomes(t, Finished(t))
    /\ UNCHANGED <<analyses, orphans, mode, agentMode, runs, live>>

\* Faulty variant: the failure is only logged.
GiveUpSilently(t) ==
    /\ task[t].pc \in {"sent", "answered"}
    /\ Fail("losses")
    /\ orphans' = orphans
    /\ Becomes(t, Finished(t))
    /\ UNCHANGED <<row, analyses, mode, agentMode, runs, live>>

\* The call fails or times out, before, while or after the agent runs it; when
\* the request's own client has gone, the write is likely to fail as well.
GiveUp(t) ==
    /\ task[t].pc \in {"sent", "answered"}
    /\ \/ row' = [task[t].causal EXCEPT !.status = "FAILED"] /\ Fail("losses")
       \/ Fail("writes") /\ UNCHANGED row
    /\ orphans' \in {orphans, IF task[t].pc = "sent" THEN orphans \cup {task[t]} ELSE orphans}
    /\ Becomes(t, Finished(t))
    /\ UNCHANGED <<analyses, mode, agentMode, runs, live>>

-----------------------------------------------------------------------------
(* The agent *)

Handled == {"recycle_db_pool", "restart_service", "scale_replicas"}

\* A live request is downgraded when the agent's own policy forbids execution.
PlansOnly(call) == call.causal.dryRun \/ ~ AllowsExecution(agentMode)

\* runPlaybook: the answers it can give.
Answers(call) ==
    {[status |-> status, dryRun |-> PlansOnly(call)] :
        status \in CASE call.causal.playbook \notin Handled -> {"FAILED"}
                     [] call.causal.playbook \in Handled /\ PlansOnly(call) -> {"DRY_RUN"}
                     [] OTHER -> {"EXECUTED", "FAILED"}}

\* A live run that fails may have changed something, so it counts.
RunPlaybook(call, answer) ==
    LET c == call.causal IN
    IF c.playbook \in Handled /\ ~ answer.dryRun
    THEN /\ runs' = runs \cup {[gen |-> c.gen, playbook |-> c.playbook,
                                confident |-> c.confident, plan |-> c.dryRun,
                                user |-> call.user, mode |-> call.under,
                                agentMode |-> agentMode, status |-> answer.status]}
         /\ live' = [live EXCEPT ![c.gen] = IF @ = 2 THEN 2 ELSE @ + 1]
    ELSE UNCHANGED <<runs, live>>

\* handleExecutePlaybook, for a caller that waits.
ExecutePlaybook(t) ==
    /\ task[t].pc = "sent"
    /\ \E answer \in Answers(task[t]) :
        /\ RunPlaybook(task[t], answer)
        /\ Becomes(t, [task[t] EXCEPT !.pc = "answered", !.answer = answer])
    /\ UNCHANGED <<row, analyses, orphans, mode, agentMode, faults>>

\* handleExecutePlaybook, after the caller is gone.
ExecuteOrphan(call) ==
    /\ \E answer \in Answers(call) : RunPlaybook(call, answer)
    /\ orphans' = orphans \ {call}
    /\ UNCHANGED <<row, analyses, task, mode, agentMode, faults>>

-----------------------------------------------------------------------------
(* Restarts, which may bring another policy: PolicyFromEnv *)

\* The router goes down with its tasks; a call on its way may still arrive.
RestartRouter ==
    /\ Fail("restarts")
    /\ mode' \in Modes
    /\ \E sent \in SUBSET {t \in Tasks : task[t].pc = "sent"} :
           orphans' = orphans \cup {task[t] : t \in sent}
    /\ task' = [t \in Tasks |-> IF task[t].pc = "idle" THEN Idle ELSE Finished(t)]
    /\ UNCHANGED <<row, analyses, agentMode, runs, live>>

\* The agent comes back; the calls it had are answered with an error (GiveUp).
RestartAgent ==
    /\ Fail("restarts")
    /\ agentMode' \in AgentModes
    /\ UNCHANGED <<row, analyses, task, orphans, mode, runs, live>>

RemInit ==
    /\ row = NoAnalysis /\ analyses = 0
    /\ task = [t \in Tasks |-> Idle]
    /\ orphans = {}
    /\ mode \in Modes
    /\ agentMode \in AgentModes
    /\ runs = {}
    /\ live = [g \in 1..MaxAnalyses |-> 0]
    /\ faults = [restarts |-> 0, losses |-> 0, writes |-> 0]

TaskStep(t) == ExecutePlaybook(t) \/ Record(t)

RequestStep(r) == Approve(r) \/ Reject(r) \/ Refuse(r) \/ DryRun(r)

RemNext ==
    \/ Analyze
    \/ Route
    \/ \E r \in Requests :
        \/ \E u \in Users : Load(r, "approve", u)
        \/ \E decision \in {"reject", "dry-run"} : Load(r, decision, Unset)
        \/ RequestStep(r)
    \/ \E t \in Tasks : TaskStep(t) \/ GiveUp(t)
    \/ \E call \in orphans : ExecuteOrphan(call)
    \/ RestartRouter
    \/ RestartAgent

RemSpec == RemInit /\ [][RemNext]_remVars

\* Goroutines keep running, and a call of the agent ends: the HTTP client gives
\* up after ten seconds.
RemFairSpec == RemSpec /\ WF_remVars(Route) /\ \A t \in Tasks : WF_remVars(TaskStep(t))

-----------------------------------------------------------------------------
(* Properties *)

Statuses == {"SUGGESTED", "SUPPRESSED", "DRY_RUN", "PENDING_APPROVAL", "REJECTED",
             "EXECUTING", "EXECUTED", "FAILED"}

\* The row and every object a task holds are analyses with a known status, and
\* what waits for the agent has been decided.
RemTypeOK ==
    /\ row = NoAnalysis \/ row.status \in Statuses
    /\ row.gen \in 0..MaxAnalyses
    /\ mode \in AllModes /\ agentMode \in AllModes
    /\ \A t \in Tasks :
        /\ task[t].pc \in {"idle", "route", "approve", "reject", "dry-run", "sent", "answered", "done"}
        /\ task[t].pc \notin {"idle", "done"} => task[t].causal.status \in Statuses
        /\ task[t].pc = "answered" <=> task[t].answer # NoAnswer
    /\ \A call \in orphans : call.pc = "sent"

\* Every change to production was authorised, for that very playbook: the
\* confidence reached the threshold, it was not a dry run, both policies allow
\* execution, and either the policy is auto or the approver's role may approve
\* that risk.  Re-analyses that replace the playbook under a request, restarts
\* with another policy and calls that arrive late do not change this.
RunsAuthorised ==
    \A run \in runs :
        /\ run.confident /\ ~ run.plan
        /\ AllowsExecution(run.agentMode)
        /\ IF run.user = Unset THEN run.mode = "auto"
           ELSE /\ AllowsExecution(run.mode)
                /\ CanApprove(RoleOf[run.user], ClassifyRisk(run.playbook))

\* The timeline does not lie: a playbook is recorded as EXECUTED only if the
\* agent ran it live and succeeded (dispatch: "Trust the agent's own account of
\* whether it changed anything over what we asked for").
ExecutedIsTrue ==
    row.status = "EXECUTED" =>
        \E run \in runs : /\ run.gen = row.gen /\ run.playbook = row.playbook
                          /\ run.status = "EXECUTED"

\* EXECUTING does not last: the outcome is recorded, unless the router restarts
\* or cannot write it.
ExecutionSettles ==
    (row.status = "EXECUTING" /\ faults.restarts = 0 /\ faults.writes = 0)
        ~> (row.status # "EXECUTING" \/ faults.restarts > 0 \/ faults.writes > 0)

\* A playbook is not run twice because a button was clicked twice ("re-running a
\* remediation because a button was double-clicked is exactly the failure to
\* avoid", writeDecisionError).
RunOnce == \A g \in 1..MaxAnalyses : live[g] <= 1
=============================================================================
