------------------------- MODULE RemediationProofs -------------------------
(***************************************************************************)
(* Proofs about Remediation, for every set of requests, users, roles,      *)
(* proposals and policies and any number of faults: the types, that every  *)
(* live run was authorised, and that EXECUTED on the timeline is true.     *)
(*                                                                         *)
(* A task carries a copy of the causal object across calls, restarts and   *)
(* re-analyses, so both safety properties are invariants of the copies:    *)
(* what a task holds is honest, and what it has sent is authorised under   *)
(* the policy it was sent under, whatever the row holds by then.           *)
(***************************************************************************)
EXTENDS Remediation, TLAPS

Phases == {"idle", "route", "approve", "reject", "dry-run", "sent", "answered", "done"}

Playbooks == {p.playbook : p \in Proposals} \cup {Unset}

Causal == [gen: 0..MaxAnalyses, playbook: Playbooks, confident: BOOLEAN,
           status: Statuses \cup {Unset}, by: Users \cup {Unset}, dryRun: BOOLEAN]

Answer == [status: {Unset, "FAILED", "DRY_RUN", "EXECUTED"}, dryRun: BOOLEAN]

TaskRecord == [pc: Phases, causal: Causal, user: Users \cup {Unset}, under: AllModes, answer: Answer]

Run == [gen: 0..MaxAnalyses, playbook: Playbooks, confident: BOOLEAN, plan: BOOLEAN,
        user: Users \cup {Unset}, mode: AllModes, agentMode: AllModes,
        status: {Unset, "FAILED", "DRY_RUN", "EXECUTED"}]

\* Some live run of this analysis' playbook succeeded.
Succeeded(R, c) == \E run \in R : /\ run.gen = c.gen /\ run.playbook = c.playbook
                                  /\ run.status = "EXECUTED"

\* What a causal object says is so, wherever a copy of it is.
Honest(R, c) ==
    /\ c.status = "PENDING_APPROVAL" => c.confident
    /\ c.status = "EXECUTED" => Succeeded(R, c)

\* An object of an analysis, as opposed to the empty column.
Analysed(R, c) == c.gen \in 1..MaxAnalyses /\ c.status \in Statuses /\ Honest(R, c)

\* The user and the mode a call was sent under allow it to run live.
Allowed(s) ==
    IF s.user = Unset THEN s.under = "auto"
    ELSE /\ AllowsExecution(s.under)
         /\ CanApprove(RoleOf[s.user], ClassifyRisk(s.causal.playbook))

\* What has been sent is a plan, or is confident and allowed.
CallOK(s) == ~ s.causal.dryRun => s.causal.confident /\ Allowed(s)

\* A task in each of its phases.
TaskOK(R, s) ==
    /\ s \in TaskRecord
    /\ s.pc \notin {"idle", "done"} => Analysed(R, s.causal)
    /\ s.pc \in {"sent", "answered"} => CallOK(s)
    /\ s.pc = "answered" <=> s.answer # NoAnswer
    /\ s.pc = "answered" => s.answer.status # Unset
    /\ s.answer.status = "EXECUTED" => Succeeded(R, s.causal)
    /\ s.pc = "approve" => s.user # Unset
    /\ s.pc \in {"route", "dry-run"} => s.user = Unset
    /\ s.pc = "route" => ~ s.causal.dryRun

\* The inductive invariant.
RemIInv ==
    /\ row \in Causal /\ (row = NoAnalysis \/ Analysed(runs, row))
    /\ analyses \in 0..MaxAnalyses
    /\ task \in [Tasks -> TaskRecord] /\ \A t \in Tasks : TaskOK(runs, task[t])
    /\ \A call \in orphans : TaskOK(runs, call) /\ call.pc = "sent"
    /\ mode \in AllModes /\ agentMode \in AllModes
    /\ runs \subseteq Run /\ RunsAuthorised
    /\ live \in [1..MaxAnalyses -> 0..2]
    /\ faults \in [restarts: Nat, losses: Nat, writes: Nat]

-----------------------------------------------------------------------------
(* Objects and tasks *)

\* An unset string is none of the names the code uses.
LEMMA UnsetIsNoName ==
    /\ Unset # "PENDING_APPROVAL" /\ Unset # "EXECUTED" /\ Unset # "FAILED"
    /\ Unset # "DRY_RUN" /\ Unset # "SUGGESTED" /\ Unset # "SUPPRESSED" /\ Unset # "REJECTED"
    /\ Unset # "EXECUTING"
  BY Zenon DEF Unset

\* The empty column and a task that does nothing.
LEMMA Empty ==
    ASSUME NEW R
    PROVE  /\ NoAnalysis \in Causal /\ NoAnswer \in Answer
           /\ TaskOK(R, Idle) /\ Idle.pc = "idle" /\ Idle.user = Unset /\ Idle.answer = NoAnswer
           /\ \A t : TaskOK(R, Finished(t)) /\ Finished(t).pc \in {"idle", "done"}
  <1>1. NoAnalysis \in Causal /\ NoAnswer \in Answer
    <2>1. 0 \in 0..MaxAnalyses
      BY RemediationConstants
    <2>2. NoAnalysis \in Causal
      BY <2>1, UnsetIsNoName DEF NoAnalysis, Causal, Playbooks
    <2>3. NoAnswer \in Answer
      BY DEF NoAnswer, Answer
    <2>4. QED
      BY <2>2, <2>3
  <1>2. Idle \in TaskRecord
    BY <1>1 DEF Idle, TaskRecord, Phases, AllModes
  <1>3. TaskOK(R, Idle)
    BY <1>2, UnsetIsNoName DEF TaskOK, Idle, NoAnswer
  <1>4. ASSUME NEW t PROVE TaskOK(R, Finished(t)) /\ Finished(t).pc \in {"idle", "done"}
    <2>1. CASE t = "analysis"
      BY <1>3, <2>1 DEF Finished, Idle
    <2>2. CASE t # "analysis"
      <3>1. Finished(t) = [Idle EXCEPT !.pc = "done"]
        BY <2>2 DEF Finished
      <3>2. /\ Finished(t) \in TaskRecord /\ Finished(t).pc = "done"
            /\ Finished(t).answer = NoAnswer
        BY <1>2, <3>1 DEF TaskRecord, Phases, Idle
      <3>3. Finished(t).answer.status = Unset
        BY <3>2, UnsetIsNoName DEF NoAnswer
      <3>4. TaskOK(R, Finished(t))
        BY <3>2, <3>3, UnsetIsNoName DEF TaskOK
      <3>5. QED
        BY <3>2, <3>4
    <2>3. QED
      BY <2>1, <2>2
  <1>5. QED
    BY <1>1, <1>3, <1>4 DEF Idle

\* An analysed object is not the empty column.
LEMMA AnalysedNotEmpty == \A R : ~ Analysed(R, NoAnalysis)
  BY UnsetIsNoName DEF Analysed, NoAnalysis, Statuses

\* What holds of objects, tasks and rows goes on holding while runs only grow.
LEMMA RunsGrow ==
    ASSUME runs \subseteq runs'
    PROVE  /\ \A c : Honest(runs, c) => Honest(runs', c)
           /\ \A c : Analysed(runs, c) => Analysed(runs', c)
           /\ \A s : TaskOK(runs, s) => TaskOK(runs', s)
  <1>1. \A c : Succeeded(runs, c) => Succeeded(runs', c)
    BY DEF Succeeded
  <1>2. \A c : Honest(runs, c) => Honest(runs', c)
    BY <1>1 DEF Honest
  <1>3. \A c : Analysed(runs, c) => Analysed(runs', c)
    BY <1>2 DEF Analysed
  <1>4. \A s : TaskOK(runs, s) => TaskOK(runs', s)
    BY <1>1, <1>3 DEF TaskOK, CallOK, Allowed
  <1>5. QED
    BY <1>2, <1>3, <1>4

\* The fields of a task record, spelled out for the provers.
LEMMA TaskFields ==
    ASSUME NEW s \in TaskRecord
    PROVE  /\ s.pc \in Phases /\ s.causal \in Causal /\ s.user \in Users \cup {Unset}
           /\ s.under \in AllModes /\ s.answer \in Answer
  BY DEF TaskRecord

\* The fields of a causal object.
LEMMA CausalFields ==
    ASSUME NEW c \in Causal
    PROVE  /\ c.gen \in 0..MaxAnalyses /\ c.playbook \in Playbooks /\ c.confident \in BOOLEAN
           /\ c.status \in Statuses \cup {Unset} /\ c.dryRun \in BOOLEAN
  BY DEF Causal

\* A fault is counted, whatever its kind.
LEMMA FailCounts ==
    ASSUME faults \in [restarts: Nat, losses: Nat, writes: Nat],
           NEW kind \in {"restarts", "losses", "writes"}, Fail(kind)
    PROVE  faults' \in [restarts: Nat, losses: Nat, writes: Nat]
  BY DEF Fail

\* A change of status that keeps an object honest.
LEMMA StatusChange ==
    ASSUME NEW c \in Causal, c.gen \in 1..MaxAnalyses, NEW st \in Statuses,
           st = "PENDING_APPROVAL" => c.confident, st = "EXECUTED" => Succeeded(runs, c),
           NEW d, d.gen = c.gen, d.playbook = c.playbook, d.confident = c.confident, d.status = st
    PROVE  Analysed(runs, d)
  BY DEF Analysed, Honest, Succeeded

\* The policy's decision is a known status, and execution and approval are
\* for confident analyses only.
LEMMA Decisions ==
    ASSUME NEW m \in AllModes, NEW confident \in BOOLEAN
    PROVE  /\ StatusFor(Decide(m, confident)) \in Statuses
           /\ StatusFor(Decide(m, confident)) # "EXECUTED"
           /\ StatusFor(Decide(m, confident)) = "PENDING_APPROVAL" => confident
           /\ StatusFor(Decide(m, confident)) = "EXECUTING" =>
                  Decide(m, confident) = "DRY_RUN" \/ (m = "auto" /\ confident)
  BY DEF Decide, StatusFor, Statuses, AllModes

\* What the agent answers.
LEMMA AnswerFacts ==
    ASSUME NEW call, NEW answer \in Answers(call)
    PROVE  /\ answer.status \in {"FAILED", "DRY_RUN", "EXECUTED"}
           /\ answer.dryRun = PlansOnly(call)
           /\ answer.status = "EXECUTED" => call.causal.playbook \in Handled /\ ~ PlansOnly(call)
           /\ answer = [status |-> answer.status, dryRun |-> answer.dryRun]
  <1>1. PICK st \in CASE call.causal.playbook \notin Handled -> {"FAILED"}
                      [] call.causal.playbook \in Handled /\ PlansOnly(call) -> {"DRY_RUN"}
                      [] OTHER -> {"EXECUTED", "FAILED"} :
               answer = [status |-> st, dryRun |-> PlansOnly(call)]
    BY DEF Answers
  <1>2. answer.status = st /\ answer.dryRun = PlansOnly(call)
    BY <1>1
  <1>3. st \in {"FAILED", "DRY_RUN", "EXECUTED"}
        /\ (st = "EXECUTED" => call.causal.playbook \in Handled /\ ~ PlansOnly(call))
    BY DEF Answers
  <1>4. QED
    BY <1>1, <1>2, <1>3

\* A live run at the agent: it was authorised, and it is on record.
LEMMA RunRecorded ==
    ASSUME RemIInv, NEW call, TaskOK(runs, call), call.pc = "sent", NEW answer \in Answers(call),
           RunPlaybook(call, answer)
    PROVE  /\ runs \subseteq runs' /\ runs' \subseteq Run /\ RunsAuthorised'
           /\ live' \in [1..MaxAnalyses -> 0..2]
           /\ answer.status = "EXECUTED" => Succeeded(runs', call.causal)
  <1> DEFINE c == call.causal
             new == [gen |-> c.gen, playbook |-> c.playbook, confident |-> c.confident,
                     plan |-> c.dryRun, user |-> call.user, mode |-> call.under,
                     agentMode |-> agentMode, status |-> answer.status]
  <1>1. call \in TaskRecord /\ c \in Causal /\ call.user \in Users \cup {Unset}
        /\ call.under \in AllModes /\ c.gen \in 1..MaxAnalyses /\ CallOK(call)
    BY TaskFields DEF TaskOK, Analysed
  <1>2. /\ answer.status \in {"FAILED", "DRY_RUN", "EXECUTED"}
        /\ answer.dryRun = PlansOnly(call)
        /\ answer.status = "EXECUTED" => c.playbook \in Handled /\ ~ PlansOnly(call)
    BY AnswerFacts
  <1>3. CASE c.playbook \in Handled /\ ~ answer.dryRun
    <2>1. runs' = runs \cup {new} /\ live' = [live EXCEPT ![c.gen] = IF @ = 2 THEN 2 ELSE @ + 1]
      BY <1>3 DEF RunPlaybook
    <2>2. ~ c.dryRun /\ AllowsExecution(agentMode)
      BY <1>2, <1>3 DEF PlansOnly
    <2>3. c.confident /\ Allowed(call)
      BY <1>1, <2>2 DEF CallOK
    <2>4. new \in Run
      <3>1. agentMode \in AllModes
        BY DEF RemIInv
      <3>2. /\ c.gen \in 0..MaxAnalyses /\ c.playbook \in Playbooks /\ c.confident \in BOOLEAN
            /\ c.dryRun \in BOOLEAN
        BY <1>1, CausalFields
      <3>3. QED
        BY <1>1, <1>2, <3>1, <3>2 DEF Run
    <2>5. live' \in [1..MaxAnalyses -> 0..2]
      <3>1. live \in [1..MaxAnalyses -> 0..2]
        BY DEF RemIInv
      <3>2. (IF live[c.gen] = 2 THEN 2 ELSE live[c.gen] + 1) \in 0..2
        BY <1>1, <3>1
      <3>3. QED
        BY <2>1, <3>1, <3>2
    <2>6. RunsAuthorised'
      <3>1. RunsAuthorised
        BY DEF RemIInv
      <3>2. /\ new.confident /\ ~ new.plan /\ AllowsExecution(new.agentMode)
            /\ IF new.user = Unset THEN new.mode = "auto"
               ELSE /\ AllowsExecution(new.mode)
                    /\ CanApprove(RoleOf[new.user], ClassifyRisk(new.playbook))
        BY <2>2, <2>3 DEF Allowed
      <3>3. QED
        BY <2>1, <3>1, <3>2 DEF RunsAuthorised
    <2>7. new.gen = c.gen /\ new.playbook = c.playbook /\ new.status = answer.status
      OBVIOUS
    <2> HIDE DEF new
    <2>8. answer.status = "EXECUTED" => Succeeded(runs', c)
      BY <2>1, <2>7 DEF Succeeded
    <2>9. runs \subseteq runs' /\ runs' \subseteq Run
      BY <2>1, <2>4 DEF RemIInv
    <2>10. QED
      BY <2>5, <2>6, <2>8, <2>9
  <1>4. CASE ~ (c.playbook \in Handled /\ ~ answer.dryRun)
    <2>1. runs' = runs /\ live' = live
      BY <1>4 DEF RunPlaybook
    <2>2. answer.status # "EXECUTED"
      BY <1>2, <1>4
    <2>3. QED
      BY <2>1, <2>2 DEF RemIInv, RunsAuthorised
  <1>5. QED
    BY <1>3, <1>4

-----------------------------------------------------------------------------
(* The actions *)

\* The invariant after a step that leaves the agent's records alone: what is
\* new in the row, in one task and among the orphans has to be shown.
LEMMA RouterStep ==
    ASSUME RemIInv, UNCHANGED <<agentMode, runs, live>>,
           analyses' \in 0..MaxAnalyses, mode' \in AllModes,
           faults' \in [restarts: Nat, losses: Nat, writes: Nat],
           row' = row \/ (row' \in Causal /\ Analysed(runs, row')),
           \A call \in orphans' : TaskOK(runs, call) /\ call.pc = "sent",
           task' \in [Tasks -> TaskRecord], \A t \in Tasks : TaskOK(runs, task'[t])
    PROVE  RemIInv'
  BY DEF RemIInv, RunsAuthorised

\* One task moves on.
LEMMA OneTask ==
    ASSUME RemIInv, NEW t \in Tasks, NEW s, TaskOK(runs, s), Becomes(t, s)
    PROVE  task' \in [Tasks -> TaskRecord] /\ \A u \in Tasks : TaskOK(runs, task'[u])
  <1>1. task' = [task EXCEPT ![t] = s] /\ s \in TaskRecord
    BY DEF Becomes, TaskOK
  <1>2. QED
    BY <1>1 DEF RemIInv

\* Persisting an analysed object, or failing to.
LEMMA Persisted ==
    ASSUME RemIInv, NEW c \in Causal, Analysed(runs, c), Persist(c)
    PROVE  /\ faults' \in [restarts: Nat, losses: Nat, writes: Nat]
           /\ row' = row \/ (row' \in Causal /\ Analysed(runs, row'))
  <1>1. CASE row' = c /\ UNCHANGED faults
    BY <1>1 DEF RemIInv
  <1>2. CASE Fail("writes") /\ UNCHANGED row
    BY <1>2, FailCounts DEF RemIInv
  <1>3. QED
    BY <1>1, <1>2 DEF Persist

\* Where the invariant starts.
LEMMA InitRemIInv == RemInit => RemIInv
  <1> SUFFICES ASSUME RemInit PROVE RemIInv
    OBVIOUS
  <1>1. row \in Causal /\ row = NoAnalysis
    BY Empty DEF RemInit
  <1>2. analyses \in 0..MaxAnalyses
    BY RemediationConstants DEF RemInit
  <1>3. task \in [Tasks -> TaskRecord] /\ \A t \in Tasks : TaskOK(runs, task[t])
    <2>1. TaskOK(runs, Idle) /\ Idle \in TaskRecord
      BY Empty DEF TaskOK
    <2>2. QED
      BY <2>1 DEF RemInit
  <1>4. mode \in AllModes /\ agentMode \in AllModes
    BY RemediationConstants DEF RemInit
  <1>5. runs \subseteq Run /\ RunsAuthorised /\ orphans = {}
    BY DEF RemInit, RunsAuthorised
  <1>6. live \in [1..MaxAnalyses -> 0..2] /\ faults \in [restarts: Nat, losses: Nat, writes: Nat]
    BY DEF RemInit
  <1>7. QED
    BY <1>1, <1>2, <1>3, <1>4, <1>5, <1>6 DEF RemIInv

\* What the router and the people do.
LEMMA AnalyzeKeeps == ASSUME RemIInv, Analyze PROVE RemIInv'
  <1>1. PICK p \in Proposals :
            LET causal == [NoAnalysis EXCEPT !.gen = analyses + 1, !.playbook = p.playbook,
                                             !.confident = p.confident, !.status = "SUGGESTED"]
            IN  /\ row' = causal
                /\ Becomes("analysis", [Idle EXCEPT !.pc = "route", !.causal = causal])
    BY DEF Analyze
  <1> DEFINE c == [NoAnalysis EXCEPT !.gen = analyses + 1, !.playbook = p.playbook,
                                     !.confident = p.confident, !.status = "SUGGESTED"]
             s == [Idle EXCEPT !.pc = "route", !.causal = c]
  <1>2. analyses' = analyses + 1 /\ analyses < MaxAnalyses
        /\ UNCHANGED <<orphans, mode, agentMode, runs, live, faults>>
    BY DEF Analyze
  <1>3. analyses' \in 0..MaxAnalyses /\ analyses + 1 \in 1..MaxAnalyses
    BY <1>2, RemediationConstants DEF RemIInv
  <1>4. p.playbook \in Playbooks /\ p.confident \in BOOLEAN /\ "SUGGESTED" \in Statuses
    BY RemediationConstants DEF Playbooks, Statuses
  <1>5. c \in Causal
    <2>1. NoAnalysis \in Causal
      BY Empty
    <2>2. analyses + 1 \in 0..MaxAnalyses
      BY <1>3
    <2> DEFINE n == analyses + 1
    <2>3. c = [NoAnalysis EXCEPT !.gen = n, !.playbook = p.playbook,
                                 !.confident = p.confident, !.status = "SUGGESTED"]
      OBVIOUS
    <2> HIDE DEF n, c
    <2>4. n \in 0..MaxAnalyses
      BY <2>2 DEF n
    <2>5. QED
      BY <1>4, <2>1, <2>3, <2>4 DEF Causal
  <1>6. c.gen = analyses + 1 /\ c.status = "SUGGESTED" /\ c.dryRun = FALSE
    BY DEF NoAnalysis
  <1> HIDE DEF c
  <1>7. Analysed(runs, c)
    BY <1>3, <1>4, <1>6 DEF Analysed, Honest
  <1>8. /\ s \in TaskRecord /\ s.pc = "route" /\ s.causal = c /\ s.user = Unset
        /\ s.answer = NoAnswer
    <2>1. Idle \in TaskRecord /\ "route" \in Phases
      BY Empty DEF TaskOK, Phases
    <2>2. QED
      BY <1>5, <2>1, Empty DEF TaskRecord
  <1> HIDE DEF s
  <1>9. TaskOK(runs, s)
    BY <1>6, <1>7, <1>8, UnsetIsNoName DEF TaskOK, NoAnswer
  <1>10. row' = c /\ Becomes("analysis", s) /\ "analysis" \in Tasks
    BY <1>1 DEF c, s, Tasks
  <1>11. task' \in [Tasks -> TaskRecord] /\ \A t \in Tasks : TaskOK(runs, task'[t])
    BY <1>9, <1>10, OneTask
  <1>12. faults' \in [restarts: Nat, losses: Nat, writes: Nat] /\ mode' \in AllModes
         /\ \A call \in orphans' : TaskOK(runs, call) /\ call.pc = "sent"
    BY <1>2 DEF RemIInv
  <1>13. QED
    BY <1>2, <1>3, <1>5, <1>7, <1>10, <1>11, <1>12, RouterStep

\* Route
LEMMA RouteKeeps == ASSUME RemIInv, Route PROVE RemIInv'
  <1> DEFINE s == task["analysis"]
             decision == Decide(mode, s.causal.confident)
             st == StatusFor(decision)
             c == [s.causal EXCEPT !.status = st, !.dryRun = decision = "DRY_RUN"]
             next == IF c.status = "EXECUTING"
                     THEN [s EXCEPT !.pc = "sent", !.causal = c, !.under = mode]
                     ELSE Idle
  <1>1. /\ s.pc = "route" /\ Persist(c) /\ Becomes("analysis", next)
        /\ UNCHANGED <<analyses, orphans, mode, agentMode, runs, live>>
    BY DEF Route
  <1>2. "analysis" \in Tasks /\ TaskOK(runs, s) /\ s \in TaskRecord /\ mode \in AllModes
    BY DEF Tasks, RemIInv, TaskOK
  <1>3. /\ s.causal \in Causal /\ Analysed(runs, s.causal) /\ s.user = Unset
        /\ s.causal.confident \in BOOLEAN /\ s.answer = NoAnswer
    BY <1>1, <1>2, TaskFields, CausalFields DEF TaskOK
  <1>4. /\ st \in Statuses /\ st # "EXECUTED" /\ (st = "PENDING_APPROVAL" => s.causal.confident)
        /\ st = "EXECUTING" => decision = "DRY_RUN" \/ (mode = "auto" /\ s.causal.confident)
    BY <1>2, <1>3, Decisions
  <1> DEFINE dry == decision = "DRY_RUN"
  <1> HIDE DEF decision, st
  <1>5. /\ c \in Causal /\ c.status = st /\ c.gen = s.causal.gen /\ c.playbook = s.causal.playbook
        /\ c.confident = s.causal.confident /\ c.dryRun = (decision = "DRY_RUN")
    <2>1. dry \in BOOLEAN
      OBVIOUS
    <2>2. c = [s.causal EXCEPT !.status = st, !.dryRun = dry]
      OBVIOUS
    <2> HIDE DEF dry
    <2>3. /\ c \in Causal /\ c.status = st /\ c.gen = s.causal.gen
          /\ c.playbook = s.causal.playbook /\ c.confident = s.causal.confident /\ c.dryRun = dry
      BY <1>3, <1>4, <2>1, <2>2 DEF Causal
    <2>4. QED
      BY <2>3 DEF dry
  <1> HIDE DEF c
  <1>6. Analysed(runs, c)
    BY <1>3, <1>4, <1>5, StatusChange DEF Analysed
  <1>7. TaskOK(runs, next)
    <2>1. CASE c.status = "EXECUTING"
      <3>1. next = [s EXCEPT !.pc = "sent", !.causal = c, !.under = mode]
        BY <2>1
      <3>2. /\ next \in TaskRecord /\ next.pc = "sent" /\ next.causal = c /\ next.under = mode
            /\ next.user = Unset /\ next.answer = NoAnswer
        BY <1>2, <1>3, <1>5, <3>1 DEF TaskRecord, Phases
      <3> HIDE DEF next
      <3>3. CallOK(next)
        BY <1>4, <1>5, <2>1, <3>2 DEF CallOK, Allowed
      <3>4. QED
        BY <1>6, <3>2, <3>3, UnsetIsNoName DEF TaskOK, NoAnswer
    <2>2. CASE c.status # "EXECUTING"
      BY <2>2, Empty
    <2>3. QED
      BY <2>1, <2>2
  <1> HIDE DEF next
  <1>8. task' \in [Tasks -> TaskRecord] /\ \A t \in Tasks : TaskOK(runs, task'[t])
    BY <1>1, <1>2, <1>7, OneTask
  <1>9. /\ faults' \in [restarts: Nat, losses: Nat, writes: Nat]
        /\ row' = row \/ (row' \in Causal /\ Analysed(runs, row'))
    BY <1>1, <1>5, <1>6, Persisted
  <1>10. analyses' \in 0..MaxAnalyses /\ mode' \in AllModes
         /\ \A call \in orphans' : TaskOK(runs, call) /\ call.pc = "sent"
    BY <1>1 DEF RemIInv
  <1>11. QED
    BY <1>1, <1>8, <1>9, <1>10, RouterStep

\* Load: the request takes a copy of the row.
LEMMA LoadKeeps ==
    ASSUME RemIInv, NEW r \in Requests, NEW decision \in {"approve", "reject", "dry-run"},
           NEW u \in Users \cup {Unset}, decision = "approve" => u # Unset,
           decision = "dry-run" => u = Unset, Load(r, decision, u)
    PROVE  RemIInv'
  <1> DEFINE s == [Idle EXCEPT !.pc = decision, !.causal = row, !.user = u]
  <1>1. /\ row # NoAnalysis /\ Becomes(r, s)
        /\ UNCHANGED <<row, analyses, orphans, mode, agentMode, runs, live, faults>>
    BY DEF Load
  <1>2. row \in Causal /\ Analysed(runs, row) /\ r \in Tasks
    BY <1>1 DEF RemIInv, Tasks
  <1>3. /\ s \in TaskRecord /\ s.pc = decision /\ s.causal = row /\ s.user = u
        /\ s.answer = NoAnswer
    <2>1. Idle \in TaskRecord /\ decision \in Phases
      BY Empty DEF TaskOK, Phases
    <2>2. Idle.answer = NoAnswer
      BY DEF Idle
    <2>3. QED
      BY <1>2, <2>1, <2>2 DEF TaskRecord
  <1> HIDE DEF s
  <1>4. TaskOK(runs, s)
    BY <1>2, <1>3, UnsetIsNoName DEF TaskOK, NoAnswer
  <1>5. task' \in [Tasks -> TaskRecord] /\ \A t \in Tasks : TaskOK(runs, task'[t])
    BY <1>1, <1>2, <1>4, OneTask
  <1>6. /\ faults' \in [restarts: Nat, losses: Nat, writes: Nat] /\ mode' \in AllModes
        /\ analyses' \in 0..MaxAnalyses
        /\ \A call \in orphans' : TaskOK(runs, call) /\ call.pc = "sent"
    BY <1>1 DEF RemIInv
  <1>7. QED
    BY <1>1, <1>5, <1>6, RouterStep

\* Approve: the copy the request loaded is what is approved and sent.
LEMMA ApproveKeeps == ASSUME RemIInv, NEW r \in Requests, Approve(r) PROVE RemIInv'
  <1> DEFINE s == task[r]
             c == [s.causal EXCEPT !.by = s.user, !.dryRun = FALSE, !.status = "EXECUTING"]
             next == [s EXCEPT !.pc = "sent", !.causal = c, !.under = mode]
  <1>1. /\ s.pc = "approve" /\ MayApprove(s) /\ Persist(c) /\ Becomes(r, next)
        /\ UNCHANGED <<analyses, orphans, mode, agentMode, runs, live>>
    BY DEF Approve
  <1>2. r \in Tasks /\ TaskOK(runs, s) /\ s \in TaskRecord /\ mode \in AllModes
    BY DEF Tasks, RemIInv, TaskOK
  <1>3. /\ s.causal \in Causal /\ Analysed(runs, s.causal) /\ s.user # Unset
        /\ s.user \in Users \cup {Unset} /\ s.answer = NoAnswer
    BY <1>1, <1>2, TaskFields DEF TaskOK
  <1>4. s.causal.confident /\ AllowsExecution(mode)
        /\ CanApprove(RoleOf[s.user], ClassifyRisk(s.causal.playbook))
    BY <1>1, <1>3 DEF MayApprove, Awaiting, Analysed, Honest
  <1>5. /\ c \in Causal /\ c.status = "EXECUTING" /\ c.gen = s.causal.gen
        /\ c.playbook = s.causal.playbook /\ c.confident = s.causal.confident
    BY <1>3 DEF Causal, Statuses
  <1> HIDE DEF c
  <1>6. Analysed(runs, c)
    <2>1. "EXECUTING" \in Statuses
      BY DEF Statuses
    <2>2. QED
      BY <1>3, <1>5, <2>1, StatusChange DEF Analysed
  <1>7. /\ next \in TaskRecord /\ next.pc = "sent" /\ next.causal = c /\ next.under = mode
        /\ next.user = s.user /\ next.answer = NoAnswer
    BY <1>2, <1>3, <1>5 DEF TaskRecord, Phases
  <1> HIDE DEF next
  <1>8. CallOK(next)
    BY <1>3, <1>4, <1>5, <1>7 DEF CallOK, Allowed
  <1>9. TaskOK(runs, next)
    BY <1>6, <1>7, <1>8, UnsetIsNoName DEF TaskOK, NoAnswer
  <1>10. task' \in [Tasks -> TaskRecord] /\ \A t \in Tasks : TaskOK(runs, task'[t])
    BY <1>1, <1>2, <1>9, OneTask
  <1>11. /\ faults' \in [restarts: Nat, losses: Nat, writes: Nat]
         /\ row' = row \/ (row' \in Causal /\ Analysed(runs, row'))
    BY <1>1, <1>5, <1>6, Persisted
  <1>12. analyses' \in 0..MaxAnalyses /\ mode' \in AllModes
         /\ \A call \in orphans' : TaskOK(runs, call) /\ call.pc = "sent"
    BY <1>1 DEF RemIInv
  <1>13. QED
    BY <1>1, <1>10, <1>11, <1>12, RouterStep

\* An analysed object whose status becomes one that claims nothing.
LEMMA Restated ==
    ASSUME NEW c \in Causal, Analysed(runs, c), NEW st \in {"REJECTED", "FAILED"}
    PROVE  /\ [c EXCEPT !.status = st] \in Causal
           /\ Analysed(runs, [c EXCEPT !.status = st])
  <1> DEFINE d == [c EXCEPT !.status = st]
  <1>1. st \in Statuses
    BY DEF Statuses
  <1>2. /\ d \in Causal /\ d.status = st /\ d.gen = c.gen /\ d.playbook = c.playbook
        /\ d.confident = c.confident
    BY <1>1 DEF Causal
  <1> HIDE DEF d
  <1>3. Analysed(runs, d)
    BY <1>1, <1>2, StatusChange DEF Analysed
  <1>4. QED
    BY <1>2, <1>3 DEF d

\* Reject
LEMMA RejectKeeps == ASSUME RemIInv, NEW r \in Requests, Reject(r) PROVE RemIInv'
  <1> DEFINE c == [task[r].causal EXCEPT !.status = "REJECTED"]
  <1>1. /\ task[r].pc = "reject" /\ Persist(c) /\ Becomes(r, Finished(r))
        /\ UNCHANGED <<analyses, orphans, mode, agentMode, runs, live>>
    BY DEF Reject
  <1>2. r \in Tasks /\ TaskOK(runs, task[r]) /\ task[r] \in TaskRecord
    BY DEF Tasks, RemIInv, TaskOK
  <1>3. task[r].causal \in Causal /\ Analysed(runs, task[r].causal)
    BY <1>1, <1>2, TaskFields DEF TaskOK
  <1>4. c \in Causal /\ Analysed(runs, c)
    BY <1>3, Restated
  <1> HIDE DEF c
  <1>5. task' \in [Tasks -> TaskRecord] /\ \A t \in Tasks : TaskOK(runs, task'[t])
    BY <1>1, <1>2, Empty, OneTask
  <1>6. /\ faults' \in [restarts: Nat, losses: Nat, writes: Nat]
        /\ row' = row \/ (row' \in Causal /\ Analysed(runs, row'))
    BY <1>1, <1>4, Persisted
  <1>7. analyses' \in 0..MaxAnalyses /\ mode' \in AllModes
        /\ \A call \in orphans' : TaskOK(runs, call) /\ call.pc = "sent"
    BY <1>1 DEF RemIInv
  <1>8. QED
    BY <1>1, <1>5, <1>6, <1>7, RouterStep

\* Refuse and DryRun change the task only.
LEMMA RefuseKeeps == ASSUME RemIInv, NEW r \in Requests, Refuse(r) PROVE RemIInv'
  <1>1. /\ Becomes(r, Finished(r)) /\ r \in Tasks
        /\ UNCHANGED <<row, analyses, orphans, mode, agentMode, runs, live, faults>>
    BY DEF Refuse, Tasks
  <1>2. task' \in [Tasks -> TaskRecord] /\ \A t \in Tasks : TaskOK(runs, task'[t])
    BY <1>1, Empty, OneTask
  <1>3. /\ faults' \in [restarts: Nat, losses: Nat, writes: Nat] /\ mode' \in AllModes
        /\ analyses' \in 0..MaxAnalyses
        /\ \A call \in orphans' : TaskOK(runs, call) /\ call.pc = "sent"
    BY <1>1 DEF RemIInv
  <1>4. QED
    BY <1>1, <1>2, <1>3, RouterStep

\* DryRun: what is sent is a plan.
LEMMA DryRunKeeps == ASSUME RemIInv, NEW r \in Requests, DryRun(r) PROVE RemIInv'
  <1> DEFINE s == task[r]
             c == [s.causal EXCEPT !.dryRun = TRUE]
             next == [s EXCEPT !.pc = "sent", !.causal.dryRun = TRUE]
  <1>1. /\ s.pc = "dry-run" /\ Becomes(r, next)
        /\ UNCHANGED <<row, analyses, orphans, mode, agentMode, runs, live, faults>>
    BY DEF DryRun
  <1>2. r \in Tasks /\ TaskOK(runs, s) /\ s \in TaskRecord
    BY DEF Tasks, RemIInv, TaskOK
  <1>3. s.causal \in Causal /\ Analysed(runs, s.causal) /\ s.answer = NoAnswer
    BY <1>1, <1>2, TaskFields DEF TaskOK
  <1>4. /\ c \in Causal /\ c.status = s.causal.status /\ c.gen = s.causal.gen
        /\ c.playbook = s.causal.playbook /\ c.confident = s.causal.confident /\ c.dryRun = TRUE
    BY <1>3 DEF Causal
  <1>5. next = [s EXCEPT !.pc = "sent", !.causal = c]
    BY <1>2 DEF TaskRecord
  <1> HIDE DEF c
  <1>6. /\ next \in TaskRecord /\ next.pc = "sent" /\ next.causal = c /\ next.answer = NoAnswer
    <2> HIDE DEF next
    <2>1. QED
      BY <1>2, <1>3, <1>4, <1>5 DEF TaskRecord, Phases
  <1> HIDE DEF next
  <1>7. Analysed(runs, c)
    BY <1>3, <1>4 DEF Analysed, Honest, Succeeded
  <1>8. CallOK(next)
    BY <1>4, <1>6 DEF CallOK
  <1>9. TaskOK(runs, next)
    BY <1>6, <1>7, <1>8, UnsetIsNoName DEF TaskOK, NoAnswer
  <1>10. task' \in [Tasks -> TaskRecord] /\ \A t \in Tasks : TaskOK(runs, task'[t])
    BY <1>1, <1>2, <1>9, OneTask
  <1>11. /\ faults' \in [restarts: Nat, losses: Nat, writes: Nat] /\ mode' \in AllModes
         /\ analyses' \in 0..MaxAnalyses
         /\ \A call \in orphans' : TaskOK(runs, call) /\ call.pc = "sent"
    BY <1>1 DEF RemIInv
  <1>12. QED
    BY <1>1, <1>10, <1>11, RouterStep

\* Record: the answer becomes the status, and EXECUTED has its run.
LEMMA RecordKeeps == ASSUME RemIInv, NEW t \in Tasks, Record(t) PROVE RemIInv'
  <1> DEFINE s == task[t]
             c == Outcome(s)
  <1>1. /\ s.pc = "answered" /\ Persist(c) /\ Becomes(t, Finished(t))
        /\ UNCHANGED <<analyses, orphans, mode, agentMode, runs, live>>
    BY DEF Record
  <1>2. TaskOK(runs, s) /\ s \in TaskRecord
    BY DEF RemIInv, TaskOK
  <1>3. /\ s.causal \in Causal /\ Analysed(runs, s.causal) /\ s.answer \in Answer
        /\ s.answer.status # Unset /\ (s.answer.status = "EXECUTED" => Succeeded(runs, s.causal))
    BY <1>1, <1>2, TaskFields DEF TaskOK
  <1>4. s.answer.status \in {"FAILED", "DRY_RUN", "EXECUTED"} /\ s.answer.dryRun \in BOOLEAN
        /\ s.answer.status \in Statuses
    BY <1>3 DEF Answer, Statuses
  <1>5. /\ c \in Causal /\ c.status = s.answer.status /\ c.gen = s.causal.gen
        /\ c.playbook = s.causal.playbook /\ c.confident = s.causal.confident
    BY <1>3, <1>4 DEF Outcome, Causal
  <1> HIDE DEF c
  <1>6. Analysed(runs, c)
    BY <1>3, <1>4, <1>5, StatusChange DEF Analysed
  <1>7. task' \in [Tasks -> TaskRecord] /\ \A u \in Tasks : TaskOK(runs, task'[u])
    BY <1>1, Empty, OneTask
  <1>8. /\ faults' \in [restarts: Nat, losses: Nat, writes: Nat]
        /\ row' = row \/ (row' \in Causal /\ Analysed(runs, row'))
    BY <1>1, <1>5, <1>6, Persisted
  <1>9. analyses' \in 0..MaxAnalyses /\ mode' \in AllModes
        /\ \A call \in orphans' : TaskOK(runs, call) /\ call.pc = "sent"
    BY <1>1 DEF RemIInv
  <1>10. QED
    BY <1>1, <1>7, <1>8, <1>9, RouterStep

\* GiveUp: the call may live on as an orphan, and it was authorised.
LEMMA GiveUpKeeps == ASSUME RemIInv, NEW t \in Tasks, GiveUp(t) PROVE RemIInv'
  <1> DEFINE s == task[t]
             c == [s.causal EXCEPT !.status = "FAILED"]
  <1>1. /\ s.pc \in {"sent", "answered"} /\ Becomes(t, Finished(t))
        /\ \/ row' = c /\ Fail("losses")
           \/ Fail("writes") /\ UNCHANGED row
        /\ orphans' \in {orphans, IF s.pc = "sent" THEN orphans \cup {s} ELSE orphans}
        /\ UNCHANGED <<analyses, mode, agentMode, runs, live>>
    BY DEF GiveUp
  <1>2. TaskOK(runs, s) /\ s \in TaskRecord
    BY DEF RemIInv, TaskOK
  <1>3. s.causal \in Causal /\ Analysed(runs, s.causal)
    BY <1>1, <1>2, TaskFields DEF TaskOK
  <1>4. c \in Causal /\ Analysed(runs, c)
    BY <1>3, Restated
  <1> HIDE DEF c
  <1>5. row' = row \/ (row' \in Causal /\ Analysed(runs, row'))
    BY <1>1, <1>4
  <1>6. faults' \in [restarts: Nat, losses: Nat, writes: Nat]
    <2>1. faults \in [restarts: Nat, losses: Nat, writes: Nat]
      BY DEF RemIInv
    <2>2. Fail("losses") \/ Fail("writes")
      BY <1>1
    <2>3. QED
      BY <2>1, <2>2, FailCounts
  <1>7. \A call \in orphans' : TaskOK(runs, call) /\ call.pc = "sent"
    BY <1>1, <1>2 DEF RemIInv
  <1>8. task' \in [Tasks -> TaskRecord] /\ \A u \in Tasks : TaskOK(runs, task'[u])
    BY <1>1, Empty, OneTask
  <1>9. analyses' \in 0..MaxAnalyses /\ mode' \in AllModes
    BY <1>1 DEF RemIInv
  <1>10. QED
    BY <1>1, <1>5, <1>6, <1>7, <1>8, <1>9, RouterStep

\* RestartRouter: the tasks are gone, what they had sent may still arrive.
LEMMA RestartRouterKeeps == ASSUME RemIInv, RestartRouter PROVE RemIInv'
  <1>1. PICK sent \in SUBSET {t \in Tasks : task[t].pc = "sent"} :
            orphans' = orphans \cup {task[t] : t \in sent}
    BY DEF RestartRouter
  <1>2. /\ Fail("restarts") /\ mode' \in Modes
        /\ task' = [t \in Tasks |-> IF task[t].pc = "idle" THEN Idle ELSE Finished(t)]
        /\ UNCHANGED <<row, analyses, agentMode, runs, live>>
    BY DEF RestartRouter
  <1>3. \A call \in orphans' : TaskOK(runs, call) /\ call.pc = "sent"
    BY <1>1 DEF RemIInv
  <1>4. task' \in [Tasks -> TaskRecord] /\ \A u \in Tasks : TaskOK(runs, task'[u])
    <2>1. \A u \in Tasks : TaskOK(runs, task'[u])
      BY <1>2, Empty
    <2>2. QED
      BY <1>2, <2>1 DEF TaskOK
  <1>5. faults' \in [restarts: Nat, losses: Nat, writes: Nat]
    BY <1>2, FailCounts DEF RemIInv
  <1>6. analyses' \in 0..MaxAnalyses /\ mode' \in AllModes
    BY <1>2, RemediationConstants DEF RemIInv
  <1>7. QED
    BY <1>2, <1>3, <1>4, <1>5, <1>6, RouterStep

\* What the agent does, for a caller that waits and after it is gone.
LEMMA AgentStep ==
    ASSUME RemIInv, UNCHANGED <<row, analyses, mode, agentMode, faults>>,
           NEW call, TaskOK(runs, call), call.pc = "sent", NEW answer \in Answers(call),
           RunPlaybook(call, answer), orphans' \subseteq orphans,
           task' \in [Tasks -> TaskRecord], \A t \in Tasks : task'[t] = task[t] \/ TaskOK(runs', task'[t])
    PROVE  RemIInv'
  <1>1. /\ runs \subseteq runs' /\ runs' \subseteq Run /\ RunsAuthorised'
        /\ live' \in [1..MaxAnalyses -> 0..2]
    BY RunRecorded
  <1>2. /\ \A c : Analysed(runs, c) => Analysed(runs', c)
        /\ \A s : TaskOK(runs, s) => TaskOK(runs', s)
    BY <1>1, RunsGrow
  <1>3. QED
    BY <1>1, <1>2 DEF RemIInv

\* handleExecutePlaybook, for a caller that waits.
LEMMA ExecutePlaybookKeeps == ASSUME RemIInv, NEW t \in Tasks, ExecutePlaybook(t) PROVE RemIInv'
  <1> DEFINE s == task[t]
  <1>1. PICK answer \in Answers(s) :
            /\ RunPlaybook(s, answer)
            /\ Becomes(t, [s EXCEPT !.pc = "answered", !.answer = answer])
    BY DEF ExecutePlaybook
  <1> DEFINE next == [s EXCEPT !.pc = "answered", !.answer = answer]
  <1>2. s.pc = "sent" /\ UNCHANGED <<row, analyses, orphans, mode, agentMode, faults>>
    BY DEF ExecutePlaybook
  <1>3. TaskOK(runs, s) /\ s \in TaskRecord /\ Analysed(runs, s.causal) /\ CallOK(s)
    BY <1>2 DEF RemIInv, TaskOK
  <1>4. /\ answer.status \in {"FAILED", "DRY_RUN", "EXECUTED"}
        /\ answer.dryRun = PlansOnly(s)
        /\ answer = [status |-> answer.status, dryRun |-> answer.dryRun]
    BY AnswerFacts
  <1>5. answer \in Answer
    <2>1. PlansOnly(s) \in BOOLEAN
      BY DEF PlansOnly
    <2>2. answer.dryRun \in BOOLEAN
      BY <1>4, <2>1
    <2>3. QED
      BY <1>4, <2>2 DEF Answer
  <1>6. /\ runs \subseteq runs'
        /\ answer.status = "EXECUTED" => Succeeded(runs', s.causal)
    BY <1>1, <1>2, <1>3, RunRecorded
  <1>7. Analysed(runs', s.causal)
    BY <1>3, <1>6, RunsGrow
  <1>8. /\ next \in TaskRecord /\ next.pc = "answered" /\ next.causal = s.causal
        /\ next.user = s.user /\ next.under = s.under /\ next.answer = answer
    BY <1>3, <1>5 DEF TaskRecord, Phases
  <1> HIDE DEF next
  <1>9. CallOK(next)
    BY <1>3, <1>8 DEF CallOK, Allowed
  <1>10. answer # NoAnswer /\ answer.status # Unset
    BY <1>4, UnsetIsNoName DEF NoAnswer
  <1>11. TaskOK(runs', next)
    BY <1>6, <1>7, <1>8, <1>9, <1>10 DEF TaskOK
  <1>12. task' = [task EXCEPT ![t] = next]
    BY <1>1 DEF Becomes, next
  <1>13. task \in [Tasks -> TaskRecord]
    BY DEF RemIInv
  <1>14. /\ task' \in [Tasks -> TaskRecord]
         /\ \A u \in Tasks : task'[u] = task[u] \/ TaskOK(runs', task'[u])
    BY <1>8, <1>11, <1>12, <1>13
  <1>15. QED
    BY <1>1, <1>2, <1>3, <1>14, AgentStep

\* handleExecutePlaybook, after the caller is gone.
LEMMA ExecuteOrphanKeeps ==
    ASSUME RemIInv, NEW call \in orphans, ExecuteOrphan(call) PROVE RemIInv'
  <1>1. PICK answer \in Answers(call) : RunPlaybook(call, answer)
    BY DEF ExecuteOrphan
  <1>2. orphans' \subseteq orphans /\ UNCHANGED <<row, analyses, task, mode, agentMode, faults>>
    BY DEF ExecuteOrphan
  <1>3. TaskOK(runs, call) /\ call.pc = "sent" /\ task' \in [Tasks -> TaskRecord]
    BY <1>2 DEF RemIInv
  <1>4. QED
    BY <1>1, <1>2, <1>3, AgentStep

\* RestartAgent: another policy, nothing else.
LEMMA RestartAgentKeeps == ASSUME RemIInv, RestartAgent PROVE RemIInv'
  <1>1. /\ Fail("restarts") /\ agentMode' \in AgentModes
        /\ UNCHANGED <<row, analyses, task, orphans, mode, runs, live>>
    BY DEF RestartAgent
  <1>2. faults' \in [restarts: Nat, losses: Nat, writes: Nat] /\ agentMode' \in AllModes
    BY <1>1, FailCounts, RemediationConstants DEF RemIInv
  <1>3. QED
    BY <1>1, <1>2 DEF RemIInv, RunsAuthorised

\* Every action keeps the invariant.
LEMMA NextRemIInv == RemIInv /\ [RemNext]_remVars => RemIInv'
  <1> SUFFICES ASSUME RemIInv, [RemNext]_remVars PROVE RemIInv'
    OBVIOUS
  <1>1. CASE Analyze
    BY <1>1, AnalyzeKeeps
  <1>2. CASE Route
    BY <1>2, RouteKeeps
  <1>3. ASSUME NEW r \in Requests, NEW u \in Users, Load(r, "approve", u) PROVE RemIInv'
    BY <1>3, LoadKeeps, RemediationConstants
  <1>4. ASSUME NEW r \in Requests, NEW decision \in {"reject", "dry-run"}, Load(r, decision, Unset)
        PROVE  RemIInv'
    BY <1>4, LoadKeeps
  <1>5. ASSUME NEW r \in Requests, RequestStep(r) PROVE RemIInv'
    BY <1>5, ApproveKeeps, RejectKeeps, RefuseKeeps, DryRunKeeps DEF RequestStep
  <1>6. ASSUME NEW t \in Tasks, TaskStep(t) \/ GiveUp(t) PROVE RemIInv'
    BY <1>6, ExecutePlaybookKeeps, RecordKeeps, GiveUpKeeps DEF TaskStep
  <1>7. ASSUME NEW call \in orphans, ExecuteOrphan(call) PROVE RemIInv'
    BY <1>7, ExecuteOrphanKeeps
  <1>8. CASE RestartRouter
    BY <1>8, RestartRouterKeeps
  <1>9. CASE RestartAgent
    BY <1>9, RestartAgentKeeps
  <1>10. CASE UNCHANGED remVars
    BY <1>10 DEF remVars, RemIInv, RunsAuthorised
  <1>11. QED
    BY <1>1, <1>2, <1>3, <1>4, <1>5, <1>6, <1>7, <1>8, <1>9, <1>10 DEF RemNext

-----------------------------------------------------------------------------
(* Theorems *)

\* The invariant holds in every reachable state.
LEMMA SpecRemIInv == RemSpec => []RemIInv
  BY InitRemIInv, NextRemIInv, PTL DEF RemSpec

\* The row and every object a task of the router holds have a known status,
\* and every call on its way to the agent has been decided.
THEOREM RemediationTypeCorrect == RemSpec => []RemTypeOK
  <1>1. RemIInv => RemTypeOK
    <2> SUFFICES ASSUME RemIInv PROVE RemTypeOK
      OBVIOUS
    <2>1. (row = NoAnalysis \/ row.status \in Statuses) /\ row.gen \in 0..MaxAnalyses
      BY CausalFields DEF RemIInv, Analysed
    <2>2. ASSUME NEW t \in Tasks
          PROVE  /\ task[t].pc \in Phases
                 /\ task[t].pc \notin {"idle", "done"} => task[t].causal.status \in Statuses
                 /\ task[t].pc = "answered" <=> task[t].answer # NoAnswer
      BY TaskFields DEF RemIInv, TaskOK, Analysed
    <2>3. QED
      BY <2>1, <2>2 DEF RemTypeOK, RemIInv, Phases
  <1>2. QED
    BY <1>1, SpecRemIInv, PTL

\* Every live run at the agent was authorised for that very playbook, across
\* re-analyses, restarts of router and agent with other policies, lost
\* answers and calls that arrive after their caller is gone.
THEOREM EveryRunAuthorised == RemSpec => []RunsAuthorised
  <1>1. RemIInv => RunsAuthorised
    BY DEF RemIInv
  <1>2. QED
    BY <1>1, SpecRemIInv, PTL

\* The incident's row says EXECUTED only if the agent ran that playbook of
\* that analysis live and succeeded.
THEOREM ExecutedAlwaysTrue == RemSpec => []ExecutedIsTrue
  <1>1. RemIInv => ExecutedIsTrue
    <2>1. NoAnalysis.status # "EXECUTED"
      BY UnsetIsNoName DEF NoAnalysis
    <2>2. QED
      BY <2>1 DEF RemIInv, ExecutedIsTrue, Analysed, Honest, Succeeded
  <1>2. QED
    BY <1>1, SpecRemIInv, PTL
=============================================================================
