----------------------------- MODULE Synthetics -----------------------------
(***************************************************************************)
(* Synthetic checks of the gateway (synthetics_handler.go): one worker     *)
(* loads the checks of one tenant, probes their steps in order up to the   *)
(* first that fails, pages when a check turns from healthy to failing, and *)
(* records the results of the round at its end.  A check's row is keyed by *)
(* the URL of its first step; the worker's memory of what is failing is    *)
(* keyed by the check's name.                                              *)
(***************************************************************************)
EXTENDS Naturals, Sequences

CONSTANTS ProbeUrls,     \* the URLs that are probed
          Refused,       \* URLs validateProbeURL rejects
          CheckDefs,     \* the checks that may be created: name and steps
          Responses,     \* what a URL may answer: status, slow, body
          MaxSynEdits, MaxSynShifts, MaxSynFaults  \* bounds

VARIABLES
    answers,     \* [ProbeUrls -> what the URL answers]
    targets,     \* synthetic_targets: the checks, one for each first URL
    round,       \* the worker: the loaded checks still to run, and the results so far
    lastFailed,  \* names of the checks remembered as failing
    recorded,    \* [ProbeUrls -> last result of the row of this URL in synthetic_results]
    outage,      \* [ProbeUrls -> pages of the row since it was last changed or healthy,
                 \* or the worker started, up to 2]
    everShared,  \* two checks had the same name at some time
    synEdits, synShifts, synFaults

synVars == <<answers, targets, round, lastFailed, recorded, outage, everShared,
             synEdits, synShifts, synFaults>>

\* The row's URL is the first step's.
RowUrl(c) == c.steps[1].url

ASSUME SynAssumption ==
    /\ \A c \in CheckDefs : RowUrl(c) \in ProbeUrls
    /\ MaxSynEdits \in Nat /\ MaxSynShifts \in Nat /\ MaxSynFaults \in Nat

\* The name the worker uses: the URL if there is none.
CheckName(c) == IF c.name = "" THEN RowUrl(c) ELSE c.name

NoRound == [active |-> FALSE, todo |-> {}, results |-> {}]

SynTypeOK ==
    /\ answers \in [ProbeUrls -> Responses]
    /\ targets \subseteq CheckDefs /\ \A c, d \in targets : RowUrl(c) = RowUrl(d) => c = d
    /\ round.active \in BOOLEAN /\ round.todo \subseteq CheckDefs
    /\ round.results \subseteq ProbeUrls \X BOOLEAN
    /\ lastFailed \subseteq {CheckName(c) : c \in CheckDefs}
    /\ recorded \in [ProbeUrls -> {"none", "success", "failure"}]
    /\ outage \in [ProbeUrls -> 0..2] /\ everShared \in BOOLEAN
    /\ synEdits \in 0..MaxSynEdits /\ synShifts \in 0..MaxSynShifts /\ synFaults \in 0..MaxSynFaults

SynInit ==
    /\ \E r \in Responses : r.status = 200 /\ ~ r.slow /\ r.body /\ answers = [u \in ProbeUrls |-> r]
    \* a row may be older than the validation of URLs
    /\ targets \in {{}} \cup {{c} : c \in {d \in CheckDefs : RowUrl(d) \in Refused}}
    /\ round = NoRound /\ lastFailed = {}
    /\ recorded = [u \in ProbeUrls |-> "none"] /\ outage = [u \in ProbeUrls |-> 0]
    /\ everShared = FALSE /\ synEdits = 0 /\ synShifts = 0 /\ synFaults = 0

-----------------------------------------------------------------------------
(* The contract of one step, and of a check *)

\* status 0 is a request without a response; an assertion of status 0 asks for any 2xx.
evaluateAssertion(r, a) ==
    /\ r.status # 0
    /\ IF a.status # 0 THEN r.status = a.status ELSE r.status >= 200 /\ r.status < 300
    /\ a.bounded => ~ r.slow
    /\ a.contains => r.body

StepPasses(step) == step.url \notin Refused /\ evaluateAssertion(answers[step.url], step.assert)

Passes(c) == \A i \in 1..Len(c.steps) : StepPasses(c.steps[i])

-----------------------------------------------------------------------------
(* The tenant's requests *)

\* Scheme, host and addresses are looked at once, when the check is written.
validateProbeURL(u) == u \notin Refused

Edited(rows, u) ==
    /\ synEdits < MaxSynEdits /\ synEdits' = synEdits + 1
    /\ targets' = rows
    /\ outage' = [outage EXCEPT ![u] = 0]
    /\ everShared' = (everShared \/ \E c, d \in rows \cup round.todo :
                                       RowUrl(c) # RowUrl(d) /\ CheckName(c) = CheckName(d))
    /\ UNCHANGED <<answers, round, lastFailed, recorded, synShifts, synFaults>>

\* INSERT ... ON CONFLICT (tenant_id, url): a check of the same first URL is replaced.
CreateTarget(c) ==
    /\ \A i \in 1..Len(c.steps) : validateProbeURL(c.steps[i].url)
    /\ c \notin targets
    /\ Edited({d \in targets : RowUrl(d) # RowUrl(c)} \cup {c}, RowUrl(c))

\* What the worker remembers of the check is not touched.
DeleteTarget(c) ==
    /\ c \in targets
    /\ Edited(targets \ {c}, RowUrl(c))

-----------------------------------------------------------------------------
(* The worker *)

\* A tick; a failed query, and an empty table, end the round at once.
loadTargets ==
    /\ ~ round.active /\ targets # {}
    /\ round' = [active |-> TRUE, todo |-> targets, results |-> {}]
    /\ UNCHANGED <<answers, targets, lastFailed, recorded, outage, everShared,
                   synEdits, synShifts, synFaults>>

\* pageOnTransition: the memory of what is failing, set before the publish ...
SetLastFailed(c, healthy) ==
    lastFailed' = IF healthy THEN lastFailed \ {CheckName(c)} ELSE lastFailed \cup {CheckName(c)}

\* Faulty variant: a page in every round.
TurnsFailingAlways(c, healthy) == ~ healthy

\* ... and whether there is one: the check turns from healthy to failing.
TurnsFailing(c, healthy) == ~ healthy /\ CheckName(c) \notin lastFailed

\* The checks run one after the other, in the table's order, which is not specified.  A
\* publish that fails is only logged.
runCheck(c, publishes) ==
    /\ c \in round.todo
    /\ round' = [round EXCEPT !.todo = @ \ {c}, !.results = @ \cup {<<RowUrl(c), Passes(c)>>}]
    /\ SetLastFailed(c, Passes(c))
    /\ outage' = [outage EXCEPT ![RowUrl(c)] =
                     IF c \notin targets THEN @
                     ELSE IF Passes(c) THEN 0
                     ELSE IF TurnsFailing(c, Passes(c)) /\ publishes /\ @ < 2 THEN @ + 1 ELSE @]
    /\ synFaults' = IF publishes THEN synFaults ELSE synFaults + 1
    /\ ~ publishes => synFaults < MaxSynFaults /\ TurnsFailing(c, Passes(c))
    /\ UNCHANGED <<answers, targets, recorded, everShared, synEdits, synShifts>>

\* One insert for the whole round; when it fails the results are gone.
flushResults ==
    /\ round.active /\ round.todo = {}
    /\ round' = NoRound
    /\ \/ /\ recorded' = [u \in ProbeUrls |-> IF <<u, TRUE>> \in round.results THEN "success"
                                              ELSE IF <<u, FALSE>> \in round.results THEN "failure"
                                              ELSE recorded[u]]
          /\ UNCHANGED synFaults
       \/ /\ synFaults < MaxSynFaults /\ synFaults' = synFaults + 1
          /\ UNCHANGED recorded
    /\ UNCHANGED <<answers, targets, lastFailed, outage, everShared, synEdits, synShifts>>

-----------------------------------------------------------------------------
(* Around it *)

\* A probed URL answers differently from now on.
AnswerChanges(u, r) ==
    /\ synShifts < MaxSynShifts /\ synShifts' = synShifts + 1
    /\ answers[u] # r /\ answers' = [answers EXCEPT ![u] = r]
    /\ UNCHANGED <<targets, round, lastFailed, recorded, outage, everShared, synEdits, synFaults>>

\* The worker and its memory start anew.
RestartWorker ==
    /\ synFaults < MaxSynFaults /\ synFaults' = synFaults + 1
    /\ round' = NoRound /\ lastFailed' = {}
    /\ outage' = [u \in ProbeUrls |-> 0]
    /\ UNCHANGED <<answers, targets, recorded, everShared, synEdits, synShifts>>

SynNext ==
    \/ \E c \in CheckDefs : CreateTarget(c) \/ DeleteTarget(c)
    \/ loadTargets \/ flushResults \/ RestartWorker
    \/ \E c \in CheckDefs, publishes \in BOOLEAN : runCheck(c, publishes)
    \/ \E u \in ProbeUrls, r \in Responses : AnswerChanges(u, r)

SynSpec == SynInit /\ [][SynNext]_synVars

-----------------------------------------------------------------------------
(* Properties *)

\* Where no two checks shared a name, a check that stays down pages once and not in
\* every round (pageOnTransition), whatever is edited and changes between the rounds.
OnePagePerOutage == \A u \in ProbeUrls : outage[u] <= 1

IsDown(c) == c \in targets /\ ~ Passes(c)

\* A check that stays down is remembered as failing and its failure recorded, in spite
\* of results that could not be inserted, publishes that failed and restarts.
DownIsNoticed ==
    \A c \in CheckDefs :
        IsDown(c) ~> (~ IsDown(c) \/ (CheckName(c) \in lastFailed /\ recorded[RowUrl(c)] = "failure"))

\* An outage is noticed and paged once, through edits, failures and restarts.
DownIsToldOnce == [](everShared \/ OnePagePerOutage) /\ DownIsNoticed
=============================================================================
