---------------------------- MODULE MCOperations ----------------------------
(***************************************************************************)
(* What wakes and what helps an operator: the pages of incidents, of error *)
(* groups and of synthetic checks, the channels a tenant configures, the   *)
(* LLM providers that answer, and the runbooks that change a cluster.      *)
(* These parts share no state, so one model holds them all: a behaviour    *)
(* follows one part, chosen at the start, and the others stay in one       *)
(* initial state, which checks each as a model of its own would.           *)
(***************************************************************************)
EXTENDS Notifications, ErrorTracking, Synthetics, ProviderChain,
        ChannelStore, ClusterActions, TLC

CONSTANT Parts   \* the parts this run is about

ASSUME PartsAreKnown == Parts \subseteq {"paging", "errors", "synthetics", "llm", "channels", "cluster"}

VARIABLE part    \* the part this behaviour follows

-----------------------------------------------------------------------------
(* Constants *)

\* One alert of one service.
OneAlert == {[id |-> 1, tenant |-> "t", service |-> "api", level |-> 4]}
ApiOnly == [s \in {"api"} |-> {}]
OnePartition == [s \in {"api"} |-> 1]
PagerAfterSlack == <<"slack", "pagerduty">>

\* Checks of one and of two steps, two of them with one name, one of a refused address.
Plain == [status |-> 0, bounded |-> FALSE, contains |-> FALSE]
ProbeStep(u, a) == [url |-> u, assert |-> a]
FourChecks ==
    {[name |-> "", steps |-> <<ProbeStep("u1", Plain)>>],
     [name |-> "shop", steps |-> <<ProbeStep("u1", [Plain EXCEPT !.bounded = TRUE]), ProbeStep("u2", Plain)>>],
     [name |-> "shop", steps |-> <<ProbeStep("u2", [Plain EXCEPT !.contains = TRUE])>>],
     [name |-> "", steps |-> <<ProbeStep("u3", Plain)>>]}
\* A good answer, a slow one without the text, and none.
ThreeAnswers == {[status |-> 200, slow |-> FALSE, body |-> TRUE],
                 [status |-> 200, slow |-> TRUE, body |-> FALSE],
                 [status |-> 0, slow |-> FALSE, body |-> FALSE]}

\* A channel of each kind of secret, one that is required and one that is not; an edit
\* that sends nothing, one that sends empty values, and one with a new secret.
SlackAndEmail ==
    {[type |-> "slack", config |-> ("webhook_url" :> "s1")],
     [type |-> "email", config |-> ("host" :> "h") @@ ("to" :> "o") @@ ("password" :> "s1")]}
ThreePatches == {<<>>, ("webhook_url" :> "") @@ ("to" :> ""), ("webhook_url" :> "s2") @@ ("password" :> "s2")}

\* A rollback of the last change, one to a revision, a restart and a scaling.
Ask(a, n) == [action |-> a, want |-> n]
FourRequests == {Ask("ROLLBACK", 0), Ask("ROLLBACK", 2), Ask("RESTART_PODS", 0), Ask("SCALE", 2)}

-----------------------------------------------------------------------------

OperationsInit ==
    /\ part \in Parts
    /\ NotifInit /\ ErrInit /\ SynInit /\ ChainInit /\ ChInit
    /\ ClusterInit
    /\ part # "errors" => triageKnown
    /\ part # "synthetics" => targets = {}
    /\ part # "channels" => cipher = [p \in ChReplicas |-> "k1"]
    /\ part # "cluster" => mode = "plan" /\ connected

operationsVars == <<part, pipeVars, errVars, synVars, chainVars, chVars, clusterVars>>

OperationsNext ==
    \/ /\ part = "paging" /\ NotifNext
       /\ UNCHANGED <<part, errVars, synVars, chainVars, chVars, clusterVars>>
    \/ /\ part = "errors" /\ ErrNext
       /\ UNCHANGED <<part, pipeVars, synVars, chainVars, chVars, clusterVars>>
    \/ /\ part = "synthetics" /\ SynNext
       /\ UNCHANGED <<part, pipeVars, errVars, chainVars, chVars, clusterVars>>
    \/ /\ part = "llm" /\ ChainNext
       /\ UNCHANGED <<part, pipeVars, errVars, synVars, chVars, clusterVars>>
    \/ /\ part = "channels" /\ ChNext
       /\ UNCHANGED <<part, pipeVars, errVars, synVars, chainVars, clusterVars>>
    \/ /\ part = "cluster" /\ ClusterNext
       /\ UNCHANGED <<part, pipeVars, errVars, synVars, chainVars, chVars>>

(* The fairness of each part, in the behaviours that follow it *)

\* Time passes, the worker ticks, and its queries end.
Fair_errors ==
    /\ WF_errVars(part = "errors" /\ ErrTick)
    /\ \A s \in Scanners :
          /\ WF_errVars(part = "errors" /\ runRegressionScan(s))
          /\ WF_errVars(part = "errors" /\ ReadTriage(s))
          /\ WF_errVars(part = "errors" /\ autoReopen(s))

\* Rounds follow each other; a probe ends, and its answer is looked at.
Fair_synthetics ==
    /\ WF_synVars(part = "synthetics" /\ loadTargets)
    /\ WF_synVars(part = "synthetics" /\ flushResults)
    /\ \A c \in CheckDefs :
          /\ WF_synVars(part = "synthetics" /\ runCheck(c, TRUE))

\* Requests run on, providers answer, and cooldowns pass.
Fair_llm ==
    /\ WF_chainVars(part = "llm" /\ CooldownTick)
    /\ \A c \in ChatNames :
          /\ WF_chainVars(part = "llm" /\ Chat(c))
          /\ WF_chainVars(part = "llm" /\ CallProvider(c))
          /\ WF_chainVars(part = "llm" /\ recordSuccess(c))
          /\ WF_chainVars(part = "llm" /\ recordFailure(c))
          /\ WF_chainVars(part = "llm" /\ GiveUp(c))

OperationsFairSpec ==
    /\ OperationsInit /\ [][OperationsNext]_operationsVars
    /\ Fair_errors /\ Fair_synthetics /\ Fair_llm

\* The type invariants of the parts.
OperationsTypeOK ==
    CASE part = "paging" -> NotifTypeOK
      [] part = "errors" -> ErrTypeOK
      [] part = "synthetics" -> SynTypeOK
      [] part = "llm" -> ChainTypeOK
      [] part = "channels" -> ChTypeOK
      [] part = "cluster" -> ClusterTypeOK
=============================================================================
