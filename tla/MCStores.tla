---------------------------- MODULE MCStores --------------------------------
(***************************************************************************)
(* What is kept and shared: the write-ahead log, the audit trail, the      *)
(* service graph and the spans that build it, the request counters of the  *)
(* gateways, the stored alerts with their silences, and the schema a       *)
(* service brings up to date when it starts. These parts share no state,   *)
(* so one model holds them all: a behaviour follows one part, chosen at    *)
(* the start, and the others stay in one initial state, which checks each  *)
(* as a model of its own would.                                            *)
(***************************************************************************)
EXTENDS WalLog, AuditChain, Topology, SpanEdges, RateLimiter, AlertListing,
        Migrations, TLC

CONSTANT Parts   \* the parts this run is about

ASSUME PartsAreKnown ==
    Parts \subseteq {"wal", "audit", "topology", "spans", "limits", "listing", "schema"}

VARIABLE part    \* the part this behaviour follows

-----------------------------------------------------------------------------
(* Constants *)

\* Records about one state or another; two legacy rows.
Action(a, s) == [action |-> a, state |-> s]
TwoStates == {Action("update", "on"), Action("update", "off")}
TwoLegacy == <<Action("update", "on"), Action("update", "off")>>

\* a calls b calls c; the span of b is delivered twice.
CallChain == ("a" :> "none") @@ ("b" :> "a") @@ ("c" :> "b")
DeliveredSpan == ("d1" :> "a") @@ ("d2" :> "b") @@ ("d3" :> "b") @@ ("d4" :> "c")

\* A rule that is on or off, and one of a higher limit before it.
LimitRule(n, p, l, e) == [name |-> n, priority |-> p, limit |-> l, matches |-> TRUE, enabled |-> e]
ThreeRules == {LimitRule("api", 1, 1, TRUE), LimitRule("api", 1, 1, FALSE), LimitRule("login", 0, 2, TRUE)}

\* A replica of the old release beside those of the new one.
TwoReleases == [s \in Starters |-> IF s = "old" THEN 1 ELSE 2]

-----------------------------------------------------------------------------

StoresInit ==
    /\ part \in Parts
    /\ WalInit /\ AuditInit /\ TopoInit /\ SpanInit /\ LimInit
    /\ ListInit /\ MigInit
    /\ part # "topology" => store = "postgres"
    /\ part # "limits" => limTable = {LimitRule("api", 1, 1, TRUE)}

storesVars == <<part, walVars, auditVars, topoVars, spanVars, limVars, listVars, migVars>>

StoresNext ==
    \/ /\ part = "wal" /\ WalNext
       /\ UNCHANGED <<part, auditVars, topoVars, spanVars, limVars, listVars, migVars>>
    \/ /\ part = "audit" /\ AuditNext
       /\ UNCHANGED <<part, walVars, topoVars, spanVars, limVars, listVars, migVars>>
    \/ /\ part = "topology" /\ TopoNext
       /\ UNCHANGED <<part, walVars, auditVars, spanVars, limVars, listVars, migVars>>
    \/ /\ part = "spans" /\ SpanNext
       /\ UNCHANGED <<part, walVars, auditVars, topoVars, limVars, listVars, migVars>>
    \/ /\ part = "limits" /\ LimNext
       /\ UNCHANGED <<part, walVars, auditVars, topoVars, spanVars, listVars, migVars>>
    \/ /\ part = "listing" /\ ListNext
       /\ UNCHANGED <<part, walVars, auditVars, topoVars, spanVars, limVars, migVars>>
    \/ /\ part = "schema" /\ MigNext
       /\ UNCHANGED <<part, walVars, auditVars, topoVars, spanVars, limVars, listVars>>

(* The fairness of each part, in the behaviours that follow it *)

\* A cached graph expires.
Fair_topology ==
    /\ WF_topoVars(part = "topology" /\ ExpireGraph)

\* Time passes, the page is loaded again and again, and queries end.
Fair_listing ==
    /\ WF_listVars(part = "listing" /\ ListTick)
    /\ WF_listVars(part = "listing" /\ ListAlerts)
    /\ WF_listVars(part = "listing" /\ ActiveForTenant)
    /\ WF_listVars(part = "listing" /\ annotateSilenced)

StoresFairSpec ==
    /\ StoresInit /\ [][StoresNext]_storesVars
    /\ Fair_topology /\ Fair_listing

\* The type invariants of the parts.
StoresTypeOK ==
    CASE part = "wal" -> WalTypeOK
      [] part = "audit" -> AuditTypeOK
      [] part = "topology" -> TopoTypeOK
      [] part = "spans" -> SpanTypeOK
      [] part = "limits" -> LimTypeOK
      [] part = "listing" -> ListTypeOK
      [] part = "schema" -> MigTypeOK
=============================================================================
