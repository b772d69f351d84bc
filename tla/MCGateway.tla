------------------------------ MODULE MCGateway ------------------------------
(***************************************************************************)
(* The parts of gateway-service that share no state with each other, in    *)
(* one model: a behaviour follows one part, chosen at the start, and the   *)
(* others stay in one initial state.  Since no variable belongs to two     *)
(* parts, this checks each part exactly as a model of its own would.       *)
(***************************************************************************)
EXTENDS IngestionKeys, Sessions, Credentials, SecondFactor, RbacEngine,
        Metering, Billing, TenantPurge, TLC

CONSTANT Parts   \* the parts this run is about

ASSUME PartsAreKnown ==
    Parts \subseteq {"keys", "sessions", "credentials", "mfa", "rbac", "metering", "billing", "purge"}

VARIABLE part    \* the part this behaviour follows

-----------------------------------------------------------------------------
(* Constants *)

ServerAndRum == {[scope |-> "ingest", require |-> TRUE], [scope |-> "rum", require |-> FALSE]}

ReadWrite == {{<<"*", "read">>, <<"incidents", "write">>}}
Policies == <<[effect |-> "deny", resource |-> "*", cases |-> {<<"oncall", "write">>}],
              [effect |-> "allow", resource |-> "incidents",
               cases |-> {"admin", "oncall"} \X {"read", "write"}]>>
AllRequests == [role : {"admin", "oncall"}, resource : {"incidents", "settings"}, action : {"read", "write"}]

NoPolicies == <<>>

TwoLimits == ("free" :> 1) @@ ("standard" :> 2)
TwoPlans == ("s1" :> "standard") @@ ("s2" :> "premium")

\* The sets of two kinds are given the same two members each: replicas of the key and the
\* metering parts, logins and challenges; keys, resets, codes and exports.  Members of a kind are interchangeable.
Interchangeable == Permutations(Gateways) \cup Permutations(KeyNames)

-----------------------------------------------------------------------------

GatewayInit ==
    /\ part \in Parts
    /\ KeyInit /\ SessInit /\ CredInit /\ MfaInit /\ RbacInit
    /\ MeterInit /\ BillInit /\ PurgeInit
    /\ part # "keys" => keyScope = "ingest" /\ requireKey
    /\ part # "credentials" => account.exists
    /\ part # "metering" => plan = "free"
    /\ part # "purge" => ~ redis

gatewayVars == <<part, keyVars, sessVars, credVars, mfaVars, rbacVars,
                 meterVars, billVars, purgeVars>>

GatewayNext ==
    \/ /\ part = "keys" /\ KeyNext
       /\ UNCHANGED <<part, sessVars, credVars, mfaVars, rbacVars, meterVars, billVars, purgeVars>>
    \/ /\ part = "sessions" /\ SessNext
       /\ UNCHANGED <<part, keyVars, credVars, mfaVars, rbacVars, meterVars, billVars, purgeVars>>
    \/ /\ part = "credentials" /\ CredNext
       /\ UNCHANGED <<part, keyVars, sessVars, mfaVars, rbacVars, meterVars, billVars, purgeVars>>
    \/ /\ part = "mfa" /\ MfaNext
       /\ UNCHANGED <<part, keyVars, sessVars, credVars, rbacVars, meterVars, billVars, purgeVars>>
    \/ /\ part = "rbac" /\ RbacNext
       /\ UNCHANGED <<part, keyVars, sessVars, credVars, mfaVars, meterVars, billVars, purgeVars>>
    \/ /\ part = "metering" /\ MeterNext
       /\ UNCHANGED <<part, keyVars, sessVars, credVars, mfaVars, rbacVars, billVars, purgeVars>>
    \/ /\ part = "billing" /\ BillNext
       /\ UNCHANGED <<part, keyVars, sessVars, credVars, mfaVars, rbacVars, meterVars, purgeVars>>
    \/ /\ part = "purge" /\ PurgeNext
       /\ UNCHANGED <<part, keyVars, sessVars, credVars, mfaVars, rbacVars, meterVars, billVars>>

GatewaySpec == GatewayInit /\ [][GatewayNext]_gatewayVars

(* The fairness of each part, in the behaviours that follow it *)

\* Time passes, requests keep arriving at every gateway, and a query is answered.
Fair_sessions ==
    \A g \in SessGateways :
        /\ WF_sessVars(part = "sessions" /\ CacheAges(g))
        /\ WF_sessVars(part = "sessions" /\ markRevokedLocal(g))
        /\ \A q \in Refreshers :
              WF_sessVars(part = "sessions" /\ RefreshQuery(g, q)) /\ WF_sessVars(part = "sessions" /\ RefreshStore(g, q))

\* Time passes, requests keep arriving, and the database answers.
Fair_rbac ==
    /\ WF_rbacVars(part = "rbac" /\ CopyAges)
    /\ \A q \in Reloaders :
          /\ WF_rbacVars(part = "rbac" /\ refreshIfStale(q)) /\ WF_rbacVars(part = "rbac" /\ LoadRoles(q))
          /\ WF_rbacVars(part = "rbac" /\ LoadPolicies(q)) /\ WF_rbacVars(part = "rbac" /\ Store(q))

GatewayFairSpec ==
    /\ GatewaySpec
    /\ Fair_sessions /\ Fair_rbac

\* The type invariants of the parts.
GatewayTypeOK ==
    CASE part = "keys" -> KeyTypeOK
      [] part = "sessions" -> SessTypeOK
      [] part = "credentials" -> CredTypeOK
      [] part = "mfa" -> MfaTypeOK
      [] part = "rbac" -> RbacTypeOK
      [] part = "metering" -> MeterTypeOK
      [] part = "billing" -> BillTypeOK
      [] part = "purge" -> PurgeTypeOK
=============================================================================
