----------------------------- MODULE TenantPurge -----------------------------
(***************************************************************************)
(* Deletion of a tenant's data (gateway-service tenantdata/purge.go) while *)
(* the system runs: the purge visits the stores one after the other, goes  *)
(* on after a store that fails, and reports; meanwhile exports that were   *)
(* let in are still on their way to their store, key caches of the         *)
(* gateways still answer for keys that are gone, and the usage flushers    *)
(* still mirror the counters in Redis.                                     *)
(*                                                                         *)
(* A store is one entry of the purge's sequence; "holds" says that it has  *)
(* data of this tenant.  Quickwit answers before it has deleted.           *)
(***************************************************************************)
EXTENDS Naturals, Sequences, FiniteSets

CONSTANTS
    Writers,         \* exports that may be on their way
    PurgeGateways,   \* replicas of gateway-service, each with a key cache
    MaxPurges,       \* bound: purges
    MaxPurgeFaults   \* bound: stores that fail

ASSUME PurgeConstants ==
    /\ IsFiniteSet(Writers) /\ IsFiniteSet(PurgeGateways)
    /\ MaxPurges \in Nat /\ MaxPurgeFaults \in Nat

VARIABLES
    holds,      \* the stores with data of this tenant
    redis,      \* the usage counters of this tenant exist in Redis
    cachedKey,  \* gateways that would still accept the tenant's key
    writing,    \* each export: idle, or the store it is about to write
    purge,      \* the purge: stores to visit, whether it closes the account, errors
    deleting,   \* Quickwit: a delete task it has accepted
    report,     \* the last purge that ended: none, partial or complete; and whether it was full
    since,      \* history: stores written after the last purge had visited them
    purges, purgeFaults

purgeVars == <<holds, redis, cachedKey, writing, purge, deleting, report, since, purges, purgeFaults>>

Telemetry == {"clickhouse", "quickwit", "topology", "derived"}   \* written by exports
DataStores == <<"clickhouse", "quickwit", "topology", "derived", "usage_daily">>
AccountStores == <<"config", "ingestion_keys", "users", "tenants">>
Elements(s) == {s[i] : i \in DOMAIN s}
AllStores == Elements(DataStores) \cup Elements(AccountStores)
NoPurge == [on |-> FALSE, full |-> FALSE, todo |-> <<>>, errors |-> {}]
NoReport == [end |-> "none", full |-> FALSE]
PurgeFault == purgeFaults < MaxPurgeFaults /\ purgeFaults' = purgeFaults + 1

\* A store the purge has visited, and does not visit again, gets data.
Wrote(store) ==
    /\ holds' = holds \cup {store}
    /\ since' = IF store \in Elements(purge.todo) THEN since ELSE since \cup {store}

-----------------------------------------------------------------------------
(* The tenant's traffic *)

\* Resolve: the key is found in the table, and cached.
ResolveKey(g) ==
    /\ g \notin cachedKey /\ "ingestion_keys" \in holds
    /\ cachedKey' = cachedKey \cup {g}
    /\ UNCHANGED <<holds, redis, writing, purge, deleting, report, since, purges, purgeFaults>>

KeyExpires(g) ==
    /\ g \in cachedKey
    /\ cachedKey' = cachedKey \ {g}
    /\ UNCHANGED <<holds, redis, writing, purge, deleting, report, since, purges, purgeFaults>>

\* An export is let in and counted, and will reach a store later: a collector, the
\* log topic and the services behind it are in between.
ExportAccepted(w, g, store) ==
    /\ writing[w] = "idle" /\ g \in cachedKey
    /\ writing' = [writing EXCEPT ![w] = store]
    /\ redis' = TRUE
    /\ UNCHANGED <<holds, cachedKey, purge, deleting, report, since, purges, purgeFaults>>

ExportLands(w) ==
    /\ writing[w] # "idle"
    /\ Wrote(writing[w])
    /\ writing' = [writing EXCEPT ![w] = "idle"]
    /\ UNCHANGED <<redis, cachedKey, purge, deleting, report, purges, purgeFaults>>

\* Meter.flush: the row mirrors Redis, where nothing removes the counter.
FlushUsage ==
    /\ redis
    /\ Wrote("usage_daily")
    /\ UNCHANGED <<redis, cachedKey, writing, purge, deleting, report, purges, purgeFaults>>

-----------------------------------------------------------------------------
(* PurgeTenant *)

\* The whole handler is admin-gated; a closed account's token still passes.
StartPurge(full) ==
    /\ ~ purge.on /\ purges < MaxPurges
    /\ purge' = [on |-> TRUE, full |-> full, errors |-> {},
                 todo |-> DataStores \o (IF full THEN AccountStores ELSE <<>>)]
    /\ since' = {}
    /\ purges' = purges + 1
    /\ report' = NoReport
    /\ UNCHANGED <<holds, redis, cachedKey, writing, deleting, purgeFaults>>

\* One store; Quickwit only takes the task.
VisitStore ==
    LET store == Head(purge.todo) IN
    /\ purge.todo # <<>>
    /\ purge' = [purge EXCEPT !.todo = Tail(@)]
    /\ IF store = "quickwit" THEN deleting' = TRUE /\ UNCHANGED holds
       ELSE holds' = holds \ {store} /\ UNCHANGED deleting
    /\ UNCHANGED <<redis, cachedKey, writing, report, since, purges, purgeFaults>>

\* Quickwit carries out its task on what it holds by then.
DeleteTask ==
    /\ deleting
    /\ deleting' = FALSE
    /\ holds' = holds \ {"quickwit"}
    /\ since' = since \ {"quickwit"}
    /\ UNCHANGED <<redis, cachedKey, writing, purge, report, purges, purgeFaults>>

\* Faulty variant: a store that fails is passed over without a word.
StoreFailsQuietly ==
    /\ purge.todo # <<>> /\ PurgeFault
    /\ purge' = [purge EXCEPT !.todo = Tail(@)]
    /\ UNCHANGED <<holds, redis, cachedKey, writing, deleting, report, since, purges>>

\* A store fails: it is reported, and the others are still purged.
StoreFails ==
    /\ purge.todo # <<>> /\ PurgeFault
    /\ purge' = [purge EXCEPT !.todo = Tail(@), !.errors = @ \cup {Head(purge.todo)}]
    /\ UNCHANGED <<holds, redis, cachedKey, writing, deleting, report, since, purges>>

EndPurge ==
    /\ purge.on /\ purge.todo = <<>>
    /\ report' = [end |-> IF purge.errors = {} THEN "complete" ELSE "partial", full |-> purge.full]
    /\ purge' = NoPurge
    /\ UNCHANGED <<holds, redis, cachedKey, writing, deleting, since, purges, purgeFaults>>

-----------------------------------------------------------------------------

PurgeInit ==
    /\ holds = AllStores
    /\ redis \in BOOLEAN
    /\ cachedKey = {}
    /\ writing = [w \in Writers |-> "idle"]
    /\ purge = NoPurge
    /\ deleting = FALSE
    /\ report = NoReport
    /\ since = {}
    /\ purges = 0 /\ purgeFaults = 0

PurgeNext ==
    \/ \E g \in PurgeGateways :
          \/ ResolveKey(g) \/ KeyExpires(g)
          \/ \E w \in Writers, store \in Telemetry : ExportAccepted(w, g, store)
    \/ \E w \in Writers : ExportLands(w)
    \/ FlushUsage
    \/ \E full \in BOOLEAN : StartPurge(full)
    \/ VisitStore \/ DeleteTask \/ StoreFails \/ EndPurge

PurgeSpec == PurgeInit /\ [][PurgeNext]_purgeVars

-----------------------------------------------------------------------------
(* Properties *)

PurgeTypeOK ==
    /\ holds \subseteq AllStores /\ since \subseteq AllStores /\ redis \in BOOLEAN
    /\ cachedKey \subseteq PurgeGateways
    /\ writing \in [Writers -> Telemetry \cup {"idle"}]
    /\ purge.errors \subseteq AllStores /\ deleting \in BOOLEAN
    /\ report \in [end : {"none", "complete", "partial"}, full : BOOLEAN]

\* "'Delete my data' is actually done when the call succeeds": after a purge that
\* reported no error, a store it covers holds only what was written there behind
\* the purge's back (an export on its way, a key still cached, the usage flusher),
\* or what Quickwit has yet to delete.
CompleteMeansGone ==
    report.end = "complete" =>
        \A store \in holds \cap (Elements(DataStores) \cup
                                 (IF report.full THEN Elements(AccountStores) ELSE {})) :
            store \in since \/ (store = "quickwit" /\ deleting)

=============================================================================
