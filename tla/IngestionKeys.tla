---------------------------- MODULE IngestionKeys ----------------------------
(***************************************************************************)
(* Ingestion keys of gateway-service (auth/ingestion_keys.go) and the      *)
(* decision they feed: which tenant a telemetry export is written for      *)
(* (AuthMiddleware of auth/auth.go on HTTP, authTenant of otlp/tenant.go   *)
(* on gRPC).                                                               *)
(*                                                                         *)
(* The keys are rows of one table; every gateway keeps a cache of answers, *)
(* positive and negative, for KeyTTL.  A change empties the cache of the   *)
(* gateway that made it and of no other.  A row without revocation has     *)
(* revokedAt = Unrevoked, later than every moment, so that "IS NULL OR     *)
(* > now()" is one comparison.  What a key is worth travels as its name:   *)
(* plaintext, prefix and hash are one.                                     *)
(***************************************************************************)
EXTENDS Integers, FiniteSets

CONSTANTS
    Gateways,       \* replicas of gateway-service
    KeyNames,       \* keys that can be minted
    KeyTTL,         \* ingestionKeyCacheTTL, in ticks
    RotationGrace,  \* a rotation's grace, in ticks; 0 is asked for as well
    KeySetups,      \* the scopes and REQUIRE_INGESTION_KEY settings to consider
    MaxKeyTime      \* bound: the clock

ASSUME KeyConstants ==
    /\ IsFiniteSet(Gateways) /\ IsFiniteSet(KeyNames)
    /\ KeySetups \subseteq [scope : {"ingest", "rum"}, require : BOOLEAN]
    /\ KeyTTL \in Nat \ {0} /\ RotationGrace \in Nat /\ MaxKeyTime \in Nat

VARIABLES
    keyRow,      \* the ingestion_keys table
    keyCache,    \* each gateway: its cached answers
    resolving,   \* the lookup that is on its way to the table (bound: one at a time)
    rotating,    \* the rotation between its read and its transaction (bound: one at a time)
    flushing,    \* gateways that changed a key and have not emptied their cache yet
    keyScope,    \* the scope of the keys: a rotated key inherits it, and scopes do not interact
    requireKey,  \* REQUIRE_INGESTION_KEY, read once at start
    export,      \* history: the export this step decided, and what became of it
    keyClock

setup == <<keyScope, requireKey>>
keyVars == <<keyRow, keyCache, resolving, rotating, flushing, setup, keyClock, export>>

Scopes == {"ingest", "rum"}
Paths == {"server", "open"}   \* open: RUM from browsers, and the agents' configuration
Owner == "tenant"            \* the tenant of every key
defaultTenantID == "default"
Refusals == {"forbidden", "unauthorized"}

Unrevoked == MaxKeyTime + RotationGrace + 1
NoRow == [made |-> FALSE, revokedAt |-> 0]
NoEntry == [known |-> FALSE, ok |-> FALSE, at |-> 0]
NoLookup == [pc |-> "idle", by |-> "nobody", key |-> "none", at |-> 0, ok |-> FALSE]
NoRotation == [by |-> "nobody", key |-> "none", grace |-> 0]

\* The condition every statement on the table carries.
ValidKey(k) == keyRow[k].made /\ keyRow[k].revokedAt > keyClock

-----------------------------------------------------------------------------
(* What becomes of an export: its key, the path it arrived on, and whether the
   key resolved *)

TenantFor(path, ok) ==
    IF ok /\ path = "server" /\ keyScope # "ingest" THEN "forbidden"
    ELSE IF ok THEN Owner
    ELSE IF path = "server" /\ requireKey THEN "unauthorized" ELSE defaultTenantID

NoExport == [path |-> "none", to |-> "unauthorized"]
Decide(ok) ==
    \E path \in Paths :
        export' = [path |-> path, to |-> TenantFor(path, ok)]
Quiet == export' = NoExport

-----------------------------------------------------------------------------
(* Resolve *)

\* An answer that has expired is as good as none, and is dropped from the model
\* with the tick that expires it.
Current(entry, now) == IF now - entry.at < KeyTTL THEN entry ELSE NoEntry
Fresh(g, k) == keyCache[g][k].known
Answer(ok, at) == Current([known |-> TRUE, ok |-> ok, at |-> at], keyClock)

ResolveHit(g, k) ==
    /\ Fresh(g, k)
    /\ Decide(keyCache[g][k].ok)
    /\ UNCHANGED <<keyRow, keyCache, resolving, rotating, flushing, setup, keyClock>>

\* The time the answer will carry is taken before the query.
ResolveMiss(g, k) ==
    /\ keyRow[k].made
    /\ resolving = NoLookup /\ ~ Fresh(g, k)
    /\ resolving' = [pc |-> "query", by |-> g, key |-> k, at |-> keyClock, ok |-> FALSE]
    /\ Quiet /\ UNCHANGED <<keyRow, keyCache, rotating, flushing, setup, keyClock>>

ResolveQuery(g) ==
    /\ resolving.by = g /\ resolving.pc = "query"
    /\ resolving' = [resolving EXCEPT !.pc = "store", !.ok = ValidKey(resolving.key)]
    /\ Quiet /\ UNCHANGED <<keyRow, keyCache, rotating, flushing, setup, keyClock>>

\* Faulty variant: the answer is stamped when it is stored.
ResolveStoreLate(g) ==
    LET s == resolving IN
    /\ s.by = g /\ s.pc = "store"
    /\ keyCache' = [keyCache EXCEPT ![g][s.key] = Answer(s.ok, keyClock)]
    /\ resolving' = NoLookup
    /\ Decide(s.ok)
    /\ UNCHANGED <<keyRow, rotating, flushing, setup, keyClock>>

\* The answer, a refusal too, goes into whatever cache there is by now.
ResolveStore(g) ==
    LET s == resolving IN
    /\ s.by = g /\ s.pc = "store"
    /\ keyCache' = [keyCache EXCEPT ![g][s.key] = Answer(s.ok, s.at)]
    /\ resolving' = NoLookup
    /\ Decide(s.ok)
    /\ UNCHANGED <<keyRow, rotating, flushing, setup, keyClock>>

\* A database error: nothing is cached and the key does not resolve.
ResolveFails(g) ==
    LET s == resolving IN
    /\ s.by = g /\ s.pc = "query"
    /\ resolving' = NoLookup
    /\ Decide(FALSE)
    /\ UNCHANGED <<keyRow, keyCache, rotating, flushing, setup, keyClock>>

-----------------------------------------------------------------------------
(* Administration *)

MintedRow == [made |-> TRUE, revokedAt |-> Unrevoked]

CreateIngestionKey(g, k) ==
    /\ ~ keyRow[k].made
    /\ keyRow' = [keyRow EXCEPT ![k] = MintedRow]
    /\ flushing' = flushing \cup {g}
    /\ Quiet /\ UNCHANGED <<keyCache, resolving, rotating, setup, keyClock>>

RevokeIngestionKey(g, k) ==
    /\ ValidKey(k)
    /\ keyRow' = [keyRow EXCEPT ![k].revokedAt = keyClock]
    /\ flushing' = flushing \cup {g}
    /\ Quiet /\ UNCHANGED <<keyCache, resolving, rotating, setup, keyClock>>

invalidateCache(g) ==
    /\ g \in flushing
    /\ flushing' = flushing \ {g}
    /\ keyCache' = [keyCache EXCEPT ![g] = [k \in KeyNames |-> NoEntry]]
    /\ Quiet /\ UNCHANGED <<keyRow, resolving, rotating, setup, keyClock>>

\* RotateIngestionKey: only a valid key is rotated...
RotateLoad(g, k, grace) ==
    /\ rotating = NoRotation /\ ValidKey(k)
    /\ rotating' = [by |-> g, key |-> k, grace |-> grace]
    /\ Quiet /\ UNCHANGED <<keyRow, keyCache, resolving, flushing, setup, keyClock>>

\* ... and the transaction, later, does not ask again.
RotateCommit(g, new) ==
    LET s == rotating IN
    /\ s.by = g /\ ~ keyRow[new].made
    /\ keyRow' = [keyRow EXCEPT ![new] = MintedRow,
                                ![s.key].revokedAt = keyClock + s.grace]
    /\ rotating' = NoRotation
    /\ flushing' = flushing \cup {g}
    /\ Quiet /\ UNCHANGED <<keyCache, resolving, setup, keyClock>>

RotateFails(g) ==
    /\ rotating.by = g
    /\ rotating' = NoRotation
    /\ Quiet /\ UNCHANGED <<keyRow, keyCache, resolving, flushing, setup, keyClock>>

-----------------------------------------------------------------------------

KeyTick ==
    /\ keyClock < MaxKeyTime
    /\ keyClock' = keyClock + 1
    /\ keyCache' = [g \in Gateways |-> [k \in KeyNames |-> Current(keyCache[g][k], keyClock + 1)]]
    /\ Quiet /\ UNCHANGED <<keyRow, resolving, rotating, flushing, setup>>

KeyInit ==
    /\ keyRow = [k \in KeyNames |-> NoRow]
    /\ keyCache = [g \in Gateways |-> [k \in KeyNames |-> NoEntry]]
    /\ resolving = NoLookup
    /\ rotating = NoRotation
    /\ flushing = {}
    /\ \E s \in KeySetups : keyScope = s.scope /\ requireKey = s.require
    /\ export = NoExport
    /\ keyClock = 0

KeyNext ==
    \/ KeyTick
    \/ \E g \in Gateways :
          \/ \E k \in KeyNames : ResolveHit(g, k) \/ ResolveMiss(g, k)
          \/ ResolveQuery(g) \/ ResolveStore(g) \/ ResolveFails(g)
          \/ \E k \in KeyNames : CreateIngestionKey(g, k) \/ RevokeIngestionKey(g, k) \/ RotateCommit(g, k)
          \/ \E k \in KeyNames, grace \in {0, RotationGrace} : RotateLoad(g, k, grace)
          \/ RotateFails(g) \/ invalidateCache(g)

KeySpec == KeyInit /\ [][KeyNext]_keyVars

-----------------------------------------------------------------------------
(* Properties *)

KeyTypeOK ==
    /\ keyRow \in [KeyNames -> [made : BOOLEAN, revokedAt : 0..Unrevoked]]
    /\ keyCache \in [Gateways -> [KeyNames -> [known : BOOLEAN, ok : BOOLEAN, at : 0..MaxKeyTime]]]
    /\ resolving \in [pc : {"idle", "query", "store"}, by : Gateways \cup {"nobody"},
                      key : KeyNames \cup {"none"}, at : 0..MaxKeyTime, ok : BOOLEAN]
    /\ rotating \in [by : Gateways \cup {"nobody"}, key : KeyNames \cup {"none"},
                     grace : 0..RotationGrace]
    /\ flushing \subseteq Gateways
    /\ keyScope \in Scopes /\ requireKey \in BOOLEAN
    /\ export \in [path : Paths \cup {"none"},
                   to : Refusals \cup {Owner, defaultTenantID}]
    /\ keyClock \in 0..MaxKeyTime

\* "The cutover takes effect within a TTL": no gateway, the ones that were not
\* told included, serves a key from its cache a TTL after the key was revoked or
\* its grace ended, though lookups that were under way put answers from before the
\* revocation back into a cache that was already emptied.
RevokedWithinTTL ==
    \A g \in Gateways, k \in KeyNames :
        Fresh(g, k) /\ keyCache[g][k].ok => keyClock - keyRow[k].revokedAt < KeyTTL

\* A public RUM token "must never be usable to write server telemetry", by a
\* cached answer no more than by a fresh one.
RumKeysWriteRumOnly ==
    export.to = Owner /\ export.path = "server" => keyScope = "ingest"

\* A key opens what it is for while it is valid: no cache of any replica prolongs its
\* life by more than a TTL or widens its scope.
KeysOpenWhatTheyMay == RevokedWithinTTL /\ RumKeysWriteRumOnly
=============================================================================
