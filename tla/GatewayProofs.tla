---------------------------- MODULE GatewayProofs ----------------------------
(***************************************************************************)
(* Proofs about the parts of gateway-service, for every value of the       *)
(* constants:                                                              *)
(*   - ingestion keys: no cache of any replica prolongs a key's life by    *)
(*     more than the time an answer is cached, or widens its scope;        *)
(*   - the second factor: a recovery code admits once and the secret in    *)
(*     force was confirmed, but for the two named races;                   *)
(*   - logins: a session ends with the password and the account it began   *)
(*     under, but for the named exceptions;                                *)
(*   - the purge: a complete one leaves only what was written behind it;   *)
(*   - billing: the row has what the last event says, or events crossed;   *)
(*   - metering: what is counted is what was sent, the mirror shows no     *)
(*     more, and the overshoot of a quota is bounded;                      *)
(*   - roles and policies: a copy that read one version of the rows        *)
(*     decides as they do, and no failed query locks administrators out;   *)
(*   - the composition of these and of sessions keeps their types.         *)
(***************************************************************************)
EXTENDS MCGateway,
        SequenceTheorems, FiniteSetTheorems, WellFoundedInduction, TLAPS

-----------------------------------------------------------------------------
(* Ingestion keys *)

KeyRows == [made : BOOLEAN, revokedAt : 0..Unrevoked]
KeyEntries == [known : BOOLEAN, ok : BOOLEAN, at : 0..MaxKeyTime]

\* An answer that says a key is valid was not there before the key could be
\* valid: the key was revoked, if at all, no earlier than the answer's time.
AnswersOK == \A g \in Gateways, k \in KeyNames :
    keyCache[g][k].known =>
        /\ keyCache[g][k].at <= keyClock /\ keyClock - keyCache[g][k].at < KeyTTL
        /\ keyCache[g][k].ok => keyRow[k].made /\ keyRow[k].revokedAt >= keyCache[g][k].at

\* The same of an answer on its way to a cache that may have been emptied.
LookupOK ==
    /\ resolving.at <= keyClock
    /\ resolving.pc # "idle" => resolving.key \in KeyNames
    /\ resolving.pc = "store" /\ resolving.ok =>
           keyRow[resolving.key].made /\ keyRow[resolving.key].revokedAt >= resolving.at

\* The inductive invariant.
KeyIInv == KeyTypeOK /\ AnswersOK /\ LookupOK /\ RumKeysWriteRumOnly

LEMMA KeyBounds == KeyTTL \in Nat /\ KeyTTL > 0 /\ RotationGrace \in Nat /\ MaxKeyTime \in Nat
                   /\ Unrevoked \in Nat /\ Unrevoked = MaxKeyTime + RotationGrace + 1
  BY KeyConstants DEF Unrevoked

\* Whatever an export's key resolved to, the export is decided by its scope.
LEMMA DecidedByScope ==
    ASSUME KeyTypeOK, NEW ok \in BOOLEAN, Decide(ok) \/ Quiet, UNCHANGED setup
    PROVE  /\ export' \in [path : Paths \cup {"none"}, to : Refusals \cup {Owner, defaultTenantID}]
           /\ RumKeysWriteRumOnly'
  <1>1. CASE Decide(ok)
    <2>1. PICK path \in Paths : export' = [path |-> path, to |-> TenantFor(path, ok)]
      BY <1>1 DEF Decide
    <2>2. TenantFor(path, ok) \in Refusals \cup {Owner, defaultTenantID}
      BY DEF TenantFor, Refusals
    <2>3. TenantFor(path, ok) = Owner /\ path = "server" => keyScope = "ingest"
      BY DEF TenantFor, Owner, defaultTenantID
    <2>4. keyScope' = keyScope
      BY DEF setup
    <2>5. QED
      BY <2>1, <2>2, <2>3, <2>4 DEF RumKeysWriteRumOnly
  <1>2. CASE Quiet
    BY <1>2 DEF Quiet, NoExport, RumKeysWriteRumOnly, Refusals, Owner
  <1>3. QED
    BY <1>1, <1>2

\* An entry as it is put into a cache, or kept there at a tick.
LEMMA CurrentEntry ==
    ASSUME NEW e \in KeyEntries, NEW now \in 0..MaxKeyTime
    PROVE  /\ Current(e, now) \in KeyEntries
           /\ Current(e, now).known => Current(e, now) = e /\ now - e.at < KeyTTL
  <1>1. NoEntry \in KeyEntries /\ ~ NoEntry.known
    BY KeyBounds DEF NoEntry, KeyEntries
  <1>2. QED
    BY <1>1 DEF Current

\* A step that leaves the table and the clock alone and may change one entry.
LEMMA KeyRowsKept ==
    ASSUME KeyIInv, UNCHANGED <<keyRow, keyClock>>, resolving' = resolving
    PROVE  LookupOK'
  BY DEF KeyIInv, LookupOK

\* A write of the table keeps every answer right: a key that is made stays so,
\* and is revoked now or later.
LEMMA KeyRowsWritten ==
    ASSUME KeyIInv, UNCHANGED <<keyCache, resolving, keyClock>>,
           keyRow' \in [KeyNames -> KeyRows],
           \A k \in KeyNames : keyRow[k].made =>
               /\ keyRow'[k].made
               /\ keyRow'[k].revokedAt >= keyRow[k].revokedAt \/ keyRow'[k].revokedAt >= keyClock
    PROVE  AnswersOK' /\ LookupOK'
  <1>1. /\ keyClock \in 0..MaxKeyTime /\ MaxKeyTime \in Nat /\ Unrevoked \in Nat
        /\ \A k \in KeyNames : keyRow[k].revokedAt \in 0..Unrevoked /\ keyRow'[k].revokedAt \in 0..Unrevoked
    BY KeyBounds DEF KeyIInv, KeyTypeOK, KeyRows
  <1>2. AnswersOK'
    <2>1. SUFFICES ASSUME NEW g \in Gateways, NEW k \in KeyNames, keyCache[g][k].known, keyCache[g][k].ok
                   PROVE  keyRow'[k].made /\ keyRow'[k].revokedAt >= keyCache[g][k].at
      BY DEF KeyIInv, AnswersOK
    <2>2. keyCache[g][k].at <= keyClock /\ keyRow[k].made /\ keyRow[k].revokedAt >= keyCache[g][k].at
      BY <2>1 DEF KeyIInv, AnswersOK
    <2>3. keyCache[g][k].at \in 0..MaxKeyTime
      BY DEF KeyIInv, KeyTypeOK
    <2>4. QED
      BY <1>1, <2>2, <2>3
  <1>3. LookupOK'
    <2>1. resolving.at \in 0..MaxKeyTime
      BY DEF KeyIInv, KeyTypeOK
    <2>2. QED
      BY <1>1, <2>1 DEF KeyIInv, LookupOK
  <1>4. QED
    BY <1>2, <1>3

LEMMA InitKeyIInv == ASSUME KeyInit PROVE KeyIInv
  <1>1. \E s \in KeySetups : keyScope = s.scope /\ requireKey = s.require
    BY DEF KeyInit
  <1>2. keyScope \in Scopes /\ requireKey \in BOOLEAN
    BY <1>1, KeyConstants DEF Scopes
  <1>3. KeyTypeOK
    BY <1>2, KeyBounds
    DEF KeyInit, KeyTypeOK, NoRow, NoEntry, NoLookup, NoRotation, NoExport, Refusals
  <1>4. AnswersOK /\ LookupOK /\ RumKeysWriteRumOnly
    BY DEF KeyInit, AnswersOK, LookupOK, RumKeysWriteRumOnly, NoEntry, NoLookup, NoExport
  <1>5. QED
    BY <1>3, <1>4 DEF KeyIInv

\* The steps of a lookup.
LEMMA ResolveKeeps ==
    ASSUME KeyIInv, NEW g \in Gateways,
           \/ \E k \in KeyNames : ResolveHit(g, k) \/ ResolveMiss(g, k)
           \/ ResolveQuery(g) \/ ResolveStore(g) \/ ResolveFails(g)
    PROVE  KeyIInv'
  <1>1. KeyTypeOK /\ AnswersOK /\ LookupOK
    BY DEF KeyIInv
  <1>2. /\ keyRow \in [KeyNames -> KeyRows] /\ keyCache \in [Gateways -> [KeyNames -> KeyEntries]]
        /\ keyClock \in 0..MaxKeyTime
    BY <1>1 DEF KeyTypeOK, KeyRows, KeyEntries
  <1>3. ASSUME NEW k \in KeyNames, ResolveHit(g, k) PROVE KeyIInv'
    <2>1. /\ Decide(keyCache[g][k].ok)
          /\ UNCHANGED <<keyRow, keyCache, resolving, rotating, flushing, setup, keyClock>>
      BY <1>3 DEF ResolveHit
    <2>2. keyCache[g][k].ok \in BOOLEAN
      BY <1>2 DEF KeyEntries
    <2>3. /\ export' \in [path : Paths \cup {"none"}, to : Refusals \cup {Owner, defaultTenantID}]
          /\ RumKeysWriteRumOnly'
      BY <1>1, <2>1, <2>2, DecidedByScope
    <2>4. KeyTypeOK' /\ AnswersOK' /\ LookupOK'
      BY <1>1, <2>1, <2>3 DEF KeyTypeOK, AnswersOK, LookupOK, setup
    <2>5. QED
      BY <2>3, <2>4 DEF KeyIInv
  <1>4. ASSUME NEW k \in KeyNames, ResolveMiss(g, k) PROVE KeyIInv'
    <2>1. /\ Quiet /\ UNCHANGED <<keyRow, keyCache, rotating, flushing, setup, keyClock>>
          /\ resolving' = [pc |-> "query", by |-> g, key |-> k, at |-> keyClock, ok |-> FALSE]
      BY <1>4 DEF ResolveMiss
    <2>2. /\ export' \in [path : Paths \cup {"none"}, to : Refusals \cup {Owner, defaultTenantID}]
          /\ RumKeysWriteRumOnly'
      BY <1>1, <2>1, DecidedByScope
    <2>3. KeyTypeOK'
      BY <1>1, <2>1, <2>2 DEF KeyTypeOK, setup
    <2>4. AnswersOK' /\ LookupOK'
      BY <1>1, <1>2, <2>1, KeyBounds DEF AnswersOK, LookupOK
    <2>5. QED
      BY <2>2, <2>3, <2>4 DEF KeyIInv
  <1>5. CASE ResolveQuery(g)
    <2>1. /\ Quiet /\ UNCHANGED <<keyRow, keyCache, rotating, flushing, setup, keyClock>>
          /\ resolving.pc = "query"
          /\ resolving' = [resolving EXCEPT !.pc = "store", !.ok = ValidKey(resolving.key)]
      BY <1>5 DEF ResolveQuery
    <2>2. /\ export' \in [path : Paths \cup {"none"}, to : Refusals \cup {Owner, defaultTenantID}]
          /\ RumKeysWriteRumOnly'
      BY <1>1, <2>1, DecidedByScope
    <2>3. resolving.key \in KeyNames /\ keyRow[resolving.key] \in KeyRows
      BY <1>1, <1>2, <2>1 DEF LookupOK
    <2>4. ValidKey(resolving.key) \in BOOLEAN
      BY <2>3 DEF ValidKey, KeyRows
    <2>5. resolving' \in [pc : {"idle", "query", "store"}, by : Gateways \cup {"nobody"},
                          key : KeyNames \cup {"none"}, at : 0..MaxKeyTime, ok : BOOLEAN]
          /\ resolving'.key = resolving.key /\ resolving'.at = resolving.at
          /\ resolving'.ok = ValidKey(resolving.key)
      BY <1>1, <2>1, <2>4 DEF KeyTypeOK
    <2>6. KeyTypeOK' /\ AnswersOK'
      BY <1>1, <2>1, <2>2, <2>5 DEF KeyTypeOK, AnswersOK, setup
    <2>7. LookupOK'
      <3>1. resolving.at \in 0..MaxKeyTime /\ resolving.at <= keyClock
            /\ keyRow[resolving.key].revokedAt \in 0..Unrevoked
        BY <1>1, <2>3 DEF KeyTypeOK, LookupOK, KeyRows
      <3>2. ValidKey(resolving.key) =>
                keyRow[resolving.key].made /\ keyRow[resolving.key].revokedAt >= resolving.at
        BY <1>2, <3>1, KeyBounds DEF ValidKey
      <3>3. QED
        BY <2>1, <2>3, <2>5, <3>1, <3>2 DEF LookupOK
    <2>8. QED
      BY <2>2, <2>6, <2>7 DEF KeyIInv
  <1>6. CASE ResolveStore(g)
    <2> DEFINE k == resolving.key
               e == [known |-> TRUE, ok |-> resolving.ok, at |-> resolving.at]
               c == Current(e, keyClock)
    <2>1. /\ Decide(resolving.ok) /\ UNCHANGED <<keyRow, rotating, flushing, setup, keyClock>>
          /\ resolving.pc = "store" /\ resolving' = NoLookup
          /\ keyCache' = [keyCache EXCEPT ![g][k] = c]
      BY <1>6 DEF ResolveStore, Answer
    <2>2. k \in KeyNames /\ resolving.ok \in BOOLEAN /\ e \in KeyEntries
      BY <1>1, <2>1 DEF LookupOK, KeyTypeOK, KeyEntries
    <2>3. c \in KeyEntries /\ (c.known => c = e /\ keyClock - e.at < KeyTTL)
      BY <1>2, <2>2, CurrentEntry
    <2>4. /\ export' \in [path : Paths \cup {"none"}, to : Refusals \cup {Owner, defaultTenantID}]
          /\ RumKeysWriteRumOnly'
      BY <1>1, <2>1, <2>2, DecidedByScope
    <2>5. /\ e.at = resolving.at /\ e.ok = resolving.ok /\ e.at <= keyClock
          /\ e.ok => keyRow[k].made /\ keyRow[k].revokedAt >= e.at
      BY <1>1, <2>1 DEF LookupOK
    <2> HIDE DEF c, e, k
    <2>6. /\ keyCache' \in [Gateways -> [KeyNames -> KeyEntries]]
          /\ keyCache'[g][k] = c
          /\ \A h \in Gateways, j \in KeyNames : <<h, j>> # <<g, k>> => keyCache'[h][j] = keyCache[h][j]
      BY <1>2, <2>1, <2>2, <2>3
    <2>7. NoLookup \in [pc : {"idle", "query", "store"}, by : Gateways \cup {"nobody"},
                        key : KeyNames \cup {"none"}, at : 0..MaxKeyTime, ok : BOOLEAN]
          /\ NoLookup.pc = "idle" /\ NoLookup.at = 0
      BY KeyBounds DEF NoLookup
    <2>8. KeyTypeOK'
      BY <1>1, <2>1, <2>4, <2>6, <2>7 DEF KeyTypeOK, KeyEntries, setup
    <2>9. LookupOK'
      BY <1>2, <2>1, <2>7, KeyBounds DEF LookupOK
    <2>10. AnswersOK'
      <3>1. SUFFICES ASSUME NEW h \in Gateways, NEW j \in KeyNames, keyCache'[h][j].known
                     PROVE  /\ keyCache'[h][j].at <= keyClock /\ keyClock - keyCache'[h][j].at < KeyTTL
                            /\ keyCache'[h][j].ok =>
                                   keyRow[j].made /\ keyRow[j].revokedAt >= keyCache'[h][j].at
        BY <2>1 DEF AnswersOK
      <3>2. CASE <<h, j>> = <<g, k>>
        BY <2>3, <2>5, <2>6, <3>1, <3>2
      <3>3. CASE <<h, j>> # <<g, k>>
        BY <1>1, <2>6, <3>1, <3>3 DEF AnswersOK
      <3>4. QED
        BY <3>2, <3>3
    <2>11. QED
      BY <2>4, <2>8, <2>9, <2>10 DEF KeyIInv
  <1>7. CASE ResolveFails(g)
    <2>1. /\ Decide(FALSE) /\ UNCHANGED <<keyRow, keyCache, rotating, flushing, setup, keyClock>>
          /\ resolving' = NoLookup
      BY <1>7 DEF ResolveFails
    <2>2. /\ export' \in [path : Paths \cup {"none"}, to : Refusals \cup {Owner, defaultTenantID}]
          /\ RumKeysWriteRumOnly'
      BY <1>1, <2>1, DecidedByScope
    <2>3. NoLookup \in [pc : {"idle", "query", "store"}, by : Gateways \cup {"nobody"},
                        key : KeyNames \cup {"none"}, at : 0..MaxKeyTime, ok : BOOLEAN]
          /\ NoLookup.pc = "idle" /\ NoLookup.at = 0
      BY KeyBounds DEF NoLookup
    <2>4. KeyTypeOK' /\ AnswersOK'
      BY <1>1, <2>1, <2>2, <2>3 DEF KeyTypeOK, AnswersOK, setup
    <2>5. LookupOK'
      BY <1>2, <2>1, <2>3, KeyBounds DEF LookupOK
    <2>6. QED
      BY <2>2, <2>4, <2>5 DEF KeyIInv
  <1>8. QED
    BY <1>3, <1>4, <1>5, <1>6, <1>7

\* The steps of the administration: keys made, revoked and rotated.
LEMMA AdminKeeps ==
    ASSUME KeyIInv, NEW g \in Gateways,
           \/ \E k \in KeyNames : CreateIngestionKey(g, k) \/ RevokeIngestionKey(g, k) \/ RotateCommit(g, k)
           \/ \E k \in KeyNames, grace \in {0, RotationGrace} : RotateLoad(g, k, grace)
           \/ RotateFails(g) \/ invalidateCache(g)
    PROVE  KeyIInv'
  <1>1. KeyTypeOK /\ AnswersOK /\ LookupOK
    BY DEF KeyIInv
  <1>2. /\ keyRow \in [KeyNames -> KeyRows] /\ keyCache \in [Gateways -> [KeyNames -> KeyEntries]]
        /\ keyClock \in 0..MaxKeyTime
    BY <1>1 DEF KeyTypeOK, KeyRows, KeyEntries
  <1>3. Quiet /\ UNCHANGED <<setup, keyClock, resolving>>
    BY DEF CreateIngestionKey, RevokeIngestionKey, RotateCommit, RotateLoad, RotateFails, invalidateCache
  <1>4. /\ export' \in [path : Paths \cup {"none"}, to : Refusals \cup {Owner, defaultTenantID}]
        /\ RumKeysWriteRumOnly'
    BY <1>1, <1>3, DecidedByScope
  <1>5. MintedRow \in KeyRows /\ MintedRow.made /\ MintedRow.revokedAt = Unrevoked
    BY KeyBounds DEF MintedRow, KeyRows
  <1>6. NoRotation \in [by : Gateways \cup {"nobody"}, key : KeyNames \cup {"none"}, grace : 0..RotationGrace]
    BY KeyBounds DEF NoRotation
  <1>7. ASSUME NEW k \in KeyNames, CreateIngestionKey(g, k) PROVE KeyIInv'
    <2>1. /\ ~ keyRow[k].made /\ keyRow' = [keyRow EXCEPT ![k] = MintedRow]
          /\ flushing' = flushing \cup {g} /\ UNCHANGED <<keyCache, rotating>>
      BY <1>7 DEF CreateIngestionKey
    <2>2. keyRow' \in [KeyNames -> KeyRows] /\ \A j \in KeyNames : keyRow[j].made => keyRow'[j] = keyRow[j]
      BY <1>2, <1>5, <2>1
    <2>3. \A j \in KeyNames : keyRow[j].revokedAt \in Nat
      BY <1>2, KeyBounds DEF KeyRows
    <2>4. AnswersOK' /\ LookupOK'
      BY <1>3, <2>1, <2>2, <2>3, KeyRowsWritten
    <2>5. KeyTypeOK'
      BY <1>1, <1>3, <1>4, <2>1, <2>2 DEF KeyTypeOK, KeyRows, setup
    <2>6. QED
      BY <1>4, <2>4, <2>5 DEF KeyIInv
  <1>8. ASSUME NEW k \in KeyNames, RevokeIngestionKey(g, k) PROVE KeyIInv'
    <2>1. /\ keyRow' = [keyRow EXCEPT ![k].revokedAt = keyClock]
          /\ flushing' = flushing \cup {g} /\ UNCHANGED <<keyCache, rotating>>
      BY <1>8 DEF RevokeIngestionKey
    <2>2. keyClock \in 0..Unrevoked
      BY <1>2, KeyBounds
    <2>3. keyRow' \in [KeyNames -> KeyRows]
          /\ \A j \in KeyNames : /\ keyRow'[j].made = keyRow[j].made
                                 /\ keyRow'[j].revokedAt = keyRow[j].revokedAt \/ keyRow'[j].revokedAt = keyClock
      BY <1>2, <2>1, <2>2 DEF KeyRows
    <2>4. \A j \in KeyNames : keyRow[j].revokedAt \in Nat /\ keyClock \in Nat
      BY <1>2, KeyBounds DEF KeyRows
    <2>5. AnswersOK' /\ LookupOK'
      BY <1>3, <2>1, <2>3, <2>4, KeyRowsWritten
    <2>6. KeyTypeOK'
      BY <1>1, <1>3, <1>4, <2>1, <2>3 DEF KeyTypeOK, KeyRows, setup
    <2>7. QED
      BY <1>4, <2>5, <2>6 DEF KeyIInv
  <1>9. ASSUME NEW k \in KeyNames, RotateCommit(g, k) PROVE KeyIInv'
    <2> DEFINE end == keyClock + rotating.grace
               mid == [keyRow EXCEPT ![k] = MintedRow]
    <2>1. /\ ~ keyRow[k].made /\ keyRow' = [mid EXCEPT ![rotating.key].revokedAt = end]
          /\ flushing' = flushing \cup {g} /\ rotating' = NoRotation /\ UNCHANGED keyCache
      BY <1>9 DEF RotateCommit
    <2>2. rotating.grace \in 0..RotationGrace
      BY <1>1 DEF KeyTypeOK
    <2>3. end \in 0..Unrevoked /\ end >= keyClock
      BY <1>2, <2>2, KeyBounds
    <2>4. mid \in [KeyNames -> KeyRows] /\ \A j \in KeyNames : keyRow[j].made => mid[j] = keyRow[j]
      BY <1>2, <1>5, <2>1
    <2> HIDE DEF end, mid
    <2>5. keyRow' \in [KeyNames -> KeyRows]
          /\ \A j \in KeyNames : /\ keyRow'[j].made = mid[j].made
                                 /\ keyRow'[j].revokedAt = mid[j].revokedAt \/ keyRow'[j].revokedAt = end
      BY <2>1, <2>3, <2>4 DEF KeyRows
    <2>6. \A j \in KeyNames : keyRow[j].revokedAt \in Nat
      BY <1>2, KeyBounds DEF KeyRows
    <2>7. AnswersOK' /\ LookupOK'
      BY <1>3, <2>1, <2>3, <2>4, <2>5, <2>6, KeyRowsWritten
    <2>8. KeyTypeOK'
      BY <1>1, <1>3, <1>4, <1>6, <2>1, <2>5 DEF KeyTypeOK, KeyRows, setup
    <2>9. QED
      BY <1>4, <2>7, <2>8 DEF KeyIInv
  <1>10. ASSUME NEW k \in KeyNames, NEW grace \in {0, RotationGrace}, RotateLoad(g, k, grace)
         PROVE  KeyIInv'
    <2>1. /\ rotating' = [by |-> g, key |-> k, grace |-> grace]
          /\ UNCHANGED <<keyRow, keyCache, flushing>>
      BY <1>10 DEF RotateLoad
    <2>2. grace \in 0..RotationGrace
      BY KeyBounds
    <2>3. KeyTypeOK' /\ AnswersOK' /\ LookupOK'
      BY <1>1, <1>3, <1>4, <2>1, <2>2 DEF KeyTypeOK, AnswersOK, LookupOK, setup
    <2>4. QED
      BY <1>4, <2>3 DEF KeyIInv
  <1>11. CASE RotateFails(g)
    <2>1. rotating' = NoRotation /\ UNCHANGED <<keyRow, keyCache, flushing>>
      BY <1>11 DEF RotateFails
    <2>2. KeyTypeOK' /\ AnswersOK' /\ LookupOK'
      BY <1>1, <1>3, <1>4, <1>6, <2>1 DEF KeyTypeOK, AnswersOK, LookupOK, setup
    <2>3. QED
      BY <1>4, <2>2 DEF KeyIInv
  <1>12. CASE invalidateCache(g)
    <2>1. /\ keyCache' = [keyCache EXCEPT ![g] = [k \in KeyNames |-> NoEntry]]
          /\ flushing' = flushing \ {g} /\ UNCHANGED <<keyRow, rotating>>
      BY <1>12 DEF invalidateCache
    <2>2. NoEntry \in KeyEntries /\ ~ NoEntry.known
      BY KeyBounds DEF NoEntry, KeyEntries
    <2>3. keyCache' \in [Gateways -> [KeyNames -> KeyEntries]]
          /\ \A h \in Gateways, j \in KeyNames : keyCache'[h][j].known => keyCache'[h][j] = keyCache[h][j]
      BY <1>2, <2>1, <2>2
    <2>4. KeyTypeOK'
      BY <1>1, <1>3, <1>4, <2>1, <2>3 DEF KeyTypeOK, KeyEntries, setup
    <2>5. AnswersOK' /\ LookupOK'
      BY <1>1, <1>3, <2>1, <2>3 DEF AnswersOK, LookupOK
    <2>6. QED
      BY <1>4, <2>4, <2>5 DEF KeyIInv
  <1>13. QED
    BY <1>7, <1>8, <1>9, <1>10, <1>11, <1>12

\* A tick: what is as old as the TTL is dropped.
LEMMA KeyTickKeeps == ASSUME KeyIInv, KeyTick PROVE KeyIInv'
  <1>1. KeyTypeOK /\ AnswersOK /\ LookupOK
    BY DEF KeyIInv
  <1>2. /\ keyClock < MaxKeyTime /\ keyClock' = keyClock + 1 /\ Quiet
        /\ keyCache' = [g \in Gateways |-> [k \in KeyNames |-> Current(keyCache[g][k], keyClock')]]
        /\ UNCHANGED <<keyRow, resolving, rotating, flushing, setup>>
    BY DEF KeyTick
  <1>3. /\ keyCache \in [Gateways -> [KeyNames -> KeyEntries]]
        /\ keyClock \in Nat /\ keyClock' \in 0..MaxKeyTime
    BY <1>1, <1>2, KeyBounds DEF KeyTypeOK, KeyEntries
  <1>4. /\ export' \in [path : Paths \cup {"none"}, to : Refusals \cup {Owner, defaultTenantID}]
        /\ RumKeysWriteRumOnly'
    BY <1>1, <1>2, DecidedByScope
  <1>5. \A g \in Gateways, k \in KeyNames :
            /\ keyCache'[g][k] \in KeyEntries
            /\ keyCache'[g][k].known => /\ keyCache'[g][k] = keyCache[g][k]
                                        /\ keyClock' - keyCache[g][k].at < KeyTTL
    <2>1. SUFFICES ASSUME NEW g \in Gateways, NEW k \in KeyNames
                   PROVE  /\ keyCache'[g][k] \in KeyEntries
                          /\ keyCache'[g][k].known => /\ keyCache'[g][k] = keyCache[g][k]
                                                      /\ keyClock' - keyCache[g][k].at < KeyTTL
      OBVIOUS
    <2>2. keyCache'[g][k] = Current(keyCache[g][k], keyClock') /\ keyCache[g][k] \in KeyEntries
      BY <1>2, <1>3
    <2>3. /\ Current(keyCache[g][k], keyClock') \in KeyEntries
          /\ Current(keyCache[g][k], keyClock').known =>
                 /\ Current(keyCache[g][k], keyClock') = keyCache[g][k]
                 /\ keyClock' - keyCache[g][k].at < KeyTTL
      BY <1>3, <2>2, CurrentEntry
    <2>4. QED
      BY <2>2, <2>3, Zenon
  <1>6. keyCache' \in [Gateways -> [KeyNames -> KeyEntries]]
    BY <1>2, <1>5
  <1>7. KeyTypeOK'
    BY <1>1, <1>2, <1>3, <1>4, <1>6 DEF KeyTypeOK, KeyEntries, setup
  <1>8. AnswersOK'
    <2>1. \A g \in Gateways, k \in KeyNames : keyCache[g][k].at \in Nat
      BY <1>3, KeyBounds DEF KeyEntries
    <2>2. SUFFICES ASSUME NEW g \in Gateways, NEW k \in KeyNames, keyCache'[g][k].known
                   PROVE  /\ keyCache'[g][k].at <= keyClock'
                          /\ keyClock' - keyCache'[g][k].at < KeyTTL
                          /\ keyCache'[g][k].ok =>
                                 keyRow'[k].made /\ keyRow'[k].revokedAt >= keyCache'[g][k].at
      BY DEF AnswersOK
    <2>3. /\ keyCache'[g][k] = keyCache[g][k] /\ keyClock' - keyCache[g][k].at < KeyTTL
      BY <1>5, <2>2
    <2>4. keyCache[g][k].known
      BY <2>2, <2>3, Zenon
    <2>5. keyCache[g][k].at <= keyClock
          /\ (keyCache[g][k].ok => keyRow[k].made /\ keyRow[k].revokedAt >= keyCache[g][k].at)
      BY <1>1, <2>4 DEF AnswersOK
    <2>6. keyCache[g][k].at <= keyClock'
      BY <1>2, <1>3, <2>1, <2>5
    <2>7. keyRow' = keyRow
      BY <1>2
    <2>8. QED
      BY <2>3, <2>5, <2>6, <2>7, Zenon
  <1>9. LookupOK'
    <2>1. resolving.at \in Nat
      BY <1>1, KeyBounds DEF KeyTypeOK
    <2>2. QED
      BY <1>1, <1>2, <1>3, <2>1 DEF LookupOK
  <1>10. QED
    BY <1>4, <1>7, <1>8, <1>9 DEF KeyIInv

LEMMA NextKeyIInv == ASSUME KeyIInv, [KeyNext]_keyVars PROVE KeyIInv'
  <1>1. CASE KeyNext
    BY <1>1, KeyTickKeeps, ResolveKeeps, AdminKeeps DEF KeyNext
  <1>2. CASE UNCHANGED keyVars
    BY <1>2 DEF keyVars, setup, KeyIInv, KeyTypeOK, AnswersOK, LookupOK, RumKeysWriteRumOnly
  <1>3. QED
    BY <1>1, <1>2

\* What a gateway's cache, a lookup under way and the table know of each other holds
\* in every reachable state (Resolve, which stores an answer the table gave earlier).
THEOREM KeyInvariant == KeySpec => []KeyIInv
  <1>1. KeyInit => KeyIInv
    BY InitKeyIInv
  <1>2. KeyIInv /\ [KeyNext]_keyVars => KeyIInv'
    BY NextKeyIInv
  <1>3. QED
    BY <1>1, <1>2, PTL DEF KeySpec

\* No gateway serves a key from its cache a TTL after the key was revoked or its
\* grace ended, and no key of a browser writes server telemetry, for every
\* number of gateways, keys and moments, and every TTL and grace.
THEOREM KeysAreBounded == KeySpec => []KeysOpenWhatTheyMay
  <1>1. KeyIInv => KeysOpenWhatTheyMay
    <2>1. SUFFICES ASSUME KeyIInv, NEW g \in Gateways, NEW k \in KeyNames,
                          keyCache[g][k].known, keyCache[g][k].ok
                   PROVE  keyClock - keyRow[k].revokedAt < KeyTTL
      BY DEF KeyIInv, KeysOpenWhatTheyMay, RevokedWithinTTL, Fresh
    <2>2. keyClock - keyCache[g][k].at < KeyTTL /\ keyRow[k].revokedAt >= keyCache[g][k].at
      BY <2>1 DEF KeyIInv, AnswersOK
    <2>3. keyCache[g][k].at \in 0..MaxKeyTime /\ keyRow[k].revokedAt \in 0..Unrevoked
          /\ keyClock \in 0..MaxKeyTime
      BY <2>1 DEF KeyIInv, KeyTypeOK
    <2>4. QED
      BY <2>2, <2>3, KeyBounds
  <1>2. QED
    BY <1>1, KeyInvariant, PTL

-----------------------------------------------------------------------------
(* The second factor *)

\* A recovery code of the current list that is still on it has not been used,
\* and a confirmation on its way has checked its secret.
MfaIInv ==
    /\ MfaTypeOK /\ SecondFactorHolds
    /\ ~ races.codes => \A c \in mfa.codes : usedCodes[c] = 0
    /\ verifying.on => verifying.secret \in confirmed

LEMMA NextMfaIInv == ASSUME MfaIInv, [MfaNext]_mfaVars PROVE MfaIInv'
  <1> USE DEF NoSecret
  <1>1. /\ MfaTypeOK /\ CodesAdmitOnce /\ SecretInForceConfirmed
        /\ ~ races.codes => \A c \in mfa.codes : usedCodes[c] = 0
        /\ verifying.on => verifying.secret \in confirmed
        /\ MaxEnrols \in Nat
    BY MfaConstants DEF MfaIInv, SecondFactorHolds
  <1>2. CASE Enroll
    BY <1>1, <1>2 DEF Enroll, MfaIInv, MfaTypeOK, SecondFactorHolds, CodesAdmitOnce, SecretInForceConfirmed
  <1>3. CASE VerifyRead
    <2>1. /\ verifying' = [on |-> TRUE, secret |-> mfa.secret] /\ confirmed' = confirmed \cup {mfa.secret}
          /\ mfa.secret # 0 /\ UNCHANGED <<mfa, step, usedCodes, races>>
      BY <1>3 DEF VerifyRead
    <2>2. mfa.secret \in 0..MaxEnrols
      BY <1>1 DEF MfaTypeOK
    <2>3. confirmed' \subseteq 1..MaxEnrols /\ verifying' \in [on : BOOLEAN, secret : 0..MaxEnrols]
          /\ verifying'.secret \in confirmed'
      <3>1. confirmed \subseteq 1..MaxEnrols /\ mfa.secret \in 1..MaxEnrols
        BY <1>1, <2>1, <2>2 DEF MfaTypeOK
      <3>2. QED
        BY <2>1, <2>2, <3>1
    <2>4. MfaTypeOK'
      BY <1>1, <2>1, <2>3 DEF MfaTypeOK
    <2>5. CodesAdmitOnce' /\ SecretInForceConfirmed'
      BY <1>1, <2>1 DEF CodesAdmitOnce, SecretInForceConfirmed
    <2>6. QED
      BY <1>1, <2>1, <2>3, <2>4, <2>5 DEF MfaIInv, SecondFactorHolds
  <1>4. CASE VerifyEnable
    <2>1. /\ mfa' = [mfa EXCEPT !.enabled = TRUE, !.codes = RecoveryCodes] /\ usedCodes' = NoUses
          /\ races' = [races EXCEPT !.secret = races.secret \/ mfa.secret # verifying.secret]
          /\ verifying' = NoVerify /\ verifying.on /\ UNCHANGED <<step, confirmed>>
      BY <1>4 DEF VerifyEnable
    <2>2. mfa'.secret = mfa.secret /\ mfa'.codes = RecoveryCodes
          /\ mfa' \in [enabled : BOOLEAN, secret : 0..MaxEnrols, made : 0..MaxEnrols, codes : SUBSET RecoveryCodes]
      BY <1>1, <2>1 DEF MfaTypeOK
    <2>3. NoUses \in [RecoveryCodes -> 0..2] /\ \A c \in RecoveryCodes : NoUses[c] = 0
      BY DEF NoUses
    <2>4. NoVerify \in [on : BOOLEAN, secret : 0..MaxEnrols] /\ ~ NoVerify.on
      BY <1>1 DEF NoVerify
    <2>5. races' \in [codes : BOOLEAN, secret : BOOLEAN]
          /\ (~ races'.secret => mfa.secret = verifying.secret)
      BY <1>1, <2>1 DEF MfaTypeOK
    <2>6. MfaTypeOK'
      BY <1>1, <2>1, <2>2, <2>3, <2>4, <2>5 DEF MfaTypeOK
    <2>7. CodesAdmitOnce' /\ \A c \in mfa'.codes : usedCodes'[c] = 0
      BY <2>1, <2>2, <2>3 DEF CodesAdmitOnce
    <2>8. SecretInForceConfirmed'
      BY <1>1, <2>1, <2>2, <2>5 DEF SecretInForceConfirmed
    <2>9. QED
      BY <2>1, <2>4, <2>6, <2>7, <2>8 DEF MfaIInv, SecondFactorHolds
  <1>5. ASSUME NEW c \in Challenges, NEW code \in RecoveryCodes, UseRecoveryCode(c, code) PROVE MfaIInv'
    <2>1. /\ code \in step[c].codes
          /\ usedCodes' = [usedCodes EXCEPT ![code] = IF usedCodes[code] = 2 THEN 2 ELSE usedCodes[code] + 1]
          /\ step' = [step EXCEPT ![c].pc = "passed"]
          /\ mfa' = [mfa EXCEPT !.codes = step[c].codes \ {code}]
          /\ races' = [races EXCEPT !.codes = races.codes \/ mfa.codes # step[c].codes]
          /\ UNCHANGED <<verifying, confirmed>>
      BY <1>5 DEF UseRecoveryCode, Accept
    <2>2. step[c].codes \subseteq RecoveryCodes /\ usedCodes[code] \in 0..2
      BY <1>1 DEF MfaTypeOK
    <2>3. /\ mfa'.codes = step[c].codes \ {code} /\ mfa'.enabled = mfa.enabled /\ mfa'.secret = mfa.secret
          /\ mfa' \in [enabled : BOOLEAN, secret : 0..MaxEnrols, made : 0..MaxEnrols, codes : SUBSET RecoveryCodes]
      BY <1>1, <2>1, <2>2 DEF MfaTypeOK
    <2>4. /\ usedCodes' \in [RecoveryCodes -> 0..2]
          /\ usedCodes[code] = 0 => usedCodes'[code] = 1
          /\ \A d \in RecoveryCodes : d # code => usedCodes'[d] = usedCodes[d]
      BY <1>1, <2>1, <2>2 DEF MfaTypeOK
    <2>5. races' \in [codes : BOOLEAN, secret : BOOLEAN] /\ races'.secret = races.secret
          /\ (~ races'.codes => ~ races.codes /\ mfa.codes = step[c].codes)
      BY <1>1, <2>1 DEF MfaTypeOK
    <2>6. MfaTypeOK'
      BY <1>1, <2>1, <2>3, <2>4, <2>5 DEF MfaTypeOK
    <2>7. SecretInForceConfirmed'
      BY <1>1, <2>1, <2>3, <2>5 DEF SecretInForceConfirmed
    <2>8. CodesAdmitOnce' /\ (~ races'.codes => \A d \in mfa'.codes : usedCodes'[d] = 0)
      BY <1>1, <2>1, <2>2, <2>3, <2>4, <2>5 DEF CodesAdmitOnce
    <2>9. QED
      BY <1>1, <2>1, <2>6, <2>7, <2>8 DEF MfaIInv, SecondFactorHolds
  <1>6. ASSUME NEW c \in Challenges, FinishDisable(c) PROVE MfaIInv'
    <2>1. /\ mfa' = [mfa EXCEPT !.enabled = FALSE, !.secret = NoSecret, !.codes = {}]
          /\ step' = [step EXCEPT ![c] = NoStep]
          /\ UNCHANGED <<verifying, confirmed, usedCodes, races>>
      BY <1>6 DEF FinishDisable
    <2>2. /\ mfa'.codes = {} /\ ~ mfa'.enabled
          /\ mfa' \in [enabled : BOOLEAN, secret : 0..MaxEnrols, made : 0..MaxEnrols, codes : SUBSET RecoveryCodes]
      <3>1. mfa \in [enabled : BOOLEAN, secret : 0..MaxEnrols, made : 0..MaxEnrols, codes : SUBSET RecoveryCodes]
        BY <1>1 DEF MfaTypeOK
      <3>2. 0 \in 0..MaxEnrols /\ {} \in SUBSET RecoveryCodes
        BY <1>1
      <3>3. mfa'.codes = {} /\ mfa'.enabled = FALSE
        BY <2>1, <3>1
      <3>4. QED
        BY <2>1, <3>1, <3>2, <3>3
    <2>3. MfaTypeOK'
      BY <1>1, <2>1, <2>2 DEF MfaTypeOK, NoStep
    <2>4. QED
      BY <1>1, <2>1, <2>2, <2>3 DEF MfaIInv, SecondFactorHolds, CodesAdmitOnce, SecretInForceConfirmed
  <1>7. ASSUME NEW c \in Challenges,
               \/ \E for \in {"login", "disable"} : Load(c, for)
               \/ UseTotp(c) \/ FinishLogin(c) \/ GiveUp(c)
        PROVE  MfaIInv'
    <2>1. UNCHANGED <<mfa, verifying, confirmed, usedCodes, races>>
      BY <1>7 DEF Load, UseTotp, FinishLogin, GiveUp
    <2>2. step' \in [Challenges -> [pc : {"idle", "loaded", "passed"}, for : {"login", "disable"},
                                    secret : 0..MaxEnrols, codes : SUBSET RecoveryCodes]]
      BY <1>1, <1>7 DEF MfaTypeOK, Load, UseTotp, FinishLogin, GiveUp, NoStep
    <2>3. QED
      BY <1>1, <2>1, <2>2 DEF MfaIInv, MfaTypeOK, SecondFactorHolds, CodesAdmitOnce, SecretInForceConfirmed
  <1>8. CASE UNCHANGED mfaVars
    BY <1>1, <1>8 DEF mfaVars, MfaIInv, MfaTypeOK, SecondFactorHolds, CodesAdmitOnce, SecretInForceConfirmed
  <1>9. QED
    BY <1>2, <1>3, <1>4, <1>5, <1>6, <1>7, <1>8 DEF MfaNext

LEMMA InitMfaIInv == ASSUME MfaInit PROVE MfaIInv
  <1>1. MaxEnrols \in Nat
    BY MfaConstants
  <1>2. MfaTypeOK
    BY <1>1 DEF MfaInit, MfaTypeOK, NoSecret, NoVerify, NoStep, NoUses
  <1>3. QED
    BY <1>2
    DEF MfaInit, MfaIInv, SecondFactorHolds, CodesAdmitOnce, SecretInForceConfirmed, NoVerify, NoUses

\* A code of the current list admits once, unless two requests had read the same
\* list, and a secret in force was confirmed, unless an enrolment overtook a
\* confirmation, for any number of challenges, codes and enrolments.
THEOREM SecondFactorIsOne == MfaSpec => []SecondFactorHolds
  <1>1. MfaInit => MfaIInv
    BY InitMfaIInv
  <1>2. MfaIInv /\ [MfaNext]_mfaVars => MfaIInv'
    BY NextMfaIInv
  <1>3. MfaIInv => SecondFactorHolds
    BY DEF MfaIInv
  <1>4. QED
    BY <1>1, <1>2, <1>3, PTL DEF MfaSpec

-----------------------------------------------------------------------------
(* Sessions, passwords and deprovisioning *)

LoginRows == [pc : {"idle", "granted", "live", "revoked"},
              via : {"none", "password", "sso", "saml", "signup"},
              pw : 0..MaxPasswords, raced : BOOLEAN, spared : BOOLEAN]

\* A session the properties allow to outlive what it rests on.
Excused(x) == x.raced = TRUE \/ x.spared = TRUE

Pending == change.on = TRUE \/ \E r \in Resets : reset[r] = "updated"

\* What is known of one login x, given the account a, whether a revocation for a
\* change of the password or for a deactivation is to come, and whether one failed.
LoginOK(x, a, pending, leaving, faults) ==
    /\ x.pc = "granted" /\ x.pw # a.pw => Excused(x)
    /\ x.pc = "live" /\ x.pw # a.pw /\ faults = 0 => Excused(x) \/ pending
    /\ x.pc \in {"granted", "live"} /\ a.exists = FALSE => x.spared = TRUE
    /\ x.pc = "granted" /\ a.active = FALSE => Excused(x) \/ x.via = "sso"
    /\ x.pc = "live" /\ a.active = FALSE /\ faults = 0 => Excused(x) \/ x.via = "sso" \/ leaving

\* The inductive invariant.
CredIInv ==
    /\ CredTypeOK
    /\ \A l \in Logins : LoginOK(login[l], account, Pending, scim = "revoke", credFaults)

LEMMA CredShapes ==
    ASSUME CredTypeOK
    PROVE  /\ login \in [Logins -> LoginRows] /\ MaxPasswords \in Nat /\ MaxCredFaults \in Nat
           /\ account \in [exists : BOOLEAN, pw : 0..MaxPasswords, active : BOOLEAN]
           /\ credFaults \in Nat
  BY CredConstants DEF CredTypeOK, LoginRows

\* A login that a write of the account overtakes.
LEMMA RacedLogin ==
    ASSUME NEW f \in [Logins -> LoginRows]
    PROVE  /\ Race(f) \in [Logins -> LoginRows]
           /\ \A l \in Logins : /\ Race(f)[l].pc = f[l].pc /\ Race(f)[l].pw = f[l].pw
                                /\ Race(f)[l].via = f[l].via /\ Race(f)[l].spared = f[l].spared
                                /\ f[l].raced = TRUE => Race(f)[l].raced = TRUE
                                /\ f[l].pc = "granted" => Race(f)[l].raced = TRUE
  <1>1. \A l \in Logins : Race(f)[l] = IF f[l].pc = "granted" THEN [f[l] EXCEPT !.raced = TRUE] ELSE f[l]
    BY DEF Race
  <1>2. QED
    BY <1>1 DEF Race, LoginRows

\* A login as the sessions are revoked.
LEMMA RevokedLogin ==
    ASSUME CredTypeOK, NEW keep
    PROVE  /\ RevokedBut(keep) \in [Logins -> LoginRows]
           /\ \A l \in Logins :
                  /\ RevokedBut(keep)[l].pw = login[l].pw /\ RevokedBut(keep)[l].via = login[l].via
                  /\ RevokedBut(keep)[l].raced = login[l].raced
                  /\ login[l].spared = TRUE => RevokedBut(keep)[l].spared = TRUE
                  /\ RevokedBut(keep)[l].pc = "granted" => login[l].pc = "granted"
                  /\ RevokedBut(keep)[l].pc = "live" =>
                         login[l].pc = "live" /\ RevokedBut(keep)[l].spared = TRUE
  <1>1. login \in [Logins -> LoginRows]
    BY CredShapes
  <1>2. \A l \in Logins : RevokedBut(keep)[l] =
            IF login[l].pc = "live" /\ l # keep THEN [login[l] EXCEPT !.pc = "revoked"]
            ELSE IF l = keep THEN [login[l] EXCEPT !.spared = TRUE] ELSE login[l]
    BY DEF RevokedBut
  <1>3. ASSUME NEW l \in Logins
        PROVE  /\ RevokedBut(keep)[l] \in LoginRows
               /\ RevokedBut(keep)[l].pw = login[l].pw /\ RevokedBut(keep)[l].via = login[l].via
               /\ RevokedBut(keep)[l].raced = login[l].raced
               /\ login[l].spared = TRUE => RevokedBut(keep)[l].spared = TRUE
               /\ RevokedBut(keep)[l].pc = "granted" => login[l].pc = "granted"
               /\ RevokedBut(keep)[l].pc = "live" =>
                      login[l].pc = "live" /\ RevokedBut(keep)[l].spared = TRUE
    <2>1. CASE login[l].pc = "live" /\ l # keep
      <3>1. RevokedBut(keep)[l] = [login[l] EXCEPT !.pc = "revoked"] /\ login[l] \in LoginRows
        BY <1>1, <1>2, <2>1
      <3>2. RevokedBut(keep)[l] \in LoginRows /\ RevokedBut(keep)[l].pc = "revoked"
        BY <3>1 DEF LoginRows
      <3>3. RevokedBut(keep)[l].pw = login[l].pw /\ RevokedBut(keep)[l].via = login[l].via
            /\ RevokedBut(keep)[l].raced = login[l].raced /\ RevokedBut(keep)[l].spared = login[l].spared
        BY <3>1 DEF LoginRows
      <3>4. QED
        BY <3>2, <3>3
    <2>2. CASE l = keep
      BY <1>1, <1>2, <2>2 DEF LoginRows
    <2>3. CASE login[l].pc # "live" /\ l # keep
      BY <1>1, <1>2, <2>3 DEF LoginRows
    <2>4. QED
      BY <2>1, <2>2, <2>3
  <1>4. QED
    BY <1>3 DEF RevokedBut

\* A login is granted, and the account provisioned if it did not exist.
LEMMA GrantKeeps ==
    ASSUME CredIInv, NEW l \in Logins,
           PasswordLogin(l) \/ SSOCallback(l) \/ SamlACS(l) \/ Signup(l)
    PROVE  CredIInv'
  <1>1. CredTypeOK /\ \A k \in Logins : LoginOK(login[k], account, Pending, scim = "revoke", credFaults)
    BY DEF CredIInv
  <1>2. /\ login \in [Logins -> LoginRows]
        /\ account \in [exists : BOOLEAN, pw : 0..MaxPasswords, active : BOOLEAN]
    BY <1>1, CredShapes
  <1>3. UNCHANGED <<token, reset, change, scim, credFaults>>
    BY DEF PasswordLogin, SSOCallback, SamlACS, Signup
  <1>4. PICK via \in {"password", "sso", "saml", "signup"} :
            login' = [login EXCEPT ![l] = [pc |-> "granted", via |-> via, pw |-> account.pw,
                                           raced |-> FALSE, spared |-> FALSE]]
    BY DEF PasswordLogin, SSOCallback, SamlACS, Signup, Grant
  <1>5. /\ account' \in [exists : BOOLEAN, pw : 0..MaxPasswords, active : BOOLEAN]
        /\ account'.exists = TRUE /\ account'.pw = account.pw
        /\ account' = account \/ account'.active = TRUE
        /\ account'.active = FALSE => via = "sso"
    <2>1. CASE PasswordLogin(l)
      BY <1>2, <2>1 DEF PasswordLogin
    <2>2. CASE SSOCallback(l)
      <3>1. via = "sso"
        BY <1>2, <1>4, <2>2 DEF SSOCallback, Grant
      <3>2. QED
        BY <1>2, <2>2, <3>1 DEF SSOCallback, Provisioned
    <2>3. CASE SamlACS(l)
      BY <1>2, <2>3 DEF SamlACS, Provisioned
    <2>4. CASE Signup(l)
      BY <1>2, <2>4 DEF Signup, Provisioned
    <2>5. QED
      BY <2>1, <2>2, <2>3, <2>4
  <1>6. /\ login' \in [Logins -> LoginRows]
        /\ login'[l].pc = "granted" /\ login'[l].pw = account'.pw /\ login'[l].via = via
        /\ \A k \in Logins : k # l => login'[k] = login[k]
    BY <1>2, <1>4, <1>5 DEF LoginRows
  <1>7. CredTypeOK'
    BY <1>1, <1>3, <1>5, <1>6 DEF CredTypeOK, LoginRows
  <1>8. Pending' = Pending
    BY <1>3 DEF Pending
  <1>9. ASSUME NEW k \in Logins PROVE LoginOK(login'[k], account', Pending', scim' = "revoke", credFaults')
    <2>1. CASE k = l
      BY <1>5, <1>6, <2>1 DEF LoginOK
    <2>2. CASE k # l
      <3>1. login'[k] = login[k] /\ LoginOK(login[k], account, Pending, scim = "revoke", credFaults)
        BY <1>1, <1>6, <2>2
      <3>2. QED
        BY <1>3, <1>5, <1>8, <3>1 DEF LoginOK
    <2>3. QED
      BY <2>1, <2>2
  <1>10. QED
    BY <1>7, <1>9 DEF CredIInv

\* The session is inserted.
LEMMA IssueKeeps == ASSUME CredIInv, NEW l \in Logins, IssueSession(l) PROVE CredIInv'
  <1>1. CredTypeOK /\ \A k \in Logins : LoginOK(login[k], account, Pending, scim = "revoke", credFaults)
    BY DEF CredIInv
  <1>2. login \in [Logins -> LoginRows]
    BY <1>1, CredShapes
  <1>3. /\ login[l].pc = "granted" /\ login' = [login EXCEPT ![l].pc = "live"]
        /\ UNCHANGED <<account, token, reset, change, scim, credFaults>>
    BY DEF IssueSession
  <1>4. /\ login' \in [Logins -> LoginRows]
        /\ \A k \in Logins : k # l => login'[k] = login[k]
    BY <1>2, <1>3 DEF LoginRows
  <1>5. /\ login'[l].pc = "live" /\ login'[l].pw = login[l].pw /\ login'[l].via = login[l].via
        /\ login'[l].raced = login[l].raced /\ login'[l].spared = login[l].spared
    BY <1>2, <1>3 DEF LoginRows
  <1>6. CredTypeOK'
    BY <1>1, <1>3, <1>4 DEF CredTypeOK, LoginRows
  <1>7. Pending' = Pending
    BY <1>3 DEF Pending
  <1>8. ASSUME NEW k \in Logins PROVE LoginOK(login'[k], account', Pending', scim' = "revoke", credFaults')
    <2>1. LoginOK(login[k], account, Pending, scim = "revoke", credFaults)
      BY <1>1
    <2>2. CASE k = l
      BY <1>3, <1>5, <1>7, <2>1, <2>2 DEF LoginOK, Excused
    <2>3. CASE k # l
      BY <1>3, <1>4, <1>7, <2>1, <2>3
    <2>4. QED
      BY <2>2, <2>3
  <1>9. QED
    BY <1>6, <1>8 DEF CredIInv

\* The password changes: sessions of the old one are to be revoked, and logins
\* that have checked the old one race.
LEMMA NewPasswordKeeps ==
    ASSUME CredIInv,
           \/ \E l \in Logins : ChangePassword(l)
           \/ \E r \in Resets : ResetPassword(r)
    PROVE  CredIInv'
  <1>1. CredTypeOK /\ \A k \in Logins : LoginOK(login[k], account, Pending, scim = "revoke", credFaults)
    BY DEF CredIInv
  <1>2. /\ login \in [Logins -> LoginRows] /\ MaxPasswords \in Nat
        /\ account \in [exists : BOOLEAN, pw : 0..MaxPasswords, active : BOOLEAN]
    BY <1>1, CredShapes
  <1>3. SetPassword /\ login' = Race(login) /\ UNCHANGED <<token, scim, credFaults>>
    BY DEF ChangePassword, ResetPassword
  <1>4. /\ account' \in [exists : BOOLEAN, pw : 0..MaxPasswords, active : BOOLEAN]
        /\ account'.exists = account.exists /\ account'.active = account.active
    BY <1>2, <1>3 DEF SetPassword
  <1>5. /\ change' \in [on : BOOLEAN, by : Logins \cup {"none"}]
        /\ reset' \in [Resets -> {"idle", "checked", "refused", "burnt", "updated", "done"}]
        /\ Pending'
    <2>1. ASSUME NEW l \in Logins, ChangePassword(l)
          PROVE  change' = [on |-> TRUE, by |-> l] /\ reset' = reset
      BY <2>1 DEF ChangePassword
    <2>2. ASSUME NEW r \in Resets, ResetPassword(r)
          PROVE  change' = change /\ reset' = [reset EXCEPT ![r] = "updated"]
      BY <2>2 DEF ResetPassword
    <2>3. /\ change \in [on : BOOLEAN, by : Logins \cup {"none"}]
          /\ reset \in [Resets -> {"idle", "checked", "refused", "burnt", "updated", "done"}]
      BY <1>1 DEF CredTypeOK
    <2>4. ASSUME NEW l \in Logins, ChangePassword(l) 
          PROVE  /\ change' \in [on : BOOLEAN, by : Logins \cup {"none"}]
                 /\ reset' \in [Resets -> {"idle", "checked", "refused", "burnt", "updated", "done"}]
                 /\ Pending'
      <3>1. change' = [on |-> TRUE, by |-> l] /\ reset' = reset
        BY <2>1, <2>4
      <3>2. change'.on = TRUE
        BY <3>1
      <3>3. Pending'
        BY <3>2 DEF Pending
      <3>4. change' \in [on : BOOLEAN, by : Logins \cup {"none"}]
        BY <3>1
      <3>5. QED
        BY <2>3, <3>1, <3>3, <3>4
    <2>5. ASSUME NEW r \in Resets, ResetPassword(r) 
          PROVE  /\ change' \in [on : BOOLEAN, by : Logins \cup {"none"}]
                 /\ reset' \in [Resets -> {"idle", "checked", "refused", "burnt", "updated", "done"}]
                 /\ Pending'
      <3>1. change' = change /\ reset' = [reset EXCEPT ![r] = "updated"]
        BY <2>2, <2>5
      <3>2. /\ reset'[r] = "updated"
            /\ reset' \in [Resets -> {"idle", "checked", "refused", "burnt", "updated", "done"}]
        BY <2>3, <3>1
      <3>3. Pending'
        BY <3>2 DEF Pending
      <3>4. QED
        BY <2>3, <3>1, <3>2, <3>3
    <2>6. QED
      BY <2>4, <2>5
  <1>6. /\ login' \in [Logins -> LoginRows]
        /\ \A l \in Logins : /\ login'[l].pc = login[l].pc /\ login'[l].pw = login[l].pw
                             /\ login'[l].via = login[l].via /\ login'[l].spared = login[l].spared
                             /\ login[l].raced = TRUE => login'[l].raced = TRUE
                             /\ login[l].pc = "granted" => login'[l].raced = TRUE
    BY <1>2, <1>3, RacedLogin
  <1>7. CredTypeOK'
    BY <1>1, <1>3, <1>4, <1>5, <1>6 DEF CredTypeOK, LoginRows
  <1>8. ASSUME NEW k \in Logins PROVE LoginOK(login'[k], account', Pending', scim' = "revoke", credFaults')
    <2>1. LoginOK(login[k], account, Pending, scim = "revoke", credFaults)
      BY <1>1
    <2>2. QED
      BY <1>3, <1>4, <1>5, <1>6, <2>1 DEF LoginOK, Excused
  <1>9. QED
    BY <1>7, <1>8 DEF CredIInv

\* Sessions are revoked, or that fails and is counted.
LEMMA RevokeKeeps ==
    ASSUME CredIInv, NEW keep, RevokeSessions(keep), UNCHANGED <<account, token>>,
           change' \in [on : BOOLEAN, by : Logins \cup {"none"}],
           reset' \in [Resets -> {"idle", "checked", "refused", "burnt", "updated", "done"}],
           scim' \in {"idle", "revoke"}
    PROVE  CredIInv'
  <1>1. CredTypeOK /\ \A k \in Logins : LoginOK(login[k], account, Pending, scim = "revoke", credFaults)
    BY DEF CredIInv
  <1>2. login \in [Logins -> LoginRows] /\ credFaults \in Nat /\ MaxCredFaults \in Nat
    BY <1>1, CredShapes
  <1>3. CASE login' = RevokedBut(keep) /\ UNCHANGED credFaults
    <2>1. /\ login' \in [Logins -> LoginRows]
          /\ \A l \in Logins :
                  /\ login'[l].pw = login[l].pw /\ login'[l].via = login[l].via
                  /\ login'[l].raced = login[l].raced
                  /\ login[l].spared = TRUE => login'[l].spared = TRUE
                  /\ login'[l].pc = "granted" => login[l].pc = "granted"
                  /\ login'[l].pc = "live" => login[l].pc = "live" /\ login'[l].spared = TRUE
      <3>1. /\ RevokedBut(keep) \in [Logins -> LoginRows]
            /\ \A l \in Logins :
                    /\ RevokedBut(keep)[l].pw = login[l].pw /\ RevokedBut(keep)[l].via = login[l].via
                    /\ RevokedBut(keep)[l].raced = login[l].raced
                    /\ login[l].spared = TRUE => RevokedBut(keep)[l].spared = TRUE
                    /\ RevokedBut(keep)[l].pc = "granted" => login[l].pc = "granted"
                    /\ RevokedBut(keep)[l].pc = "live" => login[l].pc = "live" /\ RevokedBut(keep)[l].spared = TRUE
        BY <1>1, RevokedLogin
      <3>2. login' = RevokedBut(keep)
        BY <1>3
      <3>3. QED
        BY <3>1, <3>2
    <2>2. CredTypeOK'
      BY <1>1, <1>3, <2>1 DEF CredTypeOK, LoginRows
    <2>3. ASSUME NEW k \in Logins PROVE LoginOK(login'[k], account', Pending', scim' = "revoke", credFaults')
      <3>1. LoginOK(login[k], account, Pending, scim = "revoke", credFaults)
        BY <1>1
      <3>2. QED
        BY <2>1, <3>1 DEF LoginOK, Excused
    <2>4. QED
      BY <2>2, <2>3 DEF CredIInv
  <1>4. CASE credFaults < MaxCredFaults /\ credFaults' = credFaults + 1 /\ UNCHANGED login
    <2>1. CredTypeOK'
      BY <1>1, <1>2, <1>4 DEF CredTypeOK
    <2>2. credFaults' # 0
      BY <1>2, <1>4
    <2>3. ASSUME NEW k \in Logins PROVE LoginOK(login'[k], account', Pending', scim' = "revoke", credFaults')
      <3>1. LoginOK(login[k], account, Pending, scim = "revoke", credFaults)
        BY <1>1
      <3>2. QED
        BY <1>4, <2>2, <3>1 DEF LoginOK
    <2>4. QED
      BY <2>1, <2>3 DEF CredIInv
  <1>5. QED
    BY <1>3, <1>4 DEF RevokeSessions

\* The reset link, which no session depends on yet.
LEMMA LinkKeeps ==
    ASSUME CredIInv, Forgot \/ \E r \in Resets : ResetCheck(r) \/ ResetBurn(r)
    PROVE  CredIInv'
  <1>1. CredTypeOK /\ \A k \in Logins : LoginOK(login[k], account, Pending, scim = "revoke", credFaults)
    BY DEF CredIInv
  <1>2. UNCHANGED <<account, login, change, scim, credFaults>>
    BY DEF Forgot, ResetCheck, ResetBurn
  <1>3. CredTypeOK'
    BY <1>1, <1>2 DEF CredTypeOK, Forgot, ResetCheck, ResetBurn
  <1>4. Pending' = Pending
    <2>1. \A r \in Resets : reset'[r] = "updated" <=> reset[r] = "updated"
      BY <1>1 DEF CredTypeOK, Forgot, ResetCheck, ResetBurn
    <2>2. QED
      BY <1>2, <2>1 DEF Pending
  <1>5. QED
    BY <1>1, <1>2, <1>3, <1>4 DEF CredIInv

\* The account is created, deactivated, activated or deleted.
LEMMA AccountKeeps ==
    ASSUME CredIInv,
           \/ \E active \in BOOLEAN : ScimCreate(active)
           \/ CreateUser \/ DeleteUser \/ ScimDeactivate \/ ScimActivate
    PROVE  CredIInv'
  <1>1. CredTypeOK /\ \A k \in Logins : LoginOK(login[k], account, Pending, scim = "revoke", credFaults)
    BY DEF CredIInv
  <1>2. /\ login \in [Logins -> LoginRows] /\ MaxPasswords \in Nat
        /\ account \in [exists : BOOLEAN, pw : 0..MaxPasswords, active : BOOLEAN]
    BY <1>1, CredShapes
  <1>3. UNCHANGED <<token, reset, change, credFaults>> /\ Pending' = Pending
    BY DEF ScimCreate, CreateUser, DeleteUser, ScimDeactivate, ScimActivate, Pending
  <1>4. ASSUME NEW active \in BOOLEAN, ScimCreate(active) \/ CreateUser PROVE CredIInv'
    <2>1. UNCHANGED <<login, scim>> /\ account.exists = FALSE
          /\ account' \in {Provisioned(TRUE), Provisioned(active)}
      BY <1>2, <1>4 DEF ScimCreate, CreateUser
    <2>2. /\ account' \in [exists : BOOLEAN, pw : 0..MaxPasswords, active : BOOLEAN]
          /\ account'.exists = TRUE
      BY <1>2, <2>1 DEF Provisioned
    <2>3. CredTypeOK'
      BY <1>1, <1>3, <2>1, <2>2 DEF CredTypeOK
    <2>4. ASSUME NEW k \in Logins PROVE LoginOK(login'[k], account', Pending', scim' = "revoke", credFaults')
      <3>1. LoginOK(login[k], account, Pending, scim = "revoke", credFaults)
        BY <1>1
      <3>2. QED
        BY <2>1, <2>2, <3>1 DEF LoginOK, Excused
    <2>5. QED
      BY <2>3, <2>4 DEF CredIInv
  <1>5. CASE DeleteUser
    <2>1. /\ account.pw < MaxPasswords /\ UNCHANGED scim
          /\ account' = [exists |-> FALSE, active |-> TRUE, pw |-> account.pw + 1]
          /\ login' = [l \in Logins |-> IF login[l].pc \in {"granted", "live"}
                                        THEN [login[l] EXCEPT !.spared = TRUE] ELSE login[l]]
      BY <1>5 DEF DeleteUser
    <2>2. account' \in [exists : BOOLEAN, pw : 0..MaxPasswords, active : BOOLEAN]
          /\ account'.active = TRUE
      BY <1>2, <2>1
    <2>3. /\ login' \in [Logins -> LoginRows]
          /\ \A k \in Logins : login'[k].pc \in {"granted", "live"} => login'[k].spared = TRUE
      BY <1>2, <2>1 DEF LoginRows
    <2>4. CredTypeOK'
      BY <1>1, <1>3, <2>1, <2>2, <2>3 DEF CredTypeOK, LoginRows
    <2>5. ASSUME NEW k \in Logins PROVE LoginOK(login'[k], account', Pending', scim' = "revoke", credFaults')
      BY <2>2, <2>3 DEF LoginOK, Excused
    <2>6. QED
      BY <2>4, <2>5 DEF CredIInv
  <1>6. CASE ScimDeactivate
    <2>1. /\ account.exists = TRUE /\ account' = [account EXCEPT !.active = FALSE]
          /\ scim' = "revoke" /\ login' = Race(login)
      BY <1>2, <1>6 DEF ScimDeactivate
    <2>2. /\ account' \in [exists : BOOLEAN, pw : 0..MaxPasswords, active : BOOLEAN]
          /\ account'.pw = account.pw /\ account'.exists = TRUE
      BY <1>2, <2>1
    <2>3. /\ login' \in [Logins -> LoginRows]
          /\ \A l \in Logins : /\ login'[l].pc = login[l].pc /\ login'[l].pw = login[l].pw
                               /\ login'[l].via = login[l].via /\ login'[l].spared = login[l].spared
                               /\ login[l].raced = TRUE => login'[l].raced = TRUE
                               /\ login[l].pc = "granted" => login'[l].raced = TRUE
      BY <1>2, <2>1, RacedLogin
    <2>4. CredTypeOK'
      BY <1>1, <1>3, <2>1, <2>2, <2>3 DEF CredTypeOK, LoginRows
    <2>5. ASSUME NEW k \in Logins PROVE LoginOK(login'[k], account', Pending', scim' = "revoke", credFaults')
      <3>1. LoginOK(login[k], account, Pending, scim = "revoke", credFaults)
        BY <1>1
      <3>2. QED
        BY <1>3, <2>1, <2>2, <2>3, <3>1 DEF LoginOK, Excused
    <2>6. QED
      BY <2>4, <2>5 DEF CredIInv
  <1>7. CASE ScimActivate
    <2>1. account' = [account EXCEPT !.active = TRUE] /\ UNCHANGED <<login, scim>>
      BY <1>7 DEF ScimActivate
    <2>2. /\ account' \in [exists : BOOLEAN, pw : 0..MaxPasswords, active : BOOLEAN]
          /\ account'.pw = account.pw /\ account'.exists = account.exists /\ account'.active = TRUE
      BY <1>2, <2>1
    <2>3. CredTypeOK'
      BY <1>1, <1>3, <2>1, <2>2 DEF CredTypeOK
    <2>4. ASSUME NEW k \in Logins PROVE LoginOK(login'[k], account', Pending', scim' = "revoke", credFaults')
      <3>1. LoginOK(login[k], account, Pending, scim = "revoke", credFaults)
        BY <1>1
      <3>2. QED
        BY <1>3, <2>1, <2>2, <3>1 DEF LoginOK
    <2>5. QED
      BY <2>3, <2>4 DEF CredIInv
  <1>8. QED
    BY <1>4, <1>5, <1>6, <1>7

LEMMA NextCredIInv == ASSUME CredIInv, [CredNext]_credVars PROVE CredIInv'
  <1>1. CredTypeOK
    BY DEF CredIInv
  <1>2. ASSUME ChangeRevokes PROVE CredIInv'
    BY <1>1, <1>2, RevokeKeeps DEF ChangeRevokes, CredTypeOK, NoChange
  <1>3. ASSUME NEW r \in Resets, ResetRevokes(r) PROVE CredIInv'
    BY <1>1, <1>3, RevokeKeeps DEF ResetRevokes, CredTypeOK
  <1>4. ASSUME ScimRevokes PROVE CredIInv'
    BY <1>1, <1>4, RevokeKeeps DEF ScimRevokes, CredTypeOK
  <1>5. CASE UNCHANGED credVars
    BY <1>5 DEF credVars, CredIInv, CredTypeOK, Pending
  <1>6. QED
    BY <1>2, <1>3, <1>4, <1>5, GrantKeeps, IssueKeeps, NewPasswordKeeps, LinkKeeps, AccountKeeps
    DEF CredNext

LEMMA InitCredIInv == ASSUME CredInit PROVE CredIInv
  <1>1. MaxPasswords \in Nat /\ MaxCredFaults \in Nat
    BY CredConstants
  <1>2. CredTypeOK
    <2>1. account \in [exists : BOOLEAN, pw : 0..MaxPasswords, active : BOOLEAN]
      <3>1. account \in [exists : BOOLEAN, pw : {0}, active : {TRUE}]
        BY DEF CredInit
      <3>2. {0} \subseteq 0..MaxPasswords /\ {TRUE} \subseteq BOOLEAN
        BY <1>1
      <3>3. QED
        BY <3>1, <3>2
    <2>2. NoLogin \in LoginRows
      BY <1>1 DEF NoLogin, LoginRows
    <2>3. login \in [Logins -> LoginRows]
      BY <2>2 DEF CredInit
    <2>4. change \in [on : BOOLEAN, by : Logins \cup {"none"}]
      BY DEF CredInit, NoChange
    <2>5. reset \in [Resets -> {"idle", "checked", "refused", "burnt", "updated", "done"}]
      BY DEF CredInit
    <2>6. credFaults \in 0..MaxCredFaults
      BY <1>1 DEF CredInit
    <2>7. QED
      BY <2>1, <2>3, <2>4, <2>5, <2>6 DEF CredInit, CredTypeOK, LoginRows
  <1>3. \A l \in Logins : login[l].pc = "idle"
    BY DEF CredInit, NoLogin
  <1>4. QED
    BY <1>2, <1>3 DEF CredIInv, LoginOK

\* No session outlives the password it began under, nor the account, but for the
\* exceptions the property names, for any number of logins, resets and changes.
THEOREM SessionsDoFollow == CredSpec => []SessionsFollowAccount
  <1>1. CredInit => CredIInv
    BY InitCredIInv
  <1>2. CredIInv /\ [CredNext]_credVars => CredIInv'
    BY NextCredIInv
  <1>3. CredIInv => SessionsFollowAccount
    <2>1. SUFFICES ASSUME CredIInv PROVE SessionsFollowAccount
      OBVIOUS
    <2>2. /\ login \in [Logins -> LoginRows] /\ CredTypeOK
          /\ account \in [exists : BOOLEAN, pw : 0..MaxPasswords, active : BOOLEAN]
      BY <2>1, CredShapes DEF CredIInv
    <2>3. SessionsFollowPassword
      <3>1. SUFFICES ASSUME Settled, credFaults = 0, NEW l \in Logins,
                            login[l].pc = "live", login[l].pw # account.pw
                     PROVE  login[l].raced \/ login[l].spared
        BY DEF SessionsFollowPassword
      <3>2. ~ Pending
        BY <2>2, <3>1 DEF Settled, Pending, CredTypeOK
      <3>3. Excused(login[l])
        BY <2>1, <3>1, <3>2 DEF CredIInv, LoginOK
      <3>4. QED
        BY <3>3 DEF Excused
    <2>4. DeactivatedIsOut
      <3>1. SUFFICES ASSUME ~ account.active, scim = "idle", credFaults = 0, NEW l \in Logins,
                            login[l].pc = "live"
                     PROVE  login[l].raced \/ login[l].spared \/ login[l].via = "sso"
        BY DEF DeactivatedIsOut
      <3>2. account.active = FALSE /\ scim # "revoke"
        BY <2>2, <3>1
      <3>3. Excused(login[l]) \/ login[l].via = "sso"
        BY <2>1, <3>1, <3>2 DEF CredIInv, LoginOK
      <3>4. QED
        BY <3>3 DEF Excused
    <2>5. QED
      BY <2>3, <2>4 DEF SessionsFollowAccount
  <1>4. QED
    BY <1>1, <1>2, <1>3, PTL DEF CredSpec

-----------------------------------------------------------------------------
(* The purge of a tenant *)

\* The stores a purge is to empty.
Scope(full) == Elements(DataStores) \cup (IF full THEN Elements(AccountStores) ELSE {})

\* Of the stores in scope, only those of rest, those written since and Quickwit with
\* its task to do hold anything.
GoneBut(held, scope, rest, written, tasked) ==
    \A store \in held \cap scope :
        store \in rest \/ store \in written \/ (store = "quickwit" /\ tasked = TRUE)

\* The inductive invariant: a running purge has emptied what it has visited without
\* an error, and the last complete one has emptied everything.
PurgeIInv ==
    /\ PurgeTypeOK
    /\ purge.todo \in Seq(AllStores) /\ purge.on \in BOOLEAN /\ purge.full \in BOOLEAN
    /\ purge = [on |-> purge.on, full |-> purge.full, todo |-> purge.todo, errors |-> purge.errors]
    /\ purge.on = FALSE => purge.todo = <<>>
    /\ purge.on = TRUE =>
          /\ report.end = "none"
          /\ GoneBut(holds, Scope(purge.full), Elements(purge.todo) \cup purge.errors, since, deleting)
    /\ report.end = "complete" => GoneBut(holds, Scope(report.full), {}, since, deleting)

LEMMA VisitsInOrder ==
    ASSUME NEW S, NEW q \in Seq(S), q # <<>>
    PROVE  /\ Head(q) \in S /\ Tail(q) \in Seq(S)
           /\ Elements(q) = {Head(q)} \cup Elements(Tail(q))
  <1>1. Head(q) \in S /\ Tail(q) \in Seq(S) /\ Len(q) \in Nat \ {0} /\ Len(Tail(q)) = Len(q) - 1
    BY HeadTailProperties, EmptySeq, LenProperties
  <1>2. /\ DOMAIN q = 1..Len(q) /\ DOMAIN Tail(q) = 1..Len(Tail(q)) /\ Head(q) = q[1]
        /\ \A i \in 1..Len(Tail(q)) : Tail(q)[i] = q[i+1]
    BY <1>1, HeadTailProperties, LenProperties
  <1>3. ASSUME NEW x \in Elements(q) PROVE x \in {Head(q)} \cup Elements(Tail(q))
    <2>1. PICK i \in 1..Len(q) : x = q[i]
      BY <1>2, <1>3 DEF Elements
    <2>2. CASE i = 1
      BY <1>2, <2>1, <2>2
    <2>3. CASE i # 1
      <3>1. i - 1 \in 1..Len(Tail(q)) /\ Tail(q)[i-1] = q[i]
        BY <1>1, <1>2, <2>1, <2>3
      <3>2. QED
        BY <1>2, <2>1, <3>1 DEF Elements
    <2>4. QED
      BY <2>2, <2>3
  <1>4. ASSUME NEW x \in {Head(q)} \cup Elements(Tail(q)) PROVE x \in Elements(q)
    <2>1. CASE x = Head(q)
      <3>1. 1 \in DOMAIN q
        BY <1>1, <1>2
      <3>2. QED
        BY <1>2, <2>1, <3>1 DEF Elements
    <2>2. CASE x \in Elements(Tail(q))
      <3>1. PICK i \in 1..Len(Tail(q)) : x = Tail(q)[i]
        BY <1>2, <2>2 DEF Elements
      <3>2. i + 1 \in DOMAIN q /\ x = q[i+1]
        BY <1>1, <1>2, <3>1
      <3>3. QED
        BY <3>2 DEF Elements
    <2>3. QED
      BY <1>4, <2>1, <2>2
  <1>5. QED
    BY <1>1, <1>3, <1>4

LEMMA NothingLeft == Elements(<<>>) = {}
  BY DEF Elements

\* A purge begins with every store of its scope to visit.
LEMMA WholeScope ==
    ASSUME NEW full \in BOOLEAN
    PROVE  /\ DataStores \o (IF full THEN AccountStores ELSE <<>>) \in Seq(AllStores)
           /\ Scope(full) \subseteq Elements(DataStores \o (IF full THEN AccountStores ELSE <<>>))
  <1> DEFINE D == DataStores
             A == IF full THEN AccountStores ELSE <<>>
  <1>1. /\ D \in Seq(AllStores) /\ A \in Seq(AllStores)
    <2>1. Elements(DataStores) \subseteq AllStores /\ Elements(AccountStores) \subseteq AllStores
      BY DEF AllStores
    <2>2. \A i \in 1..5 : DataStores[i] \in AllStores
      BY <2>1 DEF Elements, DataStores
    <2>3. \A i \in 1..4 : AccountStores[i] \in AllStores
      BY <2>1 DEF Elements, AccountStores
    <2>4. DataStores \in Seq(AllStores)
      BY <2>2 DEF DataStores
    <2>5. AccountStores \in Seq(AllStores)
      BY <2>3 DEF AccountStores
    <2>6. QED
      BY <2>4, <2>5, EmptySeq
  <1>2. Scope(full) \subseteq Elements(D) \cup Elements(A)
    BY DEF Scope
  <1> HIDE DEF D, A
  <1>3. /\ D \o A \in Seq(AllStores) /\ Len(D \o A) = Len(D) + Len(A)
        /\ \A i \in 1..(Len(D) + Len(A)) : (D \o A)[i] = IF i <= Len(D) THEN D[i] ELSE A[i - Len(D)]
        /\ Len(D) \in Nat /\ Len(A) \in Nat /\ DOMAIN D = 1..Len(D) /\ DOMAIN A = 1..Len(A)
        /\ DOMAIN (D \o A) = 1..(Len(D) + Len(A))
    BY <1>1, ConcatProperties, LenProperties
  <1>4. Elements(D) \subseteq Elements(D \o A)
    <2>1. SUFFICES ASSUME NEW i \in 1..Len(D) PROVE D[i] \in Elements(D \o A)
      BY <1>3 DEF Elements
    <2>2. i \in DOMAIN (D \o A) /\ (D \o A)[i] = D[i]
      BY <1>3
    <2>3. QED
      BY <2>2 DEF Elements
  <1>5. Elements(A) \subseteq Elements(D \o A)
    <2>1. SUFFICES ASSUME NEW i \in 1..Len(A) PROVE A[i] \in Elements(D \o A)
      BY <1>3 DEF Elements
    <2>2. i + Len(D) \in DOMAIN (D \o A) /\ (D \o A)[i + Len(D)] = A[i]
      BY <1>3
    <2>3. QED
      BY <2>2 DEF Elements
  <1>6. QED
    BY <1>2, <1>3, <1>4, <1>5 DEF D, A

\* Traffic lands in a store: the purge has it still to visit, or it counts as written since.
LEMMA WroteKeeps ==
    ASSUME PurgeIInv, NEW store \in AllStores, Wrote(store),
           UNCHANGED <<redis, cachedKey, purge, deleting, report>>,
           writing' \in [Writers -> Telemetry \cup {"idle"}]
    PROVE  PurgeIInv'
  <1>1. PurgeTypeOK'
    BY DEF PurgeIInv, PurgeTypeOK, Wrote
  <1>2. CASE purge.on = TRUE
    <2>1. GoneBut(holds', Scope(purge.full), Elements(purge.todo) \cup purge.errors, since', deleting)
      BY <1>2 DEF PurgeIInv, GoneBut, Wrote
    <2>2. QED
      BY <1>1, <1>2, <2>1 DEF PurgeIInv
  <1>3. CASE purge.on = FALSE
    <2>1. since' = since \cup {store} /\ holds' = holds \cup {store}
      BY <1>3, NothingLeft DEF PurgeIInv, Wrote
    <2>2. report.end = "complete" => GoneBut(holds', Scope(report.full), {}, since', deleting)
      BY <2>1 DEF PurgeIInv, GoneBut
    <2>3. QED
      BY <1>1, <1>3, <2>2 DEF PurgeIInv
  <1>4. QED
    BY <1>2, <1>3 DEF PurgeIInv

LEMMA StartPurgeKeeps == ASSUME PurgeIInv, NEW full \in BOOLEAN, StartPurge(full) PROVE PurgeIInv'
  <1> DEFINE q == DataStores \o (IF full THEN AccountStores ELSE <<>>)
  <1>1. q \in Seq(AllStores) /\ Scope(full) \subseteq Elements(q)
    BY WholeScope
  <1>2. /\ purge' = [on |-> TRUE, full |-> full, errors |-> {}, todo |-> q]
        /\ since' = {} /\ report' = NoReport /\ UNCHANGED <<holds, redis, cachedKey, writing, deleting>>
    BY DEF StartPurge
  <1> HIDE DEF q
  <1>3. /\ purge'.on = TRUE /\ purge'.full = full /\ purge'.errors = {} /\ purge'.todo = q
        /\ purge' = [on |-> purge'.on, full |-> purge'.full, todo |-> purge'.todo, errors |-> purge'.errors]
    BY <1>2
  <1>4. report'.end = "none" /\ report' \in [end : {"none", "complete", "partial"}, full : BOOLEAN]
    BY <1>2 DEF NoReport
  <1>5. PurgeTypeOK'
    BY <1>2, <1>3, <1>4 DEF PurgeIInv, PurgeTypeOK
  <1>6. GoneBut(holds', Scope(purge'.full), Elements(purge'.todo) \cup purge'.errors, since', deleting')
    BY <1>1, <1>3 DEF GoneBut
  <1>7. QED
    BY <1>1, <1>3, <1>4, <1>5, <1>6 DEF PurgeIInv

\* A store is visited, or fails: it leaves the sequence emptied, tasked or reported.
LEMMA VisitKeeps == ASSUME PurgeIInv, VisitStore \/ StoreFails PROVE PurgeIInv'
  <1> DEFINE store == Head(purge.todo)
             q == Tail(purge.todo)
  <1>1. /\ store \in AllStores /\ q \in Seq(AllStores)
        /\ Elements(purge.todo) = {store} \cup Elements(q)
        /\ purge.todo # <<>>
    BY VisitsInOrder DEF PurgeIInv, VisitStore, StoreFails
  <1>2. /\ purge.on = TRUE /\ report.end = "none"
        /\ GoneBut(holds, Scope(purge.full), Elements(purge.todo) \cup purge.errors, since, deleting)
    BY <1>1 DEF PurgeIInv
  <1>3. \/ /\ purge'.on = purge.on /\ purge'.full = purge.full /\ purge'.todo = q
           /\ purge'.errors = purge.errors
           /\ purge' = [on |-> purge'.on, full |-> purge'.full, todo |-> purge'.todo, errors |-> purge'.errors]
           /\ \/ store = "quickwit" /\ deleting' = TRUE /\ UNCHANGED holds
              \/ holds' = holds \ {store} /\ UNCHANGED deleting
        \/ /\ purge'.on = purge.on /\ purge'.full = purge.full /\ purge'.todo = q
           /\ purge'.errors = purge.errors \cup {store}
           /\ purge' = [on |-> purge'.on, full |-> purge'.full, todo |-> purge'.todo, errors |-> purge'.errors]
           /\ UNCHANGED <<holds, deleting>>
    <2>1. purge = [on |-> purge.on, full |-> purge.full, todo |-> purge.todo, errors |-> purge.errors]
      BY DEF PurgeIInv
    <2>2. CASE VisitStore
      BY <2>1, <2>2 DEF VisitStore
    <2>3. CASE StoreFails
      BY <2>1, <2>3 DEF StoreFails
    <2>4. QED
      BY <2>2, <2>3
  <1>4. UNCHANGED <<redis, cachedKey, writing, report, since>>
    BY DEF VisitStore, StoreFails
  <1> HIDE DEF store, q
  <1>5. PurgeTypeOK'
    BY <1>1, <1>3, <1>4 DEF PurgeIInv, PurgeTypeOK
  <1>6. GoneBut(holds', Scope(purge'.full), Elements(purge'.todo) \cup purge'.errors, since', deleting')
    BY <1>1, <1>2, <1>3, <1>4 DEF GoneBut
  <1>7. QED
    BY <1>1, <1>2, <1>3, <1>4, <1>5, <1>6 DEF PurgeIInv

LEMMA DeleteTaskKeeps == ASSUME PurgeIInv, DeleteTask PROVE PurgeIInv'
  <1>1. /\ deleting' = FALSE /\ holds' = holds \ {"quickwit"} /\ since' = since \ {"quickwit"}
        /\ UNCHANGED <<redis, cachedKey, writing, purge, report>>
    BY DEF DeleteTask
  <1>2. PurgeTypeOK'
    BY <1>1 DEF PurgeIInv, PurgeTypeOK
  <1>3. ASSUME NEW scope, NEW rest, GoneBut(holds, scope, rest, since, deleting)
        PROVE  GoneBut(holds', scope, rest, since', deleting')
    BY <1>1, <1>3 DEF GoneBut
  <1>4. QED
    BY <1>1, <1>2, <1>3 DEF PurgeIInv

LEMMA EndPurgeKeeps == ASSUME PurgeIInv, EndPurge PROVE PurgeIInv'
  <1>1. /\ purge.on = TRUE /\ purge.todo = <<>>
        /\ report' = [end |-> IF purge.errors = {} THEN "complete" ELSE "partial", full |-> purge.full]
        /\ purge' = NoPurge /\ UNCHANGED <<holds, redis, cachedKey, writing, deleting, since>>
    BY DEF EndPurge, PurgeIInv
  <1>2. /\ purge'.on = FALSE /\ purge'.full = FALSE /\ purge'.todo = <<>> /\ purge'.errors = {}
        /\ purge' = [on |-> purge'.on, full |-> purge'.full, todo |-> purge'.todo, errors |-> purge'.errors]
    BY <1>1 DEF NoPurge
  <1>3. report' \in [end : {"none", "complete", "partial"}, full : BOOLEAN]
    BY <1>1 DEF PurgeIInv
  <1>4. PurgeTypeOK'
    BY <1>1, <1>2, <1>3 DEF PurgeIInv, PurgeTypeOK
  <1>5. ASSUME report'.end = "complete" PROVE GoneBut(holds', Scope(report'.full), {}, since', deleting')
    <2>1. purge.errors = {} /\ report'.full = purge.full
      BY <1>1, <1>5
    <2>2. GoneBut(holds, Scope(purge.full), Elements(purge.todo) \cup purge.errors, since, deleting)
      BY <1>1 DEF PurgeIInv
    <2>3. Elements(purge.todo) \cup purge.errors = {}
      BY <1>1, <2>1, NothingLeft
    <2>4. QED
      BY <1>1, <2>1, <2>2, <2>3
  <1>6. <<>> \in Seq(AllStores)
    BY EmptySeq
  <1>7. QED
    BY <1>2, <1>4, <1>5, <1>6 DEF PurgeIInv

LEMMA NextPurgeIInv == ASSUME PurgeIInv, [PurgeNext]_purgeVars PROVE PurgeIInv'
  <1>1. writing \in [Writers -> Telemetry \cup {"idle"}]
    BY DEF PurgeIInv, PurgeTypeOK
  <1>2. Telemetry \subseteq AllStores /\ "usage_daily" \in AllStores
    <2>1. \A i \in 1..5 : DataStores[i] \in Elements(DataStores)
      BY DEF DataStores, Elements
    <2>2. /\ DataStores[1] = "clickhouse" /\ DataStores[2] = "quickwit" /\ DataStores[3] = "topology"
          /\ DataStores[4] = "derived" /\ DataStores[5] = "usage_daily"
      BY DEF DataStores
    <2>3. QED
      BY <2>1, <2>2 DEF AllStores, Telemetry
  <1>3. ASSUME NEW g \in PurgeGateways, ResolveKey(g) \/ KeyExpires(g) PROVE PurgeIInv'
    BY <1>3 DEF ResolveKey, KeyExpires, PurgeIInv, PurgeTypeOK
  <1>4. ASSUME NEW g \in PurgeGateways, NEW w \in Writers, NEW store \in Telemetry,
               ExportAccepted(w, g, store)
        PROVE  PurgeIInv'
    BY <1>1, <1>4 DEF ExportAccepted, PurgeIInv, PurgeTypeOK
  <1>5. ASSUME NEW w \in Writers, ExportLands(w) PROVE PurgeIInv'
    <2>1. writing[w] \in AllStores /\ writing' \in [Writers -> Telemetry \cup {"idle"}]
      BY <1>1, <1>2, <1>5 DEF ExportLands
    <2>2. QED
      BY <1>5, <2>1, WroteKeeps DEF ExportLands
  <1>6. ASSUME FlushUsage PROVE PurgeIInv'
    <2>1. UNCHANGED <<redis, cachedKey, writing, purge, deleting, report>> /\ Wrote("usage_daily")
      BY <1>6 DEF FlushUsage
    <2>2. QED
      BY <1>1, <1>2, <2>1, WroteKeeps
  <1>7. CASE UNCHANGED purgeVars
    BY <1>7 DEF purgeVars, PurgeIInv, PurgeTypeOK
  <1>8. QED
    BY <1>3, <1>4, <1>5, <1>6, <1>7, StartPurgeKeeps, VisitKeeps, DeleteTaskKeeps, EndPurgeKeeps
    DEF PurgeNext

LEMMA InitPurgeIInv == ASSUME PurgeInit PROVE PurgeIInv
  <1>1. /\ purge.on = FALSE /\ purge.full = FALSE /\ purge.todo = <<>> /\ purge.errors = {}
        /\ purge = [on |-> purge.on, full |-> purge.full, todo |-> purge.todo, errors |-> purge.errors]
    BY DEF PurgeInit, NoPurge
  <1>2. report.end = "none" /\ report \in [end : {"none", "complete", "partial"}, full : BOOLEAN]
    BY DEF PurgeInit, NoReport
  <1>3. PurgeTypeOK
    BY <1>1, <1>2 DEF PurgeInit, PurgeTypeOK
  <1>4. QED
    BY <1>1, <1>2, <1>3, EmptySeq DEF PurgeIInv

\* After a purge that reported no error, whatever exports, cached keys and flushers
\* did meanwhile, and whichever stores failed in purges before it, a store of its
\* scope holds only what was written behind its back or what Quickwit has to delete.
THEOREM PurgedIsGone == PurgeSpec => []CompleteMeansGone
  <1>1. PurgeInit => PurgeIInv
    BY InitPurgeIInv
  <1>2. PurgeIInv /\ [PurgeNext]_purgeVars => PurgeIInv'
    BY NextPurgeIInv
  <1>3. PurgeIInv => CompleteMeansGone
    <2>1. SUFFICES ASSUME PurgeIInv, report.end = "complete",
                          NEW store \in holds \cap Scope(report.full)
                   PROVE  store \in since \/ (store = "quickwit" /\ deleting)
      BY DEF CompleteMeansGone, Scope
    <2>2. store \in since \/ (store = "quickwit" /\ deleting = TRUE)
      BY <2>1 DEF PurgeIInv, GoneBut
    <2>3. QED
      BY <2>2
  <1>4. QED
    BY <1>1, <1>2, <1>3, PTL DEF PurgeSpec

-----------------------------------------------------------------------------
(* Billing *)

EventTypes == {"checkout.session.completed", "customer.subscription.updated",
               "customer.subscription.deleted", "invoice.payment_failed", "invoice.paid"}
SubStates == {"none", "active", "past_due", "unpaid", "canceled"}
BillEvents == [n : Nat, type : EventTypes, sub : Subs, status : SubStates]
Todos == {<<>>, <<"status">>, <<"plan", "status">>, <<"ids", "plan", "status">>}
ToSetPlan == {<<"plan", "status">>, <<"ids", "plan", "status">>}
TenantRows == [plan : {"free", "standard", "premium"},
               status : {"active", "past_due", "suspended"}, sub : Subs \cup {NoSub}]
DeliveryRows == [n : Nat, type : EventTypes \cup {"none"}, sub : Subs \cup {NoSub},
                 status : SubStates, todo : Todos]

BillTypes ==
    /\ stripe \in [Subs -> SubStates] /\ current \in Subs \cup {NoSub} /\ tenant \in TenantRows
    /\ events \in Nat /\ newest \in Nat /\ newest <= events /\ crossed \in BOOLEAN
    /\ applying \in [Deliveries -> DeliveryRows] /\ outbox \subseteq BillEvents

\* The last event says what its subscription is now.
LastOK(e) ==
    /\ e.type \in {"checkout.session.completed", "customer.subscription.updated",
                   "customer.subscription.deleted"}
    /\ e.sub \in Subs /\ e.status = stripe[e.sub]
    /\ e.type = "customer.subscription.deleted" <=> e.status = "canceled"
    /\ e.type = "checkout.session.completed" => e.status = "active"

\* The row has what the last event says, or the order was lost.
PlanSet == newest = events /\ (crossed = TRUE \/ tenant.plan = Expected[1])
StatusSet == newest = events /\ (crossed = TRUE \/ tenant.status = Expected[2])

\* A delivery of the last event has set what is not left to set.
DeliveryOK(x) ==
    /\ x.n <= events /\ (x.todo # <<>> => x.n >= 1)
    /\ x.n >= 1 => x.sub \in Subs /\ x.type \in EventTypes
    /\ x.n = 0 => x = NoDelivery
    /\ x.n >= 1 /\ x.n = events =>
          /\ LastOK(x)
          /\ x.todo \notin ToSetPlan => PlanSet
          /\ x.todo = <<>> => StatusSet

\* The inductive invariant: the last event is still to be delivered, or the row
\* has what it says.
BillIInv ==
    /\ BillTypes
    /\ \A e \in outbox : e.n >= 1 /\ e.n <= events /\ (e.n = events => LastOK(e))
    /\ \A d \in Deliveries : DeliveryOK(applying[d])
    /\ events = 0 => current = NoSub /\ tenant.plan = "free" /\ tenant.status = "active"
    /\ events >= 1 => (\E e \in outbox : e.n = events) \/ (PlanSet /\ StatusSet)

\* The statements of an event run in their order.
LEMMA TodoSteps ==
    ASSUME NEW t \in Todos, t # <<>>
    PROVE  /\ Tail(t) \in Todos
           /\ \/ Head(t) = "status" /\ Tail(t) = <<>> /\ t \notin ToSetPlan
              \/ Head(t) = "plan" /\ Tail(t) = <<"status">> /\ t \in ToSetPlan
              \/ Head(t) = "ids" /\ Tail(t) \in ToSetPlan /\ t \in ToSetPlan
           /\ <<>> \notin ToSetPlan /\ <<"status">> \notin ToSetPlan /\ <<"status">> # <<>>
  <1>1. /\ <<"status">> # <<>> /\ <<"plan", "status">> # <<>> /\ <<"ids", "plan", "status">> # <<>>
        /\ <<"status">> # <<"plan", "status">> /\ <<"status">> # <<"ids", "plan", "status">>
    OBVIOUS
  <1>2. CASE t = <<"status">>
    BY <1>1, <1>2 DEF Todos, ToSetPlan
  <1>3. CASE t = <<"plan", "status">>
    BY <1>1, <1>3 DEF Todos, ToSetPlan
  <1>4. CASE t = <<"ids", "plan", "status">>
    BY <1>1, <1>4 DEF Todos, ToSetPlan
  <1>5. QED
    BY <1>2, <1>3, <1>4 DEF Todos

\* The last event of the current subscription leaves in the row what is expected.
LEMMA LastSays ==
    ASSUME BillTypes, NEW e, LastOK(e), e.sub = current
    PROVE  NewPlan(e) = Expected[1] /\ NewStatus(e) = Expected[2]
  <1>1. current \in Subs /\ current # NoSub /\ e.status = stripe[current]
    BY BillConstants DEF LastOK, NoSub
  <1>2. CASE e.type = "customer.subscription.deleted"
    BY <1>1, <1>2 DEF LastOK, NewPlan, NewStatus, Expected
  <1>3. CASE e.type = "customer.subscription.updated"
    BY <1>1, <1>3 DEF LastOK, NewPlan, NewStatus, Expected
  <1>4. CASE e.type = "checkout.session.completed"
    BY <1>1, <1>4 DEF LastOK, NewPlan, NewStatus, Expected, statusForSubscription
  <1>5. QED
    BY <1>2, <1>3, <1>4 DEF LastOK

LEMMA WritesFit ==
    ASSUME NEW e, e.sub \in Subs, e.type \in EventTypes
    PROVE  NewPlan(e) \in {"free", "standard", "premium"} /\ NewStatus(e) \in {"active", "past_due", "suspended"}
  <1>1. SubPlan[e.sub] \in {"standard", "premium"}
    BY BillConstants
  <1>2. statusForSubscription(e.status) \in {"active", "past_due", "suspended"}
    BY DEF statusForSubscription
  <1>3. QED
    BY <1>1, <1>2 DEF NewPlan, NewStatus, EventTypes

\* Stripe sends the events of a change: the last of them says what it is now.
LEMMA SendKeeps ==
    ASSUME BillIInv, NEW s \in Subs, NEW status \in SubStates, NEW types, NEW k \in 1..2,
           Send(s, status, types), Len(types) = k, \A i \in 1..k : types[i] \in EventTypes,
           types[k] \in {"checkout.session.completed", "customer.subscription.updated",
                         "customer.subscription.deleted"},
           types[k] = "customer.subscription.deleted" <=> status = "canceled",
           types[k] = "checkout.session.completed" => status = "active",
           current' \in Subs \cup {NoSub}
    PROVE  BillIInv'
  <1>1. /\ stripe' = [stripe EXCEPT ![s] = status] /\ events' = events + k
        /\ outbox' = outbox \cup {Event(events + i, types[i], s, status) : i \in 1..k}
        /\ UNCHANGED <<tenant, applying, crossed, newest>>
    BY DEF Send
  <1>2. BillTypes /\ events \in Nat /\ events' \in Nat /\ events' > events /\ newest' <= events'
    BY <1>1 DEF BillIInv, BillTypes
  <1>3. ASSUME NEW i \in 1..k
        PROVE  /\ Event(events + i, types[i], s, status) \in BillEvents
               /\ Event(events + i, types[i], s, status).n = events + i
               /\ Event(events + i, types[i], s, status).type = types[i]
               /\ Event(events + i, types[i], s, status).sub = s
               /\ Event(events + i, types[i], s, status).status = status
    BY <1>2, <1>3 DEF Event, BillEvents
  <1>4. BillTypes'
    <2>1. stripe' \in [Subs -> SubStates]
      BY <1>1, <1>2 DEF BillTypes
    <2>2. outbox' \subseteq BillEvents
      BY <1>1, <1>2, <1>3 DEF BillTypes
    <2>3. applying' \in [Deliveries -> DeliveryRows]
      BY <1>1, <1>2 DEF BillTypes
    <2>4. QED
      BY <1>1, <1>2, <2>1, <2>2, <2>3 DEF BillTypes
  <1>5. ASSUME NEW e \in outbox' PROVE e.n >= 1 /\ e.n <= events' /\ (e.n = events' => LastOK(e)')
    <2>1. CASE e \in outbox
      <3>1. e.n >= 1 /\ e.n <= events /\ e.n \in Nat
        BY <1>2, <2>1 DEF BillIInv, BillTypes, BillEvents
      <3>2. QED
        BY <1>2, <3>1
    <2>2. CASE e \notin outbox
      <3>1. PICK i \in 1..k : e = Event(events + i, types[i], s, status)
        BY <1>1, <2>2
      <3>2. e.n = events + i /\ e.type = types[i] /\ e.sub = s /\ e.status = status
        BY <1>3, <3>1
      <3>3. e.n >= 1 /\ e.n <= events'
        BY <1>1, <1>2, <3>2
      <3>4. e.n = events' => i = k
        BY <1>1, <1>2, <3>2
      <3>5. stripe'[s] = status
        BY <1>1, <1>2 DEF BillTypes
      <3>6. QED
        BY <3>2, <3>3, <3>4, <3>5 DEF LastOK
    <2>3. QED
      BY <2>1, <2>2
  <1>6. ASSUME NEW d \in Deliveries PROVE DeliveryOK(applying[d])'
    <2>1. applying'[d] = applying[d] /\ applying[d].n \in Nat /\ DeliveryOK(applying[d])
      BY <1>1, <1>2 DEF BillIInv, BillTypes, DeliveryRows
    <2>2. applying[d].n <= events /\ applying[d].n < events'
      BY <1>2, <2>1 DEF DeliveryOK
    <2>3. QED
      BY <1>2, <2>1, <2>2 DEF DeliveryOK
  <1>7. \E e \in outbox' : e.n = events'
    <2>1. Event(events + k, types[k], s, status) \in outbox'
      BY <1>1
    <2>2. Event(events + k, types[k], s, status).n = events'
      BY <1>1, <1>3
    <2>3. QED
      BY <2>1, <2>2
  <1>8. events' # 0
    BY <1>2
  <1>9. QED
    BY <1>4, <1>5, <1>6, <1>7, <1>8 DEF BillIInv

LEMMA StripeKeeps ==
    ASSUME BillIInv, NEW s \in Subs,
           \/ CompleteCheckout(s) \/ ChargeFails(s) \/ ChargeSucceeds(s)
           \/ RetriesExhausted(s) \/ CancelSubscription(s)
    PROVE  BillIInv'
  <1>1. current \in Subs \cup {NoSub}
    BY DEF BillIInv, BillTypes
  <1>2. CASE CompleteCheckout(s)
    <2>1. Send(s, "active", <<"checkout.session.completed">>) /\ current' = s
      BY <1>2 DEF CompleteCheckout
    <2>2. QED
      BY <2>1, SendKeeps DEF EventTypes, SubStates
  <1>3. CASE ChargeFails(s)
    <2>1. /\ Send(s, "past_due", <<"invoice.payment_failed", "customer.subscription.updated">>)
          /\ current' = current
      BY <1>3 DEF ChargeFails
    <2>2. QED
      BY <1>1, <2>1, SendKeeps DEF EventTypes, SubStates
  <1>4. CASE ChargeSucceeds(s)
    <2>1. /\ Send(s, "active", <<"invoice.paid", "customer.subscription.updated">>)
          /\ current' = current
      BY <1>4 DEF ChargeSucceeds
    <2>2. QED
      BY <1>1, <2>1, SendKeeps DEF EventTypes, SubStates
  <1>5. CASE RetriesExhausted(s)
    <2>1. Send(s, "unpaid", <<"customer.subscription.updated">>) /\ current' = current
      BY <1>5 DEF RetriesExhausted
    <2>2. QED
      BY <1>1, <2>1, SendKeeps DEF EventTypes, SubStates
  <1>6. CASE CancelSubscription(s)
    <2>1. Send(s, "canceled", <<"customer.subscription.deleted">>) /\ current' = current
      BY <1>6 DEF CancelSubscription
    <2>2. QED
      BY <1>1, <2>1, SendKeeps DEF EventTypes, SubStates
  <1>7. QED
    BY <1>2, <1>3, <1>4, <1>5, <1>6

\* A delivery starts with the statements of its event, to set a plan among them if
\* the event may be the last.
LEMMA DeliverKeeps == ASSUME BillIInv, NEW d \in Deliveries, NEW e \in outbox, Deliver(d, e) PROVE BillIInv'
  <1> DEFINE x == [n |-> e.n, type |-> e.type, sub |-> e.sub, status |-> e.status, todo |-> Statements(e)]
  <1>1. /\ applying' = [applying EXCEPT ![d] = x]
        /\ UNCHANGED <<stripe, current, events, outbox, tenant, crossed, newest>>
    BY DEF Deliver, stripeVars
  <1>2. BillTypes /\ e \in BillEvents /\ e.n >= 1 /\ e.n <= events /\ (e.n = events => LastOK(e))
    BY DEF BillIInv, BillTypes
  <1>3. /\ Statements(e) \in Todos /\ Statements(e) # <<>>
        /\ e.type \in {"checkout.session.completed", "customer.subscription.updated",
                       "customer.subscription.deleted"} => Statements(e) \in ToSetPlan
    BY DEF Statements, Todos, ToSetPlan
  <1>4. /\ x.n = e.n /\ x.type = e.type /\ x.sub = e.sub /\ x.status = e.status
        /\ x.todo = Statements(e)
    OBVIOUS
  <1>5. x \in DeliveryRows
    BY <1>2, <1>3 DEF DeliveryRows, BillEvents
  <1> HIDE DEF x
  <1>6. BillTypes'
    BY <1>1, <1>2, <1>5 DEF BillTypes
  <1>7. DeliveryOK(x)
    <2>1. x.n = events => LastOK(x) /\ x.todo \in ToSetPlan
      BY <1>2, <1>3, <1>4 DEF LastOK
    <2>2. x.n \in Nat /\ x.n >= 1 /\ x.n <= events /\ x.sub \in Subs /\ x.type \in EventTypes
      BY <1>2, <1>4 DEF BillEvents
    <2>3. x.todo # <<>>
      BY <1>3, <1>4
    <2>4. QED
      BY <2>1, <2>2, <2>3 DEF DeliveryOK
  <1>8. ASSUME NEW o \in Deliveries PROVE DeliveryOK(applying[o])'
    <2>1. DeliveryOK(applying'[o])
      BY <1>1, <1>2, <1>7 DEF BillIInv, BillTypes
    <2>2. QED
      BY <1>1, <2>1 DEF DeliveryOK, LastOK, PlanSet, StatusSet, Expected
  <1>9. QED
    BY <1>1, <1>6, <1>8 DEF BillIInv, LastOK, PlanSet, StatusSet, Expected

LEMMA NoDeliveryOK == ASSUME BillTypes PROVE NoDelivery \in DeliveryRows /\ DeliveryOK(NoDelivery)
  <1>1. /\ NoDelivery.n = 0 /\ NoDelivery.todo = <<>>
    BY DEF NoDelivery
  <1>2. NoDelivery \in DeliveryRows
    BY DEF NoDelivery, DeliveryRows, SubStates, Todos
  <1>3. QED
    BY <1>1, <1>2 DEF BillTypes, DeliveryOK

\* A delivery ends: it failed, and its event stays, or it is answered, and if its
\* event was the last the row has what it says.
LEMMA EndKeeps == ASSUME BillIInv, NEW d \in Deliveries, StatementFails(d) \/ Answered(d) PROVE BillIInv'
  <1>1. /\ applying' = [applying EXCEPT ![d] = NoDelivery]
        /\ UNCHANGED <<stripe, current, events, tenant, crossed, newest>>
    BY DEF StatementFails, Answered, stripeVars
  <1>2. BillTypes
    BY DEF BillIInv
  <1>3. \/ outbox' = outbox
        \/ /\ outbox' = {e \in outbox : e.n # applying[d].n}
           /\ applying[d] # NoDelivery /\ applying[d].todo = <<>>
    BY DEF StatementFails, Answered
  <1>4. outbox' \subseteq outbox
    BY <1>3
  <1>5. BillTypes'
    BY <1>1, <1>2, <1>4, NoDeliveryOK DEF BillTypes
  <1>6. ASSUME NEW o \in Deliveries PROVE DeliveryOK(applying[o])'
    <2>1. DeliveryOK(applying'[o])
      BY <1>1, <1>2, NoDeliveryOK DEF BillIInv, BillTypes
    <2>2. QED
      BY <1>1, <2>1 DEF DeliveryOK, LastOK, PlanSet, StatusSet, Expected
  <1>7. \A e \in outbox' : e.n >= 1 /\ e.n <= events' /\ (e.n = events' => LastOK(e)')
    BY <1>1, <1>4 DEF BillIInv, LastOK
  <1>8. ASSUME events >= 1 PROVE (\E e \in outbox' : e.n = events) \/ (PlanSet /\ StatusSet)
    <2>1. CASE outbox' = outbox
      BY <1>8, <2>1 DEF BillIInv
    <2>2. CASE outbox' # outbox
      <3>1. /\ outbox' = {e \in outbox : e.n # applying[d].n}
            /\ applying[d] # NoDelivery /\ applying[d].todo = <<>>
        BY <1>3, <2>2
      <3>2. DeliveryOK(applying[d]) /\ applying[d].n \in Nat
        BY <1>2 DEF BillIInv, BillTypes, DeliveryRows
      <3>3. <<>> \notin ToSetPlan
        BY DEF ToSetPlan
      <3>4. CASE applying[d].n = events
        BY <1>8, <3>1, <3>2, <3>3, <3>4 DEF DeliveryOK
      <3>5. CASE applying[d].n # events
        BY <1>8, <3>1, <3>5 DEF BillIInv
      <3>6. QED
        BY <3>4, <3>5
    <2>3. QED
      BY <2>1, <2>2
  <1>9. QED
    <2>1. (PlanSet /\ StatusSet) => (PlanSet /\ StatusSet)'
      BY <1>1 DEF PlanSet, StatusSet, Expected
    <2>2. events' >= 1 => (\E e \in outbox' : e.n = events') \/ (PlanSet /\ StatusSet)'
      BY <1>1, <1>8, <2>1
    <2>3. QED
      BY <1>1, <1>5, <1>6, <1>7, <2>2 DEF BillIInv

\* What one statement of delivery e does to the row.
LEMMA OneColumn ==
    ASSUME BillTypes, NEW d \in Deliveries, RunStatement(d), DeliveryOK(applying[d])
    PROVE  /\ tenant' \in TenantRows
           /\ Head(applying[d].todo) # "plan" => tenant'.plan = tenant.plan
           /\ Head(applying[d].todo) # "status" => tenant'.status = tenant.status
           /\ Head(applying[d].todo) = "plan" => tenant'.plan = NewPlan(applying[d])
           /\ Head(applying[d].todo) = "status" => tenant'.status = NewStatus(applying[d])
  <1> DEFINE e == applying[d]
  <1>1. e \in DeliveryRows /\ e.todo \in Todos /\ e.todo # <<>> /\ e.n >= 1 /\ e.sub \in Subs /\ e.type \in EventTypes
    BY DEF BillTypes, DeliveryRows, RunStatement, DeliveryOK
  <1>2. NewPlan(e) \in {"free", "standard", "premium"} /\ NewStatus(e) \in {"active", "past_due", "suspended"}
    BY <1>1, WritesFit
  <1>3. tenant \in TenantRows
    BY DEF BillTypes
  <1>4. Head(e.todo) \in {"ids", "plan", "status"}
    BY <1>1, TodoSteps
  <1>5. tenant' = CASE Head(e.todo) = "ids" -> [tenant EXCEPT !.sub = e.sub]
                    [] Head(e.todo) = "plan" -> [tenant EXCEPT !.plan = NewPlan(e)]
                    [] Head(e.todo) = "status" -> [tenant EXCEPT !.status = NewStatus(e)]
    BY DEF RunStatement
  <1> HIDE DEF e
  <1>6. CASE Head(e.todo) = "ids"
    BY <1>1, <1>3, <1>5, <1>6 DEF TenantRows, e
  <1>7. CASE Head(e.todo) = "plan"
    BY <1>2, <1>3, <1>5, <1>7 DEF TenantRows, e
  <1>8. CASE Head(e.todo) = "status"
    BY <1>2, <1>3, <1>5, <1>8 DEF TenantRows, e
  <1>9. QED
    BY <1>4, <1>6, <1>7, <1>8

\* A statement runs: of the last event, and the row gets what is expected unless the
\* subscription is an earlier one; or of an older event, and if the row had what is
\* expected the order is lost.
LEMMA RunKeeps == ASSUME BillIInv, NEW d \in Deliveries, RunStatement(d) PROVE BillIInv'
  <1> DEFINE e == applying[d]
  <1>1. /\ e.todo # <<>> /\ crossed' = (crossed \/ e.n < newest \/ e.sub # current)
        /\ applying' = [applying EXCEPT ![d].todo = Tail(@)]
        /\ newest' = (IF e.n > newest THEN e.n ELSE newest)
        /\ UNCHANGED <<stripe, current, events, outbox>>
    BY DEF RunStatement, stripeVars
  <1>2. /\ BillTypes /\ DeliveryOK(e) /\ e \in DeliveryRows /\ e.todo \in Todos /\ e.n \in Nat
        /\ e.n >= 1 /\ e.n <= events /\ e.sub \in Subs
        /\ events \in Nat /\ newest \in Nat /\ newest <= events
    BY <1>1 DEF BillIInv, BillTypes, DeliveryRows, DeliveryOK
  <1>3. /\ tenant' \in TenantRows
        /\ Head(e.todo) # "plan" => tenant'.plan = tenant.plan
        /\ Head(e.todo) # "status" => tenant'.status = tenant.status
        /\ Head(e.todo) = "plan" => tenant'.plan = NewPlan(e)
        /\ Head(e.todo) = "status" => tenant'.status = NewStatus(e)
    BY <1>2, OneColumn
  <1>4. /\ Tail(e.todo) \in Todos
        /\ \/ Head(e.todo) = "status" /\ Tail(e.todo) = <<>> /\ e.todo \notin ToSetPlan
           \/ Head(e.todo) = "plan" /\ Tail(e.todo) = <<"status">> /\ e.todo \in ToSetPlan
           \/ Head(e.todo) = "ids" /\ Tail(e.todo) \in ToSetPlan /\ e.todo \in ToSetPlan
        /\ <<>> \notin ToSetPlan /\ <<"status">> \notin ToSetPlan /\ <<"status">> # <<>>
    BY <1>1, <1>2, TodoSteps
  <1>5. /\ applying'[d] = [e EXCEPT !.todo = Tail(e.todo)]
        /\ \A o \in Deliveries \ {d} : applying'[o] = applying[o]
        /\ applying' \in [Deliveries -> DeliveryRows]
    <2>1. applying \in [Deliveries -> DeliveryRows]
      BY <1>2 DEF BillTypes
    <2>2. [e EXCEPT !.todo = Tail(e.todo)] \in DeliveryRows
      BY <1>2, <1>4 DEF DeliveryRows
    <2>3. QED
      BY <1>1, <2>1, <2>2
  <1> HIDE DEF e
  <1>6. /\ applying'[d].n = e.n /\ applying'[d].type = e.type /\ applying'[d].sub = e.sub
        /\ applying'[d].status = e.status /\ applying'[d].todo = Tail(e.todo)
    BY <1>2, <1>5 DEF DeliveryRows
  <1>7. newest' \in Nat /\ newest' <= events' /\ crossed' \in BOOLEAN /\ Expected' = Expected
    BY <1>1, <1>2 DEF Expected, BillTypes
  <1>8. BillTypes'
    BY <1>1, <1>2, <1>3, <1>5, <1>7 DEF BillTypes
  <1>9. e.n = events => newest' = events
    BY <1>1, <1>2
  <1>10. newest = events /\ e.n # events => newest' = events /\ crossed' = TRUE
    <2>1. newest = events /\ e.n # events => e.n < newest /\ newest' = events
      BY <1>1, <1>2
    <2>2. e.n < newest => crossed' = TRUE
      BY <1>1, Zenon
    <2>3. QED
      BY <2>1, <2>2
  <1>11. ASSUME e.n = events
         PROVE  /\ crossed' = TRUE \/ (NewPlan(e) = Expected[1] /\ NewStatus(e) = Expected[2])
                /\ crossed = TRUE => crossed' = TRUE
    <2>1. LastOK(e)
      BY <1>2, <1>11 DEF DeliveryOK
    <2>2. CASE e.sub = current
      BY <1>1, <1>2, <2>1, <2>2, LastSays
    <2>3. CASE e.sub # current
      BY <1>1, <2>3
    <2>4. QED
      BY <2>2, <2>3
  <1>12. crossed = TRUE => crossed' = TRUE
    BY <1>1
  <1>13. PlanSet => PlanSet'
    BY <1>1, <1>3, <1>7, <1>9, <1>10, <1>11, <1>12 DEF PlanSet
  <1>14. StatusSet => StatusSet'
    BY <1>1, <1>3, <1>7, <1>9, <1>10, <1>11, <1>12 DEF StatusSet
  <1>15. e.n = events /\ Head(e.todo) = "plan" => PlanSet'
    BY <1>1, <1>3, <1>7, <1>9, <1>11 DEF PlanSet
  <1>16. e.n = events /\ Head(e.todo) = "status" => StatusSet'
    BY <1>1, <1>3, <1>7, <1>9, <1>11 DEF StatusSet
  <1>17. \A y : LastOK(y)' <=> LastOK(y)
    BY <1>1 DEF LastOK
  <1>18. ASSUME NEW o \in Deliveries PROVE DeliveryOK(applying[o])'
    <2>1. CASE o # d
      <3>1. applying'[o] = applying[o] /\ DeliveryOK(applying[o])
        BY <1>5, <2>1 DEF BillIInv
      <3>2. QED
        BY <1>1, <1>13, <1>14, <1>17, <3>1 DEF DeliveryOK
    <2>2. CASE o = d
      <3>1. applying'[d].n >= 1 /\ applying'[d].n <= events'
        BY <1>1, <1>2, <1>6
      <3>2. applying'[d].sub \in Subs /\ applying'[d].type \in EventTypes
        BY <1>2, <1>6 DEF DeliveryOK
      <3>3. ASSUME e.n = events
            PROVE  /\ LastOK(applying[d])'
                   /\ applying'[d].todo \notin ToSetPlan => PlanSet'
                   /\ applying'[d].todo = <<>> => StatusSet'
        <4>1. LastOK(e)
          BY <1>2, <3>3 DEF DeliveryOK
        <4>2. LastOK(applying[d])'
          BY <1>1, <1>6, <4>1 DEF LastOK
        <4>3. CASE Head(e.todo) = "status"
          <5>1. PlanSet
            BY <1>2, <1>4, <3>3, <4>3 DEF DeliveryOK
          <5>2. QED
            BY <1>13, <1>16, <3>3, <4>2, <4>3, <5>1
        <4>4. CASE Head(e.todo) = "plan"
          BY <1>4, <1>6, <1>15, <3>3, <4>2, <4>4
        <4>5. CASE Head(e.todo) = "ids"
          BY <1>4, <1>6, <4>2, <4>5
        <4>6. QED
          BY <1>4, <4>3, <4>4, <4>5
      <3>4. QED
        <4>1. applying'[d].n = e.n /\ events' = events /\ applying'[d].n # 0
          BY <1>1, <1>2, <1>6
        <4>2. QED
          BY <2>2, <3>1, <3>2, <3>3, <4>1 DEF DeliveryOK
    <2>3. QED
      BY <2>1, <2>2
  <1>19. \A y \in outbox' : y.n >= 1 /\ y.n <= events' /\ (y.n = events' => LastOK(y)')
    BY <1>1, <1>17 DEF BillIInv
  <1>20. events' # 0
    BY <1>1, <1>2
  <1>21. events' >= 1 => (\E y \in outbox' : y.n = events') \/ (PlanSet' /\ StatusSet')
    BY <1>1, <1>13, <1>14 DEF BillIInv
  <1>22. QED
    BY <1>8, <1>18, <1>19, <1>20, <1>21 DEF BillIInv

LEMMA NextBillIInv == ASSUME BillIInv, [BillNext]_billVars PROVE BillIInv'
  <1>1. CASE UNCHANGED billVars
    BY <1>1 DEF billVars, BillIInv, BillTypes, DeliveryOK, LastOK, PlanSet, StatusSet, Expected
  <1>2. QED
    BY <1>1, StripeKeeps, DeliverKeeps, RunKeeps, EndKeeps DEF BillNext

LEMMA InitBillIInv == ASSUME BillInit PROVE BillIInv
  <1>1. tenant.plan = "free" /\ tenant.status = "active" /\ tenant \in TenantRows
    BY DEF BillInit, TenantRows
  <1>2. NoDelivery \in DeliveryRows /\ NoDelivery.n = 0 /\ NoDelivery.todo = <<>>
    BY DEF NoDelivery, DeliveryRows, SubStates, Todos
  <1>3. stripe \in [Subs -> SubStates] /\ applying \in [Deliveries -> DeliveryRows]
    BY <1>2 DEF BillInit, SubStates
  <1>4. BillTypes
    <2>1. /\ events \in Nat /\ newest \in Nat /\ newest <= events /\ outbox \subseteq BillEvents
          /\ current \in Subs \cup {NoSub}
      BY DEF BillInit
    <2>2. crossed \in BOOLEAN
      BY DEF BillInit
    <2>3. QED
      BY <1>1, <1>3, <2>1, <2>2, Zenon DEF BillTypes
  <1>5. \A d \in Deliveries : DeliveryOK(applying[d])
    BY <1>4, NoDeliveryOK DEF BillInit
  <1>6. QED
    BY <1>1, <1>4, <1>5 DEF BillInit, BillIInv

\* Once every event is delivered, the tenant has the plan and the status of its
\* subscription, for any number of events, deliveries at a time and failures.
THEOREM RowDoesFollowStripe == BillSpec => []RowFollowsStripe
  <1>1. BillInit => BillIInv
    BY InitBillIInv
  <1>2. BillIInv /\ [BillNext]_billVars => BillIInv'
    BY NextBillIInv
  <1>3. BillIInv => RowFollowsStripe
    <2>1. SUFFICES ASSUME BillIInv, outbox = {}, ~ crossed
                   PROVE  tenant.plan = Expected[1] /\ tenant.status = Expected[2]
                          /\ Expected = <<Expected[1], Expected[2]>>
      BY DEF RowFollowsStripe
    <2>2. Expected = <<Expected[1], Expected[2]>>
      BY DEF Expected
    <2>3. CASE events = 0
      BY <2>1, <2>2, <2>3 DEF BillIInv, Expected
    <2>4. CASE events # 0
      <3>1. events >= 1
        BY <2>1, <2>4 DEF BillIInv, BillTypes
      <3>2. PlanSet /\ StatusSet
        BY <2>1, <3>1 DEF BillIInv
      <3>3. QED
        BY <2>1, <2>2, <3>2 DEF PlanSet, StatusSet
    <2>5. QED
      BY <2>3, <2>4
  <1>4. QED
    BY <1>1, <1>2, <1>3, PTL DEF BillSpec

-----------------------------------------------------------------------------
(* Metering *)

SendingRows == [pc : {"idle", "ask", "keep", "check", "count", "forward"},
                by : MeterGateways \cup {"nobody"}, plan : Plans]
FlushRows == [at : Periods, read : BOOLEAN, value : Nat]
Tallies == [accepted : Nat, failed : Nat, uncounted : Nat, unchecked : Nat]

MeterTypes ==
    /\ plan \in Plans /\ planCache \in [MeterGateways -> Plans \cup {"none"}]
    /\ sending \in [Exports -> SendingRows]
    /\ counter \in [Periods -> Nat] /\ daily \in [Periods -> Nat]
    /\ flush \in [MeterGateways -> FlushRows]
    /\ period \in Periods /\ topLimit \in Nat /\ tally \in Tallies

\* The mirror: neither a row nor a value on its way to one exceeds the counter.
MirrorOK ==
    /\ \A p \in Periods : daily[p] <= counter[p]
    /\ \A g \in MeterGateways : flush[g].read = TRUE => flush[g].value <= counter[flush[g].at]

\* The requests that have passed the check and are not counted yet, of which each
\* may still add its batch.
Passed == {e \in Exports : sending[e].pc = "count"}
AllLimited == \A p \in Plans : PlanLimit[p] > 0
Room(top) == top - 1 + Batch * Cardinality(Exports)
QuotaOK(count, now, top, k) ==
    /\ \A p \in Periods : p > now => count[p] = 0
    /\ top = 0 => k = 0 /\ \A p \in Periods : count[p] = 0
    /\ top > 0 => /\ \A p \in Periods : count[p] <= Room(top)
                  /\ count[now] + Batch * k <= Room(top)

\* The inductive invariant.
MeterIInv ==
    /\ MeterTypes /\ MirrorOK
    /\ AllLimited /\ tally.unchecked = 0 => QuotaOK(counter, period, topLimit, Cardinality(Passed))

LEMMA Times == ASSUME NEW b \in Nat, NEW m \in Nat, NEW n \in Nat
               PROVE  /\ b * m \in Nat /\ b * (m + 1) = b * m + b
                      /\ m <= n => b * m <= b * n
  OBVIOUS

LEMMA MeterShapes == /\ Batch \in Nat /\ IsFiniteSet(Exports) /\ Cardinality(Exports) \in Nat
                     /\ Batch * Cardinality(Exports) \in Nat
                     /\ \A p \in Plans : PlanLimit[p] \in Nat
                     /\ "free" \in Plans
  BY MeterConstants, FS_CardinalityType, Times DEF Plans

LEMMA PassedIsPart == /\ IsFiniteSet(Passed) /\ Cardinality(Passed) \in Nat
                      /\ Cardinality(Passed) <= Cardinality(Exports)
                      /\ Batch * Cardinality(Passed) \in Nat
                      /\ Batch * Cardinality(Passed) <= Batch * Cardinality(Exports)
  <1>1. Passed \subseteq Exports
    BY DEF Passed
  <1>2. IsFiniteSet(Passed) /\ Cardinality(Passed) <= Cardinality(Exports)
    BY <1>1, MeterShapes, FS_Subset
  <1>3. Cardinality(Passed) \in Nat
    BY <1>2, FS_CardinalityType
  <1>4. QED
    BY <1>2, <1>3, MeterShapes, Times

\* A request moves on without passing a check: none is added to those that passed.
LEMMA FewerPass ==
    ASSUME MeterIInv, Passed' \subseteq Passed, UNCHANGED <<counter, period>>,
           topLimit' = topLimit, tally'.unchecked = tally.unchecked
    PROVE  AllLimited /\ tally'.unchecked = 0 => QuotaOK(counter', period', topLimit', Cardinality(Passed'))
  <1>1. IsFiniteSet(Passed) /\ Cardinality(Passed) \in Nat
    BY PassedIsPart
  <1>2. IsFiniteSet(Passed') /\ Cardinality(Passed') \in Nat /\ Cardinality(Passed') <= Cardinality(Passed)
    BY <1>1, FS_Subset, FS_CardinalityType
  <1>3. Batch * Cardinality(Passed') \in Nat /\ Batch * Cardinality(Passed) \in Nat
        /\ Batch * Cardinality(Passed') <= Batch * Cardinality(Passed)
    BY <1>1, <1>2, MeterShapes, Times
  <1>4. counter[period] \in Nat /\ topLimit \in Nat
    BY DEF MeterIInv, MeterTypes
  <1>5. Room(topLimit) \in Int
    BY <1>4, MeterShapes DEF Room
  <1>6. QED
    BY <1>1, <1>2, <1>3, <1>4, <1>5 DEF MeterIInv, QuotaOK

\* One request moves on to row.
LEMMA MovesTo ==
    ASSUME MeterTypes, NEW e \in Exports, NEW row \in SendingRows, sending' = [sending EXCEPT ![e] = row]
    PROVE  /\ sending' \in [Exports -> SendingRows]
           /\ row.pc # "count" => Passed' = Passed \ {e}
           /\ row.pc = "count" => Passed' = Passed \cup {e}
  <1>1. sending \in [Exports -> SendingRows]
    BY DEF MeterTypes
  <1>2. sending' \in [Exports -> SendingRows] /\ sending'[e] = row
        /\ \A o \in Exports \ {e} : sending'[o] = sending[o]
    BY <1>1
  <1>3. QED
    BY <1>2 DEF Passed

LEMMA Rows ==
    ASSUME NEW row \in SendingRows, NEW pc \in {"idle", "ask", "keep", "check", "count", "forward"}
    PROVE  /\ [row EXCEPT !.pc = pc] \in SendingRows /\ [row EXCEPT !.pc = pc].pc = pc
           /\ [row EXCEPT !.pc = pc].plan = row.plan
           /\ \A p \in Plans : /\ [row EXCEPT !.pc = pc, !.plan = p] \in SendingRows
                               /\ [row EXCEPT !.pc = pc, !.plan = p].pc = pc
           /\ NotSending \in SendingRows /\ NotSending.pc = "idle"
  <1>1. NotSending \in SendingRows /\ NotSending.pc = "idle"
    BY MeterShapes DEF NotSending, SendingRows
  <1>2. [row EXCEPT !.pc = pc] \in SendingRows /\ [row EXCEPT !.pc = pc].pc = pc
        /\ [row EXCEPT !.pc = pc].plan = row.plan
    BY DEF SendingRows
  <1>3. ASSUME NEW p \in Plans
        PROVE  /\ [row EXCEPT !.pc = pc, !.plan = p] \in SendingRows
               /\ [row EXCEPT !.pc = pc, !.plan = p].pc = pc
    BY DEF SendingRows
  <1>4. QED
    BY <1>1, <1>2, <1>3

\* Steps that neither pass a check nor count.
LEMMA OthersKeep ==
    ASSUME MeterIInv, MeterTypes', Passed' \subseteq Passed,
           UNCHANGED <<counter, daily, flush, period, topLimit>>, tally'.unchecked = tally.unchecked
    PROVE  MeterIInv'
  <1>1. MirrorOK'
    BY DEF MeterIInv, MirrorOK
  <1>2. AllLimited /\ tally'.unchecked = 0 => QuotaOK(counter', period', topLimit', Cardinality(Passed'))
    BY FewerPass
  <1>3. QED
    BY <1>1, <1>2 DEF MeterIInv

LEMMA PlanStepsKeep ==
    ASSUME MeterIInv, NEW e \in Exports,
           (\E g \in MeterGateways : ReceiveExport(e, g)) \/ AskPlan(e) \/ KeepPlan(e)
    PROVE  MeterIInv'
  <1>1. MeterTypes /\ sending[e] \in SendingRows /\ sending[e].plan \in Plans /\ plan \in Plans
    BY DEF MeterIInv, MeterTypes, SendingRows
  <1>2. UNCHANGED <<plan, counter, daily, flush, period, tally, topLimit>>
    BY DEF ReceiveExport, AskPlan, KeepPlan
  <1>3. PICK row \in SendingRows : sending' = [sending EXCEPT ![e] = row] /\ row.pc # "count"
    <2>1. ASSUME NEW g \in MeterGateways, ReceiveExport(e, g)
          PROVE  \E row \in SendingRows : sending' = [sending EXCEPT ![e] = row] /\ row.pc # "count"
      <3> DEFINE r == [pc |-> IF planCache[g] = "none" THEN "ask" ELSE "check", by |-> g,
                       plan |-> IF planCache[g] = "none" THEN "free" ELSE planCache[g]]
      <3>1. r \in SendingRows /\ r.pc # "count"
        <4>1. planCache[g] \in Plans \cup {"none"}
          BY <1>1 DEF MeterTypes
        <4>2. QED
          BY <4>1, MeterShapes DEF SendingRows
      <3>2. sending' = [sending EXCEPT ![e] = r]
        BY <2>1 DEF ReceiveExport
      <3>3. QED
        BY <3>1, <3>2
    <2>2. CASE AskPlan(e)
      <3> DEFINE r == [sending[e] EXCEPT !.pc = "keep", !.plan = plan]
                 q == [sending[e] EXCEPT !.pc = "keep"]
      <3>1. r \in SendingRows /\ r.pc = "keep" /\ q \in SendingRows /\ q.pc = "keep"
        <4>1. r \in SendingRows /\ r.pc = "keep"
          BY <1>1 DEF SendingRows
        <4>2. q \in SendingRows /\ q.pc = "keep"
          BY <1>1 DEF SendingRows
        <4>3. QED
          BY <4>1, <4>2
      <3>2. sending \in [Exports -> SendingRows]
        BY <1>1 DEF MeterTypes
      <3>3. CASE sending' = [sending EXCEPT ![e].pc = "keep", ![e].plan = plan]
        <4>1. sending' = [sending EXCEPT ![e] = r]
          BY <3>2, <3>3
        <4>2. QED
          BY <3>1, <4>1
      <3>4. CASE sending' = [sending EXCEPT ![e].pc = "keep"]
        <4>1. sending' = [sending EXCEPT ![e] = q]
          BY <3>4
        <4>2. QED
          BY <3>1, <4>1
      <3>5. QED
        BY <2>2, <3>3, <3>4 DEF AskPlan
    <2>3. CASE KeepPlan(e)
      BY <1>1, <2>3, Rows DEF KeepPlan
    <2>4. QED
      BY <2>1, <2>2, <2>3
  <1>4. sending' \in [Exports -> SendingRows] /\ Passed' \subseteq Passed
    BY <1>1, <1>3, MovesTo
  <1>5. planCache' \in [MeterGateways -> Plans \cup {"none"}]
    <2>1. planCache \in [MeterGateways -> Plans \cup {"none"}]
      BY <1>1 DEF MeterTypes
    <2>2. QED
      BY <1>1, <2>1 DEF ReceiveExport, AskPlan, KeepPlan
  <1>6. MeterTypes'
    BY <1>1, <1>2, <1>4, <1>5 DEF MeterTypes
  <1>7. QED
    BY <1>2, <1>4, <1>6, OthersKeep

LEMMA ForwardKeeps == ASSUME MeterIInv, NEW e \in Exports, Forward(e) PROVE MeterIInv'
  <1>1. MeterTypes /\ tally \in Tallies /\ sending[e] \in SendingRows
    BY DEF MeterIInv, MeterTypes
  <1>2. sending' = [sending EXCEPT ![e] = NotSending]
        /\ UNCHANGED <<plan, planCache, counter, daily, flush, period, topLimit>>
    BY DEF Forward
  <1>3. tally' \in Tallies /\ tally'.unchecked = tally.unchecked
    BY <1>1 DEF Forward, Tallies
  <1>4. sending' \in [Exports -> SendingRows] /\ Passed' \subseteq Passed
    <2>1. NotSending \in SendingRows /\ NotSending.pc # "count"
      BY MeterShapes DEF NotSending, SendingRows
    <2>2. QED
      BY <1>1, <1>2, <2>1, MovesTo
  <1>5. MeterTypes'
    BY <1>1, <1>2, <1>3, <1>4 DEF MeterTypes
  <1>6. QED
    BY <1>2, <1>3, <1>4, <1>5, OthersKeep

LEMMA ChangesKeep ==
    ASSUME MeterIInv, (\E g \in MeterGateways : PlanAges(g)) \/ (\E p \in Plans : ChangePlan(p))
    PROVE  MeterIInv'
  <1>1. /\ UNCHANGED <<sending, counter, daily, flush, period, tally, topLimit>>
        /\ plan' \in Plans /\ planCache' \in [MeterGateways -> Plans \cup {"none"}]
    BY DEF PlanAges, ChangePlan, MeterIInv, MeterTypes
  <1>2. MeterTypes'
    BY <1>1 DEF MeterIInv, MeterTypes
  <1>3. Passed' = Passed
    BY <1>1 DEF Passed
  <1>4. QED
    BY <1>1, <1>2, <1>3, OthersKeep

\* A restart cuts requests off; it adds none to those that passed.
LEMMA RestartKeeps == ASSUME MeterIInv, NEW g \in MeterGateways, MeterRestart(g) PROVE MeterIInv'
  <1> DEFINE cut == Cardinality({e \in Exports : sending[e].by = g /\ sending[e].pc = "forward"})
  <1>1. /\ MeterTypes /\ tally \in Tallies /\ sending \in [Exports -> SendingRows]
        /\ flush \in [MeterGateways -> FlushRows]
    BY DEF MeterIInv, MeterTypes
  <1>2. cut \in Nat
    <2>1. {e \in Exports : sending[e].by = g /\ sending[e].pc = "forward"} \subseteq Exports
      OBVIOUS
    <2>2. QED
      BY <2>1, MeterShapes, FS_Subset, FS_CardinalityType
  <1>3. /\ planCache' = [planCache EXCEPT ![g] = "none"] /\ flush' = [flush EXCEPT ![g] = StartFlush]
        /\ sending' = [e \in Exports |-> IF sending[e].by = g THEN NotSending ELSE sending[e]]
        /\ tally' = [tally EXCEPT !.failed = @ + cut]
        /\ UNCHANGED <<plan, counter, daily, period, topLimit>>
    BY DEF MeterRestart
  <1> HIDE DEF cut
  <1>4. tally' \in Tallies /\ tally'.unchecked = tally.unchecked
    BY <1>1, <1>2, <1>3 DEF Tallies
  <1>5. NotSending \in SendingRows /\ NotSending.pc = "idle"
    BY MeterShapes DEF NotSending, SendingRows
  <1>6. sending' \in [Exports -> SendingRows] /\ Passed' \subseteq Passed
    BY <1>1, <1>3, <1>5 DEF Passed
  <1>7. StartFlush \in FlushRows /\ StartFlush.read = FALSE
    <2>1. 1 \in Periods
      BY MeterConstants DEF Periods
    <2>2. QED
      BY <2>1 DEF StartFlush, FlushRows
  <1>8. flush' \in [MeterGateways -> FlushRows]
    BY <1>1, <1>3, <1>7
  <1>9. MeterTypes'
    BY <1>1, <1>3, <1>4, <1>6, <1>8 DEF MeterTypes
  <1>10. MirrorOK'
    BY <1>1, <1>3, <1>7 DEF MeterIInv, MirrorOK
  <1>11. AllLimited /\ tally'.unchecked = 0 => QuotaOK(counter', period', topLimit', Cardinality(Passed'))
    BY <1>3, <1>4, <1>6, FewerPass
  <1>12. QED
    BY <1>9, <1>10, <1>11 DEF MeterIInv

\* The check: a request that passes does so below a limit that counts as applied.
LEMMA AllowKeeps == ASSUME MeterIInv, NEW e \in Exports, Allow(e) PROVE MeterIInv'
  <1> DEFINE limit == PlanLimit[sending[e].plan]
  <1>1. /\ MeterTypes /\ tally \in Tallies /\ tally.unchecked \in Nat /\ sending[e] \in SendingRows
        /\ sending[e].plan \in Plans /\ sending \in [Exports -> SendingRows]
        /\ topLimit \in Nat /\ period \in Periods /\ counter[period] \in Nat
    BY DEF MeterIInv, MeterTypes, SendingRows, Tallies
  <1>2. limit \in Nat
    BY <1>1, MeterShapes
  <1>3. UNCHANGED <<plan, planCache, counter, daily, flush, period>> /\ sending[e].pc = "check"
    BY DEF Allow
  <1>4. MirrorOK'
    BY <1>3 DEF MeterIInv, MirrorOK
  <1>5. /\ [sending[e] EXCEPT !.pc = "count"] \in SendingRows
        /\ [sending[e] EXCEPT !.pc = "count"].pc = "count"
    BY <1>1 DEF SendingRows
  <1>6. NotSending \in SendingRows /\ NotSending.pc # "count"
    BY MeterShapes DEF NotSending, SendingRows
  <1>7. e \notin Passed
    BY <1>3 DEF Passed
  <1>8. CASE /\ sending' = [sending EXCEPT ![e] = IF UnderLimit(counter[period], limit)
                                                  THEN [@ EXCEPT !.pc = "count"] ELSE NotSending]
             /\ topLimit' = (IF limit > topLimit THEN limit ELSE topLimit)
             /\ UNCHANGED tally
    <2>1. topLimit' \in Nat /\ topLimit' >= topLimit /\ topLimit' >= limit
      BY <1>1, <1>2, <1>8
    <2> HIDE DEF limit
    <2>2. CASE ~ UnderLimit(counter[period], limit)
      <3>1. sending' = [sending EXCEPT ![e] = NotSending]
        BY <1>8, <2>2
      <3>2. sending' \in [Exports -> SendingRows] /\ Passed' = Passed
        <4>1. sending' \in [Exports -> SendingRows] /\ Passed' = Passed \ {e}
          BY <1>1, <1>6, <3>1, MovesTo
        <4>2. QED
          BY <1>7, <4>1
      <3>3. MeterTypes'
        BY <1>1, <1>3, <1>8, <2>1, <3>2 DEF MeterTypes
      <3>4. ASSUME AllLimited, tally'.unchecked = 0
            PROVE  QuotaOK(counter', period', topLimit', Cardinality(Passed'))
        <4>1. QuotaOK(counter, period, topLimit, Cardinality(Passed))
          BY <1>8, <3>4 DEF MeterIInv
        <4>2. /\ counter' = counter /\ counter \in [Periods -> Nat] /\ period' = period
              /\ Passed' = Passed /\ Cardinality(Passed) \in Nat
              /\ Batch * Cardinality(Passed) <= Batch * Cardinality(Exports)
              /\ Batch * Cardinality(Passed) \in Nat /\ Batch * Cardinality(Exports) \in Nat
          BY <1>1, <1>3, <3>2, PassedIsPart, MeterShapes DEF MeterTypes
        <4>3. topLimit = 0 => Cardinality(Passed) = 0 /\ Batch * 0 = 0 /\ counter[period] = 0
          BY <1>1, <4>1, MeterShapes DEF QuotaOK
        <4>4. Room(topLimit') >= Room(topLimit) /\ Room(topLimit) \in Int /\ Room(topLimit') \in Int
              /\ (topLimit' > 0 => Room(topLimit') >= Batch * Cardinality(Exports))
          BY <1>1, <2>1, <4>2 DEF Room
        <4>5. limit > 0
          BY <1>1, <3>4 DEF AllLimited, limit
        <4>6. topLimit' > 0
          BY <1>2, <2>1, <4>5
        <4>7. /\ \A p \in Periods : counter[p] <= Room(topLimit')
              /\ counter[period] + Batch * Cardinality(Passed) <= Room(topLimit')
          <5>1. CASE topLimit = 0
            <6>1. \A p \in Periods : counter[p] = 0
              BY <4>1, <5>1 DEF QuotaOK
            <6>2. QED
              BY <1>1, <4>2, <4>4, <4>6, <6>1
          <5>2. CASE topLimit > 0
            <6>1. /\ \A p \in Periods : counter[p] <= Room(topLimit)
                  /\ counter[period] + Batch * Cardinality(Passed) <= Room(topLimit)
              BY <4>1, <5>2 DEF QuotaOK
            <6>2. \A p \in Periods : counter[p] \in Nat
              BY <4>2
            <6>3. QED
              BY <1>1, <4>2, <4>4, <6>1, <6>2
          <5>3. QED
            BY <1>1, <5>1, <5>2
        <4>8. QED
          BY <2>1, <4>1, <4>2, <4>6, <4>7 DEF QuotaOK
      <3>5. QED
        BY <1>4, <3>3, <3>4 DEF MeterIInv
    <2>3. CASE UnderLimit(counter[period], limit)
      <3>1. sending' = [sending EXCEPT ![e] = [sending[e] EXCEPT !.pc = "count"]]
        BY <1>8, <2>3
      <3>2. sending' \in [Exports -> SendingRows]
        BY <1>1, <1>5, <3>1, MovesTo
      <3>3. MeterTypes'
        BY <1>1, <1>3, <1>8, <2>1, <3>2 DEF MeterTypes
      <3>4. ASSUME AllLimited, tally'.unchecked = 0
            PROVE  QuotaOK(counter', period', topLimit', Cardinality(Passed'))
        <4>1. QuotaOK(counter, period, topLimit, Cardinality(Passed))
          BY <1>8, <3>4 DEF MeterIInv
        <4>2. limit > 0
          BY <1>1, <3>4 DEF AllLimited, limit
        <4>3. counter[period] <= topLimit' - 1 /\ topLimit' > 0
          BY <1>1, <1>2, <2>1, <2>3, <4>2 DEF UnderLimit
        <4>4. /\ Batch * Cardinality(Passed)' <= Batch * Cardinality(Exports)
              /\ Batch * Cardinality(Passed)' \in Nat /\ Batch * Cardinality(Exports) \in Nat
          <5>1. Passed' \subseteq Exports
            BY DEF Passed
          <5>2. IsFiniteSet(Passed') /\ Cardinality(Passed') <= Cardinality(Exports)
            BY <5>1, MeterShapes, FS_Subset
          <5>3. Cardinality(Passed') \in Nat
            BY <5>2, FS_CardinalityType
          <5>4. QED
            BY <5>2, <5>3, MeterShapes, Times
        <4>5. counter[period] + Batch * Cardinality(Passed') <= Room(topLimit')
          BY <1>1, <2>1, <4>3, <4>4 DEF Room
        <4>6. ASSUME NEW p \in Periods PROVE counter[p] <= Room(topLimit')
          <5>1. counter[p] \in Nat
            BY <1>1 DEF MeterTypes
          <5>2. CASE topLimit = 0
            BY <1>1, <2>1, <4>1, <4>3, <4>4, <5>1, <5>2 DEF QuotaOK, Room
          <5>3. CASE topLimit > 0
            BY <1>1, <2>1, <4>1, <4>3, <4>4, <5>1, <5>3 DEF QuotaOK, Room
          <5>4. QED
            BY <1>1, <5>2, <5>3
        <4>7. QED
          BY <1>3, <2>1, <4>1, <4>3, <4>5, <4>6 DEF QuotaOK
      <3>5. QED
        BY <1>4, <3>3, <3>4 DEF MeterIInv
    <2>4. QED
      BY <2>2, <2>3
  <1>9. CASE /\ sending' = [sending EXCEPT ![e].pc = "count"] /\ UNCHANGED topLimit
             /\ tally' = [tally EXCEPT !.unchecked = @ + 1]
    <2>1. sending' \in [Exports -> SendingRows]
      BY <1>1, <1>5, <1>9, MovesTo
    <2>2. tally' \in Tallies /\ tally'.unchecked = tally.unchecked + 1
      BY <1>1, <1>9 DEF Tallies
    <2>3. MeterTypes'
      BY <1>1, <1>3, <1>9, <2>1, <2>2 DEF MeterTypes
    <2>4. tally'.unchecked # 0
      BY <1>1, <2>2
    <2>5. QED
      BY <1>4, <2>3, <2>4 DEF MeterIInv
  <1>10. QED
    BY <1>8, <1>9 DEF Allow

\* A request that passed is counted, or Redis does not take it.
LEMMA RecordKeeps == ASSUME MeterIInv, NEW e \in Exports, Record(e) PROVE MeterIInv'
  <1>1. /\ MeterTypes /\ tally \in Tallies /\ sending[e] \in SendingRows /\ period \in Periods
        /\ counter \in [Periods -> Nat] /\ daily \in [Periods -> Nat] /\ topLimit \in Nat
        /\ flush \in [MeterGateways -> FlushRows]
    BY DEF MeterIInv, MeterTypes
  <1>2. /\ sending' = [sending EXCEPT ![e].pc = "forward"] /\ e \in Passed
        /\ UNCHANGED <<plan, planCache, daily, flush, period, topLimit>>
    BY DEF Record, Passed
  <1>3. sending' \in [Exports -> SendingRows] /\ Passed' = Passed \ {e}
    <2>1. [sending[e] EXCEPT !.pc = "forward"] \in SendingRows /\ [sending[e] EXCEPT !.pc = "forward"].pc # "count"
      BY <1>1 DEF SendingRows
    <2>2. QED
      BY <1>1, <1>2, <2>1, MovesTo
  <1>4. CASE counter' = [counter EXCEPT ![period] = @ + Batch] /\ UNCHANGED tally
    <2>1. counter' \in [Periods -> Nat] /\ \A p \in Periods : counter'[p] >= counter[p]
      BY <1>1, <1>4, MeterShapes
    <2>2. MeterTypes'
      BY <1>1, <1>2, <1>3, <1>4, <2>1 DEF MeterTypes
    <2>3. MirrorOK'
      <3>1. ASSUME NEW p \in Periods PROVE daily'[p] <= counter'[p]
        <4>1. daily[p] \in Nat /\ counter[p] \in Nat /\ counter'[p] \in Nat /\ daily[p] <= counter[p]
          BY <1>1, <2>1 DEF MeterIInv, MirrorOK
        <4>2. QED
          BY <1>2, <2>1, <4>1
      <3>2. ASSUME NEW g \in MeterGateways, flush[g].read = TRUE PROVE flush[g].value <= counter'[flush[g].at]
        <4>1. flush[g].at \in Periods /\ flush[g].value \in Nat /\ flush[g].value <= counter[flush[g].at]
          BY <1>1, <3>2 DEF FlushRows, MeterIInv, MirrorOK
        <4>2. counter[flush[g].at] \in Nat /\ counter'[flush[g].at] \in Nat /\ counter'[flush[g].at] >= counter[flush[g].at]
          BY <1>1, <2>1, <4>1
        <4>3. QED
          BY <4>1, <4>2
      <3>3. QED
        BY <1>2, <3>1, <3>2 DEF MirrorOK
    <2>4. ASSUME AllLimited, tally'.unchecked = 0
          PROVE  QuotaOK(counter', period', topLimit', Cardinality(Passed'))
      <3> DEFINE k == Cardinality(Passed)
                 k1 == Cardinality(Passed')
      <3>1. QuotaOK(counter, period, topLimit, k)
        BY <1>4, <2>4 DEF MeterIInv
      <3>2. k \in Nat /\ k1 \in Nat /\ k = k1 + 1
        <4>1. k \in Nat /\ IsFiniteSet(Passed)
          BY PassedIsPart
        <4>2. k1 = k - 1 /\ IsFiniteSet(Passed')
          BY <1>2, <1>3, <4>1, FS_RemoveElement
        <4>3. k1 \in Nat
          BY <4>2, FS_CardinalityType
        <4>4. QED
          BY <4>1, <4>2, <4>3
      <3> HIDE DEF k, k1
      <3>3. Batch * k1 \in Nat /\ Batch * k = Batch * k1 + Batch
        BY <3>2, MeterShapes, Times
      <3>4. topLimit > 0
        BY <1>1, <3>1, <3>2 DEF QuotaOK
      <3>5. Room(topLimit) \in Int
        BY <1>1, MeterShapes DEF Room
      <3>6. /\ \A p \in Periods : counter[p] <= Room(topLimit) /\ counter[p] \in Nat
            /\ counter[period] + Batch * k <= Room(topLimit)
            /\ \A p \in Periods : p > period => counter[p] = 0
        BY <1>1, <3>1, <3>4 DEF QuotaOK
      <3>7. counter'[period] = counter[period] + Batch /\ \A p \in Periods \ {period} : counter'[p] = counter[p]
        BY <1>1, <1>4
      <3>8. counter'[period] + Batch * k1 <= Room(topLimit)
        BY <1>1, <3>3, <3>5, <3>6, <3>7, MeterShapes
      <3>9. counter'[period] <= Room(topLimit)
        BY <1>1, <2>1, <3>3, <3>5, <3>8
      <3>10. \A p \in Periods : counter'[p] <= Room(topLimit)
        BY <3>6, <3>7, <3>9
      <3>11. \A p \in Periods : p > period => counter'[p] = 0
        <4>1. Periods \subseteq Nat
          BY MeterConstants DEF Periods
        <4>2. QED
          BY <1>1, <3>6, <3>7, <4>1
      <3>12. QuotaOK(counter', period, topLimit, k1)
        BY <3>4, <3>8, <3>10, <3>11, <1>1 DEF QuotaOK
      <3>13. QED
        BY <1>2, <3>12 DEF k1
    <2>5. QED
      BY <2>2, <2>3, <2>4 DEF MeterIInv
  <1>5. CASE tally' = [tally EXCEPT !.uncounted = @ + 1] /\ UNCHANGED counter
    <2>1. tally' \in Tallies /\ tally'.unchecked = tally.unchecked
      BY <1>1, <1>5 DEF Tallies
    <2>2. MeterTypes'
      BY <1>1, <1>2, <1>3, <1>5, <2>1 DEF MeterTypes
    <2>3. Passed' \subseteq Passed
      BY <1>3
    <2>4. QED
      BY <1>2, <1>5, <2>1, <2>2, <2>3, OthersKeep
  <1>6. QED
    BY <1>4, <1>5 DEF Record

\* A flusher reads a counter or writes what it read.
LEMMA FlushKeeps ==
    ASSUME MeterIInv, NEW g \in MeterGateways, FlushRead(g) \/ FlushUpsert(g)
    PROVE  MeterIInv'
  <1>1. /\ MeterTypes /\ counter \in [Periods -> Nat] /\ daily \in [Periods -> Nat]
        /\ flush \in [MeterGateways -> FlushRows] /\ MirrorOK
    BY DEF MeterIInv, MeterTypes
  <1>2. /\ flush[g].at \in Periods /\ flush[g].value \in Nat
    BY <1>1 DEF FlushRows
  <1>3. UNCHANGED <<plan, planCache, sending, counter, period, tally, topLimit>>
    BY DEF FlushRead, FlushUpsert, bounds
  <1>4. NextKey(flush[g].at) \in Periods
    BY <1>2, MeterConstants DEF NextKey, Periods
  <1>5. PICK row \in FlushRows : /\ flush' = [flush EXCEPT ![g] = row]
                                 /\ row.read = TRUE => row.value <= counter[row.at]
    <2>1. CASE FlushRead(g)
      <3> DEFINE p == flush[g].at
      <3>1. CASE counter[p] = 0
        <4> DEFINE r == [flush[g] EXCEPT !.at = NextKey(p)]
        <4>1. flush' = [flush EXCEPT ![g] = r] /\ ~ flush[g].read
          BY <2>1, <3>1 DEF FlushRead
        <4>2. r \in FlushRows /\ r.read = flush[g].read
          BY <1>1, <1>4 DEF FlushRows
        <4>3. r.read # TRUE
          BY <4>1, <4>2
        <4>4. QED
          BY <4>1, <4>2, <4>3
      <3>2. CASE counter[p] # 0
        <4> DEFINE r == [flush[g] EXCEPT !.read = TRUE, !.value = counter[p]]
        <4>1. flush' = [flush EXCEPT ![g] = r]
          BY <2>1, <3>2 DEF FlushRead
        <4>2. counter[p] \in Nat
          BY <1>1, <1>2
        <4>3. r \in FlushRows /\ r.value = counter[p] /\ r.at = p
          BY <1>1, <4>2 DEF FlushRows
        <4>4. r.value <= counter[r.at]
          BY <4>2, <4>3
        <4>5. QED
          BY <4>1, <4>3, <4>4
      <3>3. QED
        BY <3>1, <3>2
    <2>2. CASE FlushUpsert(g)
      <3> DEFINE r == [StartFlush EXCEPT !.at = NextKey(flush[g].at)]
      <3>1. flush' = [flush EXCEPT ![g] = r]
        BY <2>2 DEF FlushUpsert, KeyDone
      <3>2. r \in FlushRows /\ r.read = FALSE
        BY <1>4 DEF StartFlush, FlushRows
      <3>3. QED
        BY <3>1, <3>2
    <2>3. QED
      BY <2>1, <2>2
  <1>6. flush' \in [MeterGateways -> FlushRows]
    BY <1>1, <1>5
  <1>7. daily' \in [Periods -> Nat] /\ \A p \in Periods : daily'[p] <= counter[p]
    <2>1. CASE daily' = daily
      BY <1>1, <2>1 DEF MirrorOK
    <2>2. CASE flush[g].read /\ daily' = [daily EXCEPT ![flush[g].at] = flush[g].value]
      <3>1. flush[g].value <= counter[flush[g].at]
        BY <1>1, <2>2 DEF MirrorOK
      <3>2. QED
        BY <1>1, <1>2, <2>2, <3>1 DEF MirrorOK
    <2>3. QED
      BY <2>1, <2>2 DEF FlushRead, FlushUpsert
  <1>8. MeterTypes'
    BY <1>1, <1>3, <1>6, <1>7 DEF MeterTypes
  <1>9. MirrorOK'
    BY <1>1, <1>3, <1>5, <1>7 DEF MirrorOK
  <1>10. Passed' = Passed
    BY <1>3 DEF Passed
  <1>11. QED
    BY <1>3, <1>8, <1>9, <1>10 DEF MeterIInv

LEMMA NextPeriodKeeps == ASSUME MeterIInv, NextPeriod PROVE MeterIInv'
  <1>1. MeterTypes /\ period \in Periods /\ topLimit \in Nat /\ Periods \subseteq Nat
    BY MeterConstants DEF MeterIInv, MeterTypes, Periods
  <1>2. period' = period + 1 /\ UNCHANGED <<plan, planCache, sending, counter, daily, flush, tally, topLimit>>
    BY DEF NextPeriod
  <1>3. period' \in Periods
    BY <1>1, <1>2, MeterConstants DEF NextPeriod, Periods
  <1>4. MeterTypes' /\ MirrorOK'
    BY <1>2, <1>3 DEF MeterIInv, MeterTypes, MirrorOK
  <1>5. Passed' = Passed
    BY <1>2 DEF Passed
  <1>6. ASSUME AllLimited, tally.unchecked = 0
        PROVE  QuotaOK(counter, period', topLimit, Cardinality(Passed))
    <2>1. QuotaOK(counter, period, topLimit, Cardinality(Passed))
      BY <1>6 DEF MeterIInv
    <2>2. period' > period /\ \A p \in Periods : p > period' => p > period
      BY <1>1, <1>2
    <2>3. counter[period'] = 0
      BY <1>3, <2>1, <2>2 DEF QuotaOK
    <2>4. topLimit > 0 => 0 + Batch * Cardinality(Passed) <= Room(topLimit)
      BY <1>1, PassedIsPart, MeterShapes DEF Room
    <2>5. QED
      BY <2>1, <2>2, <2>3, <2>4 DEF QuotaOK
  <1>7. QED
    BY <1>2, <1>4, <1>5, <1>6 DEF MeterIInv

LEMMA NextMeterIInv == ASSUME MeterIInv, [MeterNext]_meterVars PROVE MeterIInv'
  <1>1. CASE UNCHANGED meterVars
    BY <1>1 DEF meterVars, MeterIInv, MeterTypes, MirrorOK, Passed
  <1>2. QED
    BY <1>1, PlanStepsKeep, AllowKeeps, RecordKeeps, ForwardKeeps, FlushKeeps, ChangesKeep,
       RestartKeeps, NextPeriodKeeps
    DEF MeterNext

LEMMA InitMeterIInv == ASSUME MeterInit PROVE MeterIInv
  <1>1. 1 \in Periods /\ Periods \subseteq Nat
    BY MeterConstants DEF Periods
  <1>2. NotSending \in SendingRows /\ NotSending.pc = "idle"
    BY MeterShapes DEF NotSending, SendingRows
  <1>3. StartFlush \in FlushRows /\ StartFlush.read = FALSE
    BY <1>1 DEF StartFlush, FlushRows
  <1>4. tally \in Tallies
    BY DEF MeterInit, Tallies
  <1>5. MeterTypes
    <2>1. sending \in [Exports -> SendingRows] /\ flush \in [MeterGateways -> FlushRows]
      BY <1>2, <1>3 DEF MeterInit
    <2>2. counter \in [Periods -> Nat] /\ daily \in [Periods -> Nat] /\ topLimit \in Nat /\ period \in Periods
      BY <1>1 DEF MeterInit
    <2>3. planCache \in [MeterGateways -> Plans \cup {"none"}] /\ plan \in Plans
      BY DEF MeterInit
    <2>4. QED
      BY <1>4, <2>1, <2>2, <2>3 DEF MeterTypes
  <1>6. MirrorOK
    BY <1>1, <1>3 DEF MeterInit, MirrorOK
  <1>7. Cardinality(Passed) = 0
    <2>1. Passed = {}
      BY <1>2 DEF MeterInit, Passed
    <2>2. QED
      BY <2>1, FS_EmptySet
  <1>8. QuotaOK(counter, period, topLimit, Cardinality(Passed))
    BY <1>7 DEF MeterInit, QuotaOK
  <1>9. QED
    BY <1>5, <1>6, <1>8 DEF MeterIInv

\* However requests, plan caches, flushers and restarts of any number of replicas
\* interleave, a month never holds more than the highest limit applied and one batch
\* for each request that can be under way.
THEOREM OvershootIsBounded == MeterSpec => []OvershootBounded
  <1>1. MeterIInv => OvershootBounded
    <2>1. SUFFICES ASSUME MeterIInv, tally.unchecked = 0, topLimit > 0, \A p \in Plans : PlanLimit[p] > 0,
                          NEW p \in Periods
                   PROVE  counter[p] <= topLimit - 1 + Batch * Cardinality(Exports)
      BY DEF OvershootBounded
    <2>2. AllLimited
      BY <2>1 DEF AllLimited
    <2>3. QED
      BY <2>1, <2>2 DEF MeterIInv, QuotaOK, Room
  <1>2. QED
    BY <1>1, InitMeterIInv, NextMeterIInv, PTL DEF MeterSpec

\* However the flushers of the replicas interleave, a row of usage_daily never shows
\* more than Redis has counted.
THEOREM MirrorDoesNotExceed == MeterSpec => []MirrorNeverExceeds
  <1>1. MeterIInv => MirrorNeverExceeds
    BY DEF MeterIInv, MirrorOK, MirrorNeverExceeds
  <1>2. QED
    BY <1>1, InitMeterIInv, NextMeterIInv, PTL DEF MeterSpec

-----------------------------------------------------------------------------
(* Metering: what is counted is what was sent *)

\* A set of natural numbers has a least element.
LEMMA LeastNat ==
    ASSUME NEW T \in SUBSET Nat, T # {}
    PROVE  \E m \in T : \A k \in T : m <= k
  <1> DEFINE R == OpToRel(<, Nat)
  <1>1. IsWellFoundedOn(R, Nat)
    BY NatLessThanWellFounded
  <1>2. \A x \in Nat, y \in Nat : y < x => <<y, x>> \in R
    BY DEF OpToRel
  <1> HIDE DEF R
  <1>3. PICK x \in T : \A y \in T : ~ (<<y, x>> \in R)
    BY <1>1, WFMin
  <1>4. \A y \in T : ~ (y < x)
    BY <1>2, <1>3
  <1>5. \A y \in T : x <= y
    BY <1>4
  <1>6. QED
    BY <1>5

\* f gives the sums of the counters c of the first periods, up to n of them.
SumsTo(f, c, n) == f = [k \in 0..n |-> IF k = 0 THEN 0 ELSE f[k - 1] + c[k]]

LEMMA SumsExist ==
    ASSUME NEW c, NEW n \in Nat
    PROVE  \E f : SumsTo(f, c, n)
  <1> DEFINE T == {k \in Nat : ~ \E f : SumsTo(f, c, k)}
  <1>1. SUFFICES ASSUME T # {} PROVE FALSE
    OBVIOUS
  <1>2. PICK m \in T : \A k \in T : m <= k
    BY <1>1, LeastNat
  <1>3. CASE m = 0
    <2> DEFINE g == [k \in 0..0 |-> 0]
    <2>1. g = [k \in 0..0 |-> IF k = 0 THEN 0 ELSE g[k - 1] + c[k]]
      OBVIOUS
    <2>2. QED
      BY <1>2, <1>3, <2>1 DEF SumsTo
  <1>4. CASE m # 0
    <2>1. m \in Nat /\ m - 1 \in Nat /\ m - 1 \notin T
      BY <1>2, <1>4
    <2>2. PICK f : SumsTo(f, c, m - 1)
      BY <2>1
    <2>3. \A k \in 0..(m - 1) : f[k] = IF k = 0 THEN 0 ELSE f[k - 1] + c[k]
      BY <2>2 DEF SumsTo
    <2> DEFINE g == [k \in 0..m |-> IF k = m THEN f[m - 1] + c[m] ELSE f[k]]
    <2>4. ASSUME NEW k \in 0..m
          PROVE  g[k] = IF k = 0 THEN 0 ELSE g[k - 1] + c[k]
      <3>1. CASE k = 0
        BY <1>4, <2>1, <2>3, <3>1
      <3>2. CASE k = m
        <4>1. g[m - 1] = f[m - 1] /\ m \in 0..m
          BY <1>4, <2>1
        <4>2. g[m] = f[m - 1] + c[m]
          BY <4>1, Zenon
        <4> HIDE DEF g
        <4>3. QED
          BY <1>4, <3>2, <4>1, <4>2
      <3>3. CASE k \in 1..(m - 1)
        BY <1>4, <2>1, <2>3, <3>3
      <3>4. QED
        BY <2>1, <3>1, <3>2, <3>3
    <2>5. g = [k \in 0..m |-> g[k]]
      OBVIOUS
    <2> HIDE DEF g
    <2>6. SumsTo(g, c, m)
      BY <2>4, <2>5 DEF SumsTo
    <2>7. QED
      BY <1>2, <2>6
  <1>5. QED
    BY <1>3, <1>4

\* The sums of natural counters are natural.
LEMMA SumsAreNat ==
    ASSUME NEW n \in Nat, NEW c \in [1..n -> Nat], NEW f, SumsTo(f, c, n)
    PROVE  \A k \in 0..n : f[k] \in Nat
  <1>1. \A k \in 0..n : f[k] = IF k = 0 THEN 0 ELSE f[k - 1] + c[k]
    BY DEF SumsTo
  <1> DEFINE T == {k \in 0..n : f[k] \notin Nat}
  <1>2. SUFFICES ASSUME T # {} PROVE FALSE
    OBVIOUS
  <1>3. T \in SUBSET Nat
    OBVIOUS
  <1>4. PICK m \in T : \A k \in T : m <= k
    BY <1>2, <1>3, LeastNat
  <1>5. m \in 0..n /\ f[m] \notin Nat
    OBVIOUS
  <1>6. m # 0
    BY <1>1, <1>5
  <1>7. m \in 1..n /\ m - 1 \in 0..n /\ m - 1 \notin T
    BY <1>4, <1>5, <1>6
  <1>8. f[m - 1] \in Nat /\ c[m] \in Nat
    BY <1>7
  <1>9. QED
    BY <1>1, <1>5, <1>6, <1>8

\* Counted, for any counters c.
SumOf(c) == CHOOSE f : SumsTo(f, c, MaxPeriods)

LEMMA SumOfSums == ASSUME NEW c PROVE SumsTo(SumOf(c), c, MaxPeriods)
  <1>1. MaxPeriods \in Nat
    BY MeterConstants
  <1>2. \E f : SumsTo(f, c, MaxPeriods)
    BY <1>1, SumsExist
  <1>3. QED
    BY <1>2 DEF SumOf

\* A batch that is counted is added to the total.
LEMMA SumGrows ==
    ASSUME NEW c \in [Periods -> Nat], NEW p \in Periods
    PROVE  /\ SumOf(c)[MaxPeriods] \in Nat
           /\ SumOf([c EXCEPT ![p] = @ + Batch])[MaxPeriods] = SumOf(c)[MaxPeriods] + Batch
  <1> DEFINE n == MaxPeriods
             d == [c EXCEPT ![p] = @ + Batch]
             f == SumOf(c)
             g == SumOf(d)
             Grown(k) == f[k] + (IF k >= p THEN Batch ELSE 0)
             T == {k \in 0..n : g[k] # Grown(k)}
  <1>1. n \in Nat /\ c \in [1..n -> Nat] /\ p \in 1..n /\ Batch \in Nat
    BY MeterConstants DEF Periods
  <1>2. SumsTo(f, c, n) /\ SumsTo(g, d, n)
    BY SumOfSums
  <1>3. \A k \in 1..n : d[k] = c[k] + (IF k = p THEN Batch ELSE 0)
    BY <1>1
  <1> HIDE DEF d, f, g, n
  <1>4. \A k \in 0..n : f[k] \in Nat
    BY <1>1, <1>2, SumsAreNat
  <1>5. /\ \A k \in 0..n : f[k] = IF k = 0 THEN 0 ELSE f[k - 1] + c[k]
        /\ \A k \in 0..n : g[k] = IF k = 0 THEN 0 ELSE g[k - 1] + d[k]
    BY <1>2 DEF SumsTo
  <1>6. ASSUME T # {} PROVE FALSE
    <2>1. T \in SUBSET Nat
      OBVIOUS
    <2>2. PICK m \in T : \A k \in T : m <= k
      BY <1>6, <2>1, LeastNat
    <2>3. m \in 0..n /\ g[m] # Grown(m)
      OBVIOUS
    <2>4. m # 0
      BY <1>1, <1>5, <2>3
    <2>5. m \in 1..n /\ m - 1 \in 0..n /\ m - 1 \notin T
      BY <1>1, <2>2, <2>3, <2>4
    <2>6. g[m - 1] = Grown(m - 1)
      BY <2>5
    <2>7. f[m - 1] \in Nat /\ c[m] \in Nat /\ f[m] = f[m - 1] + c[m] /\ g[m] = g[m - 1] + d[m]
      BY <1>1, <1>4, <1>5, <2>4, <2>5
    <2>8. d[m] = c[m] + (IF m = p THEN Batch ELSE 0)
      BY <1>3, <2>5
    <2> HIDE DEF T
    <2>9. QED
      BY <1>1, <2>3, <2>5, <2>6, <2>7, <2>8
  <1>7. n \in 0..n /\ n >= p
    BY <1>1
  <1>8. f[n] \in Nat /\ g[n] = f[n] + Batch
    BY <1>4, <1>6, <1>7
  <1>9. QED
    BY <1>8 DEF f, g, d, n

LEMMA CountedIsSum == Counted = SumOf(counter) /\ Counted' = SumOf(counter')
  BY DEF Counted, SumOf, SumsTo

\* The requests between their count and the end of their forward.
Forwarding == {e \in Exports : sending[e].pc = "forward"}

LEMMA ForwardingIsPart == IsFiniteSet(Forwarding) /\ Cardinality(Forwarding) \in Nat
  <1>1. Forwarding \subseteq Exports
    BY DEF Forwarding
  <1>2. QED
    BY <1>1, MeterShapes, FS_Subset, FS_CardinalityType

\* A step that counts and forwards nothing.
LEMMA NothingCounted ==
    ASSUME UsageAccountedFor, UNCHANGED counter, Forwarding' = Forwarding,
           tally'.accepted = tally.accepted, tally'.failed = tally.failed, tally'.uncounted = tally.uncounted
    PROVE  UsageAccountedFor'
  <1>1. Counted' = Counted
    BY DEF Counted
  <1>2. InFlight' = InFlight
    BY DEF InFlight, Forwarding
  <1>3. QED
    BY <1>1, <1>2 DEF UsageAccountedFor

\* A request is counted, or Redis does not take it.
LEMMA RecordAccounts ==
    ASSUME MeterTypes, UsageAccountedFor, NEW e \in Exports, Record(e)
    PROVE  UsageAccountedFor'
  <1>1. /\ sending \in [Exports -> SendingRows] /\ counter \in [Periods -> Nat] /\ period \in Periods
        /\ Batch \in Nat
    BY MeterShapes DEF MeterTypes
  <1>2. /\ tally.accepted \in Nat /\ tally.failed \in Nat /\ tally.uncounted \in Nat /\ tally \in Tallies
    BY DEF MeterTypes, Tallies
  <1>3. sending[e].pc = "count" /\ sending' = [sending EXCEPT ![e].pc = "forward"]
    BY DEF Record
  <1>4. Forwarding' = Forwarding \cup {e} /\ e \notin Forwarding
    BY <1>1, <1>3 DEF Forwarding, SendingRows
  <1> DEFINE total == SumOf(counter)[MaxPeriods]
             n == Cardinality(Forwarding)
             k == tally.accepted + tally.failed + n
             u == tally.uncounted
             x == Batch * u
             y == Batch * k
             z == Batch * (k + 1)
             w == Batch * (u + 1)
  <1>5. n \in Nat /\ Cardinality(Forwarding') = n + 1
    BY <1>4, ForwardingIsPart, FS_AddElement
  <1>6. total \in Nat
    BY <1>1, SumGrows
  <1>7. total + Batch * tally.uncounted = Batch * k
    BY CountedIsSum DEF UsageAccountedFor, InFlight, Forwarding
  <1>8. InFlight' = n + 1
    BY <1>5 DEF InFlight, Forwarding
  <1>9. k \in Nat /\ tally.accepted + tally.failed + (n + 1) = k + 1
    BY <1>2, <1>5
  <1>10. (total + Batch) + x = z /\ total + w = z
    <2>1. k \in Nat /\ u \in Nat /\ total + x = y
      BY <1>2, <1>7, <1>9
    <2> HIDE DEF k, u, total
    <2>2. x \in Nat /\ y \in Nat /\ z = y + Batch /\ w = x + Batch
      BY <1>1, <2>1, Times
    <2> HIDE DEF x, y, z, w
    <2>3. QED
      BY <1>1, <1>6, <2>1, <2>2
  <1>11. CASE counter' = [counter EXCEPT ![period] = @ + Batch] /\ UNCHANGED tally
    <2>1. SumOf(counter')[MaxPeriods] = total + Batch
      BY <1>1, <1>11, SumGrows
    <2> HIDE DEF total, n, k
    <2>2. (total + Batch) + Batch * tally.uncounted = Batch * (k + 1)
      BY <1>10
    <2>3. QED
      BY <1>8, <1>11, <1>9, <2>1, <2>2, CountedIsSum DEF UsageAccountedFor
  <1>12. CASE tally' = [tally EXCEPT !.uncounted = @ + 1] /\ UNCHANGED counter
    <2>1. tally'.uncounted = tally.uncounted + 1 /\ tally'.accepted = tally.accepted /\ tally'.failed = tally.failed
      BY <1>2, <1>12 DEF Tallies
    <2>2. SumOf(counter')[MaxPeriods] = total
      BY <1>12
    <2> HIDE DEF total, n, k
    <2>3. total + Batch * (tally.uncounted + 1) = Batch * (k + 1)
      BY <1>10
    <2>4. QED
      BY <1>8, <1>9, <2>1, <2>2, <2>3, CountedIsSum DEF UsageAccountedFor
  <1>13. QED
    BY <1>11, <1>12 DEF Record

\* Requests that are over, m of them, are accepted or failed.
LEMMA OverAccounts ==
    ASSUME MeterTypes, UsageAccountedFor, UNCHANGED counter, NEW S \in SUBSET Forwarding,
           Forwarding' = Forwarding \ S,
           tally'.uncounted = tally.uncounted,
           \/ tally'.accepted = tally.accepted + Cardinality(S) /\ tally'.failed = tally.failed
           \/ tally'.accepted = tally.accepted /\ tally'.failed = tally.failed + Cardinality(S)
    PROVE  UsageAccountedFor'
  <1> DEFINE total == SumOf(counter)[MaxPeriods]
             n == Cardinality(Forwarding)
             m == Cardinality(S)
  <1>1. counter \in [Periods -> Nat] /\ period \in Periods /\ Batch \in Nat
    BY MeterShapes DEF MeterTypes
  <1>2. tally.accepted \in Nat /\ tally.failed \in Nat /\ tally.uncounted \in Nat
    BY DEF MeterTypes, Tallies
  <1>3. n \in Nat /\ m \in Nat /\ m <= n
    BY ForwardingIsPart, FS_Subset, FS_CardinalityType
  <1>4. Cardinality(Forwarding \ S) = n - m
    <2>1. Forwarding \cap S = S
      OBVIOUS
    <2>2. IsFiniteSet(Forwarding) /\ IsFiniteSet(S)
      BY ForwardingIsPart, FS_Subset
    <2>3. Cardinality(Forwarding \ S) = Cardinality(Forwarding) - Cardinality(Forwarding \cap S)
      BY <2>2, FS_Difference
    <2>4. QED
      BY <2>1, <2>3
  <1>5. total \in Nat
    BY <1>1, SumGrows
  <1>6. total + Batch * tally.uncounted = Batch * (tally.accepted + tally.failed + n)
    BY CountedIsSum DEF UsageAccountedFor, InFlight, Forwarding
  <1>7. InFlight' = n - m
    BY <1>4 DEF InFlight, Forwarding
  <1>8. SumOf(counter')[MaxPeriods] = total
    OBVIOUS
  <1> HIDE DEF total, n
  <1>9. /\ (tally.accepted + m) + tally.failed + (n - m) = tally.accepted + tally.failed + n
        /\ tally.accepted + (tally.failed + m) + (n - m) = tally.accepted + tally.failed + n
    BY <1>2, <1>3
  <1>10. tally'.accepted + tally'.failed + (n - m) = tally.accepted + tally.failed + n
    BY <1>9
  <1>11. QED
    BY <1>6, <1>7, <1>8, <1>10, CountedIsSum DEF UsageAccountedFor

LEMMA ForwardAccounts ==
    ASSUME MeterTypes, UsageAccountedFor, NEW e \in Exports, Forward(e)
    PROVE  UsageAccountedFor'
  <1>1. sending \in [Exports -> SendingRows] /\ tally \in Tallies
    BY DEF MeterTypes
  <1>2. sending[e].pc = "forward" /\ sending' = [sending EXCEPT ![e] = NotSending] /\ UNCHANGED counter
    BY DEF Forward
  <1>3. {e} \in SUBSET Forwarding /\ Forwarding' = Forwarding \ {e}
    BY <1>1, <1>2 DEF Forwarding, NotSending
  <1>4. Cardinality({e}) = 1
    BY FS_Singleton
  <1>5. /\ tally'.uncounted = tally.uncounted
        /\ \/ tally'.accepted = tally.accepted + 1 /\ tally'.failed = tally.failed
           \/ tally'.accepted = tally.accepted /\ tally'.failed = tally.failed + 1
    BY <1>1 DEF Forward, Tallies
  <1>6. QED
    BY <1>2, <1>3, <1>4, <1>5, OverAccounts

\* A restart fails what it cuts off in mid-forward.
LEMMA RestartAccounts ==
    ASSUME MeterTypes, UsageAccountedFor, NEW g \in MeterGateways, MeterRestart(g)
    PROVE  UsageAccountedFor'
  <1> DEFINE S == {e \in Exports : sending[e].by = g /\ sending[e].pc = "forward"}
             m == Cardinality(S)
  <1>1. sending \in [Exports -> SendingRows] /\ tally \in Tallies
    BY DEF MeterTypes
  <1>2. /\ sending' = [e \in Exports |-> IF sending[e].by = g THEN NotSending ELSE sending[e]]
        /\ tally' = [tally EXCEPT !.failed = @ + m] /\ UNCHANGED counter
    BY DEF MeterRestart
  <1>3. S \in SUBSET Forwarding /\ Forwarding' = Forwarding \ S
    BY <1>1, <1>2 DEF Forwarding, NotSending
  <1>4. tally'.uncounted = tally.uncounted /\ tally'.accepted = tally.accepted /\ tally'.failed = tally.failed + m
    BY <1>1, <1>2 DEF Tallies
  <1> HIDE DEF S
  <1>5. QED
    BY <1>2, <1>3, <1>4, OverAccounts

LEMMA NextAccounts ==
    ASSUME MeterTypes, UsageAccountedFor, [MeterNext]_meterVars
    PROVE  UsageAccountedFor'
  <1>1. sending \in [Exports -> SendingRows] /\ tally \in Tallies
    BY DEF MeterTypes
  <1>2. ASSUME NEW e \in Exports, NEW g \in MeterGateways, ReceiveExport(e, g) PROVE UsageAccountedFor'
    <2>1. Forwarding' = Forwarding
      BY <1>1, <1>2 DEF ReceiveExport, Forwarding, NotSending
    <2>2. QED
      BY <1>2, <2>1, NothingCounted DEF ReceiveExport
  <1>3. ASSUME NEW e \in Exports, AskPlan(e) \/ KeepPlan(e) PROVE UsageAccountedFor'
    <2>1. Forwarding' = Forwarding
      BY <1>1, <1>3 DEF AskPlan, KeepPlan, Forwarding, SendingRows
    <2>2. QED
      BY <1>3, <2>1, NothingCounted DEF AskPlan, KeepPlan
  <1>4. ASSUME NEW e \in Exports, Allow(e) PROVE UsageAccountedFor'
    <2>1. Forwarding' = Forwarding
      BY <1>1, <1>4 DEF Allow, Forwarding, SendingRows, NotSending
    <2>2. tally'.accepted = tally.accepted /\ tally'.failed = tally.failed /\ tally'.uncounted = tally.uncounted
      BY <1>1, <1>4 DEF Allow, Tallies
    <2>3. QED
      BY <1>4, <2>1, <2>2, NothingCounted DEF Allow
  <1>5. ASSUME UNCHANGED <<sending, counter, tally>> PROVE UsageAccountedFor'
    BY <1>5, NothingCounted DEF Forwarding
  <1>6. ASSUME NEW g \in MeterGateways, FlushRead(g) \/ FlushUpsert(g) \/ PlanAges(g) PROVE UsageAccountedFor'
    BY <1>5, <1>6 DEF FlushRead, FlushUpsert, PlanAges
  <1>7. CASE NextPeriod \/ (\E p \in Plans : ChangePlan(p)) \/ UNCHANGED meterVars
    BY <1>5, <1>7 DEF NextPeriod, ChangePlan, meterVars
  <1>8. QED
    BY <1>2, <1>3, <1>4, <1>6, <1>7, RecordAccounts, ForwardAccounts, RestartAccounts DEF MeterNext

LEMMA InitAccounts == ASSUME MeterInit PROVE UsageAccountedFor
  <1>1. MaxPeriods \in Nat /\ \A k \in 1..MaxPeriods : counter[k] = 0
    BY MeterConstants DEF MeterInit, Periods
  <1> DEFINE f == SumOf(counter)
             T == {k \in 0..MaxPeriods : f[k] # 0}
  <1>2. \A k \in 0..MaxPeriods : f[k] = IF k = 0 THEN 0 ELSE f[k - 1] + counter[k]
    BY SumOfSums DEF SumsTo
  <1> HIDE DEF f
  <1>3. ASSUME T # {} PROVE FALSE
    <2>1. T \in SUBSET Nat
      BY <1>1
    <2>2. PICK m \in T : \A k \in T : m <= k
      BY <1>3, <2>1, LeastNat
    <2>3. m # 0
      BY <1>1, <1>2
    <2>4. m \in 1..MaxPeriods /\ m - 1 \in 0..MaxPeriods /\ m - 1 \notin T
      BY <1>1, <2>2, <2>3
    <2>5. QED
      BY <1>1, <1>2, <2>3, <2>4
  <1>4. Counted[MaxPeriods] = 0
    <2>1. f[MaxPeriods] = 0
      BY <1>1, <1>3
    <2>2. QED
      BY <2>1, CountedIsSum DEF f
  <1>5. InFlight = 0
    <2>1. {e \in Exports : sending[e].pc = "forward"} = {}
      BY DEF MeterInit, NotSending
    <2>2. QED
      BY <2>1, FS_EmptySet DEF InFlight
  <1>6. tally.accepted = 0 /\ tally.failed = 0 /\ tally.uncounted = 0
    BY DEF MeterInit
  <1>7. QED
    BY <1>4, <1>5, <1>6, MeterShapes DEF UsageAccountedFor

\* What a tenant is shown and billed for is what it sent: the month's counters are the
\* batches accepted, failed upstream and under way, less what Redis did not take; the
\* row of usage_daily never shows more; and the quota is overshot by the requests under
\* way at most.
THEOREM UsageStaysRight == MeterSpec => []UsageIsRight
  <1> DEFINE Inv == MeterIInv /\ UsageAccountedFor
  <1>1. MeterInit => Inv
    BY InitMeterIInv, InitAccounts
  <1>2. Inv /\ [MeterNext]_meterVars => Inv'
    BY NextMeterIInv, NextAccounts DEF MeterIInv
  <1>3. MeterSpec => []Inv
    <2> HIDE DEF Inv
    <2>1. QED
      BY <1>1, <1>2, PTL DEF MeterSpec
  <1>4. Inv => UsageAccountedFor
    OBVIOUS
  <1>5. MeterSpec => []UsageAccountedFor
    <2> HIDE DEF Inv
    <2>1. QED
      BY <1>3, <1>4, PTL
  <1>6. OvershootBounded /\ UsageAccountedFor /\ MirrorNeverExceeds => UsageIsRight
    BY DEF UsageIsRight
  <1>7. QED
    BY <1>5, <1>6, OvershootIsBounded, MirrorDoesNotExceed, PTL

-----------------------------------------------------------------------------
(* Roles and policies *)

PermissionSets == Permissions \cup {Absent, AllPermissions}
TableRows == [roles : [AllRoles -> PermissionSets],
              policies : [DOMAIN PolicyDefs -> [prio : Priorities \cup {0}, enabled : BOOLEAN]]]
PolicyRow == [name : DOMAIN PolicyDefs, prio : Nat]
ReloadRows == [pc : {"idle", "roles", "policies", "store"}, roles : [AllRoles -> PermissionSets],
               policies : SUBSET PolicyRow, v : [1..2 -> Nat]]

NoRoles == [r \in AllRoles |-> Absent]

\* What a query of version n of the rows gives; version 0 is a query that failed.
RolesRead(n) == IF n = 0 THEN WithFallback(NoRoles) ELSE WithFallback(tables[n].roles)
PoliciesRead(n) == IF n = 0 THEN {} ELSE PolicyRows(tables[n])

RbacTypes ==
    /\ tables \in Seq(TableRows) /\ Len(tables) \in 1..MaxEdits + 1
    /\ reload \in [Reloaders -> ReloadRows]
    /\ oldCopy \in BOOLEAN /\ rbacFaults \in 0..MaxRbacFaults

\* A reload holds what the versions it names say, as far as it got.
ReadOK(row) ==
    /\ row.v[1] <= Len(tables) /\ row.v[2] <= Len(tables)
    /\ row.pc \in {"idle", "roles"} => row.v[1] = 0 /\ row.v[2] = 0 /\ row.policies = {}
    /\ row.pc = "policies" => row.v[2] = 0 /\ row.policies = {}
    /\ row.pc \in {"policies", "store"} => row.roles = RolesRead(row.v[1])
    /\ row.pc = "store" => row.policies = PoliciesRead(row.v[2])

\* So does the copy in force.
CopyOK ==
    /\ copy.v[1] \in 0..Len(tables) /\ copy.v[2] \in 0..Len(tables)
    /\ copy.roles = RolesRead(copy.v[1])
    /\ copy.policies \in Sorted(PoliciesRead(copy.v[2]))

\* The inductive invariant.
RbacIInv == RbacTypes /\ (\A q \in Reloaders : ReadOK(reload[q])) /\ CopyOK

\* The rows of a version are finitely many.
LEMMA RowsAreFinite ==
    ASSUME NEW t \in TableRows
    PROVE  IsFiniteSet(PolicyRows(t)) /\ PolicyRows(t) \subseteq PolicyRow
  <1> DEFINE S == {m \in DOMAIN PolicyDefs : t.policies[m].enabled}
             f == [m \in S |-> [name |-> m, prio |-> t.policies[m].prio]]
  <1>1. IsFiniteSet(S)
    BY RbacConstants, FS_Subset
  <1>2. PolicyRows(t) = {f[m] : m \in S}
    BY DEF PolicyRows
  <1>3. f \in Surjection(S, PolicyRows(t))
    <2>1. f \in [S -> PolicyRows(t)]
      BY <1>2
    <2>2. \A p \in PolicyRows(t) : \E m \in S : f[m] = p
      BY <1>2
    <2> HIDE DEF f
    <2>3. QED
      BY <2>1, <2>2 DEF Surjection
  <1>4. \A m \in S : t.policies[m] \in [prio : Priorities \cup {0}, enabled : BOOLEAN]
    BY DEF TableRows
  <1>5. \A m \in S : t.policies[m].prio \in Nat
    <2>1. \A m \in S : t.policies[m].prio \in Priorities \cup {0}
      BY <1>4
    <2>2. Priorities \cup {0} \subseteq Nat
      BY RbacConstants
    <2> HIDE DEF S
    <2>3. QED
      BY <2>1, <2>2
  <1>6. PolicyRows(t) \subseteq PolicyRow
    BY <1>5 DEF PolicyRows, PolicyRow
  <1> HIDE DEF f, S
  <1>7. IsFiniteSet(PolicyRows(t))
    BY <1>1, <1>3, FS_Surjection
  <1>8. QED
    BY <1>6, <1>7

\* A sorted list has every row of the set it is of, and no other.
LEMMA SortedRange ==
    ASSUME NEW R, IsFiniteSet(R), NEW s \in Sorted(R)
    PROVE  /\ Range(s) = R
           /\ \E n \in Nat : s \in [1..n -> R]
           /\ \A i, j \in DOMAIN s : i < j => inOrder(s[i], s[j])
  <1> DEFINE n == Cardinality(R)
  <1>1. n \in Nat
    BY FS_CardinalityType
  <1>2. /\ s \in [1..n -> R]
        /\ \A i, j \in 1..n : i # j => s[i] # s[j]
        /\ \A i, j \in DOMAIN s : i < j => inOrder(s[i], s[j])
    BY DEF Sorted, SetToSeqs
  <1>3. s \in Injection(1..n, R)
    BY <1>2 DEF Injection, IsInjective
  <1>4. IsFiniteSet(1..n) /\ Cardinality(1..n) = n
    BY <1>1, FS_Interval
  <1> HIDE DEF n
  <1>5. s \in Surjection(1..n, R)
    <2>1. Cardinality(1..n) = Cardinality(R)
      BY <1>4 DEF n
    <2>2. QED
      BY <2>1, <1>3, FS_Injection
  <1>6. Range(s) = R
    BY <1>2, <1>5 DEF Surjection, Range
  <1>7. QED
    BY <1>1, <1>2, <1>6

\* The first policy of a sorted list that matches is the first of the rows that
\* match, by priority and then by name.
LEMMA ListDecides ==
    ASSUME NEW R \in SUBSET PolicyRow, IsFiniteSet(R), NEW s \in Sorted(R), NEW r
    PROVE  EvaluateABAC(s, r) <=> RowsAllow(R, r)
  <1>1. PICK n \in Nat : s \in [1..n -> R]
    BY SortedRange
  <1>2. /\ R = {s[i] : i \in 1..n}
        /\ \A i, j \in 1..n : i < j => inOrder(s[i], s[j])
    BY <1>1, SortedRange DEF Range
  <1>3. Len(s) = n
    BY <1>1
  <1> DEFINE I == {i \in 1..n : Matches(s[i].name, r)}
             hits == {p \in R : Matches(p.name, r)}
  <1>4. hits = {s[i] : i \in I}
    BY <1>1, <1>2
  <1>5. CASE I = {}
    <2>1. SelectInSeq(s, LAMBDA p : Matches(p.name, r)) = 0
      BY <1>3, <1>5 DEF SelectInSeq
    <2>2. hits = {}
      BY <1>4, <1>5
    <2>3. QED
      BY <2>1, <2>2 DEF EvaluateABAC, RowsAllow
  <1>6. CASE I # {}
    <2>1. \E i \in I : \A j \in I : i <= j
      <3>1. I \in SUBSET Nat
        OBVIOUS
      <3> HIDE DEF I
      <3>2. QED
        BY <3>1, <1>6, LeastNat
    <2> DEFINE i == Min(I)
    <2>2. i \in I /\ \A j \in I : i <= j
      BY <2>1 DEF Min
    <2>3. SelectInSeq(s, LAMBDA p : Matches(p.name, r)) = i
      BY <1>3, <1>6 DEF SelectInSeq
    <2> HIDE DEF i
    <2>4. i \in 1..n /\ i # 0
      BY <2>2
    <2>5. EvaluateABAC(s, r) <=> PolicyDefs[s[i].name].effect = "allow"
      BY <2>3, <2>4 DEF EvaluateABAC
    <2>6. \A j \in I : s[i].prio < s[j].prio \/ (s[i].prio = s[j].prio /\ s[i].name <= s[j].name)
      <3> SUFFICES ASSUME NEW j \in I
                   PROVE  s[i].prio < s[j].prio \/ (s[i].prio = s[j].prio /\ s[i].name <= s[j].name)
        OBVIOUS
      <3>1. s[i] \in PolicyRow /\ s[j] \in PolicyRow
        BY <1>1, <2>4
      <3>2. s[i].prio \in Nat /\ s[j].prio \in Nat /\ s[i].name \in Nat /\ s[j].name \in Nat
        BY <3>1, RbacConstants DEF PolicyRow
      <3>3. CASE i = j
        BY <3>2, <3>3
      <3>4. CASE i < j
        <4>1. inOrder(s[i], s[j])
          BY <1>2, <2>4, <3>4
        <4>2. QED
          BY <4>1, <3>2 DEF inOrder
      <3>5. QED
        BY <2>2, <2>4, <3>3, <3>4
    <2>7. ASSUME NEW p \in hits,
                 \A o \in hits : p.prio < o.prio \/ (p.prio = o.prio /\ p.name <= o.name)
          PROVE  p = s[i]
      <3>1. p \in PolicyRow /\ s[i] \in PolicyRow
        BY <1>1, <2>4
      <3>2. s[i].prio \in Nat /\ p.prio \in Nat /\ s[i].name \in Nat /\ p.name \in Nat
        BY <3>1, RbacConstants DEF PolicyRow
      <3>3. p.prio < s[i].prio \/ (p.prio = s[i].prio /\ p.name <= s[i].name)
        BY <2>7, <2>2, <1>4
      <3>4. s[i].prio < p.prio \/ (p.prio = s[i].prio /\ s[i].name <= p.name)
        BY <2>6, <1>4
      <3>5. p.prio = s[i].prio /\ p.name = s[i].name
        BY <3>2, <3>3, <3>4
      <3>6. QED
        BY <3>1, <3>5 DEF PolicyRow
    <2>8. s[i] \in hits /\ hits # {}
      BY <1>4, <2>2
    <2>9. \A o \in hits : s[i].prio < o.prio \/ (s[i].prio = o.prio /\ s[i].name <= o.name)
      BY <1>4, <2>6
    <2>10. RowsAllow(R, r) <=> PolicyDefs[s[i].name].effect = "allow"
      <3> HIDE DEF I
      <3>1. RowsAllow(R, r) <=>
              \E p \in hits : /\ PolicyDefs[p.name].effect = "allow"
                              /\ \A o \in hits : p.prio < o.prio \/ (p.prio = o.prio /\ p.name <= o.name)
        BY <2>8 DEF RowsAllow
      <3> HIDE DEF hits
      <3>2. QED
        BY <3>1, <2>7, <2>8, <2>9
    <2>11. QED
      BY <2>5, <2>10
  <1>7. QED
    BY <1>5, <1>6

\* A role list with the fallback is still a role list.
LEMMA FallbackType ==
    ASSUME NEW roles \in [AllRoles -> PermissionSets]
    PROVE  WithFallback(roles) \in [AllRoles -> PermissionSets]
  BY DEF WithFallback, PermissionSets

LEMMA NoRolesType == NoRoles \in [AllRoles -> PermissionSets]
  BY DEF NoRoles, PermissionSets, Absent

\* What queries of the rows give.
LEMMA ReadsAreTyped ==
    ASSUME RbacTypes, NEW n \in 0..Len(tables)
    PROVE  /\ RolesRead(n) \in [AllRoles -> PermissionSets]
           /\ PoliciesRead(n) \subseteq PolicyRow /\ IsFiniteSet(PoliciesRead(n))
  <1>1. CASE n = 0
    BY <1>1, FallbackType, NoRolesType, FS_EmptySet DEF RolesRead, PoliciesRead
  <1>2. CASE n # 0
    <2>1. n \in 1..Len(tables)
      BY <1>2 DEF RbacTypes
    <2>2. tables[n] \in TableRows
      BY <2>1 DEF RbacTypes
    <2>3. tables[n].roles \in [AllRoles -> PermissionSets]
      BY <2>2 DEF TableRows
    <2>4. QED
      BY <1>2, <2>2, <2>3, RowsAreFinite, FallbackType DEF RolesRead, PoliciesRead
  <1>3. QED
    BY <1>1, <1>2

\* An edit leaves what earlier versions say.
LEMMA VersionsKept ==
    ASSUME RbacTypes, NEW t \in TableRows, tables' = Append(tables, t)
    PROVE  /\ tables' \in Seq(TableRows) /\ Len(tables') = Len(tables) + 1
           /\ \A n \in 0..Len(tables) : RolesRead(n)' = RolesRead(n) /\ PoliciesRead(n)' = PoliciesRead(n)
  <1>1. tables \in Seq(TableRows) /\ Len(tables) \in Nat
    BY DEF RbacTypes
  <1>2. tables' \in Seq(TableRows) /\ Len(tables') = Len(tables) + 1
    BY <1>1, AppendProperties
  <1>3. \A n \in 1..Len(tables) : tables'[n] = tables[n]
    BY <1>1, AppendProperties
  <1>4. \A n \in 0..Len(tables) : RolesRead(n)' = RolesRead(n) /\ PoliciesRead(n)' = PoliciesRead(n)
    <2> SUFFICES ASSUME NEW n \in 0..Len(tables)
                 PROVE  RolesRead(n)' = RolesRead(n) /\ PoliciesRead(n)' = PoliciesRead(n)
      OBVIOUS
    <2>1. CASE n = 0
      BY <2>1 DEF RolesRead, PoliciesRead, WithFallback, NoRoles
    <2>2. CASE n # 0
      <3>1. tables'[n] = tables[n]
        BY <1>1, <1>3, <2>2
      <3>2. RolesRead(n)' = WithFallback(tables'[n].roles) /\ PoliciesRead(n)' = PolicyRows(tables'[n])
        BY <2>2 DEF RolesRead, PoliciesRead, WithFallback, PolicyRows
      <3>3. RolesRead(n) = WithFallback(tables[n].roles) /\ PoliciesRead(n) = PolicyRows(tables[n])
        BY <2>2 DEF RolesRead, PoliciesRead
      <3>4. QED
        BY <3>1, <3>2, <3>3
    <2>3. QED
      BY <2>1, <2>2
  <1>5. QED
    BY <1>2, <1>4

\* What a row says and what the copy says stay true of the versions kept.
LEMMA ReadsKept ==
    ASSUME RbacIInv, Len(tables') >= Len(tables), Len(tables') \in Nat,
           \A n \in 0..Len(tables) : RolesRead(n)' = RolesRead(n) /\ PoliciesRead(n)' = PoliciesRead(n)
    PROVE  /\ \A row \in ReloadRows : ReadOK(row) => ReadOK(row)'
           /\ copy' = copy => CopyOK'
  <1>1. Len(tables) \in Nat
    BY DEF RbacIInv, RbacTypes
  <1>2. ASSUME NEW row \in ReloadRows, ReadOK(row) PROVE ReadOK(row)'
    <2>1. row.v[1] \in Nat /\ row.v[2] \in Nat
      BY DEF ReloadRows
    <2>2. row.v[1] \in 0..Len(tables) /\ row.v[2] \in 0..Len(tables)
      BY <2>1, <1>2, <1>1 DEF ReadOK
    <2>3. row.v[1] <= Len(tables') /\ row.v[2] <= Len(tables')
      BY <1>1, <2>2
    <2>4. RolesRead(row.v[1])' = RolesRead(row.v[1]) /\ PoliciesRead(row.v[2])' = PoliciesRead(row.v[2])
      BY <2>2
    <2>5. QED
      BY <2>3, <2>4, <1>2 DEF ReadOK
  <1>3. ASSUME copy' = copy PROVE CopyOK'
    <2>1. copy.v[1] \in 0..Len(tables) /\ copy.v[2] \in 0..Len(tables)
      BY DEF RbacIInv, CopyOK
    <2>2. copy.v[1] \in 0..Len(tables') /\ copy.v[2] \in 0..Len(tables')
      BY <1>1, <2>1
    <2>3. \A v : v = copy.v => RolesRead(v[1])' = RolesRead(v[1]) /\ PoliciesRead(v[2])' = PoliciesRead(v[2])
      BY <2>1
    <2>4. RolesRead(copy.v[1])' = RolesRead(copy.v[1]) /\ PoliciesRead(copy.v[2])' = PoliciesRead(copy.v[2])
      BY <2>3, <1>3
    <2>5. \A R : Sorted(R)' = Sorted(R)
      BY DEF Sorted, SetToSeqs, inOrder
    <2>6. QED
      BY <2>2, <2>4, <1>3 DEF RbacIInv, CopyOK, Sorted, SetToSeqs, inOrder
  <1>4. QED
    BY <1>2, <1>3

\* A reload that begins has read nothing.
LEMMA BeginsEmpty ==
    ASSUME RbacIInv, NEW q \in Reloaders, reload[q] = NoReload,
           reload' = [reload EXCEPT ![q].pc = "roles"]
    PROVE  /\ reload' \in [Reloaders -> ReloadRows]
           /\ \A p \in Reloaders : ReadOK(reload'[p])
  <1> DEFINE row == [reload[q] EXCEPT !.pc = "roles"]
  <1>1. reload \in [Reloaders -> ReloadRows] /\ reload[q] \in ReloadRows
    BY DEF RbacIInv, RbacTypes
  <1>2. row \in ReloadRows /\ row.pc = "roles" /\ row.v = reload[q].v /\ row.policies = reload[q].policies
    BY <1>1 DEF ReloadRows
  <1>3. reload[q].pc = "idle"
    BY DEF NoReload
  <1>4. ReadOK(reload[q])
    BY DEF RbacIInv
  <1>5. ReadOK(row)
    BY <1>2, <1>3, <1>4 DEF ReadOK
  <1>6. reload' = [reload EXCEPT ![q] = row]
    OBVIOUS
  <1> HIDE DEF row
  <1>7. QED
    BY <1>1, <1>2, <1>5, <1>6 DEF RbacIInv

\* An edit: a version more, and perhaps a reload that begins.
LEMMA EditKeeps ==
    ASSUME RbacIInv, NEW t \in TableRows, NEW q \in Reloaders, Edit(t, q)
    PROVE  RbacIInv'
  <1>1. RbacTypes /\ MaxEdits \in Nat
    BY RbacConstants DEF RbacIInv
  <1>2. tables' = Append(tables, t) /\ Len(tables) <= MaxEdits
    BY DEF Edit, Version
  <1>3. /\ tables' \in Seq(TableRows) /\ Len(tables') = Len(tables) + 1
        /\ \A n \in 0..Len(tables) : RolesRead(n)' = RolesRead(n) /\ PoliciesRead(n)' = PoliciesRead(n)
    BY <1>1, <1>2, VersionsKept
  <1>4. Len(tables) \in 1..MaxEdits + 1
    BY <1>1 DEF RbacTypes
  <1>5. Len(tables') \in 1..MaxEdits + 1 /\ Len(tables') >= Len(tables) /\ Len(tables') \in Nat
    BY <1>1, <1>2, <1>3, <1>4
  <1>6. copy' = copy /\ oldCopy' = oldCopy /\ rbacFaults' = rbacFaults
    BY DEF Edit
  <1>7. /\ \A row \in ReloadRows : ReadOK(row) => ReadOK(row)'
        /\ CopyOK'
    BY <1>3, <1>5, <1>6, ReadsKept
  <1>8. reload' \in [Reloaders -> ReloadRows] /\ \A p \in Reloaders : ReadOK(reload'[p])
    <2>1. CASE UNCHANGED reload
      BY <2>1 DEF RbacIInv, RbacTypes
    <2>2. CASE reload[q] = NoReload /\ reload' = [reload EXCEPT ![q].pc = "roles"]
      BY <2>2, BeginsEmpty
    <2>3. QED
      BY <2>1, <2>2 DEF Edit
  <1>9. \A p \in Reloaders : \A row : row = reload'[p] => ReadOK(row)'
    BY <1>7, <1>8
  <1>10. \A p \in Reloaders : ReadOK(reload[p])'
    BY <1>9
  <1>11. QED
    BY <1>1, <1>3, <1>5, <1>6, <1>7, <1>8, <1>10 DEF RbacIInv, RbacTypes

\* The rows in force, and what an edit makes of them.
LEMMA LastTable == ASSUME RbacTypes PROVE Table \in TableRows /\ Version \in 1..Len(tables)
  BY DEF RbacTypes, Table, Version

LEMMA EditsKeep ==
    ASSUME RbacIInv, NEW q \in Reloaders,
           \/ \E r \in AllRoles, perms \in Permissions : PutRole(r, perms, q)
           \/ \E r \in AllRoles : DeleteRole(r, q)
           \/ \E n \in DOMAIN PolicyDefs :
                 \/ \E prio \in Priorities : CreatePolicy(n, prio, q)
                 \/ \E prio \in Priorities \cup {0}, on \in BOOLEAN : UpdatePolicy(n, prio, on, q)
                 \/ DeletePolicy(n, q)
    PROVE  RbacIInv'
  <1>1. Table \in TableRows
    BY LastTable DEF RbacIInv
  <1>2. /\ Table.roles \in [AllRoles -> PermissionSets]
        /\ Table.policies \in [DOMAIN PolicyDefs -> [prio : Priorities \cup {0}, enabled : BOOLEAN]]
        /\ Table = [roles |-> Table.roles, policies |-> Table.policies]
    BY <1>1 DEF TableRows
  <1> HIDE DEF Table
  <1>3. ASSUME NEW r \in AllRoles, NEW perms \in PermissionSets
        PROVE  [Table EXCEPT !.roles[r] = perms] \in TableRows
    BY <1>2 DEF TableRows
  <1>4. ASSUME NEW n \in DOMAIN PolicyDefs, NEW row \in [prio : Priorities \cup {0}, enabled : BOOLEAN]
        PROVE  [Table EXCEPT !.policies[n] = row] \in TableRows
    BY <1>2 DEF TableRows
  <1>5. ASSUME NEW r \in AllRoles, NEW perms \in Permissions, PutRole(r, perms, q) PROVE RbacIInv'
    BY <1>3, <1>5, EditKeeps DEF PutRole, PermissionSets
  <1>6. ASSUME NEW r \in AllRoles, DeleteRole(r, q) PROVE RbacIInv'
    BY <1>3, <1>6, EditKeeps DEF DeleteRole, PermissionSets
  <1>7. ASSUME NEW n \in DOMAIN PolicyDefs, NEW prio \in Priorities, CreatePolicy(n, prio, q) PROVE RbacIInv'
    <2>1. [prio |-> prio, enabled |-> TRUE] \in [prio : Priorities \cup {0}, enabled : BOOLEAN]
      OBVIOUS
    <2>2. QED
      BY <1>4, <1>7, <2>1, EditKeeps DEF CreatePolicy
  <1>8. ASSUME NEW n \in DOMAIN PolicyDefs, NEW prio \in Priorities \cup {0}, NEW on \in BOOLEAN,
               UpdatePolicy(n, prio, on, q)
        PROVE  RbacIInv'
    <2> DEFINE row == [prio |-> IF prio = 0 THEN Table.policies[n].prio ELSE prio, enabled |-> on]
    <2>1. row \in [prio : Priorities \cup {0}, enabled : BOOLEAN]
      BY <1>2
    <2>2. Edit([Table EXCEPT !.policies[n] = row], q)
      BY <1>8 DEF UpdatePolicy
    <2> HIDE DEF row
    <2>3. QED
      BY <1>4, <2>1, <2>2, EditKeeps
  <1>9. ASSUME NEW n \in DOMAIN PolicyDefs, DeletePolicy(n, q) PROVE RbacIInv'
    <2>1. NoPolicy \in [prio : Priorities \cup {0}, enabled : BOOLEAN]
      BY DEF NoPolicy
    <2>2. QED
      BY <1>4, <1>9, <2>1, EditKeeps DEF DeletePolicy
  <1>10. QED
    BY <1>5, <1>6, <1>7, <1>8, <1>9

\* A step of one reloader.
LEMMA RowKeeps ==
    ASSUME RbacIInv, NEW q \in Reloaders, NEW row \in ReloadRows, ReadOK(row),
           reload' = [reload EXCEPT ![q] = row], UNCHANGED <<tables, copy, oldCopy>>,
           rbacFaults' \in 0..MaxRbacFaults
    PROVE  RbacIInv'
  <1>1. reload' \in [Reloaders -> ReloadRows] /\ \A p \in Reloaders : ReadOK(reload'[p])
    BY DEF RbacIInv, RbacTypes
  <1>2. ASSUME NEW x PROVE ReadOK(x)' <=> ReadOK(x)
    BY DEF ReadOK, RolesRead, PoliciesRead, WithFallback, PolicyRows, NoRoles
  <1>3. \A p \in Reloaders : \A x : x = reload'[p] => ReadOK(x)'
    BY <1>1, <1>2
  <1>4. \A p \in Reloaders : ReadOK(reload[p])'
    BY <1>3
  <1>5. CopyOK'
    <2>1. ASSUME NEW n PROVE RolesRead(n)' = RolesRead(n) /\ PoliciesRead(n)' = PoliciesRead(n)
      BY DEF RolesRead, PoliciesRead, WithFallback, PolicyRows, NoRoles
    <2>2. Len(tables') >= Len(tables) /\ Len(tables') \in Nat
      BY DEF RbacIInv, RbacTypes
    <2>3. QED
      BY <2>1, <2>2, ReadsKept
  <1>6. QED
    BY <1>1, <1>4, <1>5 DEF RbacIInv, RbacTypes

LEMMA LoadRolesKeeps == ASSUME RbacIInv, NEW q \in Reloaders, LoadRoles(q) PROVE RbacIInv'
  <1> DEFINE old == reload[q]
  <1>1. /\ reload \in [Reloaders -> ReloadRows] /\ RbacTypes /\ old \in ReloadRows /\ ReadOK(old)
        /\ old.pc = "roles" /\ old.v \in [1..2 -> Nat]
    BY DEF RbacIInv, RbacTypes, LoadRoles, ReloadRows
  <1>2. rbacFaults' \in 0..MaxRbacFaults /\ UNCHANGED <<tables, copy, oldCopy>>
    BY RbacConstants DEF LoadRoles, RbacFault, RbacIInv, RbacTypes
  <1>3. Len(tables) \in Nat /\ Version \in 1..Len(tables) /\ Version = Len(tables) /\ Table = tables[Version]
    BY <1>1, LastTable DEF RbacTypes, Version, Table
  <1>4. ASSUME NEW n \in 0..Len(tables), NEW row,
               row = [old EXCEPT !.pc = "policies", !.v[1] = n, !.roles = RolesRead(n)]
        PROVE  row \in ReloadRows /\ ReadOK(row)
    <2>1. RolesRead(n) \in [AllRoles -> PermissionSets]
      BY <1>1, ReadsAreTyped
    <2>2. n \in Nat
      BY <1>3
    <2>3. /\ row.pc = "policies" /\ row.v = [old.v EXCEPT ![1] = n] /\ row.roles = RolesRead(n)
          /\ row.policies = old.policies
      BY <1>1, <1>4 DEF ReloadRows
    <2>4. row.v \in [1..2 -> Nat] /\ row.v[1] = n /\ row.v[2] = old.v[2]
      BY <1>1, <2>2, <2>3
    <2>5. row \in ReloadRows
      BY <1>1, <1>4, <2>1, <2>4, <2>3 DEF ReloadRows
    <2>6. old.v[2] = 0 /\ old.policies = {}
      BY <1>1 DEF ReadOK
    <2>7. ReadOK(row)
      BY <2>3, <2>4, <2>6, <1>3 DEF ReadOK
    <2>8. QED
      BY <2>5, <2>7
  <1>5. CASE reload' = [reload EXCEPT ![q].pc = "policies", ![q].v[1] = Version,
                                      ![q].roles = WithFallback(Table.roles)]
    <2> DEFINE row == [old EXCEPT !.pc = "policies", !.v[1] = Version, !.roles = RolesRead(Version)]
    <2>1. RolesRead(Version) = WithFallback(Table.roles) /\ Version \in 0..Len(tables)
      BY <1>3 DEF RolesRead
    <2>2. reload' = [reload EXCEPT ![q] = row]
      BY <1>1, <1>5, <2>1
    <2>3. row \in ReloadRows /\ ReadOK(row)
      BY <1>4, <2>1
    <2> HIDE DEF row
    <2>4. QED
      BY <1>2, <2>2, <2>3, RowKeeps
  <1>6. CASE reload' = [reload EXCEPT ![q].pc = "policies",
                            ![q].roles = WithFallback([r \in AllRoles |-> Absent])]
    <2> DEFINE row == [old EXCEPT !.pc = "policies", !.v[1] = 0, !.roles = RolesRead(0)]
    <2>1. RolesRead(0) = WithFallback([r \in AllRoles |-> Absent]) /\ 0 \in 0..Len(tables)
      BY <1>3 DEF RolesRead, NoRoles
    <2>2. old.v[1] = 0
      BY <1>1 DEF ReadOK
    <2>3. [old EXCEPT !.pc = "policies", !.roles = RolesRead(0)] = row
      <3>1. [old.v EXCEPT ![1] = 0] = old.v
        BY <1>1, <2>2
      <3>2. QED
        BY <1>1, <3>1 DEF ReloadRows
    <2>4. reload' = [reload EXCEPT ![q] = [old EXCEPT !.pc = "policies", !.roles = RolesRead(0)]]
      BY <1>1, <1>6, <2>1
    <2>5. row \in ReloadRows /\ ReadOK(row)
      BY <1>4, <2>1
    <2> HIDE DEF row
    <2>6. QED
      BY <1>2, <2>3, <2>4, <2>5, RowKeeps
  <1>7. QED
    BY <1>5, <1>6 DEF LoadRoles

LEMMA LoadPoliciesKeeps == ASSUME RbacIInv, NEW q \in Reloaders, LoadPolicies(q) PROVE RbacIInv'
  <1> DEFINE old == reload[q]
  <1>1. /\ reload \in [Reloaders -> ReloadRows] /\ RbacTypes /\ old \in ReloadRows /\ ReadOK(old)
        /\ old.pc = "policies" /\ old.v \in [1..2 -> Nat]
    BY DEF RbacIInv, RbacTypes, LoadPolicies, ReloadRows
  <1>2. rbacFaults' \in 0..MaxRbacFaults /\ UNCHANGED <<tables, copy, oldCopy>>
    BY RbacConstants DEF LoadPolicies, RbacFault, RbacIInv, RbacTypes
  <1>3. Len(tables) \in Nat /\ Version \in 1..Len(tables) /\ Version = Len(tables) /\ Table = tables[Version]
    BY <1>1, LastTable DEF RbacTypes, Version, Table
  <1>4. old.v[2] = 0 /\ old.policies = {} /\ old.roles = RolesRead(old.v[1]) /\ old.v[1] <= Len(tables)
    BY <1>1 DEF ReadOK
  <1>5. CASE reload' = [reload EXCEPT ![q].pc = "store", ![q].v[2] = Version,
                                      ![q].policies = PolicyRows(Table)]
    <2> DEFINE n == Version
               row == [old EXCEPT !.pc = "store", !.v[2] = n, !.policies = PoliciesRead(n)]
    <2>1. PoliciesRead(n) = PolicyRows(Table) /\ n \in 0..Len(tables) /\ n \in Nat /\ n <= Len(tables)
      BY <1>3 DEF PoliciesRead
    <2>2. reload' = [reload EXCEPT ![q] = row]
      BY <1>1, <1>5, <2>1
    <2>3. PoliciesRead(n) \subseteq PolicyRow
      BY <1>1, <2>1, ReadsAreTyped
    <2> HIDE DEF n
    <2>4. /\ row.pc = "store" /\ row.v = [old.v EXCEPT ![2] = n] /\ row.roles = old.roles
          /\ row.policies = PoliciesRead(n)
      BY <1>1 DEF ReloadRows
    <2>5. row.v \in [1..2 -> Nat] /\ row.v[2] = n /\ row.v[1] = old.v[1]
      BY <1>1, <2>1, <2>4
    <2>6. row \in ReloadRows
      BY <1>1, <2>3, <2>4, <2>5 DEF ReloadRows
    <2>7. ReadOK(row)
      BY <1>4, <2>1, <2>4, <2>5 DEF ReadOK
    <2> HIDE DEF row
    <2>8. QED
      BY <1>2, <2>2, <2>6, <2>7, RowKeeps
  <1>6. CASE reload' = [reload EXCEPT ![q].pc = "store"]
    <2> DEFINE row == [old EXCEPT !.pc = "store"]
    <2>1. row \in ReloadRows /\ row.pc = "store" /\ row.v = old.v /\ row.roles = old.roles /\ row.policies = {}
      BY <1>1, <1>4 DEF ReloadRows
    <2>2. reload' = [reload EXCEPT ![q] = row]
      BY <1>1, <1>6
    <2>3. ReadOK(row)
      BY <1>1, <1>4, <2>1 DEF ReadOK, PoliciesRead
    <2> HIDE DEF row
    <2>4. QED
      BY <1>2, <2>1, <2>2, <2>3, RowKeeps
  <1>7. QED
    BY <1>5, <1>6 DEF LoadPolicies

LEMMA NoReloadOK == ASSUME Len(tables) \in Nat PROVE NoReload \in ReloadRows /\ ReadOK(NoReload)
  <1>1. /\ NoReload.pc = "idle" /\ NoReload.roles = NoRoles /\ NoReload.policies = {} /\ NoReload.v = <<0, 0>>
        /\ NoReload = [pc |-> NoReload.pc, roles |-> NoReload.roles, policies |-> NoReload.policies, v |-> NoReload.v]
    BY DEF NoReload, NoRoles
  <1>2. <<0, 0>> \in [1..2 -> Nat] /\ <<0, 0>>[1] = 0 /\ <<0, 0>>[2] = 0
    OBVIOUS
  <1>3. NoReload \in ReloadRows
    BY <1>1, <1>2, NoRolesType DEF ReloadRows
  <1>4. ReadOK(NoReload)
    BY <1>1, <1>2 DEF ReadOK
  <1>5. QED
    BY <1>3, <1>4

LEMMA StoreKeepsRows == ASSUME RbacIInv, NEW q \in Reloaders, Store(q) PROVE RbacIInv'
  <1> DEFINE old == reload[q]
  <1>1. /\ reload \in [Reloaders -> ReloadRows] /\ RbacTypes /\ old \in ReloadRows /\ ReadOK(old)
        /\ old.pc = "store" /\ old.v \in [1..2 -> Nat] /\ Len(tables) \in Nat
    BY DEF RbacIInv, RbacTypes, Store, ReloadRows
  <1>2. /\ old.v[1] <= Len(tables) /\ old.v[2] <= Len(tables)
        /\ old.roles = RolesRead(old.v[1]) /\ old.policies = PoliciesRead(old.v[2])
    BY <1>1 DEF ReadOK
  <1>3. PICK s \in Sorted(old.policies) : copy' = [roles |-> old.roles, policies |-> s, v |-> old.v]
    BY DEF Store
  <1>4. UNCHANGED <<tables, rbacFaults>> /\ oldCopy' = FALSE /\ reload' = [reload EXCEPT ![q] = NoReload]
    BY DEF Store
  <1>5. reload' \in [Reloaders -> ReloadRows] /\ \A p \in Reloaders : ReadOK(reload'[p])
    BY <1>1, <1>4, NoReloadOK DEF RbacIInv
  <1>6. ASSUME NEW x PROVE ReadOK(x)' <=> ReadOK(x)
    BY <1>4 DEF ReadOK, RolesRead, PoliciesRead, WithFallback, PolicyRows, NoRoles
  <1>7. \A p \in Reloaders : \A x : x = reload'[p] => ReadOK(x)'
    BY <1>5, <1>6
  <1>8. \A p \in Reloaders : ReadOK(reload[p])'
    BY <1>7
  <1>9. CopyOK'
    <2>1. ASSUME NEW n PROVE RolesRead(n)' = RolesRead(n) /\ PoliciesRead(n)' = PoliciesRead(n)
      BY <1>4 DEF RolesRead, PoliciesRead, WithFallback, PolicyRows, NoRoles
    <2>2. copy'.v = old.v /\ copy'.roles = old.roles /\ copy'.policies = s
      BY <1>3
    <2>3. \A n : n = copy'.v[1] => RolesRead(n)' = old.roles
      BY <2>1, <2>2, <1>2
    <2>4. \A n : n = copy'.v[2] => PoliciesRead(n)' = old.policies
      BY <2>1, <2>2, <1>2
    <2>5. RolesRead(copy.v[1])' = old.roles /\ PoliciesRead(copy.v[2])' = old.policies
      BY <2>3, <2>4
    <2>6. copy'.v[1] \in 0..Len(tables') /\ copy'.v[2] \in 0..Len(tables')
      BY <1>1, <1>2, <1>4, <2>2
    <2>7. Sorted(PoliciesRead(copy.v[2]))' = Sorted(old.policies)
      BY <2>5 DEF Sorted, SetToSeqs, inOrder
    <2>8. QED
      BY <1>3, <2>2, <2>5, <2>6, <2>7 DEF CopyOK
  <1>10. QED
    BY <1>4, <1>5, <1>8, <1>9 DEF RbacIInv, RbacTypes

LEMMA NextRbacIInv == ASSUME RbacIInv, [RbacNext]_rbacVars PROVE RbacIInv'
  <1>1. ASSUME NEW q \in Reloaders, refreshIfStale(q) PROVE RbacIInv'
    <2>1. reload' \in [Reloaders -> ReloadRows] /\ \A p \in Reloaders : ReadOK(reload'[p])
      BY <1>1, BeginsEmpty DEF refreshIfStale
    <2>2. reload'[q] \in ReloadRows /\ ReadOK(reload'[q]) /\ reload' = [reload EXCEPT ![q] = reload'[q]]
      BY <1>1, <2>1 DEF refreshIfStale, RbacIInv, RbacTypes
    <2>3. UNCHANGED <<tables, copy, oldCopy>> /\ rbacFaults' \in 0..MaxRbacFaults
      BY <1>1 DEF refreshIfStale, RbacIInv, RbacTypes
    <2> DEFINE row == reload'[q]
    <2>4. row \in ReloadRows /\ ReadOK(row) /\ reload' = [reload EXCEPT ![q] = row]
      BY <2>2
    <2> HIDE DEF row
    <2>5. QED
      BY <2>3, <2>4, RowKeeps
  <1>2. ASSUME CopyAges \/ UNCHANGED rbacVars PROVE RbacIInv'
    <2>1. UNCHANGED <<tables, copy, reload, rbacFaults>> /\ oldCopy' \in BOOLEAN
      BY <1>2 DEF CopyAges, rbacVars, RbacIInv, RbacTypes
    <2>2. ASSUME NEW n PROVE RolesRead(n)' = RolesRead(n) /\ PoliciesRead(n)' = PoliciesRead(n)
      BY <2>1 DEF RolesRead, PoliciesRead, WithFallback, PolicyRows, NoRoles
    <2>3. Len(tables') >= Len(tables) /\ Len(tables') \in Nat
      BY <2>1 DEF RbacIInv, RbacTypes
    <2>4. (\A row \in ReloadRows : ReadOK(row) => ReadOK(row)') /\ CopyOK'
      BY <2>1, <2>2, <2>3, ReadsKept
    <2>5. \A p \in Reloaders : \A x : x = reload'[p] => ReadOK(x)'
      BY <2>1, <2>4 DEF RbacIInv, RbacTypes
    <2>6. \A p \in Reloaders : ReadOK(reload[p])'
      BY <2>5
    <2>7. QED
      BY <2>1, <2>4, <2>6 DEF RbacIInv, RbacTypes
  <1>3. QED
    BY <1>1, <1>2, EditsKeep, LoadRolesKeeps, LoadPoliciesKeeps, StoreKeepsRows DEF RbacNext

LEMMA InitRbacIInv == ASSUME RbacInit PROVE RbacIInv
  <1> DEFINE t == [roles |-> [r \in AllRoles |-> IF r = "admin" THEN AllPermissions ELSE Absent],
                   policies |-> [n \in DOMAIN PolicyDefs |->
                                     [prio |-> CHOOSE p \in Priorities : TRUE, enabled |-> TRUE]]]
  <1>1. /\ tables = <<t>> /\ oldCopy = TRUE /\ rbacFaults = 0
        /\ reload = [q \in Reloaders |-> NoReload]
        /\ \E s \in Sorted(PolicyRows(t)) : copy = [roles |-> t.roles, policies |-> s, v |-> <<1, 1>>]
    BY DEF RbacInit
  <1>2. t \in TableRows
    <2>1. (CHOOSE p \in Priorities : TRUE) \in Priorities
      BY RbacConstants
    <2> DEFINE p0 == CHOOSE p \in Priorities : TRUE
    <2> HIDE DEF p0
    <2>2. [n \in DOMAIN PolicyDefs |-> [prio |-> p0, enabled |-> TRUE]]
              \in [DOMAIN PolicyDefs -> [prio : Priorities \cup {0}, enabled : BOOLEAN]]
      BY <2>1 DEF p0
    <2>3. [r \in AllRoles |-> IF r = "admin" THEN AllPermissions ELSE Absent] \in [AllRoles -> PermissionSets]
      BY DEF PermissionSets
    <2>4. QED
      BY <2>2, <2>3 DEF TableRows, p0
  <1>3. t.roles["admin"] = AllPermissions /\ AllPermissions # Absent
    BY DEF AllRoles, AllPermissions, Absent
  <1> HIDE DEF t
  <1>4. tables \in Seq(TableRows) /\ Len(tables) = 1 /\ tables[1] = t
    BY <1>1, <1>2
  <1>5. WithFallback(t.roles) = t.roles
    BY <1>3 DEF WithFallback
  <1>6. RolesRead(1) = t.roles /\ PoliciesRead(1) = PolicyRows(t)
    BY <1>4, <1>5 DEF RolesRead, PoliciesRead
  <1>7. RbacTypes
    BY <1>1, <1>4, NoReloadOK, RbacConstants DEF RbacTypes
  <1>8. \A q \in Reloaders : ReadOK(reload[q])
    BY <1>1, <1>4, NoReloadOK
  <1>9. CopyOK
    <2>1. PICK s \in Sorted(PolicyRows(t)) : copy = [roles |-> t.roles, policies |-> s, v |-> <<1, 1>>]
      BY <1>1
    <2>2. copy.v[1] = 1 /\ copy.v[2] = 1 /\ copy.roles = t.roles /\ copy.policies = s
      BY <2>1
    <2>3. QED
      BY <1>4, <1>6, <2>2 DEF CopyOK
  <1>10. QED
    BY <1>7, <1>8, <1>9 DEF RbacIInv

\* A copy decides as the versions it was read from.
LEMMA CopyDecides == ASSUME RbacIInv PROVE CopyIsOneVersion
  <1> SUFFICES ASSUME copy.v[1] = copy.v[2], copy.v[1] > 0
               PROVE  /\ copy.roles = WithFallback(tables[copy.v[1]].roles)
                      /\ Range(copy.policies) = PolicyRows(tables[copy.v[1]])
                      /\ \A r \in Requests :
                           EvaluateABAC(copy.policies, r) <=> RowsAllow(PolicyRows(tables[copy.v[1]]), r)
    BY DEF CopyIsOneVersion
  <1> DEFINE n == copy.v[1]
             s == copy.policies
             R == PoliciesRead(n)
  <1>1. /\ n \in 0..Len(tables) /\ n # 0 /\ RbacTypes
        /\ copy.roles = RolesRead(n) /\ s \in Sorted(R)
    BY DEF RbacIInv, CopyOK
  <1>2. RolesRead(n) = WithFallback(tables[n].roles) /\ R = PolicyRows(tables[n])
    BY <1>1 DEF RolesRead, PoliciesRead
  <1> HIDE DEF n, s
  <1>3. R \in SUBSET PolicyRow /\ IsFiniteSet(R)
    BY <1>1, ReadsAreTyped
  <1> HIDE DEF R
  <1>4. Range(s) = R
    BY <1>1, <1>3, SortedRange
  <1>5. \A r \in Requests : EvaluateABAC(s, r) <=> RowsAllow(R, r)
    BY <1>1, <1>3, ListDecides
  <1>6. QED
    BY <1>1, <1>2, <1>4, <1>5 DEF n, s

\* Nobody can be locked out: a copy read from the rows, or from nothing, has admin.
LEMMA AdminStays == ASSUME RbacIInv PROVE AdminKeepsAccess
  <1> SUFFICES ASSUME \A t \in Range(tables) : t.roles["admin"] = AllPermissions,
                      NEW r \in Requests, r.role = "admin"
               PROVE  HasPermission(copy.roles, r)
    BY DEF AdminKeepsAccess
  <1> DEFINE n == copy.v[1]
  <1>1. n \in 0..Len(tables) /\ copy.roles = RolesRead(n) /\ RbacTypes
    BY DEF RbacIInv, CopyOK
  <1> HIDE DEF n
  <1>2. RolesRead(n)["admin"] = AllPermissions
    <2>1. CASE n = 0
      BY <2>1 DEF RolesRead, WithFallback, NoRoles, AllRoles, Absent
    <2>2. CASE n # 0
      <3>1. n \in 1..Len(tables) /\ DOMAIN tables = 1..Len(tables)
        BY <1>1, <2>2 DEF RbacTypes
      <3>2. tables[n] \in Range(tables)
        BY <3>1 DEF Range
      <3>3. tables[n].roles["admin"] = AllPermissions
        BY <3>2
      <3>4. tables[n].roles["admin"] # Absent
        BY <3>3 DEF AllPermissions, Absent
      <3>5. QED
        BY <2>2, <3>3, <3>4 DEF RolesRead, WithFallback
    <2>3. QED
      BY <2>1, <2>2
  <1>3. <<"*", "*">> \in copy.roles[r.role]
    BY <1>1, <1>2 DEF AllPermissions
  <1>4. QED
    BY <1>3 DEF HasPermission

LEMMA RbacTyped == ASSUME RbacIInv PROVE RbacTypeOK
  <1>1. /\ tables \in Seq(TableRows) /\ Len(tables) \in 1..MaxEdits + 1 /\ reload \in [Reloaders -> ReloadRows]
        /\ oldCopy \in BOOLEAN /\ rbacFaults \in 0..MaxRbacFaults
    BY DEF RbacIInv, RbacTypes
  <1>2. \A t \in Range(tables) : t \in TableRows
    BY <1>1 DEF Range
  <1>3. QED
    BY <1>1, <1>2 DEF RbacTypeOK, TableRows, ReloadRows, PermissionSets, Version

\* The copy decides as the rows it was read from do, every policy in its place, and
\* no failed query takes an administrator's access, for every set of roles, policies,
\* priorities and reloaders.
THEOREM CopyDecidesAsRows == RbacSpec => [](AdminKeepsAccess /\ CopyIsOneVersion)
  <1>1. RbacIInv => AdminKeepsAccess /\ CopyIsOneVersion
    BY CopyDecides, AdminStays
  <1>2. QED
    BY <1>1, InitRbacIInv, NextRbacIInv, PTL DEF RbacSpec

-----------------------------------------------------------------------------
(* Metering: the bounds of the counters *)

\* The requests under way.
Busy == {e \in Exports : sending[e].pc # "idle"}

\* Every request that was sent is over or under way at most once, and a flusher
\* has no value but the one it has read.
SentOK ==
    /\ sent \in 0..MaxSent
    /\ tally.accepted + tally.failed + Cardinality(Busy) <= sent
    /\ \A g \in MeterGateways : flush[g].read = FALSE => flush[g].value = 0

\* No counter exceeds the sum of all.
LEMMA PartOfSum ==
    ASSUME NEW c \in [Periods -> Nat], NEW p \in Periods
    PROVE  c[p] <= SumOf(c)[MaxPeriods]
  <1> DEFINE n == MaxPeriods
             f == SumOf(c)
             T == {k \in p..n : f[k] < c[p]}
  <1>1. n \in Nat /\ c \in [1..n -> Nat] /\ p \in 1..n /\ c[p] \in Nat
    BY MeterConstants DEF Periods
  <1>2. SumsTo(f, c, n)
    BY SumOfSums
  <1> HIDE DEF f, n
  <1>3. \A k \in 0..n : f[k] \in Nat
    BY <1>1, <1>2, SumsAreNat
  <1>4. \A k \in 0..n : f[k] = IF k = 0 THEN 0 ELSE f[k - 1] + c[k]
    BY <1>2 DEF SumsTo
  <1>5. ASSUME T # {} PROVE FALSE
    <2>1. T \in SUBSET Nat
      BY <1>1
    <2>2. PICK m \in T : \A k \in T : m <= k
      BY <1>5, <2>1, LeastNat
    <2>3. m \in 1..n /\ m - 1 \in 0..n /\ m >= p /\ f[m] < c[p]
      BY <1>1
    <2>4. f[m] = f[m - 1] + c[m] /\ f[m - 1] \in Nat /\ c[m] \in Nat /\ f[m] \in Nat
      BY <1>1, <1>3, <1>4, <2>3
    <2>5. CASE m = p
      BY <2>3, <2>4, <2>5
    <2>6. CASE m # p
      <3>1. m - 1 \in p..n /\ m - 1 \notin T
        BY <1>1, <2>2, <2>3, <2>6
      <3>2. ~ (f[m - 1] < c[p])
        BY <3>1
      <3>3. QED
        BY <1>1, <2>3, <2>4, <3>2
    <2>7. QED
      BY <2>5, <2>6
  <1>6. n \in p..n
    BY <1>1
  <1>7. ~ (f[n] < c[p])
    BY <1>5, <1>6
  <1>8. n \in 0..n
    BY <1>1
  <1>9. QED
    BY <1>1, <1>3, <1>7, <1>8 DEF f, n

LEMMA BusyIsPart == IsFiniteSet(Busy) /\ Cardinality(Busy) \in Nat
  <1>1. Busy \subseteq Exports
    BY DEF Busy
  <1>2. QED
    BY <1>1, MeterShapes, FS_Subset, FS_CardinalityType

\* Requests that are over leave; each is accepted, failed or neither.
LEMMA OverIsSent ==
    ASSUME MeterTypes, SentOK, UNCHANGED sent, NEW S \in SUBSET Busy, Busy' = Busy \ S,
           NEW m \in Nat, m <= Cardinality(S),
           \/ tally'.accepted = tally.accepted + m /\ tally'.failed = tally.failed
           \/ tally'.accepted = tally.accepted /\ tally'.failed = tally.failed + m
    PROVE  sent' \in 0..MaxSent /\ tally'.accepted + tally'.failed + Cardinality(Busy') <= sent'
  <1> DEFINE n == Cardinality(Busy)
             k == Cardinality(S)
  <1>1. tally.accepted \in Nat /\ tally.failed \in Nat /\ sent \in Nat
    BY MeterConstants DEF MeterTypes, Tallies, SentOK
  <1>2. n \in Nat /\ k \in Nat /\ k <= n
    BY BusyIsPart, FS_Subset, FS_CardinalityType
  <1>3. Cardinality(Busy \ S) = n - k
    <2>1. Busy \cap S = S
      OBVIOUS
    <2>2. IsFiniteSet(Busy) /\ IsFiniteSet(S)
      BY BusyIsPart, FS_Subset
    <2>3. Cardinality(Busy \ S) = Cardinality(Busy) - Cardinality(Busy \cap S)
      BY <2>2, FS_Difference
    <2>4. QED
      BY <2>1, <2>3
  <1>4. tally.accepted + tally.failed + n <= sent /\ m <= k /\ sent' = sent /\ sent \in 0..MaxSent
    BY DEF SentOK
  <1>5. Cardinality(Busy') = n - k
    BY <1>3
  <1> HIDE DEF n, k
  <1>6. tally'.accepted + tally'.failed = tally.accepted + tally.failed + m
    BY <1>1
  <1>7. QED
    BY <1>1, <1>2, <1>4, <1>5, <1>6

\* The same when nobody leaves.
LEMMA NothingIsSent ==
    ASSUME SentOK, UNCHANGED sent, Busy' = Busy,
           tally'.accepted = tally.accepted /\ tally'.failed = tally.failed
    PROVE  sent' \in 0..MaxSent /\ tally'.accepted + tally'.failed + Cardinality(Busy') <= sent'
  BY DEF SentOK

LEMMA SameFlush ==
    ASSUME SentOK, UNCHANGED flush
    PROVE  \A g \in MeterGateways : flush'[g].read = FALSE => flush'[g].value = 0
  BY DEF SentOK

LEMMA NextSentOK == ASSUME MeterTypes, SentOK, [MeterNext]_meterVars PROVE SentOK'
  <1>1. sending \in [Exports -> SendingRows] /\ tally \in Tallies /\ flush \in [MeterGateways -> FlushRows]
    BY DEF MeterTypes
  <1>2. NotSending.pc = "idle"
    BY DEF NotSending
  <1>3. ASSUME NEW e \in Exports, NEW g \in MeterGateways, ReceiveExport(e, g) PROVE SentOK'
    <2>1. Busy' = Busy \cup {e} /\ e \notin Busy
      BY <1>1, <1>2, <1>3 DEF ReceiveExport, Busy
    <2>2. Cardinality(Busy') = Cardinality(Busy) + 1 /\ Cardinality(Busy) \in Nat
      BY <2>1, BusyIsPart, FS_AddElement
    <2>3. sent' = sent + 1 /\ sent < MaxSent /\ UNCHANGED <<tally, flush>>
      BY <1>3 DEF ReceiveExport
    <2>4. tally.accepted \in Nat /\ tally.failed \in Nat
      BY <1>1 DEF Tallies
    <2>5. tally.accepted + tally.failed + Cardinality(Busy) <= sent /\ sent \in 0..MaxSent
      BY DEF SentOK
    <2>6. sent' \in 0..MaxSent /\ tally'.accepted + tally'.failed + Cardinality(Busy') <= sent'
      BY <2>2, <2>3, <2>4, <2>5, MeterConstants
    <2>7. QED
      BY <2>3, <2>6, SameFlush DEF SentOK
  <1>4. ASSUME NEW e \in Exports, AskPlan(e) \/ KeepPlan(e) \/ Record(e) PROVE SentOK'
    <2>1. Busy' = Busy
      BY <1>1, <1>4 DEF AskPlan, KeepPlan, Record, Busy, SendingRows
    <2>2. UNCHANGED <<sent, flush>> /\ tally'.accepted = tally.accepted /\ tally'.failed = tally.failed
      BY <1>1, <1>4 DEF AskPlan, KeepPlan, Record, bounds, Tallies
    <2>3. QED
      BY <2>1, <2>2, NothingIsSent, SameFlush DEF SentOK
  <1>5. ASSUME NEW e \in Exports, Allow(e) PROVE SentOK'
    <2>1. UNCHANGED <<sent, flush>> /\ tally'.accepted = tally.accepted /\ tally'.failed = tally.failed
      BY <1>1, <1>5 DEF Allow, Tallies
    <2>2. sending[e].pc = "check"
      BY <1>5 DEF Allow
    <2>3. \/ sending' = [sending EXCEPT ![e].pc = "count"]
          \/ sending' = [sending EXCEPT ![e] = NotSending]
      BY <1>1, <1>5 DEF Allow
    <2>4. CASE sending' = [sending EXCEPT ![e].pc = "count"]
      <3>1. Busy' = Busy
        BY <1>1, <2>2, <2>4 DEF Busy, SendingRows
      <3>2. QED
        BY <2>1, <3>1, NothingIsSent, SameFlush DEF SentOK
    <2>5. CASE sending' = [sending EXCEPT ![e] = NotSending]
      <3>1. Busy' = Busy \ {e} /\ {e} \in SUBSET Busy
        BY <1>1, <1>2, <2>2, <2>5 DEF Busy
      <3>2. 0 <= Cardinality({e}) /\ 0 \in Nat
        BY FS_Singleton
      <3>3. tally'.accepted = tally.accepted + 0 /\ tally'.failed = tally.failed
        BY <1>1, <2>1 DEF Tallies
      <3>4. QED
        BY <2>1, <3>1, <3>2, <3>3, OverIsSent, SameFlush DEF SentOK
    <2>6. QED
      BY <2>3, <2>4, <2>5
  <1>6. ASSUME NEW e \in Exports, Forward(e) PROVE SentOK'
    <2>1. UNCHANGED <<sent, flush>> /\ sending[e].pc = "forward" /\ sending' = [sending EXCEPT ![e] = NotSending]
      BY <1>6 DEF Forward
    <2>2. Busy' = Busy \ {e} /\ {e} \in SUBSET Busy
      BY <1>1, <1>2, <2>1 DEF Busy
    <2>3. 1 <= Cardinality({e}) /\ 1 \in Nat
      BY FS_Singleton
    <2>4. \/ tally'.accepted = tally.accepted + 1 /\ tally'.failed = tally.failed
          \/ tally'.accepted = tally.accepted /\ tally'.failed = tally.failed + 1
      BY <1>1, <1>6 DEF Forward, Tallies
    <2>5. QED
      BY <2>1, <2>2, <2>3, <2>4, OverIsSent, SameFlush DEF SentOK
  <1>7. ASSUME NEW g \in MeterGateways, MeterRestart(g) PROVE SentOK'
    <2> DEFINE F == {e \in Exports : sending[e].by = g /\ sending[e].pc = "forward"}
               S == {e \in Busy : sending[e].by = g}
               m == Cardinality(F)
    <2>1. /\ sending' = [e \in Exports |-> IF sending[e].by = g THEN NotSending ELSE sending[e]]
          /\ tally' = [tally EXCEPT !.failed = @ + m] /\ UNCHANGED sent
          /\ flush' = [flush EXCEPT ![g] = StartFlush]
      BY <1>7 DEF MeterRestart
    <2>2. S \in SUBSET Busy /\ Busy' = Busy \ S /\ F \in SUBSET S
      BY <1>1, <1>2, <2>1 DEF Busy
    <2>3. tally'.accepted = tally.accepted /\ tally'.failed = tally.failed + m
      BY <1>1, <2>1 DEF Tallies
    <2> HIDE DEF S, F
    <2>4. IsFiniteSet(S) /\ m \in Nat /\ m <= Cardinality(S)
      <3>1. IsFiniteSet(S)
        BY <2>2, BusyIsPart, FS_Subset
      <3>2. QED
        BY <2>2, <3>1, FS_Subset, FS_CardinalityType
    <2> HIDE DEF m
    <2>5. sent' \in 0..MaxSent /\ tally'.accepted + tally'.failed + Cardinality(Busy') <= sent'
      BY <2>1, <2>2, <2>3, <2>4, OverIsSent
    <2>6. \A h \in MeterGateways : flush'[h].read = FALSE => flush'[h].value = 0
      BY <1>1, <2>1 DEF SentOK, StartFlush
    <2>7. QED
      BY <2>5, <2>6 DEF SentOK
  <1>8. ASSUME NEW g \in MeterGateways, FlushRead(g) \/ FlushUpsert(g) PROVE SentOK'
    <2>1. UNCHANGED <<sent, sending, tally>>
      BY <1>8 DEF FlushRead, FlushUpsert, bounds
    <2>2. Busy' = Busy
      BY <2>1 DEF Busy
    <2>3. \A h \in MeterGateways : flush'[h].read = FALSE => flush'[h].value = 0
      <3>1. CASE FlushRead(g)
        BY <1>1, <3>1 DEF FlushRead, SentOK, FlushRows
      <3>2. CASE FlushUpsert(g)
        BY <1>1, <3>2 DEF FlushUpsert, KeyDone, StartFlush, SentOK
      <3>3. QED
        BY <1>8, <3>1, <3>2
    <2>4. QED
      BY <2>1, <2>2, <2>3, NothingIsSent DEF SentOK
  <1>9. ASSUME UNCHANGED <<sent, sending, tally, flush>> PROVE SentOK'
    <2>1. Busy' = Busy
      BY <1>9 DEF Busy
    <2>2. QED
      BY <1>9, <2>1, NothingIsSent, SameFlush DEF SentOK
  <1>10. ASSUME NEW g \in MeterGateways, PlanAges(g) PROVE SentOK'
    BY <1>9, <1>10 DEF PlanAges, bounds
  <1>11. CASE NextPeriod \/ (\E p \in Plans : ChangePlan(p)) \/ UNCHANGED meterVars
    BY <1>9, <1>11 DEF NextPeriod, ChangePlan, meterVars, bounds
  <1>12. QED
    BY <1>3, <1>4, <1>5, <1>6, <1>7, <1>8, <1>10, <1>11 DEF MeterNext

LEMMA InitSentOK == ASSUME MeterInit PROVE SentOK
  <1>1. Cardinality(Busy) = 0
    <2>1. Busy = {}
      BY DEF MeterInit, Busy, NotSending
    <2>2. QED
      BY <2>1, FS_EmptySet
  <1>2. sent = 0 /\ tally.accepted = 0 /\ tally.failed = 0
    BY DEF MeterInit
  <1>3. \A g \in MeterGateways : flush[g].value = 0
    BY DEF MeterInit, StartFlush
  <1>4. QED
    BY <1>1, <1>2, <1>3, MeterConstants DEF SentOK

LEMMA MeterTyped == ASSUME MeterIInv, UsageAccountedFor, SentOK PROVE MeterTypeOK
  <1> DEFINE total == SumOf(counter)[MaxPeriods]
             k == tally.accepted + tally.failed + Cardinality(Forwarding)
             top == Batch * MaxSent
  <1>1. MeterTypes /\ MirrorOK
    BY DEF MeterIInv
  <1>2. /\ tally.accepted \in Nat /\ tally.failed \in Nat /\ tally.uncounted \in Nat
        /\ counter \in [Periods -> Nat] /\ Batch \in Nat /\ MaxSent \in Nat /\ period \in Periods
    BY <1>1, MeterShapes, MeterConstants DEF MeterTypes, Tallies
  <1>3. Cardinality(Forwarding) <= Cardinality(Busy) /\ Cardinality(Forwarding) \in Nat /\ Cardinality(Busy) \in Nat
    <2>1. Forwarding \in SUBSET Busy
      BY DEF Forwarding, Busy
    <2>2. QED
      BY <2>1, BusyIsPart, ForwardingIsPart, FS_Subset
  <1>4. k \in Nat /\ k <= MaxSent
    BY <1>2, <1>3 DEF SentOK
  <1>5. total + Batch * tally.uncounted = Batch * k
    BY CountedIsSum DEF UsageAccountedFor, InFlight, Forwarding
  <1>6. total \in Nat
    BY <1>2, SumGrows
  <1>7. total <= top /\ top \in Nat
    <2> HIDE DEF total, k
    <2> DEFINE x == Batch * tally.uncounted
               y == Batch * k
    <2>1. x \in Nat /\ y \in Nat /\ y <= top /\ top \in Nat /\ total + x = y
      BY <1>2, <1>4, <1>5, Times
    <2> HIDE DEF x, y, top
    <2>2. QED
      BY <1>6, <2>1
  <1>8. \A p \in Periods : counter[p] <= total
    BY <1>2, PartOfSum
  <1> HIDE DEF total, top
  <1>9. \A p \in Periods : counter[p] \in Nat /\ counter[p] <= top
    BY <1>2, <1>6, <1>7, <1>8
  <1>10. counter \in [Periods -> 0..top]
    BY <1>2, <1>7, <1>9
  <1>11. daily \in [Periods -> 0..top]
    <2>1. daily \in [Periods -> Nat] /\ \A p \in Periods : daily[p] <= counter[p]
      BY <1>1 DEF MeterTypes, MirrorOK
    <2>2. \A p \in Periods : daily[p] \in 0..top
      BY <1>7, <1>9, <2>1
    <2>3. QED
      BY <2>1, <2>2
  <1>12. flush \in [MeterGateways -> [at : Periods, read : BOOLEAN, value : 0..top]]
    <2>1. flush \in [MeterGateways -> FlushRows]
      BY <1>1 DEF MeterTypes
    <2>2. ASSUME NEW g \in MeterGateways PROVE flush[g] \in [at : Periods, read : BOOLEAN, value : 0..top]
      <3>1. flush[g] \in FlushRows
        BY <2>1
      <3>2. flush[g].at \in Periods /\ flush[g].read \in BOOLEAN /\ flush[g].value \in Nat
        BY <3>1 DEF FlushRows
      <3>3. flush[g].value <= top
        <4>1. CASE flush[g].read = TRUE
          <5>1. flush[g].value <= counter[flush[g].at]
            BY <1>1, <4>1 DEF MirrorOK
          <5>2. QED
            BY <1>7, <1>9, <3>2, <5>1
        <4>2. CASE flush[g].read = FALSE
          <5>1. flush[g].value = 0
            BY <4>2 DEF SentOK
          <5>2. QED
            BY <1>7, <5>1
        <4>3. QED
          BY <3>2, <4>1, <4>2
      <3>4. QED
        BY <1>7, <3>1, <3>2, <3>3 DEF FlushRows
    <2>3. QED
      BY <2>1, <2>2
  <1>13. QED
    BY <1>1, <1>10, <1>11, <1>12 DEF MeterTypes, MeterTypeOK, SendingRows, top

-----------------------------------------------------------------------------
(* Sessions: types *)

Answers == [on : BOOLEAN, ids : SUBSET Sids]

LEMMA InitSessTypeOK == ASSUME SessInit PROVE SessTypeOK
  <1>1. Idle \in Answers
    BY DEF Idle, Answers
  <1>2. /\ session = [s \in Sids |-> "none"] /\ revokedIds = [g \in SessGateways |-> {}] /\ stale = SessGateways
        /\ fetched = [g \in SessGateways |-> [q \in Refreshers |-> Idle]]
        /\ marking = [g \in SessGateways |-> {}] /\ sessFaults = 0
    BY DEF SessInit
  <1>3. fetched \in [SessGateways -> [Refreshers -> Answers]]
    BY <1>1, <1>2
  <1>4. QED
    BY <1>2, <1>3, SessConstants DEF SessTypeOK, SessionStates, Answers

LEMMA FaultCounted == ASSUME sessFaults \in 0..MaxSessFaults, SessFault PROVE sessFaults' \in 0..MaxSessFaults
  BY SessConstants DEF SessFault

LEMMA NextSessTypeOK == ASSUME SessTypeOK, [SessNext]_sessVars PROVE SessTypeOK'
  <1>1. Idle \in Answers /\ "live" \in SessionStates /\ "unlisted" \in SessionStates /\ "revoked" \in SessionStates
    BY DEF Idle, Answers, SessionStates
  <1>2. /\ session \in [Sids -> SessionStates] /\ revokedIds \in [SessGateways -> SUBSET Sids]
        /\ stale \subseteq SessGateways /\ fetched \in [SessGateways -> [Refreshers -> Answers]]
        /\ marking \in [SessGateways -> SUBSET Sids] /\ sessFaults \in 0..MaxSessFaults
    BY DEF SessTypeOK, Answers
  <1>3. SUFFICES /\ session' \in [Sids -> SessionStates] /\ revokedIds' \in [SessGateways -> SUBSET Sids]
                 /\ stale' \subseteq SessGateways /\ fetched' \in [SessGateways -> [Refreshers -> Answers]]
                 /\ marking' \in [SessGateways -> SUBSET Sids] /\ sessFaults' \in 0..MaxSessFaults
    BY DEF SessTypeOK, Answers
  <1>4. ASSUME NEW s \in Sids, createSession(s) PROVE SessTypeOK'
    BY <1>1, <1>2, <1>4 DEF createSession, SessTypeOK, Answers
  <1>5. ASSUME NEW s \in Sids, createSessionFails(s) PROVE SessTypeOK'
    BY <1>1, <1>2, <1>5, FaultCounted DEF createSessionFails, SessTypeOK, Answers
  <1>6. ASSUME NEW g \in SessGateways, NEW which \in SUBSET Sids, RevokeRows(g, which) PROVE SessTypeOK'
    <2> DEFINE ids == {s \in which : session[s] = "live"}
    <2>1. /\ session' = [s \in Sids |-> IF s \in ids THEN "revoked" ELSE session[s]]
          /\ marking' = [marking EXCEPT ![g] = @ \cup ids]
          /\ UNCHANGED <<revokedIds, stale, fetched, sessFaults>>
      BY <1>6 DEF RevokeRows
    <2>2. ids \in SUBSET Sids
      OBVIOUS
    <2> HIDE DEF ids
    <2>3. QED
      BY <1>1, <1>2, <2>1, <2>2 DEF SessTypeOK, Answers
  <1>7. ASSUME NEW g \in SessGateways, markRevokedLocal(g) \/ CacheAges(g) PROVE SessTypeOK'
    BY <1>2, <1>7 DEF markRevokedLocal, CacheAges, SessTypeOK, Answers
  <1>8. ASSUME NEW g \in SessGateways, NEW q \in Refreshers, NEW row \in Answers,
               fetched' = [fetched EXCEPT ![g][q] = row]
        PROVE  fetched' \in [SessGateways -> [Refreshers -> Answers]]
    BY <1>2, <1>8
  <1>9. ASSUME NEW g \in SessGateways, NEW q \in Refreshers, RefreshQuery(g, q) PROVE SessTypeOK'
    <2> DEFINE row == [on |-> TRUE, ids |-> RevokedRows]
    <2>1. row \in Answers
      BY DEF Answers, RevokedRows
    <2>2. fetched' = [fetched EXCEPT ![g][q] = row] /\ UNCHANGED <<session, revokedIds, stale, marking, sessFaults>>
      BY <1>9 DEF RefreshQuery
    <2> HIDE DEF row
    <2>3. fetched' \in [SessGateways -> [Refreshers -> Answers]]
      BY <1>8, <2>1, <2>2
    <2>4. QED
      BY <1>2, <2>2, <2>3 DEF SessTypeOK, Answers
  <1>10. ASSUME NEW g \in SessGateways, NEW q \in Refreshers, RefreshStore(g, q) PROVE SessTypeOK'
    <2>1. fetched' \in [SessGateways -> [Refreshers -> Answers]]
      BY <1>1, <1>8, <1>10 DEF RefreshStore
    <2>2. fetched[g][q] \in Answers
      BY <1>2
    <2>3. fetched[g][q].ids \in SUBSET Sids
      BY <2>2 DEF Answers
    <2>4. QED
      BY <1>2, <1>10, <2>1, <2>3 DEF RefreshStore, SessTypeOK, Answers
  <1>11. ASSUME NEW g \in SessGateways, NEW q \in Refreshers, RefreshFails(g, q) PROVE SessTypeOK'
    <2>1. fetched' \in [SessGateways -> [Refreshers -> Answers]]
      BY <1>1, <1>8, <1>11 DEF RefreshFails
    <2>2. QED
      BY <1>2, <1>11, <2>1, FaultCounted DEF RefreshFails, SessTypeOK, Answers
  <1>12. ASSUME NEW g \in SessGateways, SessRestart(g) PROVE SessTypeOK'
    <2>1. fetched' \in [SessGateways -> [Refreshers -> Answers]]
      BY <1>1, <1>2, <1>12 DEF SessRestart
    <2>2. QED
      BY <1>2, <1>12, <2>1, FaultCounted DEF SessRestart, SessTypeOK, Answers
  <1>13. ASSUME UNCHANGED sessVars PROVE SessTypeOK'
    BY <1>2, <1>13 DEF sessVars, SessTypeOK, Answers
  <1>14. SessTypeOK'
    BY <1>4, <1>5, <1>6, <1>7, <1>9, <1>10, <1>11, <1>12, <1>13
    DEF SessNext, RevokeOne, RevokeOthers, RevokeAllForUser
  <1>15. QED
    BY <1>14 DEF SessTypeOK, Answers

-----------------------------------------------------------------------------
(* Billing: the events that wait *)

\* No two events have one number.
OutboxOK == \A e, f \in outbox : e.n = f.n => e = f

LEMMA SendNumbers ==
    ASSUME BillIInv, OutboxOK, NEW s, NEW status, NEW types, NEW k \in Nat,
           Send(s, status, types), Len(types) = k
    PROVE  OutboxOK'
  <1>1. outbox' = outbox \cup {Event(events + i, types[i], s, status) : i \in 1..k} /\ events \in Nat
    BY DEF Send, BillIInv, BillTypes
  <1>2. \A e \in outbox : e.n \in Nat /\ e.n <= events
    BY DEF BillIInv, BillTypes, BillEvents
  <1>3. ASSUME NEW e \in outbox', e \notin outbox
        PROVE  \E i \in 1..k : e = Event(events + i, types[i], s, status) /\ e.n = events + i
    <2>1. PICK i \in 1..k : e = Event(events + i, types[i], s, status)
      BY <1>1, <1>3
    <2>2. e.n = events + i
      BY <2>1 DEF Event
    <2>3. QED
      BY <2>1, <2>2
  <1>4. ASSUME NEW e \in outbox', NEW f \in outbox', e.n = f.n PROVE e = f
    <2>1. CASE e \in outbox /\ f \in outbox
      BY <1>4, <2>1 DEF OutboxOK
    <2>2. CASE e \notin outbox /\ f \notin outbox
      <3>1. PICK i \in 1..k : e = Event(events + i, types[i], s, status) /\ e.n = events + i
        BY <1>3, <2>2
      <3>2. PICK j \in 1..k : f = Event(events + j, types[j], s, status) /\ f.n = events + j
        BY <1>3, <2>2
      <3>3. i = j
        BY <1>1, <1>4, <3>1, <3>2
      <3>4. QED
        BY <3>1, <3>2, <3>3
    <2>3. CASE e \in outbox /\ f \notin outbox
      <3>1. PICK j \in 1..k : f.n = events + j
        BY <1>3, <2>3
      <3>2. QED
        BY <1>1, <1>2, <1>4, <2>3, <3>1
    <2>4. CASE e \notin outbox /\ f \in outbox
      <3>1. PICK j \in 1..k : e.n = events + j
        BY <1>3, <2>4
      <3>2. f.n \in Nat /\ f.n <= events
        BY <1>2, <2>4
      <3>3. QED
        BY <1>1, <1>4, <3>1, <3>2
    <2>5. QED
      BY <2>1, <2>2, <2>3, <2>4
  <1>5. QED
    BY <1>4 DEF OutboxOK

LEMMA NextOutboxOK == ASSUME BillIInv, OutboxOK, [BillNext]_billVars PROVE OutboxOK'
  <1>1. Len(<<"checkout.session.completed">>) \in Nat
        /\ Len(<<"invoice.payment_failed", "customer.subscription.updated">>) \in Nat
        /\ Len(<<"invoice.paid", "customer.subscription.updated">>) \in Nat
        /\ Len(<<"customer.subscription.updated">>) \in Nat /\ Len(<<"customer.subscription.deleted">>) \in Nat
    OBVIOUS
  <1>2. ASSUME NEW s \in Subs,
               \/ CompleteCheckout(s) \/ ChargeFails(s) \/ ChargeSucceeds(s)
               \/ RetriesExhausted(s) \/ CancelSubscription(s)
        PROVE  OutboxOK'
    BY <1>1, <1>2, SendNumbers
    DEF CompleteCheckout, ChargeFails, ChargeSucceeds, RetriesExhausted, CancelSubscription
  <1>3. ASSUME outbox' \subseteq outbox PROVE OutboxOK'
    BY <1>3 DEF OutboxOK
  <1>4. ASSUME NEW d \in Deliveries, NEW e \in outbox, Deliver(d, e) PROVE OutboxOK'
    BY <1>3, <1>4 DEF Deliver
  <1>5. ASSUME NEW d \in Deliveries, RunStatement(d) \/ StatementFails(d) \/ Answered(d) PROVE OutboxOK'
    <2>1. outbox' \subseteq outbox
      BY <1>5 DEF RunStatement, StatementFails, Answered
    <2>2. QED
      BY <1>3, <2>1
  <1>6. CASE UNCHANGED billVars
    BY <1>3, <1>6 DEF billVars
  <1>7. QED
    BY <1>2, <1>4, <1>5, <1>6 DEF BillNext

LEMMA BillTyped == ASSUME BillIInv, OutboxOK PROVE BillTypeOK
  <1> DEFINE f == [e \in outbox |-> e.n]
  <1>1. BillTypes /\ events \in Nat
    BY DEF BillIInv, BillTypes
  <1>2. \A e \in outbox : e.n \in 1..events
    BY DEF BillIInv, BillTypes, BillEvents
  <1>3. f \in Injection(outbox, 1..events)
    BY <1>2 DEF Injection, IsInjective, OutboxOK
  <1>4. IsFiniteSet(1..events) /\ Cardinality(1..events) = events
    BY <1>1, FS_Interval
  <1> HIDE DEF f
  <1>5. Cardinality(outbox) <= events
    BY <1>3, <1>4, FS_Injection
  <1>6. newest \in 0..events
    BY <1>1 DEF BillTypes
  <1>7. QED
    BY <1>1, <1>5, <1>6 DEF BillTypes, BillTypeOK, SubStates, TenantRows

-----------------------------------------------------------------------------
(* The parts together *)

\* Each part keeps its invariant, whichever part a behaviour follows.
GatewayIInv ==
    /\ part \in Parts
    /\ KeyIInv /\ SessTypeOK /\ CredIInv /\ MfaIInv /\ RbacIInv
    /\ MeterIInv /\ UsageAccountedFor /\ SentOK /\ BillIInv /\ OutboxOK /\ PurgeIInv

LEMMA InitGatewayIInv == ASSUME GatewayInit PROVE GatewayIInv
  <1>1. /\ part \in Parts /\ KeyInit /\ SessInit /\ CredInit /\ MfaInit /\ RbacInit
        /\ MeterInit /\ BillInit /\ PurgeInit
    BY DEF GatewayInit
  <1>2. OutboxOK
    BY <1>1 DEF BillInit, OutboxOK
  <1>3. QED
    BY <1>1, <1>2, InitKeyIInv, InitSessTypeOK, InitCredIInv, InitMfaIInv, InitRbacIInv, InitMeterIInv,
       InitAccounts, InitSentOK, InitBillIInv, InitPurgeIInv
    DEF GatewayIInv

LEMMA NextGatewayIInv == ASSUME GatewayIInv, [GatewayNext]_gatewayVars PROVE GatewayIInv'
  <1>1. /\ UNCHANGED part /\ [KeyNext]_keyVars /\ [SessNext]_sessVars /\ [CredNext]_credVars
        /\ [MfaNext]_mfaVars /\ [RbacNext]_rbacVars /\ [MeterNext]_meterVars /\ [BillNext]_billVars
        /\ [PurgeNext]_purgeVars
    BY DEF GatewayNext, gatewayVars
  <1>2. MeterIInv' /\ UsageAccountedFor' /\ SentOK'
    <2>1. MeterTypes
      BY DEF GatewayIInv, MeterIInv
    <2>2. QED
      BY <1>1, <2>1, NextMeterIInv, NextAccounts, NextSentOK DEF GatewayIInv
  <1>3. BillIInv' /\ OutboxOK'
    BY <1>1, NextBillIInv, NextOutboxOK DEF GatewayIInv
  <1>4. QED
    BY <1>1, <1>2, <1>3, NextKeyIInv, NextSessTypeOK, NextCredIInv, NextMfaIInv, NextRbacIInv, NextPurgeIInv
    DEF GatewayIInv

\* Types, of the eight parts and for every value of their constants: the counters and
\* their mirror stay within what was sent, no more events wait than were sent, and
\* clocks, faults and edits stay within their bounds.
THEOREM GatewayTypeCorrect == GatewaySpec => []GatewayTypeOK
  <1>1. GatewayIInv => GatewayTypeOK
    <2>1. SUFFICES ASSUME GatewayIInv PROVE GatewayTypeOK
      OBVIOUS
    <2>2. KeyTypeOK /\ SessTypeOK /\ CredTypeOK /\ MfaTypeOK /\ PurgeTypeOK
      BY <2>1 DEF GatewayIInv, KeyIInv, CredIInv, MfaIInv, PurgeIInv
    <2>3. RbacTypeOK /\ MeterTypeOK /\ BillTypeOK
      BY <2>1, RbacTyped, MeterTyped, BillTyped DEF GatewayIInv
    <2>4. part \in {"keys", "sessions", "credentials", "mfa", "rbac", "metering", "billing", "purge"}
      BY <2>1, PartsAreKnown DEF GatewayIInv
    <2>5. QED
      BY <2>2, <2>3, <2>4 DEF GatewayTypeOK
  <1>2. QED
    BY <1>1, InitGatewayIInv, NextGatewayIInv, PTL DEF GatewaySpec
=============================================================================
