---------------------------- MODULE ChannelStore ----------------------------
(***************************************************************************)
(* The notification channels a tenant configures (notification-service,    *)
(* internal/channels): rows in Postgres whose secrets are encrypted with   *)
(* the key a replica read when it started, edits that read a row, merge    *)
(* and write it back in two statements, and what a delivery then uses of   *)
(* the decrypted values.  A replica may be restarted with another key or   *)
(* with none.  A stored value is a record: by names the key that encrypted *)
(* it, "clear" if none did.                                                *)
(***************************************************************************)
EXTENDS Naturals, FiniteSets

CONSTANTS
    ChReplicas,    \* replicas of notification-service
    EditSlots,     \* edits under way at a time
    CipherKeys,    \* values CHANNEL_ENCRYPTION_KEY may have
    ChTenants,     \* tenants
    ChDrafts,      \* what Create is asked to store: a type and a configuration
    ChPatches,     \* the configurations an edit may carry
    MaxChannels,   \* bound: channels ever created
    MaxEdits,      \* bound: edits
    MaxRekeys      \* bound: restarts of a replica

NoCipher == "none"
Blank == ""      \* the value of a key that is not set

ASSUME ChannelsAreBounded == MaxChannels \in Nat

VARIABLES
    cipher,      \* [replica -> the key loadAEAD found]
    rows,        \* notification_channels: [id -> row]
    edit,        \* [slot -> the edit between its SELECT and its UPDATE]
    made,        \* channels created so far
    chEdits, rekeys,
    given        \* history: [id -> the secrets an operator entered for the channel]

chVars == <<cipher, rows, edit, made, chEdits, rekeys, given>>

NoEdit == [at |-> "idle"]

-----------------------------------------------------------------------------
(* Configurations *)

secretKeys ==
    [slack |-> {"webhook_url"}, email |-> {"password"}, pagerduty |-> {"routing_key"},
     opsgenie |-> {"api_key"}, webhook |-> {"url", "secret"}]

requiredKeys ==
    [slack |-> {"webhook_url"}, email |-> {"host", "to"}, pagerduty |-> {"routing_key"},
     opsgenie |-> {"api_key"}, webhook |-> {"url"}]

ValidType(t) == t \in DOMAIN secretKeys
IsSecret(t, k) == k \in secretKeys[t]

Filled(cfg, k) == k \in DOMAIN cfg /\ cfg[k] # Blank
MissingRequired(t, cfg) == {k \in requiredKeys[t] : ~ Filled(cfg, k)}

\* A key that another replica used does not open the value.
Decrypt(v, key) == IF key # NoCipher /\ v.by = key THEN v.plain ELSE Blank

decryptConfig(t, stored, key) ==
    [k \in DOMAIN stored |->
        IF IsSecret(t, k) /\ stored[k].plain # Blank THEN Decrypt(stored[k], key)
        ELSE stored[k].plain]

EncryptionConfigured(key) == key # NoCipher

\* encryptConfig fails where a secret has to be encrypted and there is no key.
CanEncrypt(t, cfg, key) ==
    EncryptionConfigured(key) \/ \A k \in DOMAIN cfg : IsSecret(t, k) => cfg[k] = Blank

encryptConfig(t, cfg, key) ==
    [k \in DOMAIN cfg |->
        [by |-> IF IsSecret(t, k) /\ cfg[k] # Blank THEN key ELSE "clear", plain |-> cfg[k]]]

SecretsOf(t, cfg) == {cfg[k] : k \in {key \in DOMAIN cfg : IsSecret(t, key) /\ cfg[key] # Blank}}

\* Faulty variant: an empty secret replaces the stored one.
MergeAll(t, old, cfg) ==
    [k \in DOMAIN old \cup DOMAIN cfg |-> IF k \in DOMAIN cfg THEN cfg[k] ELSE old[k]]

\* The stored configuration with the request's, but for secrets that came empty.
Merge(t, old, cfg) ==
    LET taken == {k \in DOMAIN cfg : ~ (IsSecret(t, k) /\ cfg[k] = Blank)}
    IN  [k \in DOMAIN old \cup taken |-> IF k \in taken THEN cfg[k] ELSE old[k]]

-----------------------------------------------------------------------------
(* The API *)

CreateChannel(p, t, draft, on) ==
    /\ made < MaxChannels
    /\ ValidType(draft.type) /\ MissingRequired(draft.type, draft.config) = {}
    /\ EncryptionConfigured(cipher[p])
    /\ made' = made + 1
    /\ LET row == [tenant |-> t, type |-> draft.type, on |-> on,
                   config |-> encryptConfig(draft.type, draft.config, cipher[p])]
       IN  rows' = [i \in DOMAIN rows \cup {made'} |-> IF i = made' THEN row ELSE rows[i]]
    /\ given' = [given EXCEPT ![made'] = SecretsOf(draft.type, draft.config)]
    /\ UNCHANGED <<cipher, edit, chEdits, rekeys>>

\* The row of a tenant; every statement names the tenant.
Find(t, i) == i \in DOMAIN rows /\ rows[i].tenant = t

\* Repository.Update up to its UPDATE: the row is read, decrypted and merged.
ReadAndMerge(s, p, t, i, cfg, on) ==
    /\ edit[s] = NoEdit /\ chEdits < MaxEdits
    /\ chEdits' = chEdits + 1
    /\ Find(t, i)
    /\ LET row == rows[i]
           merged == Merge(row.type, decryptConfig(row.type, row.config, cipher[p]), cfg)
       IN  /\ CanEncrypt(row.type, merged, cipher[p])
           /\ edit' = [edit EXCEPT ![s] =
                  [at |-> "write", by |-> p, tenant |-> t, id |-> i, on |-> on, read |-> row.config,
                   config |-> encryptConfig(row.type, merged, cipher[p])]]
           /\ given' = [given EXCEPT ![i] = @ \cup SecretsOf(row.type, cfg)]
    /\ UNCHANGED <<cipher, rows, made, rekeys>>

\* The UPDATE: no row, and ErrNotFound, if the channel is gone.
WriteBack(s) ==
    LET e == edit[s] IN
    /\ e # NoEdit
    /\ rows' = IF Find(e.tenant, e.id)
               THEN [rows EXCEPT ![e.id].on = e.on, ![e.id].config = e.config]
               ELSE rows
    /\ edit' = [edit EXCEPT ![s] = NoEdit]
    /\ UNCHANGED <<cipher, made, chEdits, rekeys, given>>

DeleteChannel(t, i) ==
    /\ Find(t, i)
    /\ rows' = [j \in DOMAIN rows \ {i} |-> rows[j]]
    /\ UNCHANGED <<cipher, edit, made, chEdits, rekeys, given>>

-----------------------------------------------------------------------------
(* Delivery *)

\* Deliver refuses a disabled channel, and each kind the lack of what it needs.
Delivers(row, cfg) ==
    /\ row.on
    /\ CASE row.type = "slack" -> Filled(cfg, "webhook_url")
         [] row.type = "email" -> Filled(cfg, "host") /\ Filled(cfg, "to")
         [] row.type = "pagerduty" -> Filled(cfg, "routing_key")
         [] row.type = "opsgenie" -> Filled(cfg, "api_key")
         [] row.type = "webhook" -> Filled(cfg, "url")

\* What goes out through channel i, at most one thing.
Delivery(p, i) ==
    LET row == rows[i]
        cfg == decryptConfig(row.type, row.config, cipher[p])
    IN  IF Delivers(row, cfg)
        THEN {[channel |-> i, secrets |-> SecretsOf(row.type, cfg)]} ELSE {}

\* Handler.Test, for a channel of the tenant that asks.
Tested(p, t, i) == IF Find(t, i) THEN Delivery(p, i) ELSE {}

ListDecrypted(t) == {i \in DOMAIN rows : rows[i].tenant = t /\ rows[i].on}

\* NotificationWorker.Handle, where it comes to the tenant's own channels.
Dispatched(p, t) == UNION {Delivery(p, i) : i \in ListDecrypted(t)}

\* A replica restarts, with whatever key its environment now has; its edits are gone.
RestartReplica(p, key) ==
    /\ rekeys < MaxRekeys
    /\ rekeys' = rekeys + 1
    /\ cipher' = [cipher EXCEPT ![p] = key]
    /\ edit' = [s \in EditSlots |-> IF edit[s] # NoEdit /\ edit[s].by = p THEN NoEdit ELSE edit[s]]
    /\ UNCHANGED <<rows, made, chEdits, given>>

ChInit ==
    /\ \E key \in CipherKeys : cipher = [p \in ChReplicas |-> key]
    /\ rows = <<>> /\ edit = [s \in EditSlots |-> NoEdit]
    /\ made = 0 /\ chEdits = 0 /\ rekeys = 0
    /\ given = [i \in 1..MaxChannels |-> {}]

ChNext ==
    \/ \E p \in ChReplicas, t \in ChTenants :
        \/ \E draft \in ChDrafts, on \in BOOLEAN : CreateChannel(p, t, draft, on)
        \/ \E i \in DOMAIN rows, s \in EditSlots, cfg \in ChPatches, on \in BOOLEAN :
            ReadAndMerge(s, p, t, i, cfg, on)
    \/ \E t \in ChTenants, i \in DOMAIN rows : DeleteChannel(t, i)
    \/ \E s \in EditSlots : WriteBack(s)
    \/ \E p \in ChReplicas, key \in CipherKeys \cup {NoCipher} : RestartReplica(p, key)

ChSpec == ChInit /\ [][ChNext]_chVars

-----------------------------------------------------------------------------
(* Properties *)

ChTypeOK ==
    /\ cipher \in [ChReplicas -> CipherKeys \cup {NoCipher}]
    /\ DOMAIN rows \subseteq 1..made
    /\ \A i \in DOMAIN rows : rows[i].tenant \in ChTenants /\ ValidType(rows[i].type)
    /\ \A s \in EditSlots : edit[s].at \in {"idle", "write"}

\* Whatever a test or a notification sends at any moment uses secrets an operator
\* entered for that very channel, and goes through a channel of the tenant's own, whatever
\* keys the replicas have and however edits overlapped (decryptConfig: a value that
\* cannot be decrypted counts as not configured; every query names the tenant).
DeliveredAsEntered ==
    \A p \in ChReplicas, t \in ChTenants :
        \A d \in Dispatched(p, t) \cup UNION {Tested(p, t, i) : i \in DOMAIN rows} :
            d.secrets \subseteq given[d.channel] /\ rows[d.channel].tenant = t

HasSecret(cfg, k) == k \in DOMAIN cfg /\ cfg[k].plain # Blank

\* A stored secret is only ever replaced by another, unless the edit that empties it
\* had read none, or one its replica could not decrypt: the page never gets secrets
\* back, and an edit that sends none must keep the stored one (Repository.Update).
SecretsSurviveEdits ==
    [][\A i \in DOMAIN rows \cap DOMAIN rows' : \A k \in secretKeys[rows[i].type] :
          HasSecret(rows[i].config, k) /\ ~ HasSecret(rows'[i].config, k) =>
              \E s \in EditSlots :
                  /\ edit[s] # NoEdit /\ edit'[s] = NoEdit
                  /\ edit[s].id = i
                  /\ \/ ~ HasSecret(edit[s].read, k)
                     \/ edit[s].read[k].by # cipher[edit[s].by]]_chVars

\* The secrets of a channel are what an operator entered for it: no other is ever sent,
\* and no edit loses one it was not told to replace.
SecretsKept == []DeliveredAsEntered /\ SecretsSurviveEdits
=============================================================================
