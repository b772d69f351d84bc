--------------------------- MODULE OperationsProofs ---------------------------
(***************************************************************************)
(* Proofs about what wakes and what helps an operator, for every value of  *)
(* the constants, each about its own specification:                        *)
(*   - notification channels: what is sent was entered for that channel,   *)
(*     and no edit loses a secret it was not told to replace;              *)
(*   - runbooks: a rollback undoes the last change, nothing that was done  *)
(*     meanwhile is overwritten, and reports are true;                     *)
(*   - error groups: no storm of pages, and decisions are only lost to     *)
(*     races;                                                              *)
(*   - synthetic checks: one page in an outage;                            *)
(*   - providers: an error only when all have failed;                      *)
(* and the types of all of them, in the composition MCOperations makes.    *)
(***************************************************************************)
EXTENDS MCOperations, IncidentsProofs, FiniteSetTheorems, WellFoundedInduction, TLAPS

\* A set of natural numbers has a least one.
LEMMA LeastOf ==
    ASSUME NEW T \in SUBSET Nat, T # {}
    PROVE  \E m \in T : \A k \in T : m <= k
  <1> DEFINE R == OpToRel(<, Nat)
  <1>1. IsWellFoundedOn(R, Nat)
    BY NatLessThanWellFounded
  <1>2. \A x \in Nat, y \in Nat : y < x => <<y, x>> \in R
    BY DEF OpToRel
  <1> HIDE DEF R
  <1>3. PICK x \in T : \A y \in T : ~ (<<y, x>> \in R)
    BY <1>1, WFMin
  <1>4. \A y \in T : ~ (y < x)
    BY <1>2, <1>3
  <1>5. QED
    BY <1>4

-----------------------------------------------------------------------------
(* Notification channels *)

\* The secrets among the stored values of a channel of type t: each was entered for it
\* (is in S), and some key has encrypted it.
Sealed(t, stored, S) ==
    \A k \in DOMAIN stored : IsSecret(t, k) /\ stored[k].plain # Blank =>
        stored[k].plain \in S /\ stored[k].by # NoCipher

RowShape(row) ==
    /\ DOMAIN row = {"tenant", "type", "on", "config"}
    /\ row.tenant \in ChTenants /\ row.type \in DOMAIN secretKeys

\* What edit e holds of row, which it will write: its secrets were entered for the
\* channel, S, and none that it read with key is missing.
EditOK(e, row, S, key) ==
    /\ Sealed(row.type, e.config, S)
    /\ \A k : IsSecret(row.type, k) /\ HasSecret(e.read, k) /\ e.read[k].by = key => HasSecret(e.config, k)

\* The inductive invariant: what is stored, and what an edit between its SELECT and its
\* UPDATE will store, was entered for that channel.
ChIInv ==
    /\ made \in Nat /\ made <= MaxChannels /\ DOMAIN rows \subseteq 1..made
    /\ cipher \in [ChReplicas -> CipherKeys \cup {NoCipher}]
    /\ DOMAIN given = 1..MaxChannels /\ DOMAIN edit = EditSlots
    /\ \A i \in DOMAIN rows : RowShape(rows[i]) /\ Sealed(rows[i].type, rows[i].config, given[i])
    /\ \A s \in EditSlots : edit[s] # NoEdit =>
          /\ edit[s].at = "write" /\ edit[s].by \in ChReplicas /\ edit[s].id \in 1..made
          /\ edit[s].id \in DOMAIN rows =>
                EditOK(edit[s], rows[edit[s].id], given[edit[s].id], cipher[edit[s].by])

\* What is encrypted is sealed, for the secrets it was made from.
LEMMA EncryptSeals ==
    ASSUME NEW t, NEW cfg, NEW key, NEW S, CanEncrypt(t, cfg, key), SecretsOf(t, cfg) \subseteq S
    PROVE  Sealed(t, encryptConfig(t, cfg, key), S)
  <1>1. SUFFICES ASSUME NEW k \in DOMAIN cfg, IsSecret(t, k), cfg[k] # Blank
                 PROVE  cfg[k] \in S /\ key # NoCipher
    BY DEF Sealed, encryptConfig
  <1>2. cfg[k] \in SecretsOf(t, cfg)
    BY <1>1 DEF SecretsOf
  <1>3. key # NoCipher
    BY <1>1 DEF CanEncrypt, EncryptionConfigured
  <1>4. QED
    BY <1>2, <1>3

\* Decryption gives no secret but those that are stored.
LEMMA DecryptGives ==
    ASSUME NEW t, NEW stored, NEW key, NEW S, Sealed(t, stored, S)
    PROVE  SecretsOf(t, decryptConfig(t, stored, key)) \subseteq S
  <1> DEFINE cfg == decryptConfig(t, stored, key)
  <1>1. SUFFICES ASSUME NEW k \in DOMAIN stored, IsSecret(t, k), cfg[k] # Blank PROVE cfg[k] \in S
    BY DEF SecretsOf, decryptConfig
  <1>2. cfg[k] = IF stored[k].plain # Blank THEN Decrypt(stored[k], key) ELSE stored[k].plain
    BY <1>1 DEF decryptConfig
  <1>3. stored[k].plain # Blank /\ cfg[k] = stored[k].plain
    BY <1>1, <1>2 DEF Decrypt
  <1>4. QED
    BY <1>1, <1>3 DEF Sealed

\* The secrets of a merged configuration are old ones or come with the request.
LEMMA MergeGives ==
    ASSUME NEW t, NEW old, NEW cfg
    PROVE  SecretsOf(t, Merge(t, old, cfg)) \subseteq SecretsOf(t, old) \cup SecretsOf(t, cfg)
  BY DEF SecretsOf, Merge

\* A secret the replica could decrypt is in the merged and encrypted configuration.
LEMMA MergeKeeps ==
    ASSUME NEW t, NEW stored, NEW key, NEW cfg, NEW S, NEW k, Sealed(t, stored, S),
           IsSecret(t, k), HasSecret(stored, k), stored[k].by = key
    PROVE  HasSecret(encryptConfig(t, Merge(t, decryptConfig(t, stored, key), cfg), key), k)
  <1> DEFINE old == decryptConfig(t, stored, key)
             merged == Merge(t, old, cfg)
  <1>1. k \in DOMAIN stored /\ stored[k].plain # Blank /\ key # NoCipher
    BY DEF HasSecret, Sealed
  <1>2. k \in DOMAIN old /\ old[k] # Blank
    BY <1>1 DEF decryptConfig, Decrypt
  <1> HIDE DEF old
  <1>3. k \in DOMAIN merged /\ merged[k] # Blank
    BY <1>2 DEF Merge
  <1> HIDE DEF merged
  <1>4. HasSecret(encryptConfig(t, merged, key), k)
    BY <1>3 DEF HasSecret, encryptConfig
  <1>5. QED
    BY <1>4 DEF merged, old

LEMMA SealedGrows ==
    ASSUME NEW t, NEW stored, NEW S, NEW T, Sealed(t, stored, S), S \subseteq T
    PROVE  Sealed(t, stored, T)
  BY DEF Sealed

LEMMA InitChIInv == ASSUME ChInit PROVE ChIInv
  <1>1. made = 0 /\ DOMAIN rows = {}
    BY DEF ChInit
  <1>2. QED
    BY <1>1, ChannelsAreBounded DEF ChInit, ChIInv

LEMMA CreateKeeps ==
    ASSUME ChIInv, NEW p \in ChReplicas, NEW t \in ChTenants, NEW draft, NEW on, CreateChannel(p, t, draft, on)
    PROVE  ChIInv'
  <1> DEFINE stored == encryptConfig(draft.type, draft.config, cipher[p])
             row == [tenant |-> t, type |-> draft.type, on |-> on, config |-> stored]
             n == made + 1
  <1>1. /\ made' = n /\ n \in 1..MaxChannels /\ n \notin DOMAIN rows /\ n \notin 1..made
        /\ DOMAIN rows' = DOMAIN rows \cup {n} /\ rows'[n] = row /\ \A i \in DOMAIN rows : rows'[i] = rows[i]
        /\ DOMAIN given' = DOMAIN given /\ given'[n] = SecretsOf(draft.type, draft.config)
        /\ \A i \in DOMAIN given : i # n => given'[i] = given[i]
        /\ UNCHANGED <<cipher, edit>>
    BY ChannelsAreBounded DEF ChIInv, CreateChannel
  <1>2. CanEncrypt(draft.type, draft.config, cipher[p]) /\ draft.type \in DOMAIN secretKeys
    BY DEF CreateChannel, CanEncrypt, ValidType
  <1>3. Sealed(draft.type, stored, SecretsOf(draft.type, draft.config))
    BY <1>2, EncryptSeals
  <1> HIDE DEF stored
  <1>4. RowShape(row) /\ row.type = draft.type /\ row.config = stored
    BY <1>2 DEF RowShape
  <1> HIDE DEF row
  <1>5. \A i \in DOMAIN rows' : RowShape(rows'[i]) /\ Sealed(rows'[i].type, rows'[i].config, given'[i])
    <2>1. TAKE i \in DOMAIN rows'
    <2>2. CASE i = n
      BY <2>2, <1>1, <1>3, <1>4
    <2>3. CASE i \in DOMAIN rows
      <3>1. i # n /\ i \in DOMAIN given
        BY <2>3, <1>1, ChannelsAreBounded DEF ChIInv
      <3>2. rows'[i] = rows[i] /\ given'[i] = given[i]
        BY <2>3, <3>1, <1>1
      <3>3. QED
        BY <2>3, <3>2 DEF ChIInv
    <2>4. QED
      BY <1>1, <2>2, <2>3
  <1>6. \A s \in EditSlots : edit'[s] # NoEdit =>
          /\ edit'[s].at = "write" /\ edit'[s].by \in ChReplicas /\ edit'[s].id \in 1..made'
          /\ edit'[s].id \in DOMAIN rows' =>
                EditOK(edit'[s], rows'[edit'[s].id], given'[edit'[s].id], cipher'[edit'[s].by])
    <2>1. SUFFICES ASSUME NEW s \in EditSlots, edit[s] # NoEdit
                   PROVE  /\ edit[s].at = "write" /\ edit[s].by \in ChReplicas /\ edit[s].id \in 1..made'
                          /\ edit[s].id \in DOMAIN rows' =>
                                EditOK(edit[s], rows'[edit[s].id], given'[edit[s].id], cipher[edit[s].by])
      BY <1>1
    <2>2. edit[s].at = "write" /\ edit[s].by \in ChReplicas /\ edit[s].id \in 1..made
      BY <2>1 DEF ChIInv
    <2>3. edit[s].id \in 1..made' /\ edit[s].id # n /\ edit[s].id \in DOMAIN given
      BY <2>2, <1>1, ChannelsAreBounded DEF ChIInv
    <2>4. QED
      BY <2>1, <2>2, <2>3, <1>1 DEF ChIInv
  <1>7. made' \in Nat /\ made' <= MaxChannels /\ DOMAIN rows' \subseteq 1..made'
    BY <1>1, ChannelsAreBounded DEF ChIInv
  <1>8. QED
    BY <1>1, <1>5, <1>6, <1>7 DEF ChIInv

LEMMA ReadKeeps ==
    ASSUME ChIInv, NEW s \in EditSlots, NEW p \in ChReplicas, NEW t, NEW i \in DOMAIN rows, NEW cfg, NEW on,
           ReadAndMerge(s, p, t, i, cfg, on)
    PROVE  ChIInv'
  <1> DEFINE row == rows[i]
             old == decryptConfig(row.type, row.config, cipher[p])
             merged == Merge(row.type, old, cfg)
             stored == encryptConfig(row.type, merged, cipher[p])
             e == [at |-> "write", by |-> p, tenant |-> t, id |-> i, on |-> on, read |-> row.config, config |-> stored]
  <1>1. /\ UNCHANGED <<cipher, rows, made>>
        /\ edit' = [edit EXCEPT ![s] = e]
        /\ given' = [given EXCEPT ![i] = @ \cup SecretsOf(row.type, cfg)]
        /\ CanEncrypt(row.type, merged, cipher[p])
    BY DEF ReadAndMerge
  <1>2. i \in 1..made /\ i \in 1..MaxChannels /\ DOMAIN given = 1..MaxChannels /\ DOMAIN edit = EditSlots
    BY ChannelsAreBounded DEF ChIInv
  <1>3. /\ given'[i] = given[i] \cup SecretsOf(row.type, cfg) /\ DOMAIN given' = DOMAIN given
        /\ \A j \in DOMAIN given : given[j] \subseteq given'[j]
    BY <1>1, <1>2
  <1>4. Sealed(row.type, row.config, given[i])
    BY DEF ChIInv
  <1>5. SecretsOf(row.type, merged) \subseteq given'[i]
    <2>1. SecretsOf(row.type, old) \subseteq given[i]
      BY <1>4, DecryptGives
    <2>2. SecretsOf(row.type, merged) \subseteq SecretsOf(row.type, old) \cup SecretsOf(row.type, cfg)
      BY MergeGives
    <2>3. QED
      BY <2>1, <2>2, <1>3
  <1>6. Sealed(row.type, stored, given'[i])
    BY <1>1, <1>5, EncryptSeals
  <1>7. \A k : IsSecret(row.type, k) /\ HasSecret(row.config, k) /\ row.config[k].by = cipher[p] => HasSecret(stored, k)
    BY <1>4, MergeKeeps
  <1> HIDE DEF stored
  <1>8. /\ e.at = "write" /\ e.by = p /\ e.id = i /\ e.read = row.config /\ e.config = stored
    OBVIOUS
  <1>9. EditOK(e, row, given'[i], cipher[p])
    BY <1>6, <1>7, <1>8 DEF EditOK
  <1> HIDE DEF e
  <1>10. DOMAIN edit' = EditSlots /\ edit'[s] = e /\ \A o \in EditSlots : o # s => edit'[o] = edit[o]
    BY <1>1, <1>2
  <1>11. \A j \in DOMAIN rows' : RowShape(rows'[j]) /\ Sealed(rows'[j].type, rows'[j].config, given'[j])
    <2>1. SUFFICES ASSUME NEW j \in DOMAIN rows PROVE RowShape(rows[j]) /\ Sealed(rows[j].type, rows[j].config, given'[j])
      BY <1>1
    <2>2. RowShape(rows[j]) /\ Sealed(rows[j].type, rows[j].config, given[j]) /\ j \in DOMAIN given
      BY ChannelsAreBounded DEF ChIInv
    <2>3. QED
      BY <2>2, <1>3, SealedGrows
  <1>12. \A o \in EditSlots : edit'[o] # NoEdit =>
          /\ edit'[o].at = "write" /\ edit'[o].by \in ChReplicas /\ edit'[o].id \in 1..made'
          /\ edit'[o].id \in DOMAIN rows' =>
                EditOK(edit'[o], rows'[edit'[o].id], given'[edit'[o].id], cipher'[edit'[o].by])
    <2>1. SUFFICES ASSUME NEW o \in EditSlots, edit'[o] # NoEdit
                   PROVE  /\ edit'[o].at = "write" /\ edit'[o].by \in ChReplicas /\ edit'[o].id \in 1..made
                          /\ edit'[o].id \in DOMAIN rows =>
                                EditOK(edit'[o], rows[edit'[o].id], given'[edit'[o].id], cipher[edit'[o].by])
      BY <1>1
    <2>2. CASE o = s
      BY <2>2, <1>2, <1>8, <1>9, <1>10
    <2>3. CASE o # s
      <3>1. edit'[o] = edit[o] /\ edit[o] # NoEdit
        BY <2>1, <2>3, <1>10
      <3>2. edit[o].at = "write" /\ edit[o].by \in ChReplicas /\ edit[o].id \in 1..made /\ edit[o].id \in DOMAIN given
        BY <3>1, ChannelsAreBounded DEF ChIInv
      <3>3. ASSUME edit[o].id \in DOMAIN rows
            PROVE  EditOK(edit[o], rows[edit[o].id], given'[edit[o].id], cipher[edit[o].by])
        <4>1. EditOK(edit[o], rows[edit[o].id], given[edit[o].id], cipher[edit[o].by])
          BY <3>1, <3>3 DEF ChIInv
        <4>2. QED
          BY <4>1, <3>2, <1>3, SealedGrows DEF EditOK
      <3>4. QED
        BY <3>1, <3>2, <3>3
    <2>4. QED
      BY <2>2, <2>3
  <1>13. QED
    BY <1>1, <1>2, <1>3, <1>10, <1>11, <1>12 DEF ChIInv

LEMMA WriteKeeps == ASSUME ChIInv, NEW s \in EditSlots, WriteBack(s) PROVE ChIInv'
  <1> DEFINE e == edit[s]
  <1>1. /\ UNCHANGED <<cipher, made, given>> /\ e # NoEdit
        /\ edit' = [edit EXCEPT ![s] = NoEdit]
        /\ rows' = IF Find(e.tenant, e.id) THEN [rows EXCEPT ![e.id].on = e.on, ![e.id].config = e.config] ELSE rows
    BY DEF WriteBack
  <1>2. e.id \in DOMAIN rows => EditOK(e, rows[e.id], given[e.id], cipher[e.by])
    BY <1>1 DEF ChIInv
  <1>3. DOMAIN rows' = DOMAIN rows
    BY <1>1
  <1>4. \A i \in DOMAIN rows : /\ RowShape(rows'[i]) /\ rows'[i].type = rows[i].type
                               /\ rows'[i].config = rows[i].config \/ (i = e.id /\ rows'[i].config = e.config)
    <2>1. TAKE i \in DOMAIN rows
    <2>2. RowShape(rows[i])
      BY DEF ChIInv
    <2>3. rows'[i] = rows[i] \/ (i = e.id /\ rows'[i] = [rows[i] EXCEPT !.on = e.on, !.config = e.config])
      BY <1>1
    <2>4. QED
      BY <2>2, <2>3 DEF RowShape
  <1>5. \A i \in DOMAIN rows' : RowShape(rows'[i]) /\ Sealed(rows'[i].type, rows'[i].config, given'[i])
    <2>1. SUFFICES ASSUME NEW i \in DOMAIN rows PROVE RowShape(rows'[i]) /\ Sealed(rows'[i].type, rows'[i].config, given[i])
      BY <1>1, <1>3
    <2>2. Sealed(rows[i].type, rows[i].config, given[i])
      BY DEF ChIInv
    <2>3. i = e.id => Sealed(rows[i].type, e.config, given[i])
      BY <1>2 DEF EditOK
    <2>4. QED
      BY <1>4, <2>2, <2>3
  <1>6. DOMAIN edit' = EditSlots /\ \A o \in EditSlots : edit'[o] = NoEdit \/ edit'[o] = edit[o]
    BY <1>1 DEF ChIInv
  <1>7. \A o \in EditSlots : edit'[o] # NoEdit =>
          /\ edit'[o].at = "write" /\ edit'[o].by \in ChReplicas /\ edit'[o].id \in 1..made'
          /\ edit'[o].id \in DOMAIN rows' =>
                EditOK(edit'[o], rows'[edit'[o].id], given'[edit'[o].id], cipher'[edit'[o].by])
    <2>1. SUFFICES ASSUME NEW o \in EditSlots, edit[o] # NoEdit
                   PROVE  /\ edit[o].at = "write" /\ edit[o].by \in ChReplicas /\ edit[o].id \in 1..made
                          /\ edit[o].id \in DOMAIN rows =>
                                EditOK(edit[o], rows'[edit[o].id], given[edit[o].id], cipher[edit[o].by])
      BY <1>1, <1>3, <1>6
    <2>2. edit[o].id \in DOMAIN rows => EditOK(edit[o], rows[edit[o].id], given[edit[o].id], cipher[edit[o].by])
      BY <2>1 DEF ChIInv
    <2>3. edit[o].at = "write" /\ edit[o].by \in ChReplicas /\ edit[o].id \in 1..made
      BY <2>1 DEF ChIInv
    <2>4. edit[o].id \in DOMAIN rows => rows'[edit[o].id].type = rows[edit[o].id].type
      BY <1>4
    <2>5. QED
      BY <2>2, <2>3, <2>4 DEF EditOK
  <1>8. QED
    BY <1>1, <1>3, <1>5, <1>6, <1>7 DEF ChIInv

LEMMA DeleteKeeps == ASSUME ChIInv, NEW t, NEW i, DeleteChannel(t, i) PROVE ChIInv'
  <1>1. UNCHANGED <<cipher, edit, made, given>> /\ DOMAIN rows' \subseteq DOMAIN rows
        /\ \A j \in DOMAIN rows' : rows'[j] = rows[j]
    BY DEF DeleteChannel
  <1>2. DOMAIN rows' \subseteq 1..made
    BY <1>1 DEF ChIInv
  <1>3. \A j \in DOMAIN rows' : RowShape(rows'[j]) /\ Sealed(rows'[j].type, rows'[j].config, given[j])
    BY <1>1 DEF ChIInv
  <1>4. \A s \in EditSlots : edit[s] # NoEdit =>
          /\ edit[s].at = "write" /\ edit[s].by \in ChReplicas /\ edit[s].id \in 1..made
          /\ edit[s].id \in DOMAIN rows' =>
                EditOK(edit[s], rows'[edit[s].id], given[edit[s].id], cipher[edit[s].by])
    BY <1>1 DEF ChIInv
  <1>5. QED
    BY <1>1, <1>2, <1>3, <1>4 DEF ChIInv

LEMMA RekeyKeeps == ASSUME ChIInv, NEW p \in ChReplicas, NEW key \in CipherKeys \cup {NoCipher}, RestartReplica(p, key) PROVE ChIInv'
  <1>1. UNCHANGED <<rows, made, given>> /\ cipher' \in [ChReplicas -> CipherKeys \cup {NoCipher}]
        /\ \A o \in ChReplicas : o # p => cipher'[o] = cipher[o]
    BY DEF ChIInv, RestartReplica
  <1>2. DOMAIN edit' = EditSlots /\ \A s \in EditSlots : edit'[s] # NoEdit => edit'[s] = edit[s] /\ edit[s].by # p
    BY DEF RestartReplica
  <1>3. \A s \in EditSlots : edit'[s] # NoEdit =>
          /\ edit'[s].at = "write" /\ edit'[s].by \in ChReplicas /\ edit'[s].id \in 1..made
          /\ edit'[s].id \in DOMAIN rows =>
                EditOK(edit'[s], rows[edit'[s].id], given[edit'[s].id], cipher'[edit'[s].by])
    BY <1>1, <1>2 DEF ChIInv
  <1>4. QED
    BY <1>1, <1>2, <1>3 DEF ChIInv

LEMMA NextChIInv == ASSUME ChIInv, [ChNext]_chVars PROVE ChIInv'
  <1>1. CASE UNCHANGED chVars
    BY <1>1 DEF ChIInv, chVars
  <1>2. QED
    BY <1>1, CreateKeeps, ReadKeeps, WriteKeeps, DeleteKeeps, RekeyKeeps DEF ChNext

LEMMA SpecChIInv == ChSpec => []ChIInv
  BY InitChIInv, NextChIInv, PTL DEF ChSpec

LEMMA DeliversSecrets ==
    ASSUME ChIInv, NEW p \in ChReplicas, NEW i \in DOMAIN rows, NEW d \in Delivery(p, i)
    PROVE  d.channel = i /\ d.secrets \subseteq given[i]
  <1> DEFINE cfg == decryptConfig(rows[i].type, rows[i].config, cipher[p])
  <1>1. d = [channel |-> i, secrets |-> SecretsOf(rows[i].type, cfg)]
    BY DEF Delivery
  <1>2. SecretsOf(rows[i].type, cfg) \subseteq given[i]
    BY DecryptGives DEF ChIInv
  <1> HIDE DEF cfg
  <1>3. QED
    BY <1>1, <1>2

\* What is sent was entered for that very channel of that very tenant, for any number of
\* replicas, keys, channels and overlapping edits.
LEMMA OnlyEnteredIsSent == ChIInv => DeliveredAsEntered
  <1>1. SUFFICES ASSUME ChIInv, NEW p \in ChReplicas, NEW t \in ChTenants,
                        NEW d \in Dispatched(p, t) \cup UNION {Tested(p, t, i) : i \in DOMAIN rows}
                 PROVE  d.secrets \subseteq given[d.channel] /\ rows[d.channel].tenant = t
    BY DEF DeliveredAsEntered
  <1>2. PICK i \in DOMAIN rows : d \in Delivery(p, i) /\ rows[i].tenant = t
    BY <1>1 DEF Dispatched, ListDecrypted, Tested, Find
  <1>3. QED
    BY <1>1, <1>2, DeliversSecrets

\* A step takes a secret out of a row only if it is the UPDATE of an edit that had read
\* none, or one that it could not decrypt.
LEMMA SecretLost ==
    ASSUME ChIInv, ChNext, NEW i \in DOMAIN rows \cap DOMAIN rows', NEW k \in secretKeys[rows[i].type],
           HasSecret(rows[i].config, k), ~ HasSecret(rows'[i].config, k)
    PROVE  \E s \in EditSlots :
               /\ edit[s] # NoEdit /\ edit'[s] = NoEdit /\ edit[s].id = i
               /\ ~ HasSecret(edit[s].read, k) \/ edit[s].read[k].by # cipher[edit[s].by]
  <1>1. rows'[i].config # rows[i].config
    OBVIOUS
  <1>2. ~ \E p \in ChReplicas, t \in ChTenants, draft \in ChDrafts, on \in BOOLEAN : CreateChannel(p, t, draft, on)
    <2>1. SUFFICES ASSUME NEW p, NEW t, NEW draft, NEW on, CreateChannel(p, t, draft, on) PROVE rows'[i] = rows[i]
      BY <1>1
    <2>2. i # made' 
      BY <2>1 DEF ChIInv, CreateChannel
    <2>3. QED
      BY <2>1, <2>2 DEF CreateChannel
  <1>3. ~ \E t, j : DeleteChannel(t, j)
    BY <1>1 DEF DeleteChannel
  <1>4. ~ \E p, key : RestartReplica(p, key)
    BY <1>1 DEF RestartReplica
  <1>5. ~ \E s, p, t, j, cfg, on : ReadAndMerge(s, p, t, j, cfg, on)
    BY <1>1 DEF ReadAndMerge
  <1>6. PICK s \in EditSlots : WriteBack(s)
    BY <1>2, <1>3, <1>4, <1>5 DEF ChNext
  <1> DEFINE e == edit[s]
  <1>7. e # NoEdit /\ edit'[s] = NoEdit
    BY <1>6 DEF WriteBack, ChIInv
  <1>8. i = e.id /\ rows'[i] = [rows[i] EXCEPT !.on = e.on, !.config = e.config]
    BY <1>1, <1>6 DEF WriteBack
  <1>9. rows'[i].config = e.config
    BY <1>8 DEF ChIInv, RowShape
  <1>10. EditOK(e, rows[i], given[i], cipher[e.by])
    BY <1>7, <1>8 DEF ChIInv
  <1>11. ~ HasSecret(e.read, k) \/ e.read[k].by # cipher[e.by]
    BY <1>9, <1>10 DEF EditOK, IsSecret
  <1>12. QED
    BY <1>7, <1>8, <1>11

\* The contract of the channel store, for any number of replicas, keys, tenants, channels
\* and edits under way: what a test or a notification sends was entered for that very
\* channel, and no edit loses a secret that it could read and was not told to replace.
THEOREM SecretsAreKept == ChSpec => SecretsKept
  <1> DEFINE Survive ==
        \A i \in DOMAIN rows \cap DOMAIN rows' : \A k \in secretKeys[rows[i].type] :
          HasSecret(rows[i].config, k) /\ ~ HasSecret(rows'[i].config, k) =>
              \E s \in EditSlots :
                  /\ edit[s] # NoEdit /\ edit'[s] = NoEdit
                  /\ edit[s].id = i
                  /\ \/ ~ HasSecret(edit[s].read, k)
                     \/ edit[s].read[k].by # cipher[edit[s].by]
  <1>1. ChIInv /\ [ChNext]_chVars => [Survive]_chVars
    BY SecretLost
  <1>2. SecretsSurviveEdits <=> [][Survive]_chVars
    BY DEF SecretsSurviveEdits
  <1> HIDE DEF Survive
  <1>3. QED
    BY <1>1, <1>2, SpecChIInv, OnlyEnteredIsSent, PTL DEF ChSpec, SecretsKept

\* Types: a row belongs to a tenant and has a known type, and a replica has a key or none.
LEMMA ChannelTypes == ChIInv => ChTypeOK
  <1>1. SUFFICES ASSUME ChIInv PROVE ChTypeOK
    OBVIOUS
  <1>2. \A s \in EditSlots : edit[s].at \in {"idle", "write"}
    BY <1>1 DEF ChIInv, NoEdit
  <1>3. QED
    BY <1>1, <1>2 DEF ChIInv, ChTypeOK, RowShape, ValidType

-----------------------------------------------------------------------------
(* Runbooks *)

Deployments ==
    [version: Nat, template: Templates, revision: Nat \ {0}, replicas: ReplicaCounts, stamp: {0, 1}]

\* The templates to undo the last change with, as Candidates finds them in rs.
Undoing(rs, current) ==
    {t \in Templates : /\ rs[t] \notin {0, current}
                       /\ \A o \in Templates : rs[o] \notin {0, current} => rs[t] >= rs[o]}

\* A request b between its calls: what it has read is the deployment d unless the version
\* has changed, and then its update will be refused; so with the template it chose.
PlanOK(b, d, rs) ==
    /\ DOMAIN b = {"at", "applied", "action", "want", "dryRun", "read", "chosen"}
    /\ b.applied = FALSE /\ b.dryRun \in BOOLEAN /\ connected
    /\ b.action \in {"ROLLBACK", "RESTART_PODS", "SCALE"} /\ (b.action = "SCALE" => b.want \in ReplicaCounts)
    /\ b.read \in Deployments /\ b.chosen \in Templates
    /\ b.read.version <= d.version /\ (b.read.version = d.version => b.read = d)
    /\ ~ b.dryRun => AllowsExecution
    /\ b.at = "update" => ~ b.dryRun
    /\ b.at = "update" /\ b.action = "ROLLBACK" /\ b.want = 0 /\ b.read.version = d.version =>
           b.chosen \in Undoing(rs, b.read.revision)

\* A request that waits or has its answer.
AnswerOK(b) ==
    /\ b.at \in {"idle", "dry", "done", "error"} /\ b.applied \in BOOLEAN
    /\ b.at \in {"idle", "dry"} => ~ b.applied
    /\ b.at = "done" => b.applied
    /\ b.applied => AllowsExecution /\ connected

\* Revisions: the highest is the deployment's, no two templates share one, and the one
\* before it is the template that ran before.
Numbered ==
    /\ replicaSets \in [Templates -> Nat] /\ previous \in Templates
    /\ \A t \in Templates : replicaSets[t] <= deployment.revision
    /\ \E t \in Templates : replicaSets[t] = deployment.revision
    /\ \A t, u \in Templates : replicaSets[t] = replicaSets[u] /\ replicaSets[t] # 0 => t = u
    /\ deployment.revision = 1 \/ replicaSets[previous] = deployment.revision - 1

\* The inductive invariant.
ClusterIInv ==
    /\ deployment \in Deployments /\ Numbered
    /\ DOMAIN runbook = Runbooks
    /\ \A r \in Runbooks : \/ runbook[r].at \in {"list", "update"} /\ PlanOK(runbook[r], deployment, replicaSets)
                           \/ AnswerOK(runbook[r])

LEMMA SmallestCount == Min(ReplicaCounts) \in ReplicaCounts
  <1>1. \E m \in ReplicaCounts : \A k \in ReplicaCounts : m <= k
    BY LeastOf, ClusterAssumption
  <1>2. QED
    BY <1>1 DEF Min

LEMMA InitClusterIInv == ASSUME ClusterInit PROVE ClusterIInv
  <1>1. First \in Templates
    BY ClusterAssumption DEF First
  <1>2. deployment \in Deployments /\ deployment.revision = 1
    BY <1>1, SmallestCount DEF ClusterInit, Deployments
  <1>3. replicaSets = [t \in Templates |-> IF t = First THEN 1 ELSE 0] /\ previous = First
    BY DEF ClusterInit
  <1>4. Numbered
    BY <1>1, <1>2, <1>3 DEF Numbered
  <1>5. DOMAIN runbook = Runbooks /\ \A r \in Runbooks : AnswerOK(runbook[r])
    BY DEF ClusterInit, AnswerOK, NoRunbook
  <1>6. QED
    BY <1>2, <1>4, <1>5 DEF ClusterIInv

\* What others do to the deployment makes plans stale, and never wrong: every write gives
\* it a version of its own.
LEMMA PlanStays ==
    ASSUME NEW b, NEW d \in Deployments, NEW e \in Deployments, NEW rs, NEW rt,
           PlanOK(b, d, rs), e.version = d.version + 1
    PROVE  PlanOK(b, e, rt)
  <1>1. b.read.version \in Nat /\ d.version \in Nat /\ e.version \in Nat
    BY DEF PlanOK, Deployments
  <1>2. b.read.version <= e.version /\ b.read.version # e.version
    BY <1>1 DEF PlanOK
  <1>3. QED
    BY <1>2 DEF PlanOK

\* A step that writes the deployment and leaves the requests but one.
LEMMA OthersPlans ==
    ASSUME ClusterIInv, deployment' \in Deployments, deployment'.version = deployment.version + 1,
           UNCHANGED <<mode, connected>>, NEW r \in Runbooks, runbook'[r] = runbook[r]
    PROVE  (\/ runbook[r].at \in {"list", "update"} /\ PlanOK(runbook[r], deployment, replicaSets)
            \/ AnswerOK(runbook[r]))'
  <1>1. deployment \in Deployments
    BY DEF ClusterIInv
  <1>2. CASE AnswerOK(runbook[r])
    BY <1>2 DEF AnswerOK, AllowsExecution, policyFromEnv
  <1>3. CASE runbook[r].at \in {"list", "update"} /\ PlanOK(runbook[r], deployment, replicaSets)
    <2>1. PlanOK(runbook[r], deployment', replicaSets')
      BY <1>1, <1>3, PlanStays
    <2>2. (PlanOK(runbook[r], deployment, replicaSets))'
      BY <2>1 DEF PlanOK, AllowsExecution, policyFromEnv
    <2>3. QED
      BY <2>2, <1>3
  <1>4. QED
    BY <1>2, <1>3 DEF ClusterIInv

\* A step that changes nothing but request r.
LEMMA RequestMoves ==
    ASSUME ClusterIInv, UNCHANGED <<deployment, replicaSets, mode, connected, previous>>,
           NEW r \in Runbooks, NEW b, runbook' = [runbook EXCEPT ![r] = b],
           (b.at \in {"list", "update"} /\ PlanOK(b, deployment, replicaSets)) \/ AnswerOK(b)
    PROVE  ClusterIInv'
  <1>1. DOMAIN runbook' = Runbooks /\ runbook'[r] = b /\ \A o \in Runbooks : o # r => runbook'[o] = runbook[o]
    BY DEF ClusterIInv
  <1>2. QED
    BY <1>1 DEF ClusterIInv, Numbered, PlanOK, AnswerOK, AllowsExecution, policyFromEnv, Undoing

LEMMA StoredIs ==
    ASSUME deployment \in Deployments, NEW d \in Deployments
    PROVE  /\ Stored(d) \in Deployments /\ Stored(d).version = deployment.version + 1
           /\ Stored(d).revision = d.revision
  BY DEF Stored, Deployments

LEMMA ControllerKeeps == ASSUME ClusterIInv, ControllerSync PROVE ClusterIInv'
  <1> DEFINE rev == deployment.revision
             t0 == deployment.template
             revs == {replicaSets[t] : t \in Templates}
             newest == Max(revs)
             current == replicaSets[t0]
             next == IF current = newest THEN current ELSE newest + 1
  <1>1. /\ deployment \in Deployments /\ rev \in Nat \ {0} /\ t0 \in Templates
        /\ replicaSets \in [Templates -> Nat] /\ current \in Nat
    BY DEF ClusterIInv, Numbered, Deployments
  <1>2. newest = rev
    <2>1. rev \in revs /\ \A y \in revs : y \in Nat /\ rev >= y
      BY <1>1 DEF ClusterIInv, Numbered
    <2>2. \A x \in revs : (\A y \in revs : x >= y) => x = rev
      BY <2>1, <1>1
    <2> HIDE DEF revs, rev
    <2>3. QED
      BY <2>1, <2>2 DEF Max
  <1>3. /\ rev # next
        /\ replicaSets' = [replicaSets EXCEPT ![t0] = next]
        /\ deployment' = Stored([deployment EXCEPT !.revision = next])
        /\ previous' = CHOOSE t \in Templates : replicaSets[t] = newest
        /\ UNCHANGED <<mode, connected, runbook>>
    BY DEF ControllerSync
  <1> HIDE DEF newest
  <1>4. current # rev /\ next = rev + 1
    BY <1>2, <1>3
  <1>5. /\ deployment' \in Deployments /\ deployment'.version = deployment.version + 1
        /\ deployment'.revision = rev + 1
    <2> DEFINE d == [deployment EXCEPT !.revision = next]
    <2>1. next \in Nat \ {0}
      BY <1>1, <1>4
    <2> HIDE DEF next
    <2>2. d \in Deployments /\ d.revision = next
      BY <1>1, <2>1 DEF Deployments
    <2>3. deployment' = Stored(d)
      BY <1>3
    <2> HIDE DEF d
    <2>4. QED
      BY <1>1, <1>4, <2>2, <2>3, StoredIs
  <1>6. previous' \in Templates /\ replicaSets[previous'] = rev
    BY <1>2, <1>3 DEF ClusterIInv, Numbered
  <1>7. /\ replicaSets' \in [Templates -> Nat] /\ replicaSets'[t0] = rev + 1
        /\ \A t \in Templates : t # t0 => replicaSets'[t] = replicaSets[t]
    BY <1>1, <1>3, <1>4
  <1>8. \A t \in Templates : replicaSets[t] \in Nat /\ replicaSets[t] <= rev
    BY <1>1 DEF ClusterIInv, Numbered
  <1>9. Numbered'
    <2>1. \A t \in Templates : replicaSets'[t] <= rev + 1
      BY <1>1, <1>7, <1>8
    <2>2. \A t, u \in Templates : replicaSets'[t] = replicaSets'[u] /\ replicaSets'[t] # 0 => t = u
      <3>1. TAKE t, u \in Templates
      <3>2. CASE t = t0 \/ u = t0
        BY <3>2, <1>1, <1>7, <1>8
      <3>3. CASE t # t0 /\ u # t0
        BY <3>3, <1>7 DEF ClusterIInv, Numbered
      <3>4. QED
        BY <3>2, <3>3
    <2>3. replicaSets'[previous'] = rev
      BY <1>4, <1>6, <1>7
    <2>4. QED
      BY <1>1, <1>5, <1>6, <1>7, <2>1, <2>2, <2>3 DEF Numbered
  <1>10. DOMAIN runbook' = Runbooks /\ \A r \in Runbooks : runbook'[r] = runbook[r]
    BY <1>3 DEF ClusterIInv
  <1>11. QED
    BY <1>3, <1>5, <1>9, <1>10, OthersPlans DEF ClusterIInv

LEMMA KubectlKeeps == ASSUME ClusterIInv, Kubectl PROVE ClusterIInv'
  <1>1. deployment \in Deployments
    BY DEF ClusterIInv
  <1>2. /\ deployment' \in Deployments /\ deployment'.version = deployment.version + 1
        /\ deployment'.revision = deployment.revision
    <2>1. PICK d : /\ deployment' = Stored(d)
                   /\ \/ \E t \in Templates : d = [deployment EXCEPT !.template = t]
                      \/ \E n \in ReplicaCounts : d = [deployment EXCEPT !.replicas = n]
      BY DEF Kubectl
    <2>2. d \in Deployments /\ d.revision = deployment.revision
      BY <1>1, <2>1 DEF Deployments
    <2>3. QED
      BY <1>1, <2>1, <2>2, StoredIs
  <1>3. UNCHANGED <<replicaSets, mode, connected, runbook, previous>>
    BY DEF Kubectl
  <1>4. Numbered'
    BY <1>2, <1>3 DEF ClusterIInv, Numbered
  <1>5. DOMAIN runbook' = Runbooks /\ \A r \in Runbooks : runbook'[r] = runbook[r]
    BY <1>3 DEF ClusterIInv
  <1>6. QED
    BY <1>2, <1>3, <1>4, <1>5, OthersPlans DEF ClusterIInv

LEMMA ExecuteKeeps ==
    ASSUME ClusterIInv, NEW r \in Runbooks, NEW q \in Requests, NEW dryRun \in BOOLEAN, ExecuteRunbook(r, q, dryRun)
    PROVE  ClusterIInv'
  <1>1. UNCHANGED <<deployment, replicaSets, mode, connected, previous>>
    BY DEF ExecuteRunbook
  <1>2. CASE Answer(r, "dry", FALSE)
    <2> DEFINE b == [at |-> "dry", applied |-> FALSE]
    <2>1. AnswerOK(b)
      BY DEF AnswerOK
    <2>2. runbook' = [runbook EXCEPT ![r] = b]
      BY <1>2 DEF Answer
    <2> HIDE DEF b
    <2>3. QED
      BY <1>1, <2>1, <2>2, RequestMoves
  <1>3. CASE ~ Answer(r, "dry", FALSE)
    <2> DEFINE b == [at |-> IF q.action = "ROLLBACK" THEN "list" ELSE "update", applied |-> FALSE,
                     action |-> q.action, want |-> q.want, dryRun |-> Dry(dryRun),
                     read |-> deployment, chosen |-> deployment.template]
    <2>1. connected /\ (q.action = "ROLLBACK" \/ ~ Dry(dryRun)) /\ runbook' = [runbook EXCEPT ![r] = b]
      BY <1>3 DEF ExecuteRunbook
    <2>2. deployment \in Deployments /\ deployment.template \in Templates /\ deployment.version <= deployment.version
      BY DEF ClusterIInv, Deployments
    <2>3. Dry(dryRun) \in BOOLEAN /\ (~ Dry(dryRun) => AllowsExecution)
      BY DEF Dry
    <2>4. q.action \in {"ROLLBACK", "RESTART_PODS", "SCALE"} /\ (q.action = "SCALE" => q.want \in ReplicaCounts)
      BY ClusterAssumption
    <2>5. b.at \in {"list", "update"} /\ PlanOK(b, deployment, replicaSets)
      BY <2>1, <2>2, <2>3, <2>4 DEF PlanOK
    <2> HIDE DEF b
    <2>6. QED
      BY <1>1, <2>1, <2>5, RequestMoves
  <1>4. QED
    BY <1>2, <1>3

LEMMA ListKeeps == ASSUME ClusterIInv, NEW r \in Runbooks, ListReplicaSets(r) PROVE ClusterIInv'
  <1> DEFINE q == runbook[r]
             found == Candidates(q.read.revision, q.want)
  <1>1. /\ q.at = "list" /\ UNCHANGED <<deployment, replicaSets, mode, connected, previous>>
        /\ \/ \E how \in {"error", "dry"} : Answer(r, how, FALSE)
           \/ ~ q.dryRun /\ \E t \in found : runbook' = [runbook EXCEPT ![r].chosen = t, ![r].at = "update"]
    BY DEF ListReplicaSets
  <1>2. PlanOK(q, deployment, replicaSets)
    BY <1>1 DEF ClusterIInv, AnswerOK
  <1>3. CASE \E how \in {"error", "dry"} : Answer(r, how, FALSE)
    <2>1. PICK how \in {"error", "dry"} : Answer(r, how, FALSE)
      BY <1>3
    <2> DEFINE b == [at |-> how, applied |-> FALSE]
    <2>2. AnswerOK(b)
      BY DEF AnswerOK
    <2>3. runbook' = [runbook EXCEPT ![r] = b]
      BY <2>1 DEF Answer
    <2> HIDE DEF b
    <2>4. QED
      BY <1>1, <2>2, <2>3, RequestMoves
  <1>4. CASE ~ q.dryRun /\ \E t \in found : runbook' = [runbook EXCEPT ![r].chosen = t, ![r].at = "update"]
    <2>1. PICK t \in found : runbook' = [runbook EXCEPT ![r].chosen = t, ![r].at = "update"]
      BY <1>4
    <2> DEFINE b == [q EXCEPT !.chosen = t, !.at = "update"]
    <2>2. runbook' = [runbook EXCEPT ![r] = b]
      BY <2>1
    <2>3. t \in Templates /\ (q.want = 0 => t \in Undoing(replicaSets, q.read.revision))
      BY DEF Candidates, Undoing
    <2>4. /\ b.at = "update" /\ b.chosen = t /\ DOMAIN b = DOMAIN q
          /\ b.applied = q.applied /\ b.action = q.action /\ b.want = q.want /\ b.dryRun = q.dryRun /\ b.read = q.read
      BY <1>2 DEF PlanOK
    <2> HIDE DEF b
    <2>5. PlanOK(b, deployment, replicaSets)
      BY <1>2, <1>4, <2>3, <2>4 DEF PlanOK
    <2>6. QED
      BY <1>1, <2>2, <2>4, <2>5, RequestMoves
  <1>5. QED
    BY <1>1, <1>3, <1>4

LEMMA FailKeeps == ASSUME ClusterIInv, NEW r \in Runbooks, ApiFails(r) PROVE ClusterIInv'
  <1> DEFINE b == [at |-> "error", applied |-> FALSE]
  <1>1. AnswerOK(b)
    BY DEF AnswerOK
  <1>2. UNCHANGED <<deployment, replicaSets, mode, connected, previous>> /\ runbook' = [runbook EXCEPT ![r] = b]
    BY DEF ApiFails, Answer
  <1> HIDE DEF b
  <1>3. QED
    BY <1>1, <1>2, RequestMoves

\* An update that takes effect: what it changes is the deployment as it is.
LEMMA EffectIs ==
    ASSUME ClusterIInv, NEW r \in Runbooks, runbook[r].at = "update", deployment.version = runbook[r].read.version
    PROVE  /\ PlanOK(runbook[r], deployment, replicaSets) /\ runbook[r].read = deployment
           /\ Stored(Changed(runbook[r])) \in Deployments
           /\ Stored(Changed(runbook[r])).version = deployment.version + 1
           /\ Stored(Changed(runbook[r])).revision = deployment.revision
           /\ connected /\ AllowsExecution /\ runbook[r].applied = FALSE
           /\ runbook[r].action \in {"ROLLBACK", "RESTART_PODS", "SCALE"}
  <1> DEFINE q == runbook[r]
  <1>1. PlanOK(q, deployment, replicaSets)
    BY DEF ClusterIInv, AnswerOK
  <1>2. /\ q.read = deployment /\ connected /\ AllowsExecution /\ q.applied = FALSE
        /\ q.action \in {"ROLLBACK", "RESTART_PODS", "SCALE"}
        /\ q.chosen \in Templates /\ (q.action = "SCALE" => q.want \in ReplicaCounts)
    BY <1>1 DEF PlanOK
  <1>3. deployment \in Deployments
    BY DEF ClusterIInv
  <1> HIDE DEF q
  <1>4. Changed(q) \in Deployments /\ Changed(q).revision = deployment.revision
    BY <1>2, <1>3 DEF Changed, Deployments
  <1>5. /\ Stored(Changed(q)) \in Deployments /\ Stored(Changed(q)).version = deployment.version + 1
        /\ Stored(Changed(q)).revision = deployment.revision
    BY <1>3, <1>4 DEF Stored, Deployments
  <1>6. QED
    BY <1>1, <1>2, <1>5 DEF q

LEMMA EffectKeeps ==
    ASSUME ClusterIInv, NEW r \in Runbooks, runbook[r].at = "update", deployment.version = runbook[r].read.version,
           NEW how \in {"done", "error"}, deployment' = Stored(Changed(runbook[r])), Answer(r, how, TRUE),
           UNCHANGED <<replicaSets, mode, connected, previous>>
    PROVE  ClusterIInv'
  <1>1. /\ deployment' \in Deployments /\ deployment'.version = deployment.version + 1
        /\ deployment'.revision = deployment.revision /\ connected /\ AllowsExecution
    BY EffectIs
  <1>2. Numbered'
    BY <1>1 DEF ClusterIInv, Numbered
  <1>3. /\ DOMAIN runbook' = Runbooks /\ runbook'[r] = [at |-> how, applied |-> TRUE]
        /\ \A o \in Runbooks : o # r => runbook'[o] = runbook[o]
    BY DEF ClusterIInv, Answer
  <1>4. AnswerOK(runbook[r])'
    BY <1>1, <1>3 DEF AnswerOK, AllowsExecution, policyFromEnv
  <1>5. QED
    BY <1>1, <1>2, <1>3, <1>4, OthersPlans DEF ClusterIInv

LEMMA ClusterUpdateKeeps == ASSUME ClusterIInv, NEW r \in Runbooks, UpdateDeployment(r) \/ UpdateUnanswered(r) PROVE ClusterIInv'
  <1>1. runbook[r].at = "update" /\ UNCHANGED <<replicaSets, mode, connected, previous>>
    BY DEF UpdateDeployment, UpdateUnanswered
  <1>2. CASE deployment.version = runbook[r].read.version
    BY <1>1, <1>2, EffectKeeps DEF UpdateDeployment, UpdateUnanswered
  <1>3. CASE deployment.version # runbook[r].read.version
    <2> DEFINE b == [at |-> "error", applied |-> FALSE]
    <2>1. AnswerOK(b)
      BY DEF AnswerOK
    <2>2. UNCHANGED deployment /\ runbook' = [runbook EXCEPT ![r] = b]
      BY <1>3 DEF UpdateDeployment, UpdateUnanswered, Answer
    <2> HIDE DEF b
    <2>3. QED
      BY <1>1, <2>1, <2>2, RequestMoves
  <1>4. QED
    BY <1>2, <1>3

LEMMA NextClusterIInv == ASSUME ClusterIInv, [ClusterNext]_clusterVars PROVE ClusterIInv'
  <1>1. CASE UNCHANGED clusterVars
    BY <1>1 DEF ClusterIInv, clusterVars, Numbered, PlanOK, AnswerOK, AllowsExecution, policyFromEnv, Undoing
  <1>2. QED
    BY <1>1, ControllerKeeps, KubectlKeeps, ExecuteKeeps, ListKeeps, FailKeeps, ClusterUpdateKeeps DEF ClusterNext

LEMMA SpecClusterIInv == ClusterSpec => []ClusterIInv
  BY InitClusterIInv, NextClusterIInv, PTL DEF ClusterSpec

\* The step in which a request takes effect is its update, on the version that it read.
LEMMA EffectStep ==
    ASSUME ClusterIInv, [ClusterNext]_clusterVars, NEW r \in Runbooks, TakesEffect(r)
    PROVE  /\ runbook[r].at = "update" /\ deployment.version = runbook[r].read.version
           /\ deployment' = Stored(Changed(runbook[r]))
  <1>1. runbook' # runbook /\ ClusterNext /\ ~ ControllerSync /\ ~ Kubectl
    BY DEF TakesEffect, clusterVars, ControllerSync, Kubectl
  <1>2. PICK o \in Runbooks :
            \/ \E q \in Requests, dryRun \in BOOLEAN : ExecuteRunbook(o, q, dryRun)
            \/ ListReplicaSets(o) \/ UpdateDeployment(o) \/ ApiFails(o) \/ UpdateUnanswered(o)
    BY <1>1 DEF ClusterNext
  <1>3. DOMAIN runbook = Runbooks
    BY DEF ClusterIInv
  <1>4. ~ runbook[r].applied /\ runbook'[r].applied
    BY DEF TakesEffect
  <1>5. \A q, dryRun : ~ ExecuteRunbook(o, q, dryRun)
    BY <1>3, <1>4 DEF ExecuteRunbook, Answer
  <1>6. ~ ApiFails(o)
    BY <1>3, <1>4 DEF ApiFails, Answer
  <1>7. ~ ListReplicaSets(o)
    <2>1. SUFFICES ASSUME ListReplicaSets(o) PROVE runbook'[r].applied = FALSE \/ runbook'[r] = runbook[r]
                                                   \/ runbook'[r].applied = runbook[r].applied
      BY <1>4
    <2>2. PlanOK(runbook[o], deployment, replicaSets)
      BY <2>1 DEF ListReplicaSets, ClusterIInv, AnswerOK
    <2>3. CASE \E how : Answer(o, how, FALSE)
      BY <2>3, <1>3 DEF Answer
    <2>4. CASE \E t : runbook' = [runbook EXCEPT ![o].chosen = t, ![o].at = "update"]
      <3>1. PICK t : runbook' = [runbook EXCEPT ![o].chosen = t, ![o].at = "update"]
        BY <2>4
      <3>2. runbook'[o].applied = runbook[o].applied
        BY <3>1, <2>2, <1>3 DEF PlanOK
      <3>3. o # r => runbook'[r] = runbook[r]
        BY <3>1, <1>3
      <3>4. QED
        BY <3>2, <3>3
    <2>5. QED
      BY <2>1, <2>3, <2>4 DEF ListReplicaSets
  <1>8. UpdateDeployment(o) \/ UpdateUnanswered(o)
    BY <1>2, <1>5, <1>6, <1>7
  <1>9. o = r
    BY <1>3, <1>4, <1>8 DEF UpdateDeployment, UpdateUnanswered, Answer
  <1>10. QED
    BY <1>3, <1>4, <1>8, <1>9 DEF UpdateDeployment, UpdateUnanswered, Answer

LEMMA UndoesLast ==
    ASSUME ClusterIInv, [ClusterNext]_clusterVars, NEW r \in Runbooks, TakesEffect(r),
           runbook[r].action = "ROLLBACK", runbook[r].want = 0
    PROVE  deployment'.template = previous
  <1> DEFINE q == runbook[r]
             rev == deployment.revision
  <1>1. /\ q.at = "update" /\ deployment.version = q.read.version /\ deployment' = Stored(Changed(q))
    BY EffectStep
  <1>2. PlanOK(q, deployment, replicaSets) /\ q.read = deployment
    BY <1>1, EffectIs
  <1>3. q.chosen \in Undoing(replicaSets, rev)
    BY <1>1, <1>2 DEF PlanOK
  <1>4. /\ rev \in Nat \ {0} /\ replicaSets \in [Templates -> Nat] /\ previous \in Templates /\ q.chosen \in Templates
        /\ replicaSets[q.chosen] \in Nat /\ replicaSets[q.chosen] \notin {0, rev} /\ replicaSets[q.chosen] <= rev
    BY <1>3 DEF ClusterIInv, Numbered, Deployments, Undoing
  <1>5. rev # 1 /\ replicaSets[previous] = rev - 1
    BY <1>4 DEF ClusterIInv, Numbered
  <1>6. replicaSets[q.chosen] >= replicaSets[previous]
    BY <1>3, <1>4, <1>5 DEF Undoing
  <1>7. replicaSets[q.chosen] = replicaSets[previous]
    BY <1>4, <1>5, <1>6
  <1>8. q.chosen = previous
    BY <1>4, <1>7 DEF ClusterIInv, Numbered
  <1>9. deployment \in Deployments
    BY DEF ClusterIInv
  <1> HIDE DEF q
  <1>10. deployment'.template = q.chosen
    BY <1>1, <1>2, <1>9 DEF Stored, Changed, Deployments, q
  <1>11. QED
    BY <1>8, <1>10

\* As NothingOverwritten has it, of one request.
OnlyItsOwn(r) ==
    LET before == IF runbook[r].action = "ROLLBACK" THEN [deployment EXCEPT !.template = deployment'.template]
                  ELSE IF runbook[r].action = "SCALE" THEN [deployment EXCEPT !.replicas = deployment'.replicas]
                  ELSE [deployment EXCEPT !.stamp = deployment'.stamp]
    IN  deployment' = Stored(before) /\ runbook[r].read = deployment

LEMMA OverwritesNothing ==
    ASSUME ClusterIInv, [ClusterNext]_clusterVars, NEW r \in Runbooks, TakesEffect(r)
    PROVE  OnlyItsOwn(r)
  <1> DEFINE q == runbook[r]
  <1>1. /\ q.at = "update" /\ deployment.version = q.read.version /\ deployment' = Stored(Changed(q))
    BY EffectStep
  <1>2. q.read = deployment /\ q.action \in {"ROLLBACK", "RESTART_PODS", "SCALE"}
    BY <1>1, EffectIs
  <1>3. deployment \in Deployments
    BY DEF ClusterIInv
  <1> HIDE DEF q
  <1>4. CASE q.action = "ROLLBACK"
    BY <1>1, <1>2, <1>3, <1>4 DEF OnlyItsOwn, Stored, Changed, Deployments, q
  <1>5. CASE q.action = "SCALE"
    BY <1>1, <1>2, <1>3, <1>5 DEF OnlyItsOwn, Stored, Changed, Deployments, q
  <1>6. CASE q.action = "RESTART_PODS"
    BY <1>1, <1>2, <1>3, <1>6 DEF OnlyItsOwn, Stored, Changed, Deployments, q
  <1>7. QED
    BY <1>2, <1>4, <1>5, <1>6

LEMMA ReportsTrue == ClusterIInv => ReportsAreTrue
  <1>1. SUFFICES ASSUME ClusterIInv, NEW r \in Runbooks
                 PROVE  /\ runbook[r].at = "dry" => ~ runbook[r].applied
                        /\ runbook[r].at = "done" => runbook[r].applied
                        /\ runbook[r].applied => ParsedMode(mode) \notin {"off", "dry-run"} /\ connected
    BY DEF ReportsAreTrue
  <1>2. AllowsExecution => ParsedMode(mode) \notin {"off", "dry-run"}
    BY DEF AllowsExecution, policyFromEnv
  <1>3. CASE AnswerOK(runbook[r])
    BY <1>2, <1>3 DEF AnswerOK
  <1>4. CASE runbook[r].at \in {"list", "update"} /\ PlanOK(runbook[r], deployment, replicaSets)
    BY <1>4 DEF PlanOK
  <1>5. QED
    BY <1>1, <1>3, <1>4 DEF ClusterIInv

\* The contract of a runbook, for any number of requests, templates, rollouts and failed
\* calls: a rollback undoes the last change, nothing done meanwhile is overwritten, and
\* what is reported, and nothing the policy forbids, was done.
THEOREM RunbooksExact == ClusterSpec => RunbooksAreExact
  <1> DEFINE Undoes == \A r \in Runbooks :
                /\ TakesEffect(r) /\ runbook[r].action = "ROLLBACK" /\ runbook[r].want = 0
                /\ deployment.revision = replicaSets[deployment.template]
                => deployment'.template = previous
             Spares == \A r \in Runbooks : TakesEffect(r) => OnlyItsOwn(r)
  <1>1. ClusterIInv /\ [ClusterNext]_clusterVars => [Undoes]_clusterVars /\ [Spares]_clusterVars
    BY UndoesLast, OverwritesNothing
  <1>2. RollbackUndoesLastChange <=> [][Undoes]_clusterVars
    BY DEF RollbackUndoesLastChange
  <1>3. NothingOverwritten <=> [][Spares]_clusterVars
    BY DEF NothingOverwritten, OnlyItsOwn
  <1> HIDE DEF Undoes, Spares
  <1>4. QED
    BY <1>1, <1>2, <1>3, SpecClusterIInv, ReportsTrue, PTL DEF ClusterSpec, RunbooksAreExact

LEMMA ClusterTypes == ClusterIInv => ClusterTypeOK
  <1>1. SUFFICES ASSUME ClusterIInv PROVE ClusterTypeOK
    OBVIOUS
  <1>2. \A r \in Runbooks : runbook[r].at \in {"idle", "list", "update", "dry", "done", "error"}
    BY <1>1 DEF ClusterIInv, AnswerOK
  <1>3. QED
    BY <1>1, <1>2 DEF ClusterIInv, ClusterTypeOK, Deployments, Numbered

-----------------------------------------------------------------------------
(* Error groups *)

\* The row is as autoReopen leaves it.
Reopened == triage.status = "open" /\ triage.resolvedAt = 0

\* What a worker has read, sn, is as old as its scan, or the decision it carries out
\* has been overtaken by an operator's.
ScanOK(sn) ==
    /\ sn.at = "triage" => /\ sn.first = seen.first /\ seen.first # 0
                           /\ sn.now <= errClock /\ sn.last <= seen.last
    /\ sn.at = "reopen" => /\ triageKnown /\ sn.version <= edits
                           /\ sn.version = edits => Regressed \/ Reopened

\* A worker with scan sn and edge-trigger state al may still page for the row as it is.
CanPage(row, sn, al, spans, now) ==
    \/ /\ row.status = Empty /\ ~ al
       /\ IF sn.at = "triage" THEN sn.first + ScanWindow > sn.now
          ELSE spans.first = 0 \/ spans.first + ScanWindow > now
    \/ /\ row.status = "resolved"
       /\ ~ (al /\ spans.last > row.resolvedAt /\ (sn.at = "triage" => sn.last > row.resolvedAt))

MayPage == {s \in Scanners : CanPage(triage, scan[s], alerted[s], seen, errClock)}

Allowance == Cardinality(Scanners) * (1 + timesResolved)

\* The pages sent, and those still to come before anything new happens, are allowed for.
Budgeted == errPages + Cardinality(MayPage) <= Allowance + errRestarts + errFaults

\* The inductive invariant.
ErrIInv == ErrTypeOK /\ (\A s \in Scanners : ScanOK(scan[s])) /\ Budgeted

LEMMA EmptyIs == Empty \notin {"resolved", "muted", "open", "snoozed", "regression", "new"}
  BY Zenon DEF Empty

LEMMA TimesNat == ASSUME NEW a \in Nat, NEW b \in Nat PROVE a * b \in Nat
  OBVIOUS

LEMMA ScannersAre == Cardinality(Scanners) \in Nat /\ PageCap \in Nat
  <1>1. Cardinality(Scanners) \in Nat
    BY ErrAssumption, FS_CardinalityType
  <1> DEFINE n == Cardinality(Scanners)
             m == MaxTriage + MaxErrFaults + MaxErrRestarts + 2
  <1>2. m \in Nat /\ n \in Nat
    BY <1>1, ErrAssumption
  <1> HIDE DEF n, m
  <1>3. n * m \in Nat
    BY <1>2, TimesNat
  <1>4. QED
    BY <1>1, <1>3 DEF PageCap, n, m

\* The times resolved allow for a page of each worker.
LEMMA AllowanceIs ==
    ASSUME ErrTypeOK
    PROVE  Allowance \in Nat /\ (timesResolved' = timesResolved + 1 => Allowance' = Allowance + Cardinality(Scanners))
  <1> DEFINE n == Cardinality(Scanners)
  <1>1. n \in Nat /\ timesResolved \in Nat /\ 1 + timesResolved \in Nat
    BY ScannersAre DEF ErrTypeOK
  <1> HIDE DEF n
  <1>2. n * (1 + timesResolved) \in Nat
    BY <1>1, TimesNat
  <1>3. n * (1 + (timesResolved + 1)) = n * (1 + timesResolved) + n
    BY <1>1
  <1>4. QED
    BY <1>2, <1>3 DEF Allowance, n

\* Subsets of the workers.
LEMMA Fewer ==
    ASSUME NEW S \in SUBSET Scanners, NEW T \in SUBSET Scanners
    PROVE  /\ Cardinality(S) \in Nat /\ Cardinality(S) <= Cardinality(Scanners)
           /\ S \subseteq T => Cardinality(S) <= Cardinality(T)
           /\ \A s \in Scanners : S \subseteq T \cup {s} => Cardinality(S) <= Cardinality(T) + 1
           /\ \A s \in T : S \subseteq T \ {s} => Cardinality(S) + 1 <= Cardinality(T)
  <1>1. IsFiniteSet(S) /\ IsFiniteSet(T) /\ Cardinality(S) <= Cardinality(Scanners)
    BY ErrAssumption, FS_Subset
  <1>2. Cardinality(S) \in Nat /\ Cardinality(T) \in Nat
    BY <1>1, FS_CardinalityType
  <1>3. S \subseteq T => Cardinality(S) <= Cardinality(T)
    BY <1>1, FS_Subset
  <1>4. ASSUME NEW s \in Scanners, S \subseteq T \cup {s} PROVE Cardinality(S) <= Cardinality(T) + 1
    <2>1. IsFiniteSet(T \cup {s}) /\ Cardinality(T \cup {s}) = IF s \in T THEN Cardinality(T) ELSE Cardinality(T) + 1
      BY <1>1, FS_AddElement
    <2>2. Cardinality(S) <= Cardinality(T \cup {s})
      BY <2>1, <1>4, FS_Subset
    <2>3. QED
      BY <2>1, <2>2, <1>2
  <1>5. ASSUME NEW s \in T, S \subseteq T \ {s} PROVE Cardinality(S) + 1 <= Cardinality(T)
    <2>1. IsFiniteSet(T \ {s}) /\ Cardinality(T \ {s}) = Cardinality(T) - 1
      BY <1>1, <1>5, FS_RemoveElement
    <2>2. Cardinality(S) <= Cardinality(T \ {s})
      BY <2>1, <1>5, FS_Subset
    <2>3. QED
      BY <2>1, <2>2, <1>2
  <1>6. QED
    BY <1>1, <1>2, <1>3, <1>4, <1>5

LEMMA MayPageIn == MayPage \in SUBSET Scanners /\ MayPage' \in SUBSET Scanners
  BY DEF MayPage

LEMMA CountsAre ==
    ASSUME ErrTypeOK
    PROVE  errPages \in Nat /\ errRestarts \in Nat /\ errFaults \in Nat /\ Cardinality(MayPage) \in Nat /\ Allowance \in Nat
  BY MayPageIn, Fewer, AllowanceIs, ScannersAre, ErrAssumption DEF ErrTypeOK

\* A step that lets no worker page that could not, and sends no page.
LEMMA QuietStep ==
    ASSUME ErrIInv, MayPage' \subseteq MayPage, errPages' = errPages, UNCHANGED <<timesResolved, errRestarts>>,
           errFaults' = errFaults \/ errFaults' = errFaults + 1
    PROVE  Budgeted'
  <1>1. Cardinality(MayPage') <= Cardinality(MayPage) /\ Cardinality(MayPage') \in Nat
    BY MayPageIn, Fewer
  <1>2. errPages \in Nat /\ errRestarts \in Nat /\ errFaults \in Nat /\ Cardinality(MayPage) \in Nat /\ Allowance \in Nat
    BY CountsAre DEF ErrIInv
  <1>3. Allowance' = Allowance
    BY DEF Allowance
  <1>4. QED
    BY <1>1, <1>2, <1>3 DEF Budgeted, ErrIInv

LEMMA InitErrIInv == ASSUME ErrInit PROVE ErrIInv
  <1>1. ErrTypeOK
    BY ErrAssumption, ScannersAre, EmptyIs DEF ErrInit, ErrTypeOK, NoRow, NoScan, ErrTimes
  <1>2. \A s \in Scanners : ScanOK(scan[s])
    BY DEF ErrInit, ScanOK, NoScan
  <1>3. Budgeted
    <2>1. Cardinality(MayPage) <= Cardinality(Scanners) /\ Cardinality(MayPage) \in Nat /\ Cardinality(Scanners) \in Nat
      BY MayPageIn, Fewer, ScannersAre
    <2>2. Allowance = Cardinality(Scanners)
      BY <2>1 DEF Allowance, ErrInit
    <2>3. QED
      BY <2>1, <2>2 DEF Budgeted, ErrInit
  <1>4. QED
    BY <1>1, <1>2, <1>3 DEF ErrIInv

\* An operator's request.
LEMMA EditKeeps ==
    ASSUME ErrIInv, NEW row \in [status : triageStatuses, resolvedAt : ErrTimes, until : 0..MaxErrTime + 1],
           row.resolvedAt <= errClock, row.status = "resolved" => row.resolvedAt > 0, Edit(row)
    PROVE  ErrIInv'
  <1>1. /\ edits < MaxTriage /\ edits' = edits + 1 /\ triage' = row
        /\ triageKnown' = TRUE
        /\ timesResolved' = IF row.status = "resolved" THEN timesResolved + 1 ELSE timesResolved
        /\ UNCHANGED <<errClock, seen, scan, alerted, errPages, errFaults, errRestarts>>
    BY DEF Edit
  <1>2. ErrTypeOK
    BY DEF ErrIInv
  <1>3. /\ edits' \in 0..MaxTriage /\ timesResolved' \in 0..edits'
    BY <1>1, <1>2, ErrAssumption DEF ErrTypeOK
  <1>4. triage' \in [status : triageStatuses \cup {Empty}, resolvedAt : ErrTimes, until : 0..MaxErrTime + 1]
    BY <1>1
  <1>5. ErrTypeOK'
    BY <1>1, <1>2, <1>3, <1>4 DEF ErrTypeOK, PageCap
  <1>6. \A s \in Scanners : ScanOK(scan[s])'
    <2>1. SUFFICES ASSUME NEW s \in Scanners PROVE ScanOK(scan[s])'
      OBVIOUS
    <2>2. ScanOK(scan[s]) /\ scan[s].version \in Nat /\ edits \in Nat
      BY <1>2, ErrAssumption DEF ErrIInv, ErrTypeOK
    <2>3. scan[s].at = "reopen" => scan[s].version <= edits' /\ scan[s].version # edits'
      BY <1>1, <2>2 DEF ScanOK
    <2>4. QED
      BY <1>1, <2>2, <2>3 DEF ScanOK
  <1>7. Budgeted'
    <2>1. CASE row.status = "resolved"
      <3>1. Cardinality(MayPage') <= Cardinality(Scanners) /\ Cardinality(MayPage') \in Nat /\ Cardinality(Scanners) \in Nat
        BY MayPageIn, Fewer, ScannersAre
      <3>2. Allowance' = Allowance + Cardinality(Scanners)
        BY <1>1, <1>2, <2>1, AllowanceIs
      <3>3. errPages \in Nat /\ errRestarts \in Nat /\ errFaults \in Nat /\ Cardinality(MayPage) \in Nat /\ Allowance \in Nat
        BY <1>2, CountsAre
      <3>4. QED
        BY <1>1, <3>1, <3>2, <3>3 DEF Budgeted, ErrIInv
    <2>2. CASE row.status # "resolved"
      <3>1. MayPage' = {}
        BY <1>1, <2>2, EmptyIs DEF MayPage, CanPage, triageStatuses
      <3>2. QED
        BY <1>1, <2>2, <3>1, QuietStep
    <2>3. QED
      BY <2>1, <2>2
  <1>8. QED
    BY <1>5, <1>6, <1>7 DEF ErrIInv

LEMMA RequestsKeep ==
    ASSUME ErrIInv,
           \/ \E status \in {"resolved", "muted", "open"} : setStatus(status) \/ UpdateErrorGroup(status)
           \/ \E until \in 1..MaxErrTime + 1 : Snooze(until)
    PROVE  ErrIInv'
  <1>1. /\ triage \in [status : triageStatuses \cup {Empty}, resolvedAt : ErrTimes, until : 0..MaxErrTime + 1]
        /\ triage.resolvedAt <= errClock /\ errClock \in 1..MaxErrTime
    BY DEF ErrIInv, ErrTypeOK
  <1>2. errClock \in ErrTimes /\ errClock > 0 /\ errClock <= errClock /\ 0 \in ErrTimes /\ 0 <= errClock /\ 0 \in 0..MaxErrTime + 1
    BY <1>1, ErrAssumption DEF ErrTimes
  <1>3. ASSUME NEW status \in {"resolved", "muted", "open"}, setStatus(status) PROVE ErrIInv'
    <2> DEFINE row == [triage EXCEPT !.status = status, !.resolvedAt = IF status = "resolved" THEN errClock ELSE 0]
    <2>1. /\ row \in [status : triageStatuses, resolvedAt : ErrTimes, until : 0..MaxErrTime + 1]
          /\ row.resolvedAt <= errClock /\ (row.status = "resolved" => row.resolvedAt > 0)
      BY <1>1, <1>2 DEF triageStatuses
    <2>2. Edit(row)
      BY <1>3 DEF setStatus
    <2> HIDE DEF row
    <2>3. QED
      BY <2>1, <2>2, EditKeeps
  <1>4. ASSUME NEW status \in {"resolved", "muted", "open"}, UpdateErrorGroup(status) PROVE ErrIInv'
    <2> DEFINE row == [triage EXCEPT !.status = status, !.until = 0,
                           !.resolvedAt = IF status = "resolved" THEN errClock ELSE @]
    <2>1. /\ row \in [status : triageStatuses, resolvedAt : ErrTimes, until : 0..MaxErrTime + 1]
          /\ row.resolvedAt <= errClock /\ (row.status = "resolved" => row.resolvedAt > 0)
      BY <1>1, <1>2 DEF triageStatuses
    <2>2. Edit(row)
      BY <1>4 DEF UpdateErrorGroup
    <2> HIDE DEF row
    <2>3. QED
      BY <2>1, <2>2, EditKeeps
  <1>5. ASSUME NEW until \in 1..MaxErrTime + 1, Snooze(until) PROVE ErrIInv'
    <2> DEFINE row == [triage EXCEPT !.status = "snoozed", !.until = until]
    <2>1. until \in 0..MaxErrTime + 1
      BY ErrAssumption
    <2>2. /\ row \in [status : triageStatuses, resolvedAt : ErrTimes, until : 0..MaxErrTime + 1]
          /\ row.resolvedAt <= errClock /\ row.status # "resolved"
      BY <1>1, <2>1 DEF triageStatuses
    <2>3. Edit(row)
      BY <1>5 DEF Snooze
    <2> HIDE DEF row
    <2>4. QED
      BY <2>2, <2>3, EditKeeps
  <1>6. QED
    BY <1>3, <1>4, <1>5

ScanRow == [at : {"wait", "triage", "reopen"}, now : ErrTimes, first : ErrTimes, last : ErrTimes, version : 0..MaxTriage]

LEMMA NoScanIs == NoScan \in ScanRow /\ NoScan.at = "wait"
  BY ErrAssumption DEF NoScan, ScanRow, ErrTimes

\* A step of one worker says nothing of the others.
LEMMA OthersMay ==
    ASSUME ErrIInv, NEW s \in Scanners, NEW sn, NEW al, scan' = [scan EXCEPT ![s] = sn],
           alerted' = [alerted EXCEPT ![s] = al], UNCHANGED <<triage, seen, errClock>>
    PROVE  /\ MayPage' \subseteq MayPage \cup {s}
           /\ s \in MayPage' <=> CanPage(triage, sn, al, seen, errClock)
           /\ s \in MayPage <=> CanPage(triage, scan[s], alerted[s], seen, errClock)
  <1>1. /\ \A o \in Scanners : o # s => scan'[o] = scan[o] /\ alerted'[o] = alerted[o]
        /\ scan'[s] = sn /\ alerted'[s] = al
    BY DEF ErrIInv, ErrTypeOK
  <1>2. QED
    BY <1>1 DEF MayPage

\* A worker moves on; what it does to the row, the pages and the counts is apart.
LEMMA ScanMoves ==
    ASSUME ErrIInv, NEW s \in Scanners, NEW sn \in ScanRow, NEW al \in BOOLEAN,
           scan' = [scan EXCEPT ![s] = sn], alerted' = [alerted EXCEPT ![s] = al],
           UNCHANGED <<triage, seen, errClock, triageKnown, edits, timesResolved>>, ScanOK(sn),
           errFaults' \in 0..MaxErrFaults, errRestarts' \in 0..MaxErrRestarts, errPages' \in 0..PageCap, Budgeted'
    PROVE  ErrIInv'
  <1>1. scan' \in [Scanners -> ScanRow] /\ alerted' \in [Scanners -> BOOLEAN]
    BY DEF ErrIInv, ErrTypeOK, ScanRow
  <1>2. ErrTypeOK'
    BY <1>1 DEF ErrIInv, ErrTypeOK, ScanRow, PageCap
  <1>3. \A o \in Scanners : scan'[o] = sn \/ scan'[o] = scan[o]
    BY DEF ErrIInv, ErrTypeOK
  <1>4. \A o \in Scanners : ScanOK(scan'[o])
    BY <1>3 DEF ErrIInv
  <1>5. \A o \in Scanners : ScanOK(scan[o])'
    BY <1>4 DEF ScanOK, Regressed, Reopened
  <1>6. QED
    BY <1>2, <1>5 DEF ErrIInv

LEMMA ScanKeeps == ASSUME ErrIInv, NEW s \in Scanners, runRegressionScan(s) PROVE ErrIInv'
  <1> DEFINE sn == recentErrorGroups
  <1>1. /\ scan[s].at = "wait" /\ seen.first # 0 /\ scan' = [scan EXCEPT ![s] = sn]
        /\ UNCHANGED <<errClock, seen, triage, triageKnown, alerted, errPages, timesResolved, edits, errFaults, errRestarts>>
    BY DEF runRegressionScan
  <1>2. ErrTypeOK
    BY DEF ErrIInv
  <1>3. /\ sn.at = "triage" /\ sn.first = seen.first /\ sn.last = seen.last /\ sn.now = errClock
        /\ sn \in ScanRow
    BY <1>2, ErrAssumption DEF recentErrorGroups, ScanRow, ErrTypeOK, ErrTimes
  <1>4. ScanOK(sn)
    BY <1>1, <1>2, <1>3, ErrAssumption DEF ScanOK, ErrTypeOK, ErrTimes
  <1>5. alerted' = [alerted EXCEPT ![s] = alerted[s]] /\ alerted[s] \in BOOLEAN
    BY <1>1, <1>2 DEF ErrTypeOK
  <1> HIDE DEF sn
  <1>6. MayPage' \subseteq MayPage
    <2>1. /\ MayPage' \subseteq MayPage \cup {s}
          /\ s \in MayPage' <=> CanPage(triage, sn, alerted[s], seen, errClock)
          /\ s \in MayPage <=> CanPage(triage, scan[s], alerted[s], seen, errClock)
      BY <1>1, <1>5, OthersMay
    <2>2. s \in MayPage' => s \in MayPage
      BY <1>1, <1>3, <2>1 DEF CanPage
    <2>3. QED
      BY <2>1, <2>2
  <1>7. Budgeted'
    BY <1>1, <1>6, QuietStep
  <1>8. errFaults' \in 0..MaxErrFaults /\ errRestarts' \in 0..MaxErrRestarts /\ errPages' \in 0..PageCap
    BY <1>1, <1>2 DEF ErrTypeOK
  <1>9. QED
    BY <1>1, <1>3, <1>4, <1>5, <1>7, <1>8, ScanMoves

\* What the worker makes of the row, and of no row.
LEMMA KindIs ==
    ASSUME NEW row, NEW first, NEW last, NEW now
    PROVE  LET kind == classifyErrorGroup(row, first, last, now)
           IN  /\ kind = "regression" <=> row.status = "resolved" /\ row.resolvedAt # 0 /\ last > row.resolvedAt
               /\ kind = "new" <=> row.status = Empty /\ first + ScanWindow > now
               /\ kind \in {"regression", "new", Empty}
  <1>1. CASE row.status = "resolved" /\ row.resolvedAt # 0 /\ last > row.resolvedAt
    BY <1>1, EmptyIs DEF classifyErrorGroup
  <1>2. CASE row.status = Empty /\ first + ScanWindow > now
    BY <1>2, EmptyIs DEF classifyErrorGroup
  <1>3. CASE ~ (row.status = "resolved" /\ row.resolvedAt # 0 /\ last > row.resolvedAt) /\ ~ (row.status = Empty /\ first + ScanWindow > now)
    BY <1>3, EmptyIs DEF classifyErrorGroup
  <1>4. QED
    BY <1>1, <1>2, <1>3

\* The sums, when a worker decides: a page it could not have sent, or one more that it
\* may send, is paid for by a fault.
LEMMA DecisionBudgeted ==
    ASSUME ErrIInv, NEW s \in Scanners, MayPage' \subseteq MayPage \cup {s},
           errPages' = errPages \/ errPages' = errPages + 1, UNCHANGED <<timesResolved, errRestarts>>,
           errFaults' = errFaults \/ errFaults' = errFaults + 1,
           errFaults' = errFaults /\ errPages' = errPages => (s \in MayPage' => s \in MayPage),
           errFaults' = errFaults /\ errPages' # errPages => s \in MayPage /\ s \notin MayPage',
           errFaults' # errFaults /\ errPages' # errPages => (s \in MayPage' => s \in MayPage)
    PROVE  Budgeted'
  <1>1. errPages \in Nat /\ errRestarts \in Nat /\ errFaults \in Nat /\ Cardinality(MayPage) \in Nat /\ Allowance \in Nat
    BY CountsAre DEF ErrIInv
  <1>2. Allowance' = Allowance /\ Cardinality(MayPage') \in Nat
    BY MayPageIn, Fewer DEF Allowance
  <1>3. Cardinality(MayPage') <= Cardinality(MayPage) + 1
    BY MayPageIn, Fewer
  <1>4. (s \in MayPage' => s \in MayPage) => Cardinality(MayPage') <= Cardinality(MayPage)
    BY MayPageIn, Fewer
  <1>5. s \in MayPage /\ s \notin MayPage' => Cardinality(MayPage') + 1 <= Cardinality(MayPage)
    <2>1. SUFFICES ASSUME s \in MayPage, s \notin MayPage' PROVE MayPage' \subseteq MayPage \ {s}
      BY MayPageIn, Fewer
    <2>2. QED
      BY <2>1
  <1>6. CASE errFaults' = errFaults /\ errPages' = errPages
    BY <1>6, <1>1, <1>2, <1>4 DEF Budgeted, ErrIInv
  <1>7. CASE errFaults' = errFaults /\ errPages' # errPages
    BY <1>7, <1>1, <1>2, <1>5 DEF Budgeted, ErrIInv
  <1>8. CASE errFaults' # errFaults /\ errPages' # errPages
    BY <1>8, <1>1, <1>2, <1>4 DEF Budgeted, ErrIInv
  <1>9. CASE errFaults' # errFaults /\ errPages' = errPages
    BY <1>9, <1>1, <1>2, <1>3 DEF Budgeted, ErrIInv
  <1>10. QED
    BY <1>6, <1>7, <1>8, <1>9

\* A decision: on the row or, when the query failed, on none.
LEMMA DecideKeeps ==
    ASSUME ErrIInv, NEW s \in Scanners, scan[s].at = "triage", NEW row \in {triage, NoRow}, NEW publishes \in BOOLEAN,
           Decide(s, row, publishes), errFaults' \in 0..MaxErrFaults,
           \/ errFaults' = errFaults /\ row = triage /\ publishes = TRUE
           \/ errFaults' = errFaults + 1
    PROVE  ErrIInv'
  <1> DEFINE old == scan[s]
             kind == classifyErrorGroup(row, old.first, old.last, old.now)
             page == kind # Empty /\ ~ alerted[s]
             al == kind # Empty
             sn == IF page /\ kind = "regression" THEN [old EXCEPT !.at = "reopen", !.version = edits] ELSE NoScan
  <1>1. /\ scan' = [scan EXCEPT ![s] = sn] /\ alerted' = [alerted EXCEPT ![s] = al]
        /\ errPages' = IF page /\ publishes /\ errPages < PageCap THEN errPages + 1 ELSE errPages
        /\ UNCHANGED <<errClock, seen, triage, triageKnown, timesResolved, edits, errRestarts>>
    BY DEF Decide, pageErrorGroup
  <1>2. ErrTypeOK /\ ScanOK(old)
    BY DEF ErrIInv
  <1>3. /\ old \in ScanRow /\ alerted[s] \in BOOLEAN /\ errPages \in 0..PageCap /\ edits \in 0..MaxTriage
        /\ errFaults \in Nat /\ errRestarts \in 0..MaxErrRestarts
        /\ errClock \in Nat /\ seen.first \in Nat /\ seen.last \in Nat /\ triage.resolvedAt \in Nat
        /\ triage.status = "resolved" => triage.resolvedAt > 0 /\ triageKnown
    BY <1>2, EmptyIs, ErrAssumption DEF ErrTypeOK, ScanRow, ErrTimes
  <1>4. /\ old.first = seen.first /\ seen.first # 0 /\ old.now <= errClock /\ old.last <= seen.last
        /\ old.now \in Nat /\ old.last \in Nat
    BY <1>2, <1>3, ErrAssumption DEF ScanOK, ScanRow, ErrTimes
  <1>5. /\ kind = "regression" <=> row.status = "resolved" /\ row.resolvedAt # 0 /\ old.last > row.resolvedAt
        /\ kind = "new" <=> row.status = Empty /\ old.first + ScanWindow > old.now
        /\ kind \in {"regression", "new", Empty}
    BY KindIs
  <1>6. row = NoRow => row.status = Empty
    BY DEF NoRow
  <1> HIDE DEF kind, old
  <1>7. sn \in ScanRow /\ sn.at \in {"wait", "reopen"} /\ ScanOK(sn)
    <2>1. CASE page /\ kind = "regression"
      <3>1. row = triage
        BY <1>5, <1>6, <2>1, EmptyIs
      <3>2. triage.status = "resolved" /\ seen.last > triage.resolvedAt /\ triageKnown
        BY <1>3, <1>4, <1>5, <2>1, <3>1
      <3> DEFINE x == [old EXCEPT !.at = "reopen", !.version = edits]
      <3>3. x \in ScanRow /\ x.at = "reopen" /\ x.version = edits
        BY <1>3 DEF ScanRow
      <3>4. sn = x /\ edits <= edits
        BY <1>3, <2>1, ErrAssumption
      <3> HIDE DEF sn, x
      <3>5. QED
        BY <3>2, <3>3, <3>4 DEF ScanOK, Regressed
    <2>2. CASE ~ (page /\ kind = "regression")
      BY <2>2, NoScanIs DEF ScanOK
    <2>3. QED
      BY <2>1, <2>2
  <1>8. al \in BOOLEAN /\ (al <=> kind # Empty)
    OBVIOUS
  <1> HIDE DEF sn, al
  <1>9. /\ MayPage' \subseteq MayPage \cup {s}
        /\ s \in MayPage' <=> CanPage(triage, sn, al, seen, errClock)
        /\ s \in MayPage <=> CanPage(triage, old, alerted[s], seen, errClock)
    BY <1>1, OthersMay DEF old
  <1>10. old.at = "triage" /\ ScanWindow \in Nat
    BY ErrAssumption DEF old
  <1>11. ~ (errPages' = errPages) => page
    BY <1>1
  <1>12. errFaults' = errFaults /\ errPages' = errPages => (s \in MayPage' => s \in MayPage)
    <2>1. SUFFICES ASSUME row = triage, s \notin MayPage PROVE s \notin MayPage'
      BY <1>3
    <2>2. CASE triage.status = Empty
      BY <1>3, <1>4, <1>5, <1>7, <1>8, <1>9, <1>10, <2>1, <2>2, EmptyIs DEF CanPage
    <2>3. CASE triage.status = "resolved"
      BY <1>3, <1>4, <1>5, <1>7, <1>8, <1>9, <1>10, <2>1, <2>3, EmptyIs DEF CanPage
    <2>4. QED
      BY <1>9, <2>2, <2>3 DEF CanPage
  <1>13. errFaults' = errFaults /\ errPages' # errPages => s \in MayPage /\ s \notin MayPage'
    <2>1. SUFFICES ASSUME row = triage, page PROVE s \in MayPage /\ s \notin MayPage'
      BY <1>3, <1>11
    <2>2. CASE kind = "new"
      BY <1>3, <1>4, <1>5, <1>7, <1>8, <1>9, <1>10, <2>1, <2>2, EmptyIs DEF CanPage
    <2>3. CASE kind = "regression"
      BY <1>3, <1>4, <1>5, <1>7, <1>8, <1>9, <1>10, <2>1, <2>3, EmptyIs DEF CanPage
    <2>4. QED
      BY <1>5, <2>1, <2>2, <2>3
  <1>14. errFaults' # errFaults /\ errPages' # errPages => (s \in MayPage' => s \in MayPage)
    <2>1. SUFFICES ASSUME page, s \in MayPage' PROVE s \in MayPage
      BY <1>11
    <2>2. triage.status = "resolved"
      BY <1>8, <1>9, <2>1 DEF CanPage
    <2>3. QED
      BY <1>9, <2>1, <2>2 DEF CanPage
  <1>15. Budgeted'
    BY <1>1, <1>3, <1>9, <1>12, <1>13, <1>14, DecisionBudgeted
  <1>16. errPages' \in 0..PageCap /\ errRestarts' \in 0..MaxErrRestarts
    BY <1>1, <1>3, ScannersAre
  <1>17. QED
    BY <1>1, <1>7, <1>8, <1>15, <1>16, ScanMoves

LEMMA ReadTriageKeeps == ASSUME ErrIInv, NEW s \in Scanners, ReadTriage(s) PROVE ErrIInv'
  <1>1. errFaults \in 0..MaxErrFaults /\ scan[s].at = "triage"
    BY DEF ErrIInv, ErrTypeOK, ReadTriage
  <1>2. CASE Decide(s, triage, TRUE) /\ UNCHANGED errFaults
    BY <1>1, <1>2, DecideKeeps
  <1>3. CASE /\ errFaults < MaxErrFaults /\ errFaults' = errFaults + 1
             /\ Decide(s, NoRow, TRUE) \/ Decide(s, triage, FALSE)
    <2>1. errFaults' \in 0..MaxErrFaults
      BY <1>1, <1>3, ErrAssumption
    <2>2. QED
      BY <1>1, <1>3, <2>1, DecideKeeps
  <1>4. QED
    BY <1>2, <1>3 DEF ReadTriage

LEMMA ReopenKeeps == ASSUME ErrIInv, NEW s \in Scanners, autoReopen(s) PROVE ErrIInv'
  <1>1. /\ scan[s].at = "reopen" /\ scan' = [scan EXCEPT ![s] = NoScan]
        /\ UNCHANGED <<errClock, seen, triageKnown, alerted, errPages, timesResolved, edits, errRestarts>>
        /\ \/ triage' = [triage EXCEPT !.status = "open", !.resolvedAt = 0] /\ errFaults' = errFaults
           \/ errFaults < MaxErrFaults /\ errFaults' = errFaults + 1 /\ triage' = triage
    BY DEF autoReopen
  <1>2. ErrTypeOK
    BY DEF ErrIInv
  <1>3. errFaults' \in 0..MaxErrFaults
    BY <1>1, <1>2, ErrAssumption DEF ErrTypeOK
  <1>4. CASE triage' = triage
    <2>1. alerted' = [alerted EXCEPT ![s] = alerted[s]] /\ alerted[s] \in BOOLEAN /\ errRestarts' \in 0..MaxErrRestarts
          /\ errPages' \in 0..PageCap
      BY <1>1, <1>2 DEF ErrTypeOK
    <2>2. /\ MayPage' \subseteq MayPage \cup {s}
          /\ s \in MayPage' <=> CanPage(triage, NoScan, alerted[s], seen, errClock)
          /\ s \in MayPage <=> CanPage(triage, scan[s], alerted[s], seen, errClock)
      BY <1>1, <1>4, <2>1, OthersMay
    <2>3. MayPage' \subseteq MayPage
      BY <1>1, <2>2, NoScanIs DEF CanPage
    <2>4. Budgeted'
      BY <1>1, <2>3, QuietStep
    <2>5. ScanOK(NoScan)
      BY NoScanIs DEF ScanOK
    <2>6. QED
      BY <1>1, <1>3, <1>4, <2>1, <2>4, <2>5, NoScanIs, ScanMoves
  <1>5. CASE triage' = [triage EXCEPT !.status = "open", !.resolvedAt = 0]
    <2>0. 0 \in ErrTimes /\ 0 <= errClock /\ "open" \in triageStatuses \cup {Empty}
          /\ triage \in [status : triageStatuses \cup {Empty}, resolvedAt : ErrTimes, until : 0..MaxErrTime + 1]
      BY <1>2, ErrAssumption DEF ErrTypeOK, triageStatuses, ErrTimes
    <2>1. /\ triage' \in [status : triageStatuses \cup {Empty}, resolvedAt : ErrTimes, until : 0..MaxErrTime + 1]
          /\ triage'.status = "open" /\ triage'.resolvedAt = 0 /\ 0 <= errClock
      BY <1>5, <2>0
    <2>2. scan' \in [Scanners -> ScanRow]
      BY <1>1, <1>2, NoScanIs DEF ErrTypeOK, ScanRow
    <2>3. triageKnown
      BY <1>1 DEF ErrIInv, ScanOK
    <2>4. ErrTypeOK'
      BY <1>1, <1>2, <1>3, <2>1, <2>2, <2>3 DEF ErrTypeOK, ScanRow, PageCap
    <2>5. \A o \in Scanners : ScanOK(scan[o])'
      <3>1. SUFFICES ASSUME NEW o \in Scanners PROVE ScanOK(scan[o])'
        OBVIOUS
      <3>2. scan'[o] = NoScan \/ scan'[o] = scan[o]
        BY <1>1, <1>2 DEF ErrTypeOK
      <3>3. ScanOK(scan[o])
        BY DEF ErrIInv
      <3>4. QED
        BY <1>1, <2>1, <3>2, <3>3, NoScanIs DEF ScanOK, Reopened
    <2>6. MayPage' = {}
      BY <2>1, EmptyIs DEF MayPage, CanPage
    <2>7. Budgeted'
      BY <1>1, <2>6, QuietStep
    <2>8. QED
      BY <2>4, <2>5, <2>7 DEF ErrIInv
  <1>6. QED
    BY <1>1, <1>4, <1>5

LEMMA RestartedKeeps == ASSUME ErrIInv, NEW s \in Scanners, RestartScanner(s) PROVE ErrIInv'
  <1>1. /\ errRestarts < MaxErrRestarts /\ errRestarts' = errRestarts + 1
        /\ scan' = [scan EXCEPT ![s] = NoScan] /\ alerted' = [alerted EXCEPT ![s] = FALSE]
        /\ UNCHANGED <<errClock, seen, triage, triageKnown, errPages, timesResolved, edits, errFaults>>
    BY DEF RestartScanner
  <1>2. ErrTypeOK
    BY DEF ErrIInv
  <1>3. errRestarts' \in 0..MaxErrRestarts /\ errFaults' \in 0..MaxErrFaults /\ errPages' \in 0..PageCap
    BY <1>1, <1>2, ErrAssumption DEF ErrTypeOK
  <1>4. Cardinality(MayPage') <= Cardinality(MayPage) + 1 /\ Cardinality(MayPage') \in Nat
    <2>1. MayPage' \subseteq MayPage \cup {s}
      BY <1>1, OthersMay
    <2>2. QED
      BY <2>1, MayPageIn, Fewer
  <1>5. errPages \in Nat /\ errRestarts \in Nat /\ errFaults \in Nat /\ Cardinality(MayPage) \in Nat /\ Allowance \in Nat
    BY <1>2, CountsAre
  <1>6. Allowance' = Allowance
    BY <1>1 DEF Allowance
  <1>7. Budgeted'
    BY <1>1, <1>4, <1>5, <1>6 DEF Budgeted, ErrIInv
  <1>8. ScanOK(NoScan)
    BY NoScanIs DEF ScanOK
  <1>9. QED
    BY <1>1, <1>3, <1>7, <1>8, NoScanIs, ScanMoves

\* Another span, or time passes: a worker that was new to page is no more so.
LEMMA AroundKeeps == ASSUME ErrIInv, ErrorSpan \/ ErrTick \/ OtherTriage PROVE ErrIInv'
  <1>1. ErrTypeOK
    BY DEF ErrIInv
  <1>2. /\ UNCHANGED <<triage, scan, alerted, errPages, timesResolved, edits, errFaults, errRestarts>>
        /\ triageKnown => triageKnown'
    BY DEF ErrorSpan, ErrTick, OtherTriage
  <1>3. /\ errClock \in Nat /\ errClock' \in 1..MaxErrTime /\ errClock <= errClock'
        /\ seen' \in [first : ErrTimes, last : ErrTimes] /\ seen.first \in Nat /\ seen.last \in Nat
        /\ seen'.first <= seen'.last /\ seen'.last <= errClock' /\ seen.last <= seen'.last
        /\ seen'.first = seen.first \/ (seen.first = 0 /\ seen'.first \in Nat)
        /\ triageKnown' \in BOOLEAN /\ seen'.last \in Nat
    <2>1. /\ errClock \in 1..MaxErrTime /\ MaxErrTime \in Nat /\ seen.first \in 0..MaxErrTime /\ seen.last \in 0..MaxErrTime
          /\ seen \in [first : ErrTimes, last : ErrTimes] /\ seen.first <= seen.last /\ seen.last <= errClock
          /\ triageKnown \in BOOLEAN
      BY <1>1, ErrAssumption DEF ErrTypeOK, ErrTimes
    <2>2. CASE ErrorSpan
      <3> DEFINE first == IF seen.first = 0 THEN errClock ELSE seen.first
      <3>1. /\ first \in ErrTimes /\ errClock \in ErrTimes /\ first <= errClock
            /\ first = seen.first \/ (seen.first = 0 /\ first \in Nat)
        BY <2>1 DEF ErrTimes
      <3>2. seen' = [first |-> first, last |-> errClock] /\ UNCHANGED <<errClock, triageKnown>>
        BY <2>2 DEF ErrorSpan
      <3> HIDE DEF first
      <3>3. seen' \in [first : ErrTimes, last : ErrTimes] /\ seen'.first = first /\ seen'.last = errClock
        BY <3>1, <3>2
      <3>4. QED
        BY <2>1, <3>1, <3>2, <3>3
    <2>3. CASE ErrTick
      BY <2>1, <2>3 DEF ErrTick
    <2>4. CASE OtherTriage
      BY <2>1, <2>4 DEF OtherTriage
    <2>5. QED
      BY <2>2, <2>3, <2>4
  <1>4. triage.resolvedAt \in Nat /\ triage.resolvedAt <= errClock'
    BY <1>1, <1>3, ErrAssumption DEF ErrTypeOK, ErrTimes
  <1>5. ErrTypeOK'
    BY <1>1, <1>2, <1>3, <1>4 DEF ErrTypeOK, PageCap
  <1>6. \A s \in Scanners : scan[s].now \in Nat /\ scan[s].last \in Nat /\ scan[s].first \in Nat
    BY <1>1, ErrAssumption DEF ErrTypeOK, ErrTimes
  <1>7. \A s \in Scanners : ScanOK(scan[s])'
    <2>1. SUFFICES ASSUME NEW s \in Scanners PROVE ScanOK(scan[s])'
      OBVIOUS
    <2>2. ScanOK(scan[s])
      BY DEF ErrIInv
    <2>3. scan[s].at = "triage" => /\ scan[s].first = seen'.first /\ seen'.first # 0
                                   /\ scan[s].now <= errClock' /\ scan[s].last <= seen'.last
      BY <1>3, <1>6, <2>2 DEF ScanOK
    <2>4. Regressed => Regressed'
      BY <1>2, <1>3, <1>4 DEF Regressed
    <2>5. QED
      BY <1>2, <2>2, <2>3, <2>4 DEF ScanOK, Reopened
  <1>8. MayPage' \subseteq MayPage
    <2>1. SUFFICES ASSUME NEW s \in Scanners, CanPage(triage, scan[s], alerted[s], seen', errClock')
                   PROVE  CanPage(triage, scan[s], alerted[s], seen, errClock)
      BY <1>2 DEF MayPage
    <2>2. CASE triage.status = Empty
      BY <1>3, <1>6, <2>1, <2>2, EmptyIs, ErrAssumption DEF CanPage
    <2>3. CASE triage.status = "resolved"
      BY <1>3, <1>4, <1>6, <2>1, <2>3, EmptyIs DEF CanPage
    <2>4. QED
      BY <2>1, <2>2, <2>3 DEF CanPage
  <1>9. Budgeted'
    BY <1>2, <1>8, QuietStep
  <1>10. QED
    BY <1>5, <1>7, <1>9 DEF ErrIInv

LEMMA NextErrIInv == ASSUME ErrIInv, [ErrNext]_errVars PROVE ErrIInv'
  <1>1. CASE UNCHANGED errVars
    BY <1>1 DEF errVars, ErrIInv, ErrTypeOK, PageCap, ScanOK, Regressed, Reopened, Budgeted, MayPage, Allowance
  <1>2. QED
    BY <1>1, RequestsKeep, ScanKeeps, ReadTriageKeeps, ReopenKeeps, RestartedKeeps, AroundKeeps DEF ErrNext

LEMMA SpecErrIInv == ErrSpec => []ErrIInv
  BY InitErrIInv, NextErrIInv, PTL DEF ErrSpec

\* A group does not storm, for any number of gateways, scans, restarts and requests: every
\* page is paid for by the group being new, a resolution, a restart or a failure.
THEOREM NoStormOfPages == ErrSpec => []NoPageStorm
  <1>1. ErrIInv => NoPageStorm
    <2>1. SUFFICES ASSUME ErrIInv PROVE NoPageStorm
      OBVIOUS
    <2>2. errPages \in Nat /\ errRestarts \in Nat /\ errFaults \in Nat /\ Cardinality(MayPage) \in Nat /\ Allowance \in Nat
      BY <2>1, CountsAre DEF ErrIInv
    <2>3. errPages <= Allowance + errRestarts + errFaults
      BY <2>1, <2>2 DEF ErrIInv, Budgeted
    <2>4. QED
      BY <2>3 DEF NoPageStorm, Allowance
  <1>2. QED
    BY <1>1, SpecErrIInv, PTL

\* Nothing but a request and autoReopen writes the row.
LEMMA ReopenedBy ==
    ASSUME ErrIInv, [ErrNext]_errVars, triage' # triage, edits' = edits
    PROVE  \E s \in Scanners : scan[s].at = "reopen" /\ (scan[s].version = edits => Regressed)
  <1>1. edits \in Nat
    BY ErrAssumption DEF ErrIInv, ErrTypeOK
  <1>2. PICK s \in Scanners : autoReopen(s)
    <2>1. ~ UNCHANGED errVars /\ ~ ErrorSpan /\ ~ ErrTick /\ ~ OtherTriage
      BY DEF errVars, ErrorSpan, ErrTick, OtherTriage
    <2>2. \A row : ~ Edit(row)
      BY <1>1 DEF Edit
    <2>3. \A x : ~ setStatus(x) /\ ~ UpdateErrorGroup(x) /\ ~ Snooze(x)
      BY <2>2 DEF setStatus, UpdateErrorGroup, Snooze
    <2>4. \A s, row, p : ~ Decide(s, row, p)
      BY DEF Decide
    <2>5. \A s : ~ runRegressionScan(s) /\ ~ ReadTriage(s) /\ ~ RestartScanner(s)
      BY <2>4 DEF runRegressionScan, ReadTriage, RestartScanner
    <2>6. QED
      BY <2>1, <2>3, <2>5 DEF ErrNext
  <1>3. triage' = [triage EXCEPT !.status = "open", !.resolvedAt = 0] /\ scan[s].at = "reopen"
    BY <1>2 DEF autoReopen
  <1>4. ~ Reopened
    <2>1. SUFFICES ASSUME Reopened PROVE [triage EXCEPT !.status = "open", !.resolvedAt = 0] = triage
      BY <1>3
    <2>2. triage \in [status : triageStatuses \cup {Empty}, resolvedAt : ErrTimes, until : 0..MaxErrTime + 1]
      BY DEF ErrIInv, ErrTypeOK
    <2>3. QED
      BY <2>1, <2>2 DEF Reopened
  <1>5. scan[s].version = edits => Regressed
    BY <1>3, <1>4 DEF ErrIInv, ScanOK
  <1>6. QED
    BY <1>3, <1>5

\* The worker takes back only decisions on groups that have regressed, or that were made
\* while it was about to write, for any number of gateways and operators.
THEOREM DecisionsAreKept == ErrSpec => DecisionsOnlyLoseRaces
  <1> DEFINE Kept == triage' # triage /\ edits' = edits =>
                        \E s \in Scanners : /\ scan[s].at = "reopen"
                                            /\ scan[s].version = edits => Regressed
  <1>1. ErrIInv /\ [ErrNext]_errVars => [Kept]_errVars
    BY ReopenedBy
  <1>2. DecisionsOnlyLoseRaces <=> [][Kept]_errVars
    BY DEF DecisionsOnlyLoseRaces
  <1> HIDE DEF Kept
  <1>3. QED
    BY <1>1, <1>2, SpecErrIInv, PTL DEF ErrSpec

-----------------------------------------------------------------------------
(* Synthetic checks *)

Rounds == [active : BOOLEAN, todo : SUBSET CheckDefs, results : SUBSET (ProbeUrls \X BOOLEAN)]

OnePerUrl(S) == \A c, d \in S : RowUrl(c) = RowUrl(d) => c = d

NoSharedName(S) == \A c, d \in S : CheckName(c) = CheckName(d) => RowUrl(c) = RowUrl(d)

\* Row u has paged in this outage, once: its check is remembered as failing, and a round
\* under way has no other version of the row.
PagedOnce(u) ==
    /\ outage[u] = 1
    /\ \E c \in targets : /\ RowUrl(c) = u /\ CheckName(c) \in lastFailed
                          /\ \A d \in round.todo : RowUrl(d) = u => d = c

\* The inductive invariant.
SynIInv ==
    /\ answers \in [ProbeUrls -> Responses] /\ targets \subseteq CheckDefs /\ OnePerUrl(targets)
    /\ round \in Rounds /\ OnePerUrl(round.todo)
    /\ lastFailed \subseteq {CheckName(c) : c \in CheckDefs}
    /\ recorded \in [ProbeUrls -> {"none", "success", "failure"}]
    /\ outage \in [ProbeUrls -> 0..2] /\ everShared \in BOOLEAN
    /\ synEdits \in 0..MaxSynEdits /\ synShifts \in 0..MaxSynShifts /\ synFaults \in 0..MaxSynFaults
    /\ ~ everShared => /\ NoSharedName(targets \cup round.todo)
                       /\ \A u \in ProbeUrls : outage[u] # 0 => PagedOnce(u)

LEMMA InitSynIInv == ASSUME SynInit PROVE SynIInv
  <1>1. targets \subseteq CheckDefs /\ \A c, d \in targets : c = d
    BY DEF SynInit
  <1>2. round \in Rounds /\ round.todo = {}
    BY DEF SynInit, NoRound, Rounds
  <1>3. 0 \in 0..MaxSynEdits /\ 0 \in 0..MaxSynShifts /\ 0 \in 0..MaxSynFaults
    BY SynAssumption
  <1>4. answers \in [ProbeUrls -> Responses]
    BY DEF SynInit
  <1>5. OnePerUrl(targets) /\ OnePerUrl(round.todo) /\ NoSharedName(targets \cup round.todo)
    BY <1>1, <1>2 DEF OnePerUrl, NoSharedName
  <1>6. /\ outage \in [ProbeUrls -> 0..2] /\ \A u \in ProbeUrls : outage[u] = 0
        /\ recorded \in [ProbeUrls -> {"none", "success", "failure"}] /\ everShared \in BOOLEAN
        /\ lastFailed \subseteq {CheckName(c) : c \in CheckDefs}
    <2>1. /\ lastFailed = {} /\ recorded = [u \in ProbeUrls |-> "none"] /\ outage = [u \in ProbeUrls |-> 0]
          /\ everShared = FALSE
      BY DEF SynInit
    <2>2. outage \in [ProbeUrls -> 0..2] /\ \A u \in ProbeUrls : outage[u] = 0
      BY <2>1
    <2>3. recorded \in [ProbeUrls -> {"none", "success", "failure"}]
      BY <2>1
    <2>4. QED
      BY <2>1, <2>2, <2>3
  <1>7. synEdits = 0 /\ synShifts = 0 /\ synFaults = 0
    BY DEF SynInit
  <1>8. QED
    BY <1>1, <1>2, <1>3, <1>4, <1>5, <1>6, <1>7 DEF SynIInv

\* A row is written or deleted: whatever it was, its outage begins anew.
LEMMA EditedKeeps ==
    ASSUME SynIInv, NEW kept \in SUBSET CheckDefs, NEW u \in ProbeUrls, OnePerUrl(kept), Edited(kept, u),
           \A c \in targets : RowUrl(c) # u => c \in kept
    PROVE  SynIInv'
  <1>1. /\ synEdits < MaxSynEdits /\ synEdits' = synEdits + 1 /\ targets' = kept /\ outage' = [outage EXCEPT ![u] = 0]
        /\ everShared' = (everShared \/ \E c, d \in kept \cup round.todo :
                                           RowUrl(c) # RowUrl(d) /\ CheckName(c) = CheckName(d))
        /\ UNCHANGED <<answers, round, lastFailed, recorded, synShifts, synFaults>>
    BY DEF Edited
  <1>2. synEdits' \in 0..MaxSynEdits
    BY <1>1, SynAssumption DEF SynIInv
  <1>3. outage' \in [ProbeUrls -> 0..2] /\ everShared' \in BOOLEAN
    BY <1>1 DEF SynIInv
  <1>4. ASSUME ~ everShared'
        PROVE  NoSharedName(targets' \cup round.todo) /\ \A v \in ProbeUrls : outage'[v] # 0 => PagedOnce(v)'
    <2>1. ~ everShared /\ NoSharedName(kept \cup round.todo)
      BY <1>1, <1>4 DEF NoSharedName
    <2>2. ASSUME NEW v \in ProbeUrls, outage'[v] # 0 PROVE PagedOnce(v)'
      <3>1. v # u /\ outage'[v] = outage[v]
        BY <1>1, <2>2 DEF SynIInv
      <3>2. PagedOnce(v)
        BY <2>1, <2>2, <3>1 DEF SynIInv
      <3>3. PICK c \in targets : /\ RowUrl(c) = v /\ CheckName(c) \in lastFailed
                                 /\ \A d \in round.todo : RowUrl(d) = v => d = c
        BY <3>2 DEF PagedOnce
      <3>4. c \in kept
        BY <3>1, <3>3
      <3>5. QED
        BY <1>1, <3>1, <3>2, <3>3, <3>4 DEF PagedOnce
    <2>3. QED
      BY <1>1, <2>1, <2>2
  <1>5. QED
    BY <1>1, <1>2, <1>3, <1>4 DEF SynIInv

LEMMA TenantKeeps == ASSUME SynIInv, NEW c \in CheckDefs, CreateTarget(c) \/ DeleteTarget(c) PROVE SynIInv'
  <1>1. targets \subseteq CheckDefs /\ OnePerUrl(targets) /\ RowUrl(c) \in ProbeUrls
    BY SynAssumption DEF SynIInv
  <1>2. CASE CreateTarget(c)
    <2> DEFINE kept == {d \in targets : RowUrl(d) # RowUrl(c)} \cup {c}
    <2>1. kept \in SUBSET CheckDefs /\ OnePerUrl(kept) /\ \A d \in targets : RowUrl(d) # RowUrl(c) => d \in kept
      BY <1>1 DEF OnePerUrl
    <2>2. Edited(kept, RowUrl(c))
      BY <1>2 DEF CreateTarget
    <2> HIDE DEF kept
    <2>3. QED
      BY <1>1, <2>1, <2>2, EditedKeeps
  <1>3. CASE DeleteTarget(c)
    <2> DEFINE kept == targets \ {c}
    <2>1. kept \in SUBSET CheckDefs /\ OnePerUrl(kept) /\ \A d \in targets : RowUrl(d) # RowUrl(c) => d \in kept
      BY <1>1 DEF OnePerUrl
    <2>2. Edited(kept, RowUrl(c))
      BY <1>3 DEF DeleteTarget
    <2> HIDE DEF kept
    <2>3. QED
      BY <1>1, <2>1, <2>2, EditedKeeps
  <1>4. QED
    BY <1>2, <1>3

LEMMA LoadTargetsKeeps == ASSUME SynIInv, loadTargets PROVE SynIInv'
  <1>1. /\ round' = [active |-> TRUE, todo |-> targets, results |-> {}]
        /\ UNCHANGED <<answers, targets, lastFailed, recorded, outage, everShared, synEdits, synShifts, synFaults>>
    BY DEF loadTargets
  <1>2. round' \in Rounds /\ round'.todo = targets
    BY <1>1 DEF SynIInv, Rounds
  <1>3. ASSUME ~ everShared
        PROVE  NoSharedName(targets \cup targets) /\ \A u \in ProbeUrls : outage[u] # 0 => PagedOnce(u)'
    <2>1. ASSUME NEW u \in ProbeUrls, outage[u] # 0 PROVE PagedOnce(u)'
      <3>1. PagedOnce(u) /\ OnePerUrl(targets)
        BY <1>3, <2>1 DEF SynIInv
      <3>2. QED
        BY <1>1, <1>2, <3>1 DEF PagedOnce, OnePerUrl
    <2>2. QED
      BY <1>3, <2>1 DEF SynIInv, NoSharedName
  <1>4. QED
    BY <1>1, <1>2, <1>3 DEF SynIInv

LEMMA CheckKeeps == ASSUME SynIInv, NEW c \in CheckDefs, NEW publishes \in BOOLEAN, runCheck(c, publishes) PROVE SynIInv'
  <1> DEFINE u == RowUrl(c)
             new == IF c \notin targets THEN outage[u]
                    ELSE IF Passes(c) THEN 0
                    ELSE IF TurnsFailing(c, Passes(c)) /\ publishes /\ outage[u] < 2 THEN outage[u] + 1 ELSE outage[u]
  <1>1. /\ c \in round.todo
        /\ round' = [round EXCEPT !.todo = @ \ {c}, !.results = @ \cup {<<u, Passes(c)>>}]
        /\ lastFailed' = IF Passes(c) THEN lastFailed \ {CheckName(c)} ELSE lastFailed \cup {CheckName(c)}
        /\ outage' = [outage EXCEPT ![u] = new]
        /\ synFaults' = IF publishes THEN synFaults ELSE synFaults + 1
        /\ ~ publishes => synFaults < MaxSynFaults
        /\ UNCHANGED <<answers, targets, recorded, everShared, synEdits, synShifts>>
    BY DEF runCheck, SetLastFailed
  <1>2. u \in ProbeUrls /\ Passes(c) \in BOOLEAN /\ outage[u] \in 0..2 /\ round \in Rounds
    BY SynAssumption DEF SynIInv, Passes
  <1>3. round' \in Rounds /\ round'.todo = round.todo \ {c}
    <2> DEFINE res == round.results \cup {<<u, Passes(c)>>}
               left == round.todo \ {c}
    <2>1. <<u, Passes(c)>> \in ProbeUrls \X BOOLEAN
      BY <1>2
    <2>2. res \in SUBSET (ProbeUrls \X BOOLEAN) /\ left \in SUBSET CheckDefs
      BY <1>2, <2>1 DEF Rounds
    <2>3. round' = [round EXCEPT !.todo = left, !.results = res]
      BY <1>1
    <2> HIDE DEF res, left
    <2>4. round' \in Rounds /\ round'.todo = left
      BY <1>2, <2>2, <2>3 DEF Rounds
    <2>5. QED
      BY <2>4 DEF left
  <1>4. synFaults' \in 0..MaxSynFaults
    BY <1>1, SynAssumption DEF SynIInv
  <1>5. new \in 0..2
    BY <1>2
  <1> HIDE DEF new
  <1>6. outage' \in [ProbeUrls -> 0..2] /\ outage'[u] = new /\ \A v \in ProbeUrls : v # u => outage'[v] = outage[v]
    BY <1>1, <1>2, <1>5 DEF SynIInv
  <1>7. lastFailed' \subseteq {CheckName(d) : d \in CheckDefs}
    BY <1>1 DEF SynIInv
  <1>8. OnePerUrl(round'.todo)
    BY <1>3 DEF SynIInv, OnePerUrl
  <1>9. ASSUME ~ everShared
        PROVE  NoSharedName(targets' \cup round'.todo) /\ \A v \in ProbeUrls : outage'[v] # 0 => PagedOnce(v)'
    <2>1. NoSharedName(targets \cup round.todo) /\ \A v \in ProbeUrls : outage[v] # 0 => PagedOnce(v)
      BY <1>9 DEF SynIInv
    <2>2. NoSharedName(targets' \cup round'.todo)
      BY <1>1, <1>3, <2>1 DEF NoSharedName
    \* Another row: the check that ran has another name.
    <2>3. ASSUME NEW v \in ProbeUrls, v # u, outage'[v] # 0 PROVE PagedOnce(v)'
      <3>1. PagedOnce(v)
        BY <1>6, <2>1, <2>3
      <3>2. PICK d \in targets : /\ RowUrl(d) = v /\ CheckName(d) \in lastFailed
                                 /\ \A e \in round.todo : RowUrl(e) = v => e = d
        BY <3>1 DEF PagedOnce
      <3>3. CheckName(d) # CheckName(c)
        BY <1>1, <2>1, <2>3, <3>2 DEF NoSharedName
      <3>4. CheckName(d) \in lastFailed'
        BY <1>1, <3>2, <3>3
      <3>5. QED
        BY <1>1, <1>3, <1>6, <2>3, <3>1, <3>2, <3>4 DEF PagedOnce
    \* The row itself.
    <2>4. ASSUME outage'[u] # 0 PROVE PagedOnce(u)'
      <3>1. new # 0
        BY <1>6, <2>4
      <3>2. CASE c \notin targets
        <4>1. outage[u] # 0
          BY <3>1, <3>2 DEF new
        <4>2. PagedOnce(u)
          BY <1>2, <2>1, <4>1
        <4>3. QED
          BY <1>1, <3>2, <4>2 DEF PagedOnce
      <3>3. CASE c \in targets
        <4>1. ~ Passes(c) /\ CheckName(c) \in lastFailed'
          BY <1>1, <3>1, <3>3 DEF new
        <4>2. \A d \in round'.todo : RowUrl(d) = u => d = c
          BY <1>1, <1>3 DEF SynIInv, OnePerUrl
        <4>3. CASE outage[u] = 0
          <5>1. new = 1
            BY <3>1, <3>3, <4>1, <4>3 DEF new
          <5>2. QED
            BY <1>1, <1>6, <3>3, <4>1, <4>2, <5>1 DEF PagedOnce
        <4>4. CASE outage[u] # 0
          <5>1. PagedOnce(u)
            BY <1>2, <2>1, <4>4
          <5>2. CheckName(c) \in lastFailed
            BY <1>1, <5>1 DEF PagedOnce
          <5>3. new = 1
            BY <3>3, <4>1, <5>1, <5>2 DEF new, TurnsFailing, PagedOnce
          <5>4. QED
            BY <1>1, <1>6, <3>3, <4>1, <4>2, <5>3 DEF PagedOnce
        <4>5. QED
          BY <4>3, <4>4
      <3>4. QED
        BY <3>2, <3>3
    <2>5. QED
      BY <2>2, <2>3, <2>4
  <1>10. QED
    BY <1>1, <1>3, <1>4, <1>6, <1>7, <1>8, <1>9 DEF SynIInv

\* The end of a round, and a restart.
LEMMA RoundEnds == ASSUME SynIInv, flushResults \/ RestartWorker PROVE SynIInv'
  <1>1. /\ round' = NoRound /\ UNCHANGED <<answers, targets, everShared, synEdits, synShifts>>
        /\ synFaults' = synFaults \/ (synFaults < MaxSynFaults /\ synFaults' = synFaults + 1)
    BY DEF flushResults, RestartWorker
  <1>2. round' \in Rounds /\ round'.todo = {} /\ synFaults' \in 0..MaxSynFaults
    BY <1>1, SynAssumption DEF NoRound, Rounds, SynIInv
  <1>3. recorded' \in [ProbeUrls -> {"none", "success", "failure"}]
    <2>1. recorded \in [ProbeUrls -> {"none", "success", "failure"}]
      BY DEF SynIInv
    <2>2. \/ recorded' = recorded
          \/ recorded' = [u \in ProbeUrls |-> IF <<u, TRUE>> \in round.results THEN "success"
                                              ELSE IF <<u, FALSE>> \in round.results THEN "failure"
                                              ELSE recorded[u]]
      BY DEF flushResults, RestartWorker
    <2>3. QED
      BY <2>1, <2>2
  <1>4. /\ \/ UNCHANGED <<lastFailed, outage>>
           \/ lastFailed' = {} /\ outage' = [u \in ProbeUrls |-> 0]
    BY DEF flushResults, RestartWorker
  <1>5. OnePerUrl(round'.todo) /\ outage' \in [ProbeUrls -> 0..2] /\ lastFailed' \subseteq {CheckName(c) : c \in CheckDefs}
    BY <1>2, <1>4 DEF OnePerUrl, SynIInv
  <1>6. ASSUME ~ everShared
        PROVE  NoSharedName(targets' \cup round'.todo) /\ \A u \in ProbeUrls : outage'[u] # 0 => PagedOnce(u)'
    <2>1. NoSharedName(targets \cup round.todo) /\ \A u \in ProbeUrls : outage[u] # 0 => PagedOnce(u)
      BY <1>6 DEF SynIInv
    <2>2. NoSharedName(targets' \cup round'.todo)
      BY <1>1, <1>2, <2>1 DEF NoSharedName
    <2>3. CASE UNCHANGED <<lastFailed, outage>>
      BY <1>1, <1>2, <2>1, <2>2, <2>3 DEF PagedOnce
    <2>4. CASE outage' = [u \in ProbeUrls |-> 0]
      BY <2>2, <2>4
    <2>5. QED
      BY <1>4, <2>3, <2>4
  <1>7. QED
    BY <1>1, <1>2, <1>3, <1>5, <1>6 DEF SynIInv

LEMMA NextSynIInv == ASSUME SynIInv, [SynNext]_synVars PROVE SynIInv'
  <1>1. CASE UNCHANGED synVars
    BY <1>1 DEF synVars, SynIInv, PagedOnce
  <1>2. ASSUME NEW u \in ProbeUrls, NEW r \in Responses, AnswerChanges(u, r) PROVE SynIInv'
    <2>1. /\ synShifts' \in 0..MaxSynShifts /\ answers' \in [ProbeUrls -> Responses]
          /\ UNCHANGED <<targets, round, lastFailed, recorded, outage, everShared, synEdits, synFaults>>
      BY <1>2, SynAssumption DEF SynIInv, AnswerChanges
    <2>2. QED
      BY <2>1 DEF SynIInv, PagedOnce
  <1>3. QED
    BY <1>1, <1>2, TenantKeeps, LoadTargetsKeeps, CheckKeeps, RoundEnds DEF SynNext

LEMMA SpecSynIInv == SynSpec => []SynIInv
  BY InitSynIInv, NextSynIInv, PTL DEF SynSpec

\* A check that stays down pages once in an outage, whatever is edited, answers or fails
\* between and within the rounds, for any number of checks, unless two shared a name.
THEOREM OutagesPageOnce == SynSpec => [](everShared \/ OnePagePerOutage)
  <1>1. SynIInv => everShared \/ OnePagePerOutage
    BY DEF SynIInv, OnePagePerOutage, PagedOnce
  <1>2. QED
    BY <1>1, SpecSynIInv, PTL

LEMMA SynTypes == SynIInv => SynTypeOK
  BY DEF SynIInv, SynTypeOK, OnePerUrl, Rounds

-----------------------------------------------------------------------------
(* The chain of providers *)

\* f doubles up to n.
DoublesTo(f, n) == f = [k \in 0..n |-> IF k = 0 THEN BaseCooldown ELSE 2 * f[k - 1]]

LEMMA DoublingsExist == ASSUME NEW n \in Nat PROVE \E f : DoublesTo(f, n)
  <1> DEFINE T == {k \in Nat : ~ \E f : DoublesTo(f, k)}
  <1>1. SUFFICES ASSUME T # {} PROVE FALSE
    OBVIOUS
  <1>2. PICK m \in T : \A k \in T : m <= k
    BY <1>1, LeastOf
  <1>3. CASE m = 0
    <2> DEFINE g == [k \in 0..0 |-> BaseCooldown]
    <2>1. g = [k \in 0..0 |-> IF k = 0 THEN BaseCooldown ELSE 2 * g[k - 1]]
      OBVIOUS
    <2>2. QED
      BY <1>2, <1>3, <2>1 DEF DoublesTo
  <1>4. CASE m # 0
    <2>1. m \in Nat /\ m - 1 \in Nat /\ m - 1 \notin T
      BY <1>2, <1>4
    <2>2. PICK f : DoublesTo(f, m - 1)
      BY <2>1
    <2>3. \A k \in 0..(m - 1) : f[k] = IF k = 0 THEN BaseCooldown ELSE 2 * f[k - 1]
      BY <2>2 DEF DoublesTo
    <2> DEFINE g == [k \in 0..m |-> IF k = m THEN 2 * f[m - 1] ELSE f[k]]
    <2>4. ASSUME NEW k \in 0..m
          PROVE  g[k] = IF k = 0 THEN BaseCooldown ELSE 2 * g[k - 1]
      <3>1. CASE k = 0
        BY <1>4, <2>1, <2>3, <3>1
      <3>2. CASE k = m
        <4>1. g[m - 1] = f[m - 1] /\ m \in 0..m
          BY <1>4, <2>1
        <4>2. g[m] = 2 * f[m - 1]
          BY <4>1, Zenon
        <4> HIDE DEF g
        <4>3. QED
          BY <1>4, <3>2, <4>1, <4>2
      <3>3. CASE k \in 1..(m - 1)
        BY <1>4, <2>1, <2>3, <3>3
      <3>4. QED
        BY <2>1, <3>1, <3>2, <3>3
    <2>5. g = [k \in 0..m |-> g[k]]
      OBVIOUS
    <2> HIDE DEF g
    <2>6. DoublesTo(g, m)
      BY <2>4, <2>5 DEF DoublesTo
    <2>7. QED
      BY <1>2, <2>6
  <1>5. QED
    BY <1>3, <1>4

\* No cooldown is longer than the one of the highest shift.
LEMMA CooldownsAre == \A k \in 0..MaxShift : Shifted[k] \in 0..Shifted[MaxShift]
  <1> DEFINE f == Shifted
             n == MaxShift
  <1>1. n \in Nat /\ BaseCooldown \in Nat
    BY ChainAssumption
  <1>2. DoublesTo(f, n)
    <2>1. \E h : DoublesTo(h, MaxShift)
      BY <1>1, DoublingsExist
    <2>2. Shifted = CHOOSE h : DoublesTo(h, MaxShift)
      BY DEF Shifted, DoublesTo
    <2>3. QED
      BY <2>1, <2>2
  <1>3. \A k \in 0..n : f[k] = IF k = 0 THEN BaseCooldown ELSE 2 * f[k - 1]
    BY <1>2 DEF DoublesTo
  <1> HIDE DEF f
  <1>4. \A k \in 0..n : f[k] \in Nat
    <2> DEFINE T == {k \in 0..n : f[k] \notin Nat}
    <2>1. SUFFICES ASSUME T # {} PROVE FALSE
      OBVIOUS
    <2>2. T \in SUBSET Nat
      OBVIOUS
    <2>3. PICK m \in T : \A k \in T : m <= k
      BY <2>1, <2>2, LeastOf
    <2>4. m \in 0..n /\ f[m] \notin Nat
      OBVIOUS
    <2>5. m # 0
      BY <1>1, <1>3, <2>4
    <2>6. m - 1 \in 0..n /\ m - 1 \notin T
      BY <1>1, <2>3, <2>4, <2>5
    <2>7. QED
      BY <1>3, <2>4, <2>5, <2>6
  \* counted from the top
  <1>5. \A k \in 0..n : f[k] <= f[n]
    <2> DEFINE T == {k \in 0..n : ~ (f[n - k] <= f[n])}
    <2>1. ASSUME T # {} PROVE FALSE
      <3>1. T \in SUBSET Nat
        OBVIOUS
      <3>2. PICK m \in T : \A k \in T : m <= k
        BY <2>1, <3>1, LeastOf
      <3>3. m \in 0..n /\ ~ (f[n - m] <= f[n])
        OBVIOUS
      <3>4. m # 0
        BY <1>1, <1>4, <3>3
      <3>5. m - 1 \in 0..n /\ m - 1 \notin T /\ n - (m - 1) \in 1..n /\ n - m \in 0..n
        BY <1>1, <3>2, <3>3, <3>4
      <3>6. f[n - (m - 1)] <= f[n]
        BY <3>5
      <3>7. f[n - (m - 1)] = 2 * f[(n - (m - 1)) - 1] /\ (n - (m - 1)) - 1 = n - m
        BY <1>1, <1>3, <3>3, <3>5
      <3>8. f[n - m] \in Nat /\ f[n] \in Nat /\ f[n - (m - 1)] = 2 * f[n - m]
        BY <1>1, <1>4, <3>5, <3>7
      <3> HIDE DEF T
      <3>9. QED
        BY <3>3, <3>6, <3>8
    <2>2. ASSUME NEW k \in 0..n PROVE f[k] <= f[n]
      <3>1. n - k \in 0..n /\ n - (n - k) = k
        BY <1>1
      <3>2. QED
        BY <2>1, <3>1
    <2>3. QED
      BY <2>2
  <1>6. n \in 0..n
    BY <1>1
  <1>7. QED
    BY <1>4, <1>5, <1>6 DEF f

ChatRow == [at : {"idle", "next", "ok", "failed", "cancelled", "error", "aborted"},
            todo : SUBSET Links, failed : SUBSET Links, skipped : SUBSET Links]

\* A request has still to try, has tried or had to skip every provider, and while it
\* tries there is one left.
ChatOK(ch) ==
    /\ ch.at \in {"next", "ok", "failed", "cancelled"} => ch.todo # {}
    /\ ch.at \in {"next", "ok", "failed", "cancelled", "error"} => ch.todo \cup ch.failed \cup ch.skipped = Links
    /\ ch.at = "error" => ch.todo = {} /\ ch.failed # {}

\* The inductive invariant.
ChainIInv ==
    /\ linkUp \in [Links -> BOOLEAN] /\ cooling \in [Links -> 0..Shifted[MaxShift]]
    /\ linkFailures \in [Links -> 0..MaxShift + 2]
    /\ chat \in [ChatNames -> ChatRow] /\ \A c \in ChatNames : ChatOK(chat[c])
    /\ outages \in 0..MaxOutages /\ cancels \in 0..MaxCancels

LEMMA TopIsNat == Shifted[MaxShift] \in Nat /\ 0 \in 0..Shifted[MaxShift]
  <1>1. MaxShift \in 0..MaxShift
    BY ChainAssumption
  <1>2. Shifted[MaxShift] \in 0..Shifted[MaxShift]
    BY <1>1, CooldownsAre
  <1> DEFINE x == Shifted[MaxShift]
  <1> HIDE DEF x
  <1>3. x \in 0..x => x \in Nat /\ 0 \in 0..x
    OBVIOUS
  <1>4. QED
    BY <1>2, <1>3 DEF x

LEMMA DialedIs == ASSUME NEW c, chat[c].todo \subseteq Links, chat[c].todo # {} PROVE Dialed(c) \in chat[c].todo
  <1>1. chat[c].todo \in SUBSET Nat
    BY DEF Links
  <1>2. \E m \in chat[c].todo : \A k \in chat[c].todo : m <= k
    BY <1>1, LeastOf
  <1>3. QED
    BY <1>2 DEF Dialed, Min

LEMMA ChatMoves ==
    ASSUME ChainIInv, NEW c \in ChatNames, NEW ch \in ChatRow, ChatOK(ch), chat' = [chat EXCEPT ![c] = ch]
    PROVE  chat' \in [ChatNames -> ChatRow] /\ \A d \in ChatNames : ChatOK(chat'[d])
  BY DEF ChainIInv

LEMMA IdleIs == IdleChat \in ChatRow /\ ChatOK(IdleChat)
  BY DEF IdleChat, ChatRow, ChatOK

LEMMA BeginKeeps == ASSUME ChainIInv, NEW c \in ChatNames, Chat(c) PROVE ChainIInv'
  <1> DEFINE todo == candidates(cooling)
             ch == [at |-> IF todo = {} THEN "error" ELSE "next", todo |-> todo, failed |-> {}, skipped |-> Links \ todo]
  <1>1. todo \subseteq Links /\ todo # {}
    <2>1. Links # {}
      BY ChainAssumption DEF Links
    <2>2. QED
      BY <2>1 DEF candidates
  <1>2. chat' = [chat EXCEPT ![c] = ch] /\ UNCHANGED <<linkUp, cooling, linkFailures, outages, cancels>>
    BY DEF Chat
  <1> HIDE DEF todo
  <1>3. ch \in ChatRow /\ ChatOK(ch)
    BY <1>1 DEF ChatRow, ChatOK
  <1> HIDE DEF ch
  <1>4. QED
    BY <1>2, <1>3, ChatMoves DEF ChainIInv

\* A call ends, or the context does.
LEMMA CallKeeps == ASSUME ChainIInv, NEW c \in ChatNames, CallProvider(c) \/ ContextEnds(c) PROVE ChainIInv'
  <1>1. PICK how \in {"ok", "failed", "cancelled", "aborted"} : chat' = [chat EXCEPT ![c].at = how]
    BY DEF CallProvider, ContextEnds
  <1>2. chat[c].at = "next" /\ UNCHANGED <<linkUp, cooling, linkFailures, outages>> /\ cancels' \in 0..MaxCancels
    BY ChainAssumption DEF CallProvider, ContextEnds, ChainIInv
  <1> DEFINE ch == [chat[c] EXCEPT !.at = how]
  <1>3. chat[c] \in ChatRow /\ ChatOK(chat[c])
    BY DEF ChainIInv
  <1>4. ch \in ChatRow /\ ch.at = how /\ ch.todo = chat[c].todo /\ ch.failed = chat[c].failed /\ ch.skipped = chat[c].skipped
    BY <1>3 DEF ChatRow
  <1>5. chat' = [chat EXCEPT ![c] = ch]
    BY <1>1
  <1> HIDE DEF ch
  <1>6. ChatOK(ch)
    BY <1>2, <1>3, <1>4 DEF ChatOK
  <1>7. QED
    BY <1>2, <1>4, <1>5, <1>6, ChatMoves DEF ChainIInv

LEMMA SuccessKeeps == ASSUME ChainIInv, NEW c \in ChatNames, recordSuccess(c) PROVE ChainIInv'
  <1>1. chat[c] \in ChatRow /\ ChatOK(chat[c]) /\ chat[c].at = "ok"
    BY DEF ChainIInv, recordSuccess
  <1>2. Dialed(c) \in Links
    BY <1>1, DialedIs DEF ChatRow, ChatOK
  <1>3. chat' = [chat EXCEPT ![c] = IdleChat] /\ UNCHANGED <<linkUp, outages, cancels>>
    BY DEF recordSuccess
  <1>4. linkFailures' \in [Links -> 0..MaxShift + 2] /\ cooling' \in [Links -> 0..Shifted[MaxShift]]
    <2>1. 0 \in 0..MaxShift + 2
      BY ChainAssumption
    <2>2. QED
      BY <1>2, <2>1, TopIsNat DEF recordSuccess, ChainIInv
  <1>5. QED
    BY <1>3, <1>4, IdleIs, ChatMoves DEF ChainIInv

LEMMA FailureKeeps == ASSUME ChainIInv, NEW c \in ChatNames, recordFailure(c) PROVE ChainIInv'
  <1> DEFINE old == chat[c]
             l == Dialed(c)
             rest == old.todo \ {l}
             ch == [old EXCEPT !.todo = rest, !.failed = @ \cup {l},
                        !.at = IF old.at = "cancelled" THEN "aborted" ELSE IF rest = {} THEN "error" ELSE "next"]
  <1>1. old \in ChatRow /\ ChatOK(old) /\ old.at \in {"failed", "cancelled"}
    BY DEF ChainIInv, recordFailure
  <1>2. l \in old.todo /\ l \in Links /\ old.todo \subseteq Links
    BY <1>1, DialedIs DEF ChatRow, ChatOK
  <1>3. /\ chat' = [chat EXCEPT ![c] = ch] /\ UNCHANGED <<linkUp, outages, cancels>>
        /\ linkFailures' = [linkFailures EXCEPT ![l] = IF @ < MaxShift + 2 THEN @ + 1 ELSE @]
        /\ cooling' = [cooling EXCEPT ![l] = backoff(linkFailures'[l])]
    BY DEF recordFailure
  <1> HIDE DEF l, old
  <1>4. linkFailures' \in [Links -> 0..MaxShift + 2] /\ linkFailures'[l] \in 1..MaxShift + 2
    <2>1. linkFailures \in [Links -> 0..MaxShift + 2] /\ linkFailures[l] \in 0..MaxShift + 2 /\ MaxShift \in Nat
      BY <1>2, ChainAssumption DEF ChainIInv
    <2> DEFINE x == IF linkFailures[l] < MaxShift + 2 THEN linkFailures[l] + 1 ELSE linkFailures[l]
    <2>2. x \in 1..MaxShift + 2 /\ x \in 0..MaxShift + 2
      BY <2>1
    <2>3. linkFailures' = [linkFailures EXCEPT ![l] = x]
      BY <1>3
    <2> HIDE DEF x
    <2>4. QED
      BY <1>2, <2>1, <2>2, <2>3
  <1>5. cooling' \in [Links -> 0..Shifted[MaxShift]]
    <2> DEFINE n == linkFailures'[l]
               k == IF n - 1 > MaxShift THEN MaxShift ELSE n - 1
    <2>1. k \in 0..MaxShift
      BY <1>4, ChainAssumption
    <2>2. backoff(n) = Shifted[k]
      BY DEF backoff
    <2> HIDE DEF k
    <2>3. backoff(n) \in 0..Shifted[MaxShift]
      BY <2>1, <2>2, CooldownsAre
    <2>4. cooling' = [cooling EXCEPT ![l] = backoff(n)]
      BY <1>3
    <2> HIDE DEF n
    <2>5. QED
      BY <1>2, <2>3, <2>4 DEF ChainIInv
  <1>6. rest \subseteq Links /\ rest \cup {l} = old.todo
    BY <1>2
  <1> HIDE DEF rest
  <1>7. /\ ch \in ChatRow /\ ch.todo = rest /\ ch.failed = old.failed \cup {l} /\ ch.skipped = old.skipped
        /\ ch.at = IF old.at = "cancelled" THEN "aborted" ELSE IF rest = {} THEN "error" ELSE "next"
    BY <1>1, <1>2, <1>6 DEF ChatRow
  <1> HIDE DEF ch
  <1>8. old.todo \cup old.failed \cup old.skipped = Links
    BY <1>1 DEF ChatOK
  <1>9. ChatOK(ch)
    BY <1>6, <1>7, <1>8 DEF ChatOK
  <1>10. QED
    BY <1>3, <1>4, <1>5, <1>7, <1>9, ChatMoves DEF ChainIInv

LEMMA NextChainIInv == ASSUME ChainIInv, [ChainNext]_chainVars PROVE ChainIInv'
  <1>1. CASE UNCHANGED chainVars
    BY <1>1 DEF chainVars, ChainIInv
  <1>2. ASSUME NEW c \in ChatNames, GiveUp(c) PROVE ChainIInv'
    <2>1. chat' = [chat EXCEPT ![c] = IdleChat] /\ UNCHANGED <<linkUp, cooling, linkFailures, outages, cancels>>
      BY <1>2 DEF GiveUp
    <2>2. QED
      BY <2>1, IdleIs, ChatMoves DEF ChainIInv
  <1>3. CASE CooldownTick
    <2> DEFINE top == Shifted[MaxShift]
    <2>1. top \in Nat /\ cooling \in [Links -> 0..top]
      BY TopIsNat DEF ChainIInv
    <2>2. cooling' = [l \in Links |-> IF cooling[l] > 0 THEN cooling[l] - 1 ELSE 0]
          /\ UNCHANGED <<linkUp, linkFailures, chat, outages, cancels>>
      BY <1>3 DEF CooldownTick
    <2> HIDE DEF top
    <2>3. cooling' \in [Links -> 0..top]
      BY <2>1, <2>2
    <2>4. QED
      BY <2>2, <2>3 DEF ChainIInv, top
  <1>4. ASSUME NEW l \in Links, ProviderFlips(l) PROVE ChainIInv'
    BY <1>4, ChainAssumption DEF ProviderFlips, ChainIInv
  <1>5. QED
    BY <1>1, <1>2, <1>3, <1>4, BeginKeeps, CallKeeps, SuccessKeeps, FailureKeeps DEF ChainNext

LEMMA InitChainIInv == ASSUME ChainInit PROVE ChainIInv
  <1>1. 0 \in 0..MaxShift + 2 /\ 0 \in 0..MaxOutages /\ 0 \in 0..MaxCancels
    BY ChainAssumption
  <1>2. QED
    BY <1>1, IdleIs, TopIsNat DEF ChainInit, ChainIInv

LEMMA SpecChainIInv == ChainSpec => []ChainIInv
  BY InitChainIInv, NextChainIInv, PTL DEF ChainSpec

\* However long the chain and however many requests share it, "all providers failed" is
\* said only when every provider has failed this request or was cooling down, and one did.
THEOREM ErrorsEarned == ChainSpec => []ErrorsAreEarned
  <1>1. ChainIInv => ErrorsAreEarned
    <2>1. SUFFICES ASSUME ChainIInv, NEW c \in ChatNames, chat[c].at = "error"
                   PROVE  chat[c].failed # {} /\ chat[c].failed \cup chat[c].skipped = Links
      BY DEF ErrorsAreEarned
    <2>2. ChatOK(chat[c])
      BY <2>1 DEF ChainIInv
    <2>3. QED
      BY <2>1, <2>2 DEF ChatOK
  <1>2. QED
    BY <1>1, SpecChainIInv, PTL

LEMMA ChainTypes == ChainIInv => ChainTypeOK
  <1>1. SUFFICES ASSUME ChainIInv PROVE ChainTypeOK
    OBVIOUS
  <1>2. \A c \in ChatNames : chat[c] \in ChatRow
    BY <1>1 DEF ChainIInv
  <1>3. QED
    BY <1>1, <1>2 DEF ChainIInv, ChainTypeOK, ChatRow

-----------------------------------------------------------------------------
(* The parts together *)

\* Each part keeps its invariant, whichever part a behaviour follows.
OperationsIInv ==
    /\ part \in Parts
    /\ PageIInv /\ ErrIInv /\ SynIInv /\ ChainIInv /\ ChIInv /\ ClusterIInv

LEMMA InitOperationsIInv == ASSUME OperationsInit PROVE OperationsIInv
  BY InitPageIInv, InitErrIInv, InitSynIInv, InitChainIInv, InitChIInv, InitClusterIInv DEF OperationsInit, OperationsIInv

LEMMA NextOperationsIInv == ASSUME OperationsIInv, [OperationsNext]_operationsVars PROVE OperationsIInv'
  <1>1. /\ UNCHANGED part /\ [NotifNext]_pipeVars /\ [ErrNext]_errVars /\ [SynNext]_synVars
        /\ [ChainNext]_chainVars /\ [ChNext]_chVars /\ [ClusterNext]_clusterVars
    BY DEF OperationsNext, operationsVars
  <1>2. QED
    BY <1>1, NextPageIInv, NextErrIInv, NextSynIInv, NextChainIInv, NextChIInv, NextClusterIInv DEF OperationsIInv

\* Types, of the six parts and for every value of their constants: no page, scan, round,
\* request, edit or runbook is ever in a state its code does not know.
THEOREM OperationsTypeCorrect == OperationsFairSpec => []OperationsTypeOK
  <1>1. OperationsIInv => OperationsTypeOK
    <2>1. SUFFICES ASSUME OperationsIInv PROVE OperationsTypeOK
      OBVIOUS
    <2>2. NotifTypeOK /\ ErrTypeOK /\ SynTypeOK /\ ChainTypeOK /\ ChTypeOK /\ ClusterTypeOK
      BY <2>1, PipeTypesHold, SynTypes, ChainTypes, ChannelTypes, ClusterTypes DEF OperationsIInv, ErrIInv
    <2>3. part \in {"paging", "errors", "synthetics", "llm", "channels", "cluster"}
      BY <2>1, PartsAreKnown DEF OperationsIInv
    <2>4. QED
      BY <2>2, <2>3 DEF OperationsTypeOK
  <1>2. QED
    BY <1>1, InitOperationsIInv, NextOperationsIInv, PTL DEF OperationsFairSpec
=============================================================================
