----------------------------- MODULE StoresProofs -----------------------------
(***************************************************************************)
(* Proofs about what is kept and shared, for every value of the constants: *)
(*   - migrations: replicas that start side by side apply every version    *)
(*     once and in order, and serve on the schema of their release;        *)
(*   - the rate limiter: a shared counter lets through at most what the    *)
(*     highest limit applied to it allows;                                 *)
(*   - spans: a parent and its child meet through the pending keys in      *)
(*     either order, and a call is not counted too often;                  *)
(*   - the audit trail: it verifies while replicas write it, its past is   *)
(*     never rewritten, and a verification finds what was tampered with;   *)
(*   - the graph: an edge shows the analyses as they ended;                *)
(*   - the composition of these, the write-ahead log and the listing of    *)
(*     alerts keeps their types.                                           *)
(***************************************************************************)
EXTENDS MCStores, WalLogProofs, SequenceTheorems, FiniteSetTheorems, WellFoundedInduction, TLAPS

-----------------------------------------------------------------------------
(* Migrations *)

StarterRows == [at : {"start", "next", "record", "commit", "failed", "serving"},
                applied : SUBSET Versions, next : Nat \ {0}]

MigTypes ==
    /\ recorded \subseteq Versions /\ effects \in [Versions -> Nat]
    /\ starter \in [Starters -> StarterRows] /\ migFaults \in 0..MaxMigFaults

\* What is known of replica s at row m, given the recorded versions.
StarterOK(s, m, rec) ==
    /\ m.applied \subseteq rec /\ m.next <= FilesOf[s] + 1
    /\ m.at \in {"next", "record", "commit", "serving"} => 1..(m.next - 1) \subseteq rec
    /\ m.at \in {"record", "commit"} => m.next <= FilesOf[s]
    /\ m.at = "commit" => m.next \notin rec
    /\ m.at = "serving" => m.next = FilesOf[s] + 1

\* At most one open transaction has inserted a version.
OneInserts ==
    \A s, o \in Starters :
        starter[s].at = "commit" /\ starter[o].at = "commit" /\ starter[s].next = starter[o].next => s = o

\* The inductive invariant.
MigIInv ==
    /\ MigTypes /\ AppliedOnceInOrder /\ OneInserts
    /\ \A s \in Starters : StarterOK(s, starter[s], recorded)

LEMMA MigShapes ==
    ASSUME NEW s \in Starters
    PROVE  FilesOf[s] \in Nat /\ 1..FilesOf[s] \subseteq Versions
  BY MigrationConstants DEF Versions

LEMMA VersionsAreNumbers == Versions \subseteq Nat \ {0}
  <1>1. SUFFICES ASSUME NEW v \in Versions PROVE v \in Nat \ {0}
    OBVIOUS
  <1>2. PICK s \in Starters : v \in 1..FilesOf[s]
    BY DEF Versions
  <1>3. QED
    BY <1>2, MigShapes

\* A step that changes the row of one replica and nothing that is recorded.
LEMMA OneMoves ==
    ASSUME MigIInv, NEW s \in Starters, NEW m \in StarterRows,
           starter' = [starter EXCEPT ![s] = m], UNCHANGED <<recorded, effects>>,
           migFaults' \in 0..MaxMigFaults, StarterOK(s, m, recorded),
           m.at = "commit" => \A o \in Starters \ {s} : starter[o].at = "commit" => starter[o].next # m.next
    PROVE  MigIInv'
  <1>1. starter \in [Starters -> StarterRows]
    BY DEF MigIInv, MigTypes
  <1>2. starter' \in [Starters -> StarterRows] /\ starter'[s] = m /\ \A o \in Starters \ {s} : starter'[o] = starter[o]
    BY <1>1
  <1>3. MigTypes'
    BY <1>2 DEF MigIInv, MigTypes
  <1>4. AppliedOnceInOrder'
    BY DEF MigIInv, AppliedOnceInOrder
  <1>5. OneInserts'
    BY <1>2 DEF MigIInv, OneInserts
  <1>6. \A o \in Starters : StarterOK(o, starter'[o], recorded')
    BY <1>2 DEF MigIInv
  <1>7. QED
    BY <1>3, <1>4, <1>5, <1>6 DEF MigIInv

LEMMA StarterRow ==
    ASSUME NEW m \in StarterRows, NEW at \in {"start", "next", "record", "commit", "failed", "serving"}
    PROVE  /\ [m EXCEPT !.at = at] \in StarterRows /\ [m EXCEPT !.at = at].at = at
           /\ [m EXCEPT !.at = at].applied = m.applied /\ [m EXCEPT !.at = at].next = m.next
  BY DEF StarterRows

LEMMA NextRow ==
    ASSUME NEW m \in StarterRows, NEW n \in Nat \ {0}
    PROVE  /\ [m EXCEPT !.at = "next", !.next = n] \in StarterRows
           /\ [m EXCEPT !.at = "next", !.next = n].at = "next"
           /\ [m EXCEPT !.at = "next", !.next = n].next = n
           /\ [m EXCEPT !.at = "next", !.next = n].applied = m.applied
  <1>1. [m EXCEPT !.at = "next", !.next = n] \in StarterRows
    BY DEF StarterRows
  <1>2. [m EXCEPT !.at = "next", !.next = n].at = "next"
    BY DEF StarterRows
  <1>3. [m EXCEPT !.at = "next", !.next = n].next = n
    BY DEF StarterRows
  <1>4. [m EXCEPT !.at = "next", !.next = n].applied = m.applied
    BY DEF StarterRows
  <1>5. QED
    BY <1>1, <1>2, <1>3, <1>4

\* A version is committed: nobody else had inserted it, and the ones before are there.
LEMMA CommitKeeps == ASSUME MigIInv, NEW s \in Starters, Commit(s) PROVE MigIInv'
  <1> DEFINE v == starter[s].next
             m == [starter[s] EXCEPT !.at = "next", !.next = starter[s].next + 1]
  <1>1. /\ starter \in [Starters -> StarterRows] /\ recorded \subseteq Versions /\ effects \in [Versions -> Nat]
        /\ StarterOK(s, starter[s], recorded) /\ starter[s].at = "commit" /\ starter[s] \in StarterRows
    BY DEF MigIInv, MigTypes, Commit
  <1>2. v \in Nat \ {0} /\ v <= FilesOf[s] /\ v \notin recorded /\ 1..(v - 1) \subseteq recorded
    BY <1>1 DEF StarterOK, StarterRows
  <1>3. v \in Versions /\ FilesOf[s] \in Nat
    BY <1>2, MigShapes
  <1>4. /\ recorded' = recorded \cup {v} /\ effects' = [effects EXCEPT ![v] = @ + 1]
        /\ starter' = [starter EXCEPT ![s] = m] /\ migFaults' = migFaults
    <2>1. starter' = [starter EXCEPT ![s].at = "next", ![s].next = @ + 1]
      BY DEF Commit
    <2>2. starter' = [starter EXCEPT ![s] = m]
      BY <1>1, <2>1
    <2>3. QED
      BY <2>2 DEF Commit
  <1>5. m \in StarterRows /\ m.at = "next" /\ m.next = v + 1 /\ m.applied = starter[s].applied
    <2>1. v + 1 \in Nat \ {0}
      BY <1>2
    <2>2. QED
      BY <1>1, <2>1, NextRow
  <1> HIDE DEF m, v
  <1>6. starter' \in [Starters -> StarterRows] /\ starter'[s] = m /\ \A o \in Starters \ {s} : starter'[o] = starter[o]
    BY <1>1, <1>4, <1>5
  <1>7. recorded' \subseteq Versions /\ effects' \in [Versions -> Nat]
    BY <1>1, <1>3, <1>4
  <1>8. MigTypes'
    BY <1>4, <1>6, <1>7 DEF MigIInv, MigTypes
  <1>9. AppliedOnceInOrder'
    <2>1. \A w \in Versions : effects[w] = IF w \in recorded THEN 1 ELSE 0
      BY DEF MigIInv, AppliedOnceInOrder
    <2>2. \A w \in Versions : effects'[w] = IF w \in recorded' THEN 1 ELSE 0
      BY <1>1, <1>2, <1>3, <1>4, <2>1
    <2>3. ASSUME NEW w \in recorded' PROVE 1..w \subseteq recorded'
      <3>1. CASE w \in recorded
        BY <1>4, <3>1 DEF MigIInv, AppliedOnceInOrder
      <3>2. CASE w = v
        <4>1. \A x \in 1..v : x = v \/ x \in 1..(v - 1)
          BY <1>2
        <4>2. QED
          BY <1>2, <1>4, <3>2, <4>1
      <3>3. QED
        BY <1>4, <3>1, <3>2
    <2>4. QED
      BY <2>2, <2>3 DEF AppliedOnceInOrder
  <1>10. OneInserts'
    BY <1>5, <1>6 DEF MigIInv, OneInserts
  <1>11. ASSUME NEW o \in Starters PROVE StarterOK(o, starter'[o], recorded')
    <2>1. CASE o = s
      <3>1. m.next - 1 = v /\ m.next <= FilesOf[s] + 1
        BY <1>2, <1>3, <1>5
      <3>2. 1..v \subseteq recorded'
        <4>1. \A x \in 1..v : x = v \/ x \in 1..(v - 1)
          BY <1>2
        <4>2. QED
          BY <1>2, <1>4, <4>1
      <3>3. m.applied \subseteq recorded'
        BY <1>1, <1>4, <1>5 DEF StarterOK
      <3>4. QED
        BY <1>5, <1>6, <2>1, <3>1, <3>2, <3>3 DEF StarterOK
    <2>2. CASE o # s
      <3>1. starter'[o] = starter[o] /\ StarterOK(o, starter[o], recorded)
        BY <1>6, <2>2 DEF MigIInv
      <3>2. starter[o].at = "commit" => starter[o].next # v
        BY <1>1, <2>2 DEF MigIInv, OneInserts, v
      <3>3. QED
        BY <1>4, <3>1, <3>2 DEF StarterOK
    <2>3. QED
      BY <2>1, <2>2
  <1>12. QED
    BY <1>8, <1>9, <1>10, <1>11 DEF MigIInv

LEMMA MigStepKeeps == ASSUME MigIInv, NEW s \in Starters, MigStep(s) \/ StatementFails(s) PROVE MigIInv'
  <1>1. /\ starter \in [Starters -> StarterRows] /\ recorded \subseteq Versions /\ migFaults \in 0..MaxMigFaults
        /\ MaxMigFaults \in Nat /\ StarterOK(s, starter[s], recorded) /\ starter[s] \in StarterRows
        /\ starter[s].next \in Nat \ {0} /\ FilesOf[s] \in Nat
    BY MigrationConstants DEF MigIInv, MigTypes, StarterRows
  <1>2. CASE LoadApplied(s)
    <2> DEFINE m == [at |-> "next", applied |-> recorded, next |-> 1]
    <2>1. starter' = [starter EXCEPT ![s] = m] /\ UNCHANGED <<recorded, effects, migFaults>>
      BY <1>2 DEF LoadApplied
    <2>2. m \in StarterRows /\ m.at = "next" /\ m.applied = recorded /\ m.next = 1
      BY <1>1 DEF StarterRows
    <2> HIDE DEF m
    <2>3. StarterOK(s, m, recorded)
      BY <1>1, <2>2 DEF StarterOK
    <2>4. QED
      BY <1>1, <2>1, <2>2, <2>3, OneMoves
  <1>3. CASE Skip(s)
    <2>1. /\ starter[s].at = "next" /\ UNCHANGED <<recorded, effects, migFaults>>
          /\ \/ starter[s].next > FilesOf[s] /\ starter' = [starter EXCEPT ![s].at = "serving"]
             \/ /\ starter[s].next <= FilesOf[s] /\ starter[s].next \in starter[s].applied
                /\ starter' = [starter EXCEPT ![s].next = @ + 1]
      BY <1>3 DEF Skip, GoTo
    <2>2. CASE starter[s].next > FilesOf[s] /\ starter' = [starter EXCEPT ![s].at = "serving"]
      <3> DEFINE m == [starter[s] EXCEPT !.at = "serving"]
      <3>1. m \in StarterRows /\ m.at = "serving" /\ m.applied = starter[s].applied /\ m.next = starter[s].next
        BY <1>1, StarterRow
      <3>2. starter' = [starter EXCEPT ![s] = m]
        BY <2>2
      <3> HIDE DEF m
      <3>3. StarterOK(s, m, recorded)
        BY <1>1, <2>1, <2>2, <3>1 DEF StarterOK
      <3>4. QED
        BY <1>1, <2>1, <3>1, <3>2, <3>3, OneMoves
    <2>3. CASE /\ starter[s].next <= FilesOf[s] /\ starter[s].next \in starter[s].applied
               /\ starter' = [starter EXCEPT ![s].next = @ + 1]
      <3> DEFINE m == [starter[s] EXCEPT !.next = starter[s].next + 1]
      <3>1. m \in StarterRows /\ m.at = "next" /\ m.applied = starter[s].applied /\ m.next = starter[s].next + 1
        BY <1>1, <2>1 DEF StarterRows
      <3>2. starter' = [starter EXCEPT ![s] = m]
        BY <2>3
      <3> HIDE DEF m
      <3>3. StarterOK(s, m, recorded)
        <4>1. starter[s].next \in recorded /\ 1..(starter[s].next - 1) \subseteq recorded
          BY <1>1, <2>1, <2>3 DEF StarterOK
        <4>2. \A x \in 1..(m.next - 1) : x = starter[s].next \/ x \in 1..(starter[s].next - 1)
          BY <1>1, <3>1
        <4>3. m.next <= FilesOf[s] + 1 /\ 1..(m.next - 1) \subseteq recorded
          BY <1>1, <2>3, <3>1, <4>1, <4>2
        <4>4. QED
          BY <1>1, <3>1, <4>3 DEF StarterOK
      <3>4. QED
        BY <1>1, <2>1, <3>1, <3>2, <3>3, OneMoves
    <2>4. QED
      BY <2>1, <2>2, <2>3
  <1>4. CASE Apply(s)
    <2> DEFINE m == [starter[s] EXCEPT !.at = "record"]
    <2>1. /\ starter' = [starter EXCEPT ![s] = m] /\ UNCHANGED <<recorded, effects, migFaults>>
          /\ starter[s].at = "next" /\ starter[s].next <= FilesOf[s]
      BY <1>4 DEF Apply, GoTo
    <2>2. m \in StarterRows /\ m.at = "record" /\ m.applied = starter[s].applied /\ m.next = starter[s].next
      BY <1>1, StarterRow
    <2> HIDE DEF m
    <2>3. StarterOK(s, m, recorded)
      BY <1>1, <2>1, <2>2 DEF StarterOK
    <2>4. QED
      BY <1>1, <2>1, <2>2, <2>3, OneMoves
  <1>5. CASE Record(s)
    <2> DEFINE to == IF starter[s].next \in recorded THEN "failed" ELSE "commit"
               m == [starter[s] EXCEPT !.at = to]
    <2>1. /\ starter' = [starter EXCEPT ![s] = m] /\ UNCHANGED <<recorded, effects, migFaults>>
          /\ starter[s].at = "record" /\ ~ Inserting(s)
      BY <1>5 DEF Record, GoTo
    <2>2. /\ m \in StarterRows /\ m.applied = starter[s].applied /\ m.next = starter[s].next
          /\ m.at = to
      <3>1. to = "failed" \/ to = "commit"
        OBVIOUS
      <3> HIDE DEF to
      <3>2. CASE to = "failed"
        <4>1. m = [starter[s] EXCEPT !.at = "failed"]
          BY <3>2
        <4>2. /\ [starter[s] EXCEPT !.at = "failed"] \in StarterRows
              /\ [starter[s] EXCEPT !.at = "failed"].applied = starter[s].applied
              /\ [starter[s] EXCEPT !.at = "failed"].next = starter[s].next
              /\ [starter[s] EXCEPT !.at = "failed"].at = "failed"
          BY <1>1, StarterRow
        <4> HIDE DEF m
        <4>3. QED
          BY <3>2, <4>1, <4>2
      <3>3. CASE to = "commit"
        <4>1. m = [starter[s] EXCEPT !.at = "commit"]
          BY <3>3
        <4>2. /\ [starter[s] EXCEPT !.at = "commit"] \in StarterRows
              /\ [starter[s] EXCEPT !.at = "commit"].applied = starter[s].applied
              /\ [starter[s] EXCEPT !.at = "commit"].next = starter[s].next
              /\ [starter[s] EXCEPT !.at = "commit"].at = "commit"
          BY <1>1, StarterRow
        <4> HIDE DEF m
        <4>3. QED
          BY <3>3, <4>1, <4>2
      <3>4. QED
        BY <3>1, <3>2, <3>3
    <2> HIDE DEF m
    <2>3. StarterOK(s, m, recorded)
      BY <1>1, <2>1, <2>2 DEF StarterOK
    <2>4. \A o \in Starters \ {s} : starter[o].at = "commit" => starter[o].next # m.next
      BY <2>1, <2>2 DEF Inserting
    <2>5. QED
      BY <1>1, <2>1, <2>2, <2>3, <2>4, OneMoves
  <1>6. CASE StartAgain(s)
    <2>1. starter' = [starter EXCEPT ![s] = NotStarted] /\ UNCHANGED <<recorded, effects, migFaults>>
      BY <1>6 DEF StartAgain
    <2>2. NotStarted \in StarterRows /\ NotStarted.at = "start" /\ NotStarted.applied = {} /\ NotStarted.next = 1
      BY DEF NotStarted, StarterRows
    <2>3. StarterOK(s, NotStarted, recorded)
      BY <1>1, <2>2 DEF StarterOK
    <2>4. QED
      BY <1>1, <2>1, <2>2, <2>3, OneMoves
  <1>7. CASE StatementFails(s)
    <2> DEFINE m == [starter[s] EXCEPT !.at = "failed"]
    <2>1. starter' = [starter EXCEPT ![s] = m] /\ UNCHANGED <<recorded, effects>> /\ migFaults' \in 0..MaxMigFaults
      BY <1>1, <1>7 DEF StatementFails, GoTo
    <2>2. m \in StarterRows /\ m.at = "failed" /\ m.applied = starter[s].applied /\ m.next = starter[s].next
      BY <1>1, StarterRow
    <2> HIDE DEF m
    <2>3. StarterOK(s, m, recorded)
      BY <1>1, <2>2 DEF StarterOK
    <2>4. QED
      BY <1>1, <2>1, <2>2, <2>3, OneMoves
  <1>8. QED
    BY <1>2, <1>3, <1>4, <1>5, <1>6, <1>7, CommitKeeps DEF MigStep

LEMMA NextMigIInv == ASSUME MigIInv, [MigNext]_migVars PROVE MigIInv'
  <1>1. CASE UNCHANGED migVars
    BY <1>1 DEF migVars, MigIInv, MigTypes, AppliedOnceInOrder, OneInserts
  <1>2. QED
    BY <1>1, MigStepKeeps DEF MigNext

LEMMA InitMigIInv == ASSUME MigInit PROVE MigIInv
  <1>1. NotStarted \in StarterRows /\ NotStarted.at = "start" /\ NotStarted.applied = {} /\ NotStarted.next = 1
    BY DEF NotStarted, StarterRows
  <1>2. \A s \in Starters : starter[s] = NotStarted /\ FilesOf[s] \in Nat
    BY MigShapes DEF MigInit
  <1>3. MigTypes
    BY <1>1, MigrationConstants DEF MigInit, MigTypes
  <1>4. AppliedOnceInOrder
    BY DEF MigInit, AppliedOnceInOrder
  <1>5. OneInserts
    BY <1>1, <1>2 DEF OneInserts
  <1>6. \A s \in Starters : StarterOK(s, starter[s], recorded)
    <2>1. SUFFICES ASSUME NEW s \in Starters PROVE StarterOK(s, NotStarted, recorded)
      BY <1>2
    <2>2. NotStarted.next <= FilesOf[s] + 1
      BY <1>1, <1>2
    <2>3. QED
      BY <1>1, <2>2 DEF StarterOK
  <1>7. QED
    BY <1>3, <1>4, <1>5, <1>6 DEF MigIInv

\* However many replicas of however many releases start side by side, with no lock
\* between them, fail and start again, every migration takes effect once, in order,
\* and a replica that serves has the schema of its release.
THEOREM SchemaStaysInStep == MigSpec => []SchemaInStep
  <1>1. MigInit => MigIInv
    BY InitMigIInv
  <1>2. MigIInv /\ [MigNext]_migVars => MigIInv'
    BY NextMigIInv
  <1>3. MigIInv => SchemaInStep
    <2>1. SUFFICES ASSUME MigIInv, NEW s \in Starters, starter[s].at = "serving"
                   PROVE  1..FilesOf[s] \subseteq recorded
      BY DEF SchemaInStep, ServesOnItsSchema, MigIInv
    <2>2. StarterOK(s, starter[s], recorded) /\ FilesOf[s] \in Nat
      BY <2>1, MigShapes DEF MigIInv
    <2>3. starter[s].next = FilesOf[s] + 1 /\ starter[s].next - 1 = FilesOf[s]
      BY <2>1, <2>2 DEF StarterOK
    <2>4. QED
      BY <2>1, <2>2, <2>3 DEF StarterOK
  <1>4. QED
    BY <1>1, <1>2, <1>3, PTL DEF MigSpec

-----------------------------------------------------------------------------
(* The rate limiter *)

Requests == [class : Classes, bucket : 0..MaxBuckets, limit : Nat]

\* Rules anywhere are rules of the table's domain; counters are numbers.
LimTypes ==
    /\ limTable \subseteq LimitRules /\ bucketNow \in 0..MaxBuckets
    /\ limCopy \in [LimGateways -> SUBSET LimitRules]
    /\ refresher \in [Refreshes -> [stage : {"idle", "due", "loaded"}, rows : SUBSET LimitRules]]
    /\ limReq \in [InFlight -> Requests \cup {NoReq}]
    /\ counter \in [Keys -> Nat] /\ granted \in [Keys -> Nat] /\ topLimit \in [Keys -> Nat]

\* The inductive invariant: what was let through was counted, below a limit applied.
LimIInv ==
    /\ LimTypes
    /\ \A k \in Keys : granted[k] <= counter[k] /\ granted[k] <= topLimit[k]

LEMMA RuleLimits ==
    ASSUME NEW rules \in SUBSET LimitRules, NEW r \in ruleFor(rules)
    PROVE  r.name \in Classes /\ r.limit \in Nat /\ r.limit * 5 \in Nat
  <1>1. CASE r \in LimitRules
    <2>1. r.limit \in Nat
      BY <1>1, LimRuleType
    <2>2. r.name \in Classes
      BY <1>1 DEF Classes
    <2>3. QED
      BY <2>1, <2>2
  <1>2. CASE r = Fallback
    <2>1. r.limit = FallbackLimit /\ r.name \in Classes
      BY <1>2 DEF Fallback, Classes
    <2>2. QED
      BY <2>1, LimBounds
  <1>3. QED
    BY <1>1, <1>2 DEF ruleFor

\* A request picks a rule and a window.
LEMMA PickKeeps == ASSUME LimIInv, NEW q \in InFlight, NEW g \in LimGateways, PickRule(q, g) PROVE LimIInv'
  <1>1. PICK r \in ruleFor(limCopy[g]) :
            limReq' = [limReq EXCEPT ![q] = [class |-> r.name, bucket |-> bucketNow,
                                             limit |-> IF Premium THEN r.limit * 5 ELSE r.limit]]
    BY DEF PickRule
  <1> DEFINE limit == IF Premium THEN r.limit * 5 ELSE r.limit
             req == [class |-> r.name, bucket |-> bucketNow, limit |-> limit]
  <1>2. /\ limCopy[g] \in SUBSET LimitRules /\ bucketNow \in 0..MaxBuckets
        /\ limReq \in [InFlight -> Requests \cup {NoReq}]
    BY DEF LimIInv, LimTypes
  <1>3. r.name \in Classes /\ limit \in Nat
    BY <1>1, <1>2, RuleLimits
  <1> HIDE DEF limit
  <1>4. req \in Requests
    BY <1>2, <1>3 DEF Requests
  <1>5. limReq' = [limReq EXCEPT ![q] = req]
    BY <1>1 DEF limit
  <1> HIDE DEF req
  <1>6. limReq' \in [InFlight -> Requests \cup {NoReq}]
    BY <1>2, <1>4, <1>5
  <1>7. UNCHANGED <<limTable, limCopy, refresher, bucketNow, counter, granted, topLimit>>
    BY DEF PickRule
  <1>8. QED
    BY <1>6, <1>7 DEF LimIInv, LimTypes

\* A request is counted; if the count with it is within its limit it goes through.
LEMMA CountKeeps == ASSUME LimIInv, NEW q \in InFlight, RateLimit(q) PROVE LimIInv'
  <1> DEFINE k == <<limReq[q].class, limReq[q].bucket>>
             limit == limReq[q].limit
  <1>1. /\ limReq \in [InFlight -> Requests \cup {NoReq}] /\ counter \in [Keys -> Nat]
        /\ granted \in [Keys -> Nat] /\ topLimit \in [Keys -> Nat]
        /\ \A j \in Keys : granted[j] <= counter[j] /\ granted[j] <= topLimit[j]
    BY DEF LimIInv, LimTypes
  <1>2. limReq[q] \in Requests
    BY <1>1 DEF RateLimit
  <1>3. k \in Keys /\ limit \in Nat
    BY <1>2 DEF Requests, Keys
  <1>4. /\ counter' = [counter EXCEPT ![k] = @ + 1]
        /\ granted' = IF counter[k] + 1 <= limit THEN [granted EXCEPT ![k] = @ + 1] ELSE granted
        /\ topLimit' = [topLimit EXCEPT ![k] = IF limit > @ THEN limit ELSE @]
        /\ limReq' = [limReq EXCEPT ![q] = NoReq]
        /\ UNCHANGED <<limTable, limCopy, refresher, bucketNow>>
    BY DEF RateLimit, Count
  <1> HIDE DEF k, limit
  <1>5. limReq' \in [InFlight -> Requests \cup {NoReq}]
    BY <1>1, <1>4
  <1>6. counter' \in [Keys -> Nat] /\ counter'[k] = counter[k] + 1
        /\ \A j \in Keys \ {k} : counter'[j] = counter[j]
    BY <1>1, <1>3, <1>4
  <1>7. topLimit' \in [Keys -> Nat] /\ topLimit'[k] >= limit /\ topLimit'[k] >= topLimit[k]
        /\ \A j \in Keys \ {k} : topLimit'[j] = topLimit[j]
    BY <1>1, <1>3, <1>4
  <1>8. /\ granted' \in [Keys -> Nat]
        /\ granted'[k] = granted[k] \/ (granted'[k] = granted[k] + 1 /\ counter[k] + 1 <= limit)
        /\ \A j \in Keys \ {k} : granted'[j] = granted[j]
    BY <1>1, <1>3, <1>4
  <1>9. LimTypes'
    BY <1>4, <1>5, <1>6, <1>7, <1>8 DEF LimIInv, LimTypes
  <1>10. granted'[k] <= counter'[k] /\ granted'[k] <= topLimit'[k]
    <2>1. /\ granted[k] \in Nat /\ counter[k] \in Nat /\ topLimit[k] \in Nat /\ topLimit'[k] \in Nat
          /\ granted[k] <= counter[k] /\ granted[k] <= topLimit[k]
      BY <1>1, <1>3, <1>7
    <2>2. QED
      BY <1>3, <1>6, <1>7, <1>8, <2>1
  <1>11. \A j \in Keys : granted'[j] <= counter'[j] /\ granted'[j] <= topLimit'[j]
    BY <1>1, <1>6, <1>7, <1>8, <1>10
  <1>12. QED
    BY <1>9, <1>11 DEF LimIInv

\* The rules are edited, loaded and set; windows pass; Redis fails.
LEMMA RulesKeep ==
    ASSUME LimIInv,
           \/ \E q \in InFlight : FailOpen(q)
           \/ \E g \in LimGateways, r \in LimitRules :
                 CreateRateLimitRule(g, r) \/ UpdateRateLimitRule(g, r) \/ DeleteRateLimitRule(g, r)
           \/ \E q \in Refreshes : loadRules(q) \/ SetRules(q) \/ LoadFails(q)
           \/ NextBucket
    PROVE  LimIInv'
  <1> DEFINE RefreshRows == [stage : {"idle", "due", "loaded"}, rows : SUBSET LimitRules]
  <1>1. /\ limTable \subseteq LimitRules /\ limCopy \in [LimGateways -> SUBSET LimitRules]
        /\ refresher \in [Refreshes -> RefreshRows] /\ limReq \in [InFlight -> Requests \cup {NoReq}]
        /\ bucketNow \in 0..MaxBuckets /\ MaxBuckets \in Nat
    BY LimBounds DEF LimIInv, LimTypes
  <1>2. IdleRefresh \in RefreshRows
    BY DEF IdleRefresh
  <1>3. ASSUME NEW q \in InFlight, FailOpen(q) PROVE LimIInv'
    <2>1. limReq' \in [InFlight -> Requests \cup {NoReq}]
      BY <1>1, <1>3 DEF FailOpen
    <2>2. QED
      BY <1>3, <2>1 DEF FailOpen, LimIInv, LimTypes
  <1>4. ASSUME NEW g \in LimGateways, NEW table \in SUBSET LimitRules, Written(table, g) PROVE LimIInv'
    <2>1. <<g, "admin">> \in Refreshes
      BY DEF Refreshes
    <2>2. [refresher[<<g, "admin">>] EXCEPT !.stage = "due"] \in RefreshRows
      BY <1>1, <2>1
    <2>3. refresher' \in [Refreshes -> RefreshRows]
      BY <1>1, <1>4, <2>1, <2>2 DEF Written
    <2>4. QED
      BY <1>4, <2>3 DEF Written, LimIInv, LimTypes
  <1>5. ASSUME NEW g \in LimGateways, NEW r \in LimitRules,
               CreateRateLimitRule(g, r) \/ UpdateRateLimitRule(g, r) \/ DeleteRateLimitRule(g, r)
        PROVE  LimIInv'
    <2>1. PICK table \in SUBSET LimitRules : Written(table, g)
      <3>1. CASE CreateRateLimitRule(g, r)
        BY <1>1, <3>1 DEF CreateRateLimitRule
      <3>2. CASE UpdateRateLimitRule(g, r)
        <4>1. PICK s \in limTable : Written((limTable \ {s}) \cup {r}, g)
          BY <3>2 DEF UpdateRateLimitRule
        <4>2. (limTable \ {s}) \cup {r} \in SUBSET LimitRules
          BY <1>1
        <4>3. QED
          BY <4>1, <4>2
      <3>3. CASE DeleteRateLimitRule(g, r)
        BY <1>1, <3>3 DEF DeleteRateLimitRule
      <3>4. QED
        BY <1>5, <3>1, <3>2, <3>3
    <2>2. QED
      BY <1>4, <2>1
  <1>6. ASSUME NEW q \in Refreshes, loadRules(q) PROVE LimIInv'
    <2>1. [stage |-> "loaded", rows |-> Loaded(limTable)] \in RefreshRows
      BY <1>1 DEF Loaded
    <2>2. refresher' \in [Refreshes -> RefreshRows]
      BY <1>1, <1>6, <2>1 DEF loadRules
    <2>3. QED
      BY <1>6, <2>2 DEF loadRules, LimIInv, LimTypes
  <1>7. ASSUME NEW q \in Refreshes, SetRules(q) PROVE LimIInv'
    <2>1. q[1] \in LimGateways /\ refresher[q].rows \in SUBSET LimitRules
      BY <1>1 DEF Refreshes
    <2>2. refresher' \in [Refreshes -> RefreshRows] /\ limCopy' \in [LimGateways -> SUBSET LimitRules]
      BY <1>1, <1>2, <1>7, <2>1 DEF SetRules
    <2>3. QED
      BY <1>7, <2>2 DEF SetRules, LimIInv, LimTypes
  <1>8. ASSUME NEW q \in Refreshes, LoadFails(q) PROVE LimIInv'
    <2>1. refresher' \in [Refreshes -> RefreshRows]
      BY <1>1, <1>2, <1>8 DEF LoadFails
    <2>2. QED
      BY <1>8, <2>1 DEF LoadFails, LimIInv, LimTypes
  <1>9. ASSUME NextBucket PROVE LimIInv'
    <2>1. bucketNow' \in 0..MaxBuckets
      BY <1>1, <1>9 DEF NextBucket
    <2>2. QED
      BY <1>9, <2>1 DEF NextBucket, LimIInv, LimTypes
  <1>10. QED
    BY <1>3, <1>5, <1>6, <1>7, <1>8, <1>9

LEMMA NextLimIInv == ASSUME LimIInv, [LimNext]_limVars PROVE LimIInv'
  <1>1. CASE UNCHANGED limVars
    BY <1>1 DEF limVars, LimIInv, LimTypes
  <1>2. QED
    BY <1>1, PickKeeps, CountKeeps, RulesKeep DEF LimNext

LEMMA InitLimIInv == ASSUME LimInit PROVE LimIInv
  <1>1. limTable \subseteq LimitRules
    BY DEF LimInit
  <1>2. limCopy \in [LimGateways -> SUBSET LimitRules]
    BY <1>1 DEF LimInit, Loaded
  <1>3. refresher \in [Refreshes -> [stage : {"idle", "due", "loaded"}, rows : SUBSET LimitRules]]
    BY DEF LimInit, IdleRefresh
  <1>4. limReq \in [InFlight -> Requests \cup {NoReq}] /\ bucketNow \in 0..MaxBuckets
    BY LimBounds DEF LimInit
  <1>5. /\ counter \in [Keys -> Nat] /\ granted \in [Keys -> Nat] /\ topLimit \in [Keys -> Nat]
        /\ \A k \in Keys : granted[k] <= counter[k] /\ granted[k] <= topLimit[k]
    BY DEF LimInit
  <1>6. QED
    BY <1>1, <1>2, <1>3, <1>4, <1>5 DEF LimIInv, LimTypes

\* However many gateways apply rules of whatever age, requests pass the shared counter
\* of a rule and a window at most as often as the highest limit applied to it.
THEOREM BudgetIsShared == LimSpec => []BudgetHolds
  <1>1. LimInit => LimIInv
    BY InitLimIInv
  <1>2. LimIInv /\ [LimNext]_limVars => LimIInv'
    BY NextLimIInv
  <1>3. LimIInv => BudgetHolds
    BY DEF LimIInv, BudgetHolds
  <1>4. QED
    BY <1>1, <1>2, <1>3, PTL DEF LimSpec

-----------------------------------------------------------------------------
(* Spans and calls *)

SpanPcs == {"out", "store", "parent", "count", "wait", "children", "resolve", "delete", "done"}
HandlingRows == [pc : SpanPcs, children : SUBSET Spans]

SpanTypes ==
    /\ known \subseteq Spans /\ waiting \in [Spans -> SUBSET Spans] /\ calls \in [Spans -> Nat]
    /\ handling \in [Deliveries -> HandlingRows] /\ overlapped \subseteq Spans
    /\ spanFaults \in Nat

\* A request of s, and how far it is: under way, past the step that counts its call or
\* makes it wait, still to read who waits for it.
Underway(d, s) == SpanOf[d] = s /\ handling[d].pc \notin {"out", "done"}
Past(d, s) == SpanOf[d] = s /\ handling[d].pc \in {"children", "resolve", "delete", "done"}
ToRead(d, s) == SpanOf[d] = s /\ handling[d].pc \in {"parent", "count", "wait", "children"}
Resolving(d, s, c) == SpanOf[d] = s /\ handling[d].pc = "resolve" /\ c \in handling[d].children

\* Without a fault, a request past its first step has stored its span.
StoredOK == spanFaults = 0 =>
    \A d \in Deliveries : handling[d].pc \notin {"out", "store"} => SpanOf[d] \in known

\* Nothing failed or expired, and requests of the call's two ends did not run side by side.
Clean(c) == ParentOf[c] # Root /\ spanFaults = 0 /\ c \notin overlapped /\ ParentOf[c] \notin overlapped

\* A call between ends that came apart is counted or waits where its parent will look.
EdgeOK(c) ==
    LET p == ParentOf[c] IN
    /\ \A d, e \in Deliveries : Underway(d, c) /\ Underway(e, p) => d = e
    /\ \A d \in Deliveries : SpanOf[d] = c /\ handling[d].pc = "wait" => p \notin known
    /\ \A d \in Deliveries : Past(d, c) => calls[c] > 0 \/ c \in waiting[p]
    /\ \A e \in Deliveries : SpanOf[e] = p /\ c \in waiting[p] /\ handling[e].pc = "resolve" =>
                                 calls[c] > 0 \/ c \in handling[e].children
    /\ \A e \in Deliveries : SpanOf[e] = p /\ c \in waiting[p] /\ handling[e].pc = "delete" => calls[c] > 0
    /\ c \in waiting[p] /\ p \in known =>
           calls[c] > 0 \/ \E e \in Deliveries : ToRead(e, p) \/ Resolving(e, p, c)

\* At most one request of s has arrived.
OneArrived(s) ==
    \A d, e \in Deliveries : SpanOf[d] = s /\ handling[d].pc # "out" /\ SpanOf[e] = s /\ handling[e].pc # "out"
                                 => d = e

\* The parent of c may still count the call of c.
MayResolve(c) ==
    LET p == ParentOf[c] IN
    \/ \E e \in Deliveries : Resolving(e, p, c)
    \/ c \in waiting[p] /\ \A e \in Deliveries : SpanOf[e] = p => handling[e].pc \notin {"resolve", "delete", "done"}

PastSet(c) == {d \in Deliveries : Past(d, c)}
CountOK(c) == calls[c] + (IF MayResolve(c) THEN 1 ELSE 0) <= Cardinality(PastSet(c))

\* The inductive invariant.
SpanIInv ==
    /\ SpanTypes /\ SpanTypeOK /\ StoredOK
    /\ \A c \in Spans : Clean(c) => EdgeOK(c)
    /\ \A c \in Spans : ParentOf[c] # Root /\ OneArrived(ParentOf[c]) => CountOK(c)

\* One request moves on.
LEMMA Handles ==
    ASSUME SpanTypes, NEW d \in Deliveries, NEW row \in HandlingRows, handling' = [handling EXCEPT ![d] = row]
    PROVE  /\ handling' \in [Deliveries -> HandlingRows] /\ handling'[d] = row
           /\ \A o \in Deliveries : o # d => handling'[o] = handling[o]
  BY DEF SpanTypes

LEMMA Moves ==
    ASSUME SpanTypes, NEW d \in Deliveries, NEW pc \in SpanPcs, To(d, pc)
    PROVE  /\ handling' \in [Deliveries -> HandlingRows] /\ handling'[d].pc = pc /\ handling'[d].children = {}
           /\ \A o \in Deliveries : o # d => handling'[o] = handling[o]
  <1>1. At(pc) \in HandlingRows /\ At(pc).pc = pc /\ At(pc).children = {}
    BY DEF At, HandlingRows
  <1>2. handling' = [handling EXCEPT ![d] = At(pc)]
    BY DEF To
  <1>3. QED
    BY <1>1, <1>2, Handles

LEMMA SpanShapes ==
    ASSUME SpanTypes
    PROVE  /\ \A d \in Deliveries : SpanOf[d] \in Spans /\ handling[d].pc \in SpanPcs
           /\ \A c \in Spans : calls[c] \in Nat /\ (ParentOf[c] # Root => ParentOf[c] \in Spans)
           /\ Root \notin Spans /\ IsFiniteSet(Deliveries)
  BY SpanConstants DEF SpanTypes, HandlingRows

LEMMA PastIsFinite == ASSUME NEW c PROVE IsFiniteSet(PastSet(c)) /\ Cardinality(PastSet(c)) \in Nat
  <1>1. PastSet(c) \subseteq Deliveries /\ IsFiniteSet(Deliveries)
    BY SpanConstants DEF PastSet
  <1>2. QED
    BY <1>1, FS_Subset, FS_CardinalityType

\* A step that counts no call of c and gives its parent none to count.
LEMMA CountSame ==
    ASSUME SpanTypes, SpanTypes', NEW c \in Spans, CountOK(c), calls'[c] = calls[c], MayResolve(c)' => MayResolve(c),
           \A o \in Deliveries : Past(o, c) => Past(o, c)'
    PROVE  CountOK(c)'
  <1>1. PastSet(c) \subseteq PastSet(c)'
    BY DEF PastSet
  <1>2. IsFiniteSet(PastSet(c)') /\ Cardinality(PastSet(c)') \in Nat
    <2>1. PastSet(c)' \subseteq Deliveries /\ IsFiniteSet(Deliveries)
      BY SpanConstants DEF PastSet
    <2>2. QED
      BY <2>1, FS_Subset, FS_CardinalityType
  <1>3. Cardinality(PastSet(c)) <= Cardinality(PastSet(c)') /\ Cardinality(PastSet(c)) \in Nat
    BY <1>1, <1>2, FS_Subset, FS_CardinalityType
  <1>4. calls[c] \in Nat
    BY DEF SpanTypes
  <1>5. QED
    BY <1>2, <1>3, <1>4 DEF CountOK

\* A request of c passes the step that counts its call or makes it wait.
LEMMA CountOneMore ==
    ASSUME SpanTypes, NEW c \in Spans, CountOK(c), NEW d \in Deliveries, ~ Past(d, c), Past(d, c)',
           \A o \in Deliveries : o # d => (Past(o, c) <=> Past(o, c)'),
           \/ calls'[c] = calls[c]
           \/ calls'[c] = calls[c] + 1 /\ (MayResolve(c)' => MayResolve(c))
    PROVE  CountOK(c)'
  <1>1. PastSet(c)' = PastSet(c) \cup {d} /\ d \notin PastSet(c)
    BY DEF PastSet
  <1>2. IsFiniteSet(PastSet(c)) /\ Cardinality(PastSet(c)) \in Nat
    BY PastIsFinite
  <1>3. Cardinality(PastSet(c)') = Cardinality(PastSet(c)) + 1
    BY <1>1, <1>2, FS_AddElement
  <1>4. calls[c] \in Nat
    BY DEF SpanTypes
  <1>5. QED
    BY <1>2, <1>3, <1>4 DEF CountOK

\* What every step does to the facts that only ever get weaker.
LEMMA CleanBefore ==
    ASSUME SpanTypes, NEW c \in Spans, Clean(c)', overlapped \subseteq overlapped',
           spanFaults' = spanFaults \/ spanFaults' = spanFaults + 1
    PROVE  Clean(c) /\ spanFaults = 0 /\ spanFaults' = spanFaults
  <1>1. spanFaults \in Nat /\ spanFaults' = 0
    BY DEF SpanTypes, Clean
  <1>2. QED
    BY <1>1 DEF Clean

LEMMA ArriveKeeps == ASSUME SpanIInv, NEW d \in Deliveries, Arrive(d) PROVE SpanIInv'
  <1> DEFINE s == SpanOf[d]
             busy == {r \in Relatives(s) : Active(r)}
  <1>1. SpanTypes /\ SpanTypeOK /\ StoredOK
    BY DEF SpanIInv
  <1>2. /\ handling[d].pc = "out" /\ To(d, "store") /\ UNCHANGED <<known, waiting, calls, spanFaults>>
        /\ overlapped' = IF busy = {} THEN overlapped ELSE overlapped \cup busy \cup {s}
    BY DEF Arrive
  <1>3. /\ handling' \in [Deliveries -> HandlingRows] /\ handling'[d].pc = "store" /\ handling'[d].children = {}
        /\ \A o \in Deliveries : o # d => handling'[o] = handling[o]
    BY <1>1, <1>2, Moves DEF SpanPcs
  <1>4. s \in Spans /\ busy \subseteq Spans
    BY <1>1, SpanShapes DEF Relatives
  <1>5. overlapped \subseteq overlapped' /\ overlapped' \subseteq Spans
    BY <1>1, <1>2, <1>4 DEF SpanTypes
  <1>6. SpanTypes'
    BY <1>1, <1>2, <1>3, <1>5 DEF SpanTypes
  <1>7. SpanTypeOK'
    BY <1>1, <1>2, <1>3 DEF SpanTypeOK, Children
  <1>8. StoredOK'
    BY <1>1, <1>2, <1>3 DEF StoredOK
  <1>9. ASSUME NEW c \in Spans, Clean(c)' PROVE EdgeOK(c)'
    <2> DEFINE p == ParentOf[c]
    <2>1. Clean(c)
      BY <1>1, <1>2, <1>5, <1>9, CleanBefore
    <2>2. EdgeOK(c) /\ p \in Spans
      BY <1>1, <2>1, SpanShapes DEF SpanIInv, Clean
    <2>3. c \notin overlapped' /\ p \notin overlapped'
      BY <1>9 DEF Clean
    <2>4. ASSUME NEW a \in Deliveries, NEW e \in Deliveries, Underway(a, c)', Underway(e, p)' PROVE a = e
      <3>1. CASE a # d /\ e # d
        BY <1>3, <2>2, <2>4, <3>1 DEF EdgeOK, Underway
      <3>2. CASE a = d /\ e # d
        <4>1. s = c /\ Active(p) /\ p \in Relatives(s)
          BY <1>3, <2>2, <2>4, <3>2 DEF Underway, Active, Relatives
        <4>2. QED
          BY <1>2, <2>3, <4>1
      <3>3. CASE a # d /\ e = d
        <4>1. s = p /\ Active(c) /\ c \in Relatives(s)
          BY <1>3, <2>2, <2>4, <3>3 DEF Underway, Active, Relatives
        <4>2. QED
          BY <1>2, <2>3, <4>1
      <3>4. QED
        BY <3>1, <3>2, <3>3
    <2>5. \A a \in Deliveries : SpanOf[a] = c /\ handling'[a].pc = "wait" => p \notin known'
      BY <1>2, <1>3, <2>2 DEF EdgeOK
    <2>6. \A a \in Deliveries : Past(a, c)' => calls'[c] > 0 \/ c \in waiting'[p]
      BY <1>2, <1>3, <2>2 DEF EdgeOK, Past
    <2>7. \A e \in Deliveries : SpanOf[e] = p /\ c \in waiting'[p] /\ handling'[e].pc = "resolve" =>
                                    calls'[c] > 0 \/ c \in handling'[e].children
      BY <1>2, <1>3, <2>2 DEF EdgeOK
    <2>8. \A e \in Deliveries : SpanOf[e] = p /\ c \in waiting'[p] /\ handling'[e].pc = "delete" => calls'[c] > 0
      BY <1>2, <1>3, <2>2 DEF EdgeOK
    <2>9. c \in waiting'[p] /\ p \in known' =>
              calls'[c] > 0 \/ \E e \in Deliveries : ToRead(e, p)' \/ Resolving(e, p, c)'
      <3>1. \A e \in Deliveries : ToRead(e, p) \/ Resolving(e, p, c) => ToRead(e, p)' \/ Resolving(e, p, c)'
        BY <1>2, <1>3 DEF ToRead, Resolving
      <3>2. QED
        BY <1>2, <2>2, <3>1 DEF EdgeOK
    <2>10. QED
      BY <2>4, <2>5, <2>6, <2>7, <2>8, <2>9 DEF EdgeOK
  <1>10. ASSUME NEW c \in Spans, ParentOf[c] # Root, OneArrived(ParentOf[c])' PROVE CountOK(c)'
    <2>1. OneArrived(ParentOf[c])
      BY <1>2, <1>3, <1>10 DEF OneArrived
    <2>2. CountOK(c)
      BY <1>10, <2>1 DEF SpanIInv
    <2>3. MayResolve(c)' => MayResolve(c)
      BY <1>2, <1>3 DEF MayResolve, Resolving
    <2>4. \A o \in Deliveries : Past(o, c) => Past(o, c)'
      BY <1>2, <1>3 DEF Past
    <2>5. QED
      BY <1>1, <1>2, <1>6, <2>2, <2>3, <2>4, CountSame
  <1>11. QED
    BY <1>6, <1>7, <1>8, <1>9, <1>10 DEF SpanIInv

\* The parent is known, or the span is to wait: nothing of its call is done yet.
LEMMA LookKeeps == ASSUME SpanIInv, NEW d \in Deliveries, LookForParent(d) PROVE SpanIInv'
  <1>1. SpanTypes /\ SpanTypeOK /\ StoredOK
    BY DEF SpanIInv
  <1>2. /\ handling[d].pc = "parent" /\ UNCHANGED <<known, waiting, calls, overlapped, spanFaults>>
        /\ To(d, IF ParentOf[SpanOf[d]] \in known THEN "count" ELSE "wait")
    BY DEF LookForParent
  <1>3. /\ handling' \in [Deliveries -> HandlingRows] /\ handling'[d].pc = (IF ParentOf[SpanOf[d]] \in known THEN "count" ELSE "wait") /\ handling'[d].children = {}
        /\ \A o \in Deliveries : o # d => handling'[o] = handling[o]
    BY <1>1, <1>2, Moves DEF SpanPcs
  <1>4. SpanOf[d] \in Spans
    BY <1>1, SpanShapes
  <1>6. SpanTypes'
    BY <1>1, <1>2, <1>3, <1>4 DEF SpanTypes
  <1>7. SpanTypeOK'
    BY <1>1, <1>2, <1>3 DEF SpanTypeOK, Children
  <1>8. StoredOK'
    BY <1>1, <1>2, <1>3 DEF StoredOK
  <1>9. ASSUME NEW c \in Spans, Clean(c)' PROVE EdgeOK(c)'
    <2> DEFINE p == ParentOf[c]
    <2>1. Clean(c) /\ spanFaults = 0 /\ spanFaults' = spanFaults
      BY <1>1, <1>2, <1>9, CleanBefore
    <2>2. EdgeOK(c) /\ p \in Spans
      BY <1>1, <2>1, SpanShapes DEF SpanIInv, Clean
    <2>3. StoredOK /\ (\A a \in Deliveries : handling[a].pc \notin {"out", "store"} => SpanOf[a] \in known)
      BY <1>1, <2>1 DEF StoredOK
    <2>4. \A a, e \in Deliveries : Underway(a, c)' /\ Underway(e, p)' => a = e
      BY <1>1, <1>2, <1>3, <2>1, <2>2, <2>3 DEF EdgeOK, Underway
    <2>5. \A a \in Deliveries : SpanOf[a] = c /\ handling'[a].pc = "wait" => p \notin known'
      BY <1>1, <1>2, <1>3, <2>1, <2>2, <2>3 DEF EdgeOK, Underway
    <2>6. \A a \in Deliveries : Past(a, c)' => calls'[c] > 0 \/ c \in waiting'[p]
      BY <1>1, <1>2, <1>3, <2>1, <2>2, <2>3 DEF EdgeOK, Past
    <2>7. \A e \in Deliveries : SpanOf[e] = p /\ c \in waiting'[p] /\ handling'[e].pc = "resolve" =>
                                    calls'[c] > 0 \/ c \in handling'[e].children
      BY <1>1, <1>2, <1>3, <2>1, <2>2, <2>3 DEF EdgeOK
    <2>8. \A e \in Deliveries : SpanOf[e] = p /\ c \in waiting'[p] /\ handling'[e].pc = "delete" => calls'[c] > 0
      BY <1>1, <1>2, <1>3, <2>1, <2>2, <2>3 DEF EdgeOK
    <2>9. c \in waiting'[p] /\ p \in known' =>
              calls'[c] > 0 \/ \E e \in Deliveries : ToRead(e, p)' \/ Resolving(e, p, c)'
      BY <1>1, <1>2, <1>3, <2>1, <2>2, <2>3 DEF EdgeOK, ToRead, Resolving
    <2>10. QED
      BY <2>4, <2>5, <2>6, <2>7, <2>8, <2>9 DEF EdgeOK
  <1>10. ASSUME NEW c \in Spans, ParentOf[c] # Root, OneArrived(ParentOf[c])' PROVE CountOK(c)'
    <2>1. OneArrived(ParentOf[c]) /\ ParentOf[c] \in Spans
      BY <1>1, <1>2, <1>3, <1>10, SpanShapes DEF OneArrived
    <2>2. CountOK(c)
      BY <1>10, <2>1 DEF SpanIInv
    <2>3. MayResolve(c)' => MayResolve(c)
      BY <1>1, <1>2, <1>3, <2>1 DEF MayResolve, Resolving, OneArrived
    <2>4. \A o \in Deliveries : Past(o, c) => Past(o, c)'
      BY <1>2, <1>3 DEF Past
    <2>5. calls'[c] = calls[c]
      BY <1>2
    <2>6. QED
      BY <1>1, <1>6, <2>2, <2>3, <2>4, <2>5, CountSame
  <1>11. QED
    BY <1>6, <1>7, <1>8, <1>9, <1>10 DEF SpanIInv

\* A request of the span counts its call.
LEMMA CountCallKeeps == ASSUME SpanIInv, NEW d \in Deliveries, CountCall(d) PROVE SpanIInv'
  <1>1. SpanTypes /\ SpanTypeOK /\ StoredOK
    BY DEF SpanIInv
  <1>2. /\ handling[d].pc = "count" /\ UNCHANGED <<known, waiting, overlapped, spanFaults>>
        /\ To(d, "children") /\ calls' = [calls EXCEPT ![SpanOf[d]] = @ + 1]
    BY DEF CountCall
  <1>3. /\ handling' \in [Deliveries -> HandlingRows] /\ handling'[d].pc = "children" /\ handling'[d].children = {}
        /\ \A o \in Deliveries : o # d => handling'[o] = handling[o]
    BY <1>1, <1>2, Moves DEF SpanPcs
  <1>4. /\ SpanOf[d] \in Spans /\ calls' \in [Spans -> Nat] /\ calls'[SpanOf[d]] = calls[SpanOf[d]] + 1
        /\ \A x \in Spans : calls[x] \in Nat /\ calls'[x] >= calls[x] /\ (x # SpanOf[d] => calls'[x] = calls[x])
    BY <1>1, <1>2, SpanShapes DEF SpanTypes
  <1>6. SpanTypes'
    BY <1>1, <1>2, <1>3, <1>4 DEF SpanTypes
  <1>7. SpanTypeOK'
    BY <1>1, <1>2, <1>3 DEF SpanTypeOK, Children
  <1>8. StoredOK'
    BY <1>1, <1>2, <1>3 DEF StoredOK
  <1>9. ASSUME NEW c \in Spans, Clean(c)' PROVE EdgeOK(c)'
    <2> DEFINE p == ParentOf[c]
    <2>1. Clean(c) /\ spanFaults = 0 /\ spanFaults' = spanFaults
      BY <1>1, <1>2, <1>9, CleanBefore
    <2>2. EdgeOK(c) /\ p \in Spans
      BY <1>1, <2>1, SpanShapes DEF SpanIInv, Clean
    <2>3. StoredOK /\ (\A a \in Deliveries : handling[a].pc \notin {"out", "store"} => SpanOf[a] \in known)
      BY <1>1, <2>1 DEF StoredOK
    <2>4. \A a, e \in Deliveries : Underway(a, c)' /\ Underway(e, p)' => a = e
      BY <1>1, <1>2, <1>3, <1>4, <2>1, <2>2, <2>3 DEF EdgeOK, Underway
    <2>5. \A a \in Deliveries : SpanOf[a] = c /\ handling'[a].pc = "wait" => p \notin known'
      BY <1>1, <1>2, <1>3, <1>4, <2>1, <2>2, <2>3 DEF EdgeOK, Underway
    <2>6. \A a \in Deliveries : Past(a, c)' => calls'[c] > 0 \/ c \in waiting'[p]
      BY <1>1, <1>2, <1>3, <1>4, <2>1, <2>2, <2>3 DEF EdgeOK, Past
    <2>7. \A e \in Deliveries : SpanOf[e] = p /\ c \in waiting'[p] /\ handling'[e].pc = "resolve" =>
                                    calls'[c] > 0 \/ c \in handling'[e].children
      BY <1>1, <1>2, <1>3, <1>4, <2>1, <2>2, <2>3 DEF EdgeOK
    <2>8. \A e \in Deliveries : SpanOf[e] = p /\ c \in waiting'[p] /\ handling'[e].pc = "delete" => calls'[c] > 0
      BY <1>1, <1>2, <1>3, <1>4, <2>1, <2>2, <2>3 DEF EdgeOK
    <2>9. c \in waiting'[p] /\ p \in known' =>
              calls'[c] > 0 \/ \E e \in Deliveries : ToRead(e, p)' \/ Resolving(e, p, c)'
      BY <1>1, <1>2, <1>3, <1>4, <2>1, <2>2, <2>3 DEF EdgeOK, ToRead, Resolving
    <2>10. QED
      BY <2>4, <2>5, <2>6, <2>7, <2>8, <2>9 DEF EdgeOK
  <1>10. ASSUME NEW c \in Spans, ParentOf[c] # Root, OneArrived(ParentOf[c])' PROVE CountOK(c)'
    <2>1. OneArrived(ParentOf[c]) /\ ParentOf[c] \in Spans
      BY <1>1, <1>2, <1>3, <1>10, SpanShapes DEF OneArrived
    <2>2. CountOK(c)
      BY <1>10, <2>1 DEF SpanIInv
    <2>3. MayResolve(c)' => MayResolve(c)
      BY <1>1, <1>2, <1>3, <2>1 DEF MayResolve, Resolving, OneArrived
    <2>4. CASE SpanOf[d] = c
      <3>1. ~ Past(d, c) /\ Past(d, c)' /\ \A o \in Deliveries : o # d => (Past(o, c) <=> Past(o, c)')
        BY <1>2, <1>3, <2>4 DEF Past
      <3>2. QED
        BY <1>1, <1>4, <2>2, <2>3, <2>4, <3>1, CountOneMore
    <2>5. CASE SpanOf[d] # c
      <3>1. calls'[c] = calls[c] /\ \A o \in Deliveries : Past(o, c) => Past(o, c)'
        BY <1>2, <1>3, <1>4, <2>5 DEF Past
      <3>2. QED
        BY <1>1, <1>6, <2>2, <2>3, <3>1, CountSame
    <2>6. QED
      BY <2>4, <2>5
  <1>11. QED
    BY <1>6, <1>7, <1>8, <1>9, <1>10 DEF SpanIInv

\* The span is stored while, for a clean call, no request of a child is about to wait.
LEMMA StoreKeeps == ASSUME SpanIInv, NEW d \in Deliveries, StoreSpan(d) PROVE SpanIInv'
  <1>1. SpanTypes /\ SpanTypeOK /\ StoredOK
    BY DEF SpanIInv
  <1> DEFINE to == IF ParentOf[SpanOf[d]] = Root THEN "children" ELSE "parent"
  <1>2. /\ handling[d].pc = "store" /\ UNCHANGED <<waiting, calls, overlapped>>
        /\ \/ known' = known \cup {SpanOf[d]} /\ UNCHANGED spanFaults
           \/ known' = known /\ spanFaults' = spanFaults + 1
        /\ To(d, to) /\ to \in {"children", "parent"}
    BY DEF StoreSpan, SpanFault
  <1> HIDE DEF to
  <1>3. /\ handling' \in [Deliveries -> HandlingRows] /\ handling'[d].pc = to /\ handling'[d].children = {}
        /\ \A o \in Deliveries : o # d => handling'[o] = handling[o]
    BY <1>1, <1>2, Moves DEF SpanPcs
  <1>4. SpanOf[d] \in Spans /\ known' \subseteq Spans /\ spanFaults' \in Nat
        /\ (spanFaults' = 0 => spanFaults = 0 /\ known' = known \cup {SpanOf[d]})
    BY <1>1, <1>2, SpanShapes DEF SpanTypes
  <1>5. ASSUME NEW c \in Spans, ParentOf[c] # Root, SpanOf[d] = c PROVE to = "parent"
    BY <1>5 DEF to
  <1>6. SpanTypes'
    BY <1>1, <1>2, <1>3, <1>4 DEF SpanTypes
  <1>7. SpanTypeOK'
    BY <1>1, <1>2, <1>3, <1>4 DEF SpanTypeOK, Children
  <1>8. StoredOK'
    BY <1>1, <1>2, <1>3, <1>4 DEF StoredOK
  <1>9. ASSUME NEW c \in Spans, Clean(c)' PROVE EdgeOK(c)'
    <2> DEFINE p == ParentOf[c]
    <2>1. Clean(c) /\ spanFaults = 0 /\ spanFaults' = spanFaults
      BY <1>1, <1>2, <1>9, CleanBefore
    <2>2. EdgeOK(c) /\ p \in Spans
      BY <1>1, <2>1, SpanShapes DEF SpanIInv, Clean
    <2>3. StoredOK /\ (\A a \in Deliveries : handling[a].pc \notin {"out", "store"} => SpanOf[a] \in known)
      BY <1>1, <2>1 DEF StoredOK
    <2>11. known' = known \cup {SpanOf[d]} /\ (SpanOf[d] = c => to = "parent")
      BY <1>4, <1>5, <2>1 DEF Clean
    <2>4. \A a, e \in Deliveries : Underway(a, c)' /\ Underway(e, p)' => a = e
      BY <1>1, <1>2, <1>3, <1>4, <2>1, <2>2, <2>3, <2>11 DEF EdgeOK, Underway
    <2>5. \A a \in Deliveries : SpanOf[a] = c /\ handling'[a].pc = "wait" => p \notin known'
      BY <1>1, <1>2, <1>3, <1>4, <2>1, <2>2, <2>3, <2>11 DEF EdgeOK, Underway
    <2>6. \A a \in Deliveries : Past(a, c)' => calls'[c] > 0 \/ c \in waiting'[p]
      BY <1>1, <1>2, <1>3, <1>4, <2>1, <2>2, <2>3, <2>11 DEF EdgeOK, Past
    <2>7. \A e \in Deliveries : SpanOf[e] = p /\ c \in waiting'[p] /\ handling'[e].pc = "resolve" =>
                                    calls'[c] > 0 \/ c \in handling'[e].children
      BY <1>1, <1>2, <1>3, <1>4, <2>1, <2>2, <2>3, <2>11 DEF EdgeOK
    <2>8. \A e \in Deliveries : SpanOf[e] = p /\ c \in waiting'[p] /\ handling'[e].pc = "delete" => calls'[c] > 0
      BY <1>1, <1>2, <1>3, <1>4, <2>1, <2>2, <2>3, <2>11 DEF EdgeOK
    <2>9. c \in waiting'[p] /\ p \in known' =>
              calls'[c] > 0 \/ \E e \in Deliveries : ToRead(e, p)' \/ Resolving(e, p, c)'
      BY <1>1, <1>2, <1>3, <1>4, <2>1, <2>2, <2>3, <2>11 DEF EdgeOK, ToRead, Resolving
    <2>10. QED
      BY <2>4, <2>5, <2>6, <2>7, <2>8, <2>9 DEF EdgeOK
  <1>10. ASSUME NEW c \in Spans, ParentOf[c] # Root, OneArrived(ParentOf[c])' PROVE CountOK(c)'
    <2>1. OneArrived(ParentOf[c]) /\ ParentOf[c] \in Spans
      BY <1>1, <1>2, <1>3, <1>10, SpanShapes DEF OneArrived
    <2>2. CountOK(c)
      BY <1>10, <2>1 DEF SpanIInv
    <2>3. MayResolve(c)' => MayResolve(c)
      BY <1>1, <1>2, <1>3, <2>1 DEF MayResolve, Resolving, OneArrived
    <2>4. \A o \in Deliveries : Past(o, c) => Past(o, c)'
      BY <1>2, <1>3 DEF Past
    <2>5. calls'[c] = calls[c]
      BY <1>2
    <2>6. QED
      BY <1>1, <1>6, <2>2, <2>3, <2>4, <2>5, CountSame
  <1>11. QED
    BY <1>6, <1>7, <1>8, <1>9, <1>10 DEF SpanIInv

\* The span waits; for a clean call its parent has not come yet.
LEMMA AddPendingKeeps == ASSUME SpanIInv, NEW d \in Deliveries, AddPendingChild(d) PROVE SpanIInv'
  <1>1. SpanTypes /\ SpanTypeOK /\ StoredOK
    BY DEF SpanIInv
  <1> DEFINE q == ParentOf[SpanOf[d]]
  <1>2. /\ handling[d].pc = "wait" /\ UNCHANGED <<known, calls, overlapped>> /\ To(d, "children")
        /\ \/ waiting' = [waiting EXCEPT ![q] = @ \cup {SpanOf[d]}] /\ UNCHANGED spanFaults
           \/ waiting' = waiting /\ spanFaults' = spanFaults + 1
    BY DEF AddPendingChild, SpanFault
  <1>3. /\ handling' \in [Deliveries -> HandlingRows] /\ handling'[d].pc = "children" /\ handling'[d].children = {}
        /\ \A o \in Deliveries : o # d => handling'[o] = handling[o]
    BY <1>1, <1>2, Moves DEF SpanPcs
  <1>4. /\ SpanOf[d] \in Spans /\ waiting' \in [Spans -> SUBSET Spans] /\ spanFaults' \in Nat
        /\ \A x \in Spans : /\ waiting[x] \subseteq waiting'[x] /\ waiting'[x] \subseteq waiting[x] \cup {SpanOf[d]}
                            /\ x # q => waiting'[x] = waiting[x]
        /\ spanFaults' = 0 => (q \in Spans => SpanOf[d] \in waiting'[q])
    BY <1>1, <1>2, SpanShapes DEF SpanTypes
  <1>6. SpanTypes'
    BY <1>1, <1>2, <1>3, <1>4 DEF SpanTypes
  <1>7. SpanTypeOK'
    BY <1>1, <1>2, <1>3, <1>4 DEF SpanTypeOK, Children
  <1>8. StoredOK'
    BY <1>1, <1>2, <1>3, <1>4 DEF StoredOK, SpanTypes
  <1>9. ASSUME NEW c \in Spans, Clean(c)' PROVE EdgeOK(c)'
    <2> DEFINE p == ParentOf[c]
    <2>1. Clean(c) /\ spanFaults = 0 /\ spanFaults' = spanFaults
      BY <1>1, <1>2, <1>9, CleanBefore
    <2>2. EdgeOK(c) /\ p \in Spans
      BY <1>1, <2>1, SpanShapes DEF SpanIInv, Clean
    <2>3. StoredOK /\ (\A a \in Deliveries : handling[a].pc \notin {"out", "store"} => SpanOf[a] \in known)
      BY <1>1, <2>1 DEF StoredOK
    <2>4. \A a, e \in Deliveries : Underway(a, c)' /\ Underway(e, p)' => a = e
      BY <1>1, <1>2, <1>3, <1>4, <2>1, <2>2, <2>3 DEF EdgeOK, Underway
    <2>5. \A a \in Deliveries : SpanOf[a] = c /\ handling'[a].pc = "wait" => p \notin known'
      BY <1>1, <1>2, <1>3, <1>4, <2>1, <2>2, <2>3 DEF EdgeOK, Underway
    <2>6. \A a \in Deliveries : Past(a, c)' => calls'[c] > 0 \/ c \in waiting'[p]
      BY <1>1, <1>2, <1>3, <1>4, <2>1, <2>2, <2>3 DEF EdgeOK, Past
    <2>7. \A e \in Deliveries : SpanOf[e] = p /\ c \in waiting'[p] /\ handling'[e].pc = "resolve" =>
                                    calls'[c] > 0 \/ c \in handling'[e].children
      BY <1>1, <1>2, <1>3, <1>4, <2>1, <2>2, <2>3 DEF EdgeOK
    <2>8. \A e \in Deliveries : SpanOf[e] = p /\ c \in waiting'[p] /\ handling'[e].pc = "delete" => calls'[c] > 0
      BY <1>1, <1>2, <1>3, <1>4, <2>1, <2>2, <2>3 DEF EdgeOK
    <2>9. c \in waiting'[p] /\ p \in known' =>
              calls'[c] > 0 \/ \E e \in Deliveries : ToRead(e, p)' \/ Resolving(e, p, c)'
      BY <1>1, <1>2, <1>3, <1>4, <2>1, <2>2, <2>3 DEF EdgeOK, ToRead, Resolving
    <2>10. QED
      BY <2>4, <2>5, <2>6, <2>7, <2>8, <2>9 DEF EdgeOK
  <1>10. ASSUME NEW c \in Spans, ParentOf[c] # Root, OneArrived(ParentOf[c])' PROVE CountOK(c)'
    <2>1. OneArrived(ParentOf[c]) /\ ParentOf[c] \in Spans
      BY <1>1, <1>2, <1>3, <1>10, SpanShapes DEF OneArrived
    <2>2. CountOK(c)
      BY <1>10, <2>1 DEF SpanIInv
    <2>3. CASE SpanOf[d] = c
      <3>1. ~ Past(d, c) /\ Past(d, c)' /\ \A o \in Deliveries : o # d => (Past(o, c) <=> Past(o, c)')
        BY <1>2, <1>3, <2>3 DEF Past
      <3>2. calls'[c] = calls[c]
        BY <1>2
      <3>3. QED
        BY <1>1, <2>2, <3>1, <3>2, CountOneMore
    <2>4. CASE SpanOf[d] # c
      <3>1. MayResolve(c)' => MayResolve(c)
        BY <1>1, <1>2, <1>3, <1>4, <2>1, <2>4 DEF MayResolve, Resolving, OneArrived
      <3>2. calls'[c] = calls[c] /\ \A o \in Deliveries : Past(o, c) => Past(o, c)'
        BY <1>2, <1>3, <2>4 DEF Past
      <3>3. QED
        BY <1>1, <1>6, <2>2, <3>1, <3>2, CountSame
    <2>5. QED
      BY <2>3, <2>4
  <1>11. QED
    BY <1>6, <1>7, <1>8, <1>9, <1>10 DEF SpanIInv

\* The request reads who waits for its span.
LEMMA ReadKeeps == ASSUME SpanIInv, NEW d \in Deliveries, ReadWaiting(d) PROVE SpanIInv'
  <1>1. SpanTypes /\ SpanTypeOK /\ StoredOK
    BY DEF SpanIInv
  <1> DEFINE s == SpanOf[d]
  <1>2. /\ handling[d].pc = "children" /\ UNCHANGED <<known, waiting, calls, overlapped, spanFaults>>
    BY DEF ReadWaiting
  <1>4. s \in Spans /\ waiting[s] \in SUBSET Spans /\ waiting[s] \subseteq Children(s)
    BY <1>1, SpanShapes DEF SpanTypes, SpanTypeOK
  <1>3. /\ handling' \in [Deliveries -> HandlingRows]
        /\ \/ handling'[d].pc = "done" /\ handling'[d].children = {} /\ waiting[s] = {}
           \/ handling'[d].pc = "resolve" /\ handling'[d].children = waiting[s]
        /\ \A o \in Deliveries : o # d => handling'[o] = handling[o]
    <2>1. CASE waiting[s] = {}
      <3>1. To(d, "done")
        BY <2>1 DEF ReadWaiting, To
      <3>2. QED
        BY <1>1, <2>1, <3>1, Moves DEF SpanPcs
    <2>2. CASE waiting[s] # {}
      <3> DEFINE row == [pc |-> "resolve", children |-> waiting[s]]
      <3>1. handling' = [handling EXCEPT ![d] = row]
        BY <2>2 DEF ReadWaiting
      <3>2. row \in HandlingRows /\ row.pc = "resolve" /\ row.children = waiting[s]
        BY <1>4 DEF HandlingRows, SpanPcs
      <3> HIDE DEF row
      <3>3. QED
        BY <1>1, <3>1, <3>2, Handles
    <2>3. QED
      BY <2>1, <2>2
  <1>6. SpanTypes'
    BY <1>1, <1>2, <1>3, <1>4 DEF SpanTypes
  <1>7. SpanTypeOK'
    BY <1>1, <1>2, <1>3, <1>4 DEF SpanTypeOK, Children
  <1>8. StoredOK'
    BY <1>1, <1>2, <1>3 DEF StoredOK
  <1>9. ASSUME NEW c \in Spans, Clean(c)' PROVE EdgeOK(c)'
    <2> DEFINE p == ParentOf[c]
    <2>1. Clean(c) /\ spanFaults = 0 /\ spanFaults' = spanFaults
      BY <1>1, <1>2, <1>9, CleanBefore
    <2>2. EdgeOK(c) /\ p \in Spans
      BY <1>1, <2>1, SpanShapes DEF SpanIInv, Clean
    <2>3. StoredOK /\ (\A a \in Deliveries : handling[a].pc \notin {"out", "store"} => SpanOf[a] \in known)
      BY <1>1, <2>1 DEF StoredOK
    <2>4. \A a, e \in Deliveries : Underway(a, c)' /\ Underway(e, p)' => a = e
      BY <1>1, <1>2, <1>3, <1>4, <2>1, <2>2, <2>3 DEF EdgeOK, Underway
    <2>5. \A a \in Deliveries : SpanOf[a] = c /\ handling'[a].pc = "wait" => p \notin known'
      BY <1>1, <1>2, <1>3, <1>4, <2>1, <2>2, <2>3 DEF EdgeOK, Underway
    <2>6. \A a \in Deliveries : Past(a, c)' => calls'[c] > 0 \/ c \in waiting'[p]
      BY <1>1, <1>2, <1>3, <1>4, <2>1, <2>2, <2>3 DEF EdgeOK, Past
    <2>7. \A e \in Deliveries : SpanOf[e] = p /\ c \in waiting'[p] /\ handling'[e].pc = "resolve" =>
                                    calls'[c] > 0 \/ c \in handling'[e].children
      BY <1>1, <1>2, <1>3, <1>4, <2>1, <2>2, <2>3 DEF EdgeOK
    <2>8. \A e \in Deliveries : SpanOf[e] = p /\ c \in waiting'[p] /\ handling'[e].pc = "delete" => calls'[c] > 0
      BY <1>1, <1>2, <1>3, <1>4, <2>1, <2>2, <2>3 DEF EdgeOK
    <2>9. c \in waiting'[p] /\ p \in known' =>
              calls'[c] > 0 \/ \E e \in Deliveries : ToRead(e, p)' \/ Resolving(e, p, c)'
      BY <1>1, <1>2, <1>3, <1>4, <2>1, <2>2, <2>3 DEF EdgeOK, ToRead, Resolving
    <2>10. QED
      BY <2>4, <2>5, <2>6, <2>7, <2>8, <2>9 DEF EdgeOK
  <1>10. ASSUME NEW c \in Spans, ParentOf[c] # Root, OneArrived(ParentOf[c])' PROVE CountOK(c)'
    <2>1. OneArrived(ParentOf[c]) /\ ParentOf[c] \in Spans
      BY <1>1, <1>2, <1>3, <1>10, SpanShapes DEF OneArrived
    <2>2. CountOK(c)
      BY <1>10, <2>1 DEF SpanIInv
    <2>3. MayResolve(c)' => MayResolve(c)
      BY <1>1, <1>2, <1>3, <2>1 DEF MayResolve, Resolving, OneArrived
    <2>4. \A o \in Deliveries : Past(o, c) => Past(o, c)'
      BY <1>2, <1>3 DEF Past
    <2>5. calls'[c] = calls[c]
      BY <1>2
    <2>6. QED
      BY <1>1, <1>6, <2>2, <2>3, <2>4, <2>5, CountSame
  <1>11. QED
    BY <1>6, <1>7, <1>8, <1>9, <1>10 DEF SpanIInv

\* The children that waited are counted.
LEMMA ResolveKeeps == ASSUME SpanIInv, NEW d \in Deliveries, Resolve(d) PROVE SpanIInv'
  <1>1. SpanTypes /\ SpanTypeOK /\ StoredOK
    BY DEF SpanIInv
  <1>2. /\ handling[d].pc = "resolve" /\ UNCHANGED <<known, waiting, overlapped, spanFaults>>
        /\ To(d, "delete")
        /\ calls' = [c \in Spans |-> IF c \in handling[d].children THEN calls[c] + 1 ELSE calls[c]]
    BY DEF Resolve
  <1>3. /\ handling' \in [Deliveries -> HandlingRows] /\ handling'[d].pc = "delete" /\ handling'[d].children = {}
        /\ \A o \in Deliveries : o # d => handling'[o] = handling[o]
    BY <1>1, <1>2, Moves DEF SpanPcs
  <1>4. /\ SpanOf[d] \in Spans /\ calls' \in [Spans -> Nat] /\ handling[d].children \subseteq Children(SpanOf[d])
        /\ \A x \in Spans : /\ calls[x] \in Nat /\ calls'[x] >= calls[x]
                            /\ x \in handling[d].children => calls'[x] = calls[x] + 1
                            /\ x \notin handling[d].children => calls'[x] = calls[x]
    BY <1>1, <1>2, SpanShapes DEF SpanTypes, SpanTypeOK
  <1>6. SpanTypes'
    BY <1>1, <1>2, <1>3, <1>4 DEF SpanTypes
  <1>7. SpanTypeOK'
    BY <1>1, <1>2, <1>3 DEF SpanTypeOK, Children
  <1>8. StoredOK'
    BY <1>1, <1>2, <1>3 DEF StoredOK
  <1>9. ASSUME NEW c \in Spans, Clean(c)' PROVE EdgeOK(c)'
    <2> DEFINE p == ParentOf[c]
    <2>1. Clean(c) /\ spanFaults = 0 /\ spanFaults' = spanFaults
      BY <1>1, <1>2, <1>9, CleanBefore
    <2>2. EdgeOK(c) /\ p \in Spans
      BY <1>1, <2>1, SpanShapes DEF SpanIInv, Clean
    <2>3. StoredOK /\ (\A a \in Deliveries : handling[a].pc \notin {"out", "store"} => SpanOf[a] \in known)
      BY <1>1, <2>1 DEF StoredOK
    <2>4. \A a, e \in Deliveries : Underway(a, c)' /\ Underway(e, p)' => a = e
      BY <1>1, <1>2, <1>3, <1>4, <2>1, <2>2, <2>3 DEF EdgeOK, Underway
    <2>5. \A a \in Deliveries : SpanOf[a] = c /\ handling'[a].pc = "wait" => p \notin known'
      BY <1>1, <1>2, <1>3, <1>4, <2>1, <2>2, <2>3 DEF EdgeOK, Underway
    <2>6. \A a \in Deliveries : Past(a, c)' => calls'[c] > 0 \/ c \in waiting'[p]
      BY <1>1, <1>2, <1>3, <1>4, <2>1, <2>2, <2>3 DEF EdgeOK, Past
    <2>7. \A e \in Deliveries : SpanOf[e] = p /\ c \in waiting'[p] /\ handling'[e].pc = "resolve" =>
                                    calls'[c] > 0 \/ c \in handling'[e].children
      BY <1>1, <1>2, <1>3, <1>4, <2>1, <2>2, <2>3 DEF EdgeOK
    <2>8. \A e \in Deliveries : SpanOf[e] = p /\ c \in waiting'[p] /\ handling'[e].pc = "delete" => calls'[c] > 0
      BY <1>1, <1>2, <1>3, <1>4, <2>1, <2>2, <2>3 DEF EdgeOK
    <2>9. c \in waiting'[p] /\ p \in known' =>
              calls'[c] > 0 \/ \E e \in Deliveries : ToRead(e, p)' \/ Resolving(e, p, c)'
      BY <1>1, <1>2, <1>3, <1>4, <2>1, <2>2, <2>3 DEF EdgeOK, ToRead, Resolving
    <2>10. QED
      BY <2>4, <2>5, <2>6, <2>7, <2>8, <2>9 DEF EdgeOK
  <1>10. ASSUME NEW c \in Spans, ParentOf[c] # Root, OneArrived(ParentOf[c])' PROVE CountOK(c)'
    <2>1. OneArrived(ParentOf[c]) /\ ParentOf[c] \in Spans
      BY <1>1, <1>2, <1>3, <1>10, SpanShapes DEF OneArrived
    <2>2. CountOK(c)
      BY <1>10, <2>1 DEF SpanIInv
    <2>3. /\ \A o \in Deliveries : Past(o, c) <=> Past(o, c)'
          /\ PastSet(c)' = PastSet(c) /\ Cardinality(PastSet(c)) \in Nat
      <3>1. \A o \in Deliveries : Past(o, c) <=> Past(o, c)'
        BY <1>2, <1>3 DEF Past
      <3>2. PastSet(c)' = PastSet(c)
        BY <3>1 DEF PastSet
      <3>3. QED
        BY <3>1, <3>2, PastIsFinite
    <2>4. CASE c \in handling[d].children
      <3>1. SpanOf[d] = ParentOf[c]
        BY <1>4, <2>4 DEF Children
      <3>2. MayResolve(c)
        BY <1>2, <2>4, <3>1 DEF MayResolve, Resolving
      <3>3. ~ MayResolve(c)'
        BY <1>2, <1>3, <2>1, <3>1 DEF MayResolve, Resolving, OneArrived
      <3>4. QED
        BY <1>4, <2>2, <2>3, <2>4, <3>2, <3>3 DEF CountOK
    <2>5. CASE c \notin handling[d].children
      <3>1. MayResolve(c)' => MayResolve(c)
        BY <1>1, <1>2, <1>3, <2>1, <2>5 DEF MayResolve, Resolving, OneArrived
      <3>2. QED
        BY <1>1, <1>4, <1>6, <2>2, <2>3, <2>5, <3>1, CountSame
    <2>6. QED
      BY <2>4, <2>5
  <1>11. QED
    BY <1>6, <1>7, <1>8, <1>9, <1>10 DEF SpanIInv

\* The set is deleted: for a clean call whoever is in it was counted.
LEMMA DeleteKeeps == ASSUME SpanIInv, NEW d \in Deliveries, DeletePending(d) PROVE SpanIInv'
  <1>1. SpanTypes /\ SpanTypeOK /\ StoredOK
    BY DEF SpanIInv
  <1>2. /\ handling[d].pc = "delete" /\ UNCHANGED <<known, calls, overlapped, spanFaults>>
        /\ To(d, "done") /\ waiting' = [waiting EXCEPT ![SpanOf[d]] = {}]
    BY DEF DeletePending
  <1>3. /\ handling' \in [Deliveries -> HandlingRows] /\ handling'[d].pc = "done" /\ handling'[d].children = {}
        /\ \A o \in Deliveries : o # d => handling'[o] = handling[o]
    BY <1>1, <1>2, Moves DEF SpanPcs
  <1>4. /\ SpanOf[d] \in Spans /\ waiting' \in [Spans -> SUBSET Spans]
        /\ \A x \in Spans : waiting'[x] \subseteq waiting[x] /\ (x # SpanOf[d] => waiting'[x] = waiting[x])
    BY <1>1, <1>2, SpanShapes DEF SpanTypes
  <1>6. SpanTypes'
    BY <1>1, <1>2, <1>3, <1>4 DEF SpanTypes
  <1>7. SpanTypeOK'
    BY <1>1, <1>2, <1>3, <1>4 DEF SpanTypeOK, Children
  <1>8. StoredOK'
    BY <1>1, <1>2, <1>3 DEF StoredOK
  <1>9. ASSUME NEW c \in Spans, Clean(c)' PROVE EdgeOK(c)'
    <2> DEFINE p == ParentOf[c]
    <2>1. Clean(c) /\ spanFaults = 0 /\ spanFaults' = spanFaults
      BY <1>1, <1>2, <1>9, CleanBefore
    <2>2. EdgeOK(c) /\ p \in Spans
      BY <1>1, <2>1, SpanShapes DEF SpanIInv, Clean
    <2>3. StoredOK /\ (\A a \in Deliveries : handling[a].pc \notin {"out", "store"} => SpanOf[a] \in known)
      BY <1>1, <2>1 DEF StoredOK
    <2>4. \A a, e \in Deliveries : Underway(a, c)' /\ Underway(e, p)' => a = e
      BY <1>1, <1>2, <1>3, <1>4, <2>1, <2>2, <2>3 DEF EdgeOK, Underway
    <2>5. \A a \in Deliveries : SpanOf[a] = c /\ handling'[a].pc = "wait" => p \notin known'
      BY <1>1, <1>2, <1>3, <1>4, <2>1, <2>2, <2>3 DEF EdgeOK, Underway
    <2>6. \A a \in Deliveries : Past(a, c)' => calls'[c] > 0 \/ c \in waiting'[p]
      BY <1>1, <1>2, <1>3, <1>4, <2>1, <2>2, <2>3 DEF EdgeOK, Past
    <2>7. \A e \in Deliveries : SpanOf[e] = p /\ c \in waiting'[p] /\ handling'[e].pc = "resolve" =>
                                    calls'[c] > 0 \/ c \in handling'[e].children
      BY <1>1, <1>2, <1>3, <1>4, <2>1, <2>2, <2>3 DEF EdgeOK
    <2>8. \A e \in Deliveries : SpanOf[e] = p /\ c \in waiting'[p] /\ handling'[e].pc = "delete" => calls'[c] > 0
      BY <1>1, <1>2, <1>3, <1>4, <2>1, <2>2, <2>3 DEF EdgeOK
    <2>9. c \in waiting'[p] /\ p \in known' =>
              calls'[c] > 0 \/ \E e \in Deliveries : ToRead(e, p)' \/ Resolving(e, p, c)'
      BY <1>1, <1>2, <1>3, <1>4, <2>1, <2>2, <2>3 DEF EdgeOK, ToRead, Resolving
    <2>10. QED
      BY <2>4, <2>5, <2>6, <2>7, <2>8, <2>9 DEF EdgeOK
  <1>10. ASSUME NEW c \in Spans, ParentOf[c] # Root, OneArrived(ParentOf[c])' PROVE CountOK(c)'
    <2>1. OneArrived(ParentOf[c]) /\ ParentOf[c] \in Spans
      BY <1>1, <1>2, <1>3, <1>10, SpanShapes DEF OneArrived
    <2>2. CountOK(c)
      BY <1>10, <2>1 DEF SpanIInv
    <2>3. MayResolve(c)' => MayResolve(c)
      BY <1>1, <1>2, <1>3, <1>4, <2>1 DEF MayResolve, Resolving, OneArrived
    <2>4. \A o \in Deliveries : Past(o, c) => Past(o, c)'
      BY <1>2, <1>3 DEF Past
    <2>5. calls'[c] = calls[c]
      BY <1>2
    <2>6. QED
      BY <1>1, <1>6, <2>2, <2>3, <2>4, <2>5, CountSame
  <1>11. QED
    BY <1>6, <1>7, <1>8, <1>9, <1>10 DEF SpanIInv

\* A key expires: no call is clean any more.
LEMMA ExpireKeeps == ASSUME SpanIInv, NEW s \in Spans, ExpireKey(s) PROVE SpanIInv'
  <1>1. SpanTypes /\ SpanTypeOK
    BY DEF SpanIInv
  <1>2. spanFaults' = spanFaults + 1 /\ UNCHANGED <<calls, handling, overlapped>>
    BY DEF ExpireKey, SpanFault
  <1>3. /\ known' \subseteq Spans /\ waiting' \in [Spans -> SUBSET Spans]
        /\ \A x \in Spans : waiting'[x] \subseteq waiting[x]
    BY <1>1 DEF ExpireKey, SpanTypes
  <1>4. SpanTypes' /\ spanFaults' # 0
    BY <1>1, <1>2, <1>3 DEF SpanTypes
  <1>5. SpanTypeOK'
    BY <1>1, <1>2, <1>3, <1>4 DEF SpanTypeOK, SpanTypes, Children
  <1>6. StoredOK' /\ \A c \in Spans : ~ Clean(c)'
    BY <1>4 DEF StoredOK, Clean
  <1>7. ASSUME NEW c \in Spans, ParentOf[c] # Root, OneArrived(ParentOf[c])' PROVE CountOK(c)'
    <2>1. OneArrived(ParentOf[c]) /\ ParentOf[c] \in Spans
      BY <1>1, <1>2, <1>7, SpanShapes DEF OneArrived
    <2>2. CountOK(c)
      BY <1>7, <2>1 DEF SpanIInv
    <2>3. MayResolve(c)' => MayResolve(c)
      BY <1>2, <1>3, <2>1 DEF MayResolve, Resolving
    <2>4. calls'[c] = calls[c] /\ \A o \in Deliveries : Past(o, c) => Past(o, c)'
      BY <1>2 DEF Past
    <2>5. QED
      BY <1>1, <1>4, <2>2, <2>3, <2>4, CountSame
  <1>8. QED
    BY <1>4, <1>5, <1>6, <1>7 DEF SpanIInv

LEMMA NextSpanIInv == ASSUME SpanIInv, [SpanNext]_spanVars PROVE SpanIInv'
  <1>1. CASE UNCHANGED spanVars
    <2>1. UNCHANGED <<known, waiting, calls, handling, overlapped, spanFaults>>
      BY <1>1 DEF spanVars
    <2>2. SpanTypes' /\ SpanTypeOK' /\ StoredOK'
      BY <2>1 DEF SpanIInv, SpanTypes, SpanTypeOK, StoredOK
    <2>3. \A c \in Spans : Clean(c)' => EdgeOK(c)'
      BY <2>1 DEF SpanIInv, Clean, EdgeOK, Underway, Past, ToRead, Resolving
    <2>4. \A c \in Spans : ParentOf[c] # Root /\ OneArrived(ParentOf[c])' => CountOK(c)'
      BY <2>1 DEF SpanIInv, OneArrived, CountOK, MayResolve, Resolving, PastSet, Past
    <2>5. QED
      BY <2>2, <2>3, <2>4 DEF SpanIInv
  <1>2. QED
    BY <1>1, ArriveKeeps, StoreKeeps, LookKeeps, CountCallKeeps, AddPendingKeeps, ReadKeeps, ResolveKeeps,
       DeleteKeeps, ExpireKeeps
    DEF SpanNext

LEMMA InitSpanIInv == ASSUME SpanInit PROVE SpanIInv
  <1>1. At("out") \in HandlingRows /\ At("out").pc = "out" /\ At("out").children = {}
    BY DEF At, HandlingRows, SpanPcs
  <1>2. \A d \in Deliveries : handling[d].pc = "out" /\ handling[d].children = {}
    BY <1>1 DEF SpanInit
  <1>3. SpanTypes
    BY <1>1 DEF SpanInit, SpanTypes
  <1>4. SpanTypeOK /\ StoredOK
    BY <1>2 DEF SpanInit, SpanTypeOK, StoredOK
  <1>5. ASSUME NEW c \in Spans, Clean(c) PROVE EdgeOK(c)
    <2>1. ParentOf[c] \in Spans /\ waiting[ParentOf[c]] = {}
      BY <1>3, <1>5, SpanShapes DEF Clean, SpanInit
    <2>2. QED
      BY <1>2, <2>1 DEF EdgeOK, Underway, Past
  <1>6. ASSUME NEW c \in Spans, ParentOf[c] # Root PROVE CountOK(c)
    <2>1. ParentOf[c] \in Spans /\ waiting[ParentOf[c]] = {}
      BY <1>3, <1>6, SpanShapes DEF SpanInit
    <2>2. ~ MayResolve(c) /\ calls[c] = 0
      BY <1>2, <2>1 DEF MayResolve, Resolving, SpanInit
    <2>3. Cardinality(PastSet(c)) \in Nat
      BY PastIsFinite
    <2>4. QED
      BY <2>2, <2>3 DEF CountOK
  <1>7. QED
    BY <1>3, <1>4, <1>5, <1>6 DEF SpanIInv

\* In whichever order, side by side or repeated, the spans of any number of traces
\* arrive, a call between two services is found and is not counted too often.
THEOREM CallsAreCounted == SpanSpec => []CallsCounted
  <1>1. SpanIInv => CallsCounted
    <2>1. SUFFICES ASSUME SpanIInv PROVE CallsCounted
      OBVIOUS
    <2>2. SpanTypes
      BY <2>1 DEF SpanIInv
    <2>3. ASSUME NEW c \in Spans, Handled(c), Handled(ParentOf[c]), spanFaults = 0,
                 {c, ParentOf[c]} \cap overlapped = {}
          PROVE  calls[c] > 0
      <3> DEFINE p == ParentOf[c]
      <3>1. p # Root /\ Clean(c)
        BY <2>3 DEF Handled, Clean
      <3>2. EdgeOK(c) /\ p \in Spans
        BY <2>1, <2>2, <3>1, SpanShapes DEF SpanIInv
      <3>3. ASSUME NEW s \in Spans, Handled(s)
            PROVE  /\ \E d \in Deliveries : SpanOf[d] = s /\ handling[d].pc = "done"
                   /\ \A d \in Deliveries : SpanOf[d] = s => handling[d].pc \in {"out", "done"}
        <4> DEFINE arrived == {d \in Deliveries : SpanOf[d] = s /\ handling[d].pc # "out"}
        <4>1. arrived # {}
          <5>1. Cardinality(arrived) > 0
            BY <3>3 DEF Handled, Arrivals
          <5>2. arrived = {} => Cardinality(arrived) = 0
            BY FS_EmptySet
          <5>3. QED
            BY <5>1, <5>2
        <4>2. QED
          BY <3>3, <4>1 DEF Handled, Active
      <3>4. PICK d \in Deliveries : SpanOf[d] = c /\ handling[d].pc = "done"
        BY <2>3, <3>3
      <3>5. PICK e \in Deliveries : SpanOf[e] = p /\ handling[e].pc = "done"
        BY <2>3, <3>2, <3>3
      <3>6. p \in known
        BY <2>1, <2>3, <3>5 DEF SpanIInv, StoredOK
      <3>7. \A o \in Deliveries : ~ ToRead(o, p) /\ ~ Resolving(o, p, c)
        BY <2>3, <3>2, <3>3 DEF ToRead, Resolving
      <3>8. calls[c] > 0 \/ c \in waiting[p]
        BY <3>2, <3>4 DEF EdgeOK, Past
      <3>9. QED
        BY <3>2, <3>6, <3>7, <3>8 DEF EdgeOK
    <2>4. ASSUME NEW c \in Spans, ParentOf[c] # Root, Arrivals(ParentOf[c]) <= 1
          PROVE  calls[c] <= Arrivals(c)
      <3> DEFINE came(s) == {d \in Deliveries : SpanOf[d] = s /\ handling[d].pc # "out"}
      <3>1. \A s : came(s) \subseteq Deliveries /\ IsFiniteSet(Deliveries)
        BY SpanConstants
      <3>2. \A s : IsFiniteSet(came(s)) /\ Cardinality(came(s)) \in Nat
        BY <3>1, FS_Subset, FS_CardinalityType
      <3>3. OneArrived(ParentOf[c])
        <4>1. SUFFICES ASSUME NEW d \in came(ParentOf[c]), NEW e \in came(ParentOf[c]) PROVE d = e
          BY DEF OneArrived
        <4> DEFINE C == came(ParentOf[c])
        <4>2. Cardinality(C) <= 1 /\ IsFiniteSet(C) /\ Cardinality(C) \in Nat /\ d \in C /\ e \in C
          BY <2>4, <3>2 DEF Arrivals
        <4> HIDE DEF C, came
        <4>3. {d} \in SUBSET C /\ Cardinality({d}) = 1
          BY <4>2, FS_Singleton
        <4>4. Cardinality({d}) <= Cardinality(C) /\ (Cardinality(C) = Cardinality({d}) => C = {d})
          BY <4>2, <4>3, FS_Subset
        <4>5. C = {d}
          BY <4>2, <4>3, <4>4
        <4>6. QED
          BY <4>2, <4>5
      <3>4. CountOK(c)
        BY <2>1, <2>4, <3>3 DEF SpanIInv
      <3>5. PastSet(c) \in SUBSET came(c)
        BY DEF PastSet, Past
      <3>6. Cardinality(PastSet(c)) <= Cardinality(came(c))
        BY <3>2, <3>5, FS_Subset
      <3>7. Arrivals(c) = Cardinality(came(c))
        BY DEF Arrivals
      <3>8. calls[c] \in Nat /\ Cardinality(PastSet(c)) \in Nat
        BY <2>2, PastIsFinite DEF SpanTypes
      <3>9. calls[c] <= Cardinality(PastSet(c))
        BY <3>4, <3>8 DEF CountOK
      <3> HIDE DEF came
      <3>10. QED
        BY <3>2, <3>6, <3>7, <3>8, <3>9
    <2>5. QED
      BY <2>3, <2>4 DEF CallsCounted, CallsBecomeEdges, CallsCountedPerArrival
  <1>2. QED
    BY <1>1, InitSpanIInv, NextSpanIInv, PTL DEF SpanSpec

-----------------------------------------------------------------------------
(* The audit trail.  The inductive invariant says, besides the types, what a replica inside *)
(* a transaction knows about the table: the tail it read is still the tail, and the rows    *)
(* its back-fill has been through are the table's own when they carried a hash, and a chain *)
(* of their own when none did.                                                             *)

\* What a replica in state s knows about the table.
Knows(s, table) ==
    /\ s.pc \in {"lock", "tail", "insert"} => s.rec \in Records
    /\ s.pc = "insert" => s.tail = TailOf(table)
    /\ s.pc = "fill" =>
        /\ Len(s.done) <= Len(table)
        /\ Hashed(table) = DOMAIN table => \A k \in DOMAIN s.done : s.done[k] = table[k]
        /\ Hashed(table) = {} =>
               VerifyAuditChain(s.done) /\ s.tail = LinksTo(s.done, Len(s.done) + 1)

\* The table verifies, or the back-fill of a table without hashes is still ahead
\* and nobody serves.
ChainOK ==
    gaps = 0 => \/ VerifyAuditChain(rows)
                \/ Hashed(rows) = {} /\ \A r \in Replicas : ~ Serving(r)

AInv ==
    /\ AuditTypeOK
    /\ \A r \in Replicas : Knows(replica[r], rows)
    /\ ChainOK

-----------------------------------------------------------------------------
(* Tables *)

\* In a table that verifies every row carries a hash.
LEMMA VerifiedHashed ==
    ASSUME NEW table, VerifyAuditChain(table)
    PROVE  Hashed(table) = DOMAIN table
  BY DEF VerifyAuditChain, VerifiesAt, Hashed

\* A set of naturals has a least element.
LEMMA Least ==
    ASSUME NEW S \in SUBSET Nat, S # {}
    PROVE  \E k \in S : \A j \in S : k <= j
  <1>1. PICK k \in S : \A j \in S : ~ (<<j, k>> \in OpToRel(<, Nat))
    BY NatLessThanWellFounded, WFMin, Zenon
  <1>2. ASSUME NEW j \in S, j < k
        PROVE  <<j, k>> \in OpToRel(<, Nat)
    BY <1>2 DEF OpToRel
  <1>3. \A j \in S : ~ (j < k)
    BY <1>1, <1>2
  <1>4. QED
    BY <1>3

\* A set of naturals with a bound has a greatest element.
LEMMA Greatest ==
    ASSUME NEW n \in Nat, NEW S \in SUBSET (1..n), S # {}
    PROVE  \E k \in S : \A j \in S : j <= k
  <1> DEFINE T == {n - k : k \in S}
  <1>1. T \subseteq Nat /\ T # {}
    <2>1. \A k \in S : n - k \in Nat
      OBVIOUS
    <2>2. PICK k \in S : TRUE
      OBVIOUS
    <2>3. n - k \in T
      OBVIOUS
    <2>4. QED
      BY <2>1, <2>3
  <1>2. PICK x \in T : \A y \in T : x <= y
    <2> HIDE DEF T
    <2> QED
      BY <1>1, Least
  <1>3. PICK k \in S : x = n - k
    OBVIOUS
  <1>4. ASSUME NEW j \in S
        PROVE  j <= k
    <2>1. n - k <= n - j
      BY <1>2, <1>3
    <2>2. QED
      BY <2>1
  <1>5. QED
    BY <1>4

\* What TailOf reads is the hash of the last row that carries one.
LEMMA TailOfHashed ==
    ASSUME NEW table \in Seq(RowType), Hashed(table) # {}
    PROVE  \E k \in Hashed(table) : /\ \A j \in Hashed(table) : j <= k
                                    /\ TailOf(table) = table[k].hash.entry
  <1>1. Hashed(table) \subseteq 1..Len(table) /\ Len(table) \in Nat
    BY DEF Hashed
  <1>2. \E k \in Hashed(table) : \A j \in Hashed(table) : j <= k
    BY <1>1, Greatest
  <1>3. QED
    BY <1>2 DEF TailOf

\* The tail is a hash, whichever rows carry one.
LEMMA TailOfType ==
    ASSUME NEW table \in Seq(RowType)
    PROVE  TailOf(table) \in Seq(Records)
  <1>1. CASE Hashed(table) = {}
    BY <1>1 DEF TailOf, auditGenesisHash
  <1>2. CASE Hashed(table) # {}
    <2>1. PICK k \in Hashed(table) : TailOf(table) = table[k].hash.entry
      BY <1>2, TailOfHashed
    <2>2. table[k] \in RowType
      BY DEF Hashed
    <2>3. QED
      BY <2>1, <2>2 DEF RowType, Hash
  <1>3. QED
    BY <1>1, <1>2

\* The tail of a table that verifies is the hash of its last row.
LEMMA TailOfVerified ==
    ASSUME NEW table \in Seq(RowType), VerifyAuditChain(table)
    PROVE  TailOf(table) = LinksTo(table, Len(table) + 1)
  <1>1. Hashed(table) = 1..Len(table) /\ Len(table) \in Nat
    BY VerifiedHashed
  <1>2. CASE Len(table) = 0
    BY <1>1, <1>2 DEF TailOf, LinksTo
  <1>3. CASE Len(table) > 0
    <2>1. PICK k \in Hashed(table) : /\ \A j \in Hashed(table) : j <= k
                                     /\ TailOf(table) = table[k].hash.entry
      BY <1>1, <1>3, TailOfHashed
    <2>2. k = Len(table)
      BY <1>1, <1>3, <2>1
    <2>3. QED
      BY <1>3, <2>1, <2>2 DEF LinksTo
  <1>4. QED
    BY <1>1, <1>2, <1>3

\* A chained row has its type.
LEMMA ChainedType ==
    ASSUME NEW prev \in Seq(Records), NEW rec \in Records
    PROVE  /\ computeAuditHash(prev, rec) \in Seq(Records)
           /\ ChainedRow(prev, rec) \in RowType
  BY DEF ChainedRow, computeAuditHash, RowType, Hash

\* A row chained onto the last hash keeps the table verifying, and its hash is
\* what the next row links to.
LEMMA AppendVerifies ==
    ASSUME NEW table \in Seq(RowType), VerifyAuditChain(table), NEW rec \in Records,
           NEW prev \in Seq(Records), prev = LinksTo(table, Len(table) + 1)
    PROVE  LET longer == Append(table, ChainedRow(prev, rec)) IN
           /\ VerifyAuditChain(longer)
           /\ LinksTo(longer, Len(longer) + 1) = computeAuditHash(prev, rec)
  <1> DEFINE row == ChainedRow(prev, rec)
             longer == Append(table, row)
  <1>1. /\ Len(table) \in Nat /\ Len(longer) = Len(table) + 1
        /\ DOMAIN longer = 1..(Len(table) + 1) /\ DOMAIN table = 1..Len(table)
        /\ \A k \in 1..Len(table) : longer[k] = table[k]
        /\ longer[Len(table) + 1] = row
    OBVIOUS
  <1>2. \A k \in 1..(Len(table) + 1) : LinksTo(longer, k) = LinksTo(table, k)
    BY <1>1 DEF LinksTo
  <1>3. \A k \in 1..Len(table) : VerifiesAt(longer, k)
    BY <1>1, <1>2 DEF VerifyAuditChain, VerifiesAt
  <1>4. VerifiesAt(longer, Len(table) + 1)
    <2>1. /\ row.hash.set /\ row.hash.prev = prev
          /\ row.hash.entry = computeAuditHash(prev, row.rec)
      BY DEF ChainedRow
    <2>2. LinksTo(longer, Len(table) + 1) = prev
      BY <1>1, <1>2
    <2>3. QED
      BY <1>1, <2>1, <2>2 DEF VerifiesAt
  <1>5. LinksTo(longer, Len(longer) + 1) = computeAuditHash(prev, rec)
    BY <1>1 DEF LinksTo, ChainedRow
  <1>6. VerifyAuditChain(longer)
    BY <1>1, <1>3, <1>4 DEF VerifyAuditChain
  <1>7. QED
    BY <1>5, <1>6

-----------------------------------------------------------------------------
(* Changes to a table that verifies *)

\* The hash a row links to has taken in as many records as there are rows before.
LEMMA HashCounts ==
    ASSUME NEW table \in Seq(RowType), VerifyAuditChain(table),
           NEW k \in 1..(Len(table) + 1)
    PROVE  LinksTo(table, k) \in Seq(Records) /\ Len(LinksTo(table, k)) = k - 1
  <1> DEFINE n == Len(table)
             Off == {j \in 1..n : Len(table[j].hash.entry) # j}
  <1>1. n \in Nat /\ DOMAIN table = 1..n
    OBVIOUS
  <1>2. \A j \in 1..n : /\ table[j].rec \in Records
                        /\ table[j].hash.entry \in Seq(Records)
                        /\ table[j].hash.entry = Append(LinksTo(table, j), table[j].rec)
    <2>1. SUFFICES ASSUME NEW j \in 1..n
                   PROVE  /\ table[j].rec \in Records
                          /\ table[j].hash.entry \in Seq(Records)
                          /\ table[j].hash.entry = Append(LinksTo(table, j), table[j].rec)
      OBVIOUS
    <2>2. table[j] \in RowType
      OBVIOUS
    <2>3. table[j].rec \in Records /\ table[j].hash.entry \in Seq(Records)
      BY <2>2 DEF RowType, Hash
    <2>4. VerifiesAt(table, j)
      BY <1>1 DEF VerifyAuditChain
    <2>5. QED
      BY <2>3, <2>4 DEF VerifiesAt, computeAuditHash
  <1>3. ASSUME Off # {}
        PROVE  FALSE
    <2>1. PICK j \in Off : \A i \in Off : j <= i
      <3>1. Off \in SUBSET Nat
        OBVIOUS
      <3>2. QED
        BY <1>3, <3>1, Least
    <2>2. CASE j = 1
      <3>1. table[1].hash.entry = Append(<<>>, table[1].rec)
        BY <1>2, <2>1, <2>2 DEF LinksTo, auditGenesisHash
      <3>2. Len(table[1].hash.entry) = 1
        BY <3>1
      <3>3. QED
        BY <2>1, <2>2, <3>2
    <2>3. CASE j # 1
      <3>1. j - 1 \in 1..n /\ ~ (j <= j - 1)
        BY <1>1, <2>3
      <3>2. j - 1 \notin Off
        BY <2>1, <3>1
      <3>3. Len(table[j - 1].hash.entry) = j - 1
        BY <3>1, <3>2
      <3>4. table[j].hash.entry = Append(table[j - 1].hash.entry, table[j].rec)
        BY <1>2, <2>3 DEF LinksTo
      <3>5. Len(table[j].hash.entry) = j
        BY <1>2, <3>1, <3>3, <3>4
      <3>6. QED
        BY <3>5
    <2>4. QED
      BY <2>2, <2>3
  <1>4. CASE k = 1
    BY <1>4 DEF LinksTo, auditGenesisHash
  <1>5. CASE k # 1
    <2>1. k - 1 \in 1..n
      BY <1>1, <1>5
    <2>2. Len(table[k - 1].hash.entry) = k - 1
      BY <1>3, <2>1
    <2>3. QED
      BY <1>2, <1>5, <2>1, <2>2 DEF LinksTo
  <1>6. QED
    BY <1>4, <1>5

\* A row that verifies at position k has a prev column of length k - 1.
LEMMA PrevCounts ==
    ASSUME NEW table \in Seq(RowType), VerifyAuditChain(table), NEW k \in 1..Len(table)
    PROVE  Len(table[k].hash.prev) = k - 1
  <1>1. k \in 1..(Len(table) + 1) /\ k \in DOMAIN table
    OBVIOUS
  <1>2. table[k].hash.prev = LinksTo(table, k)
    BY <1>1 DEF VerifyAuditChain, VerifiesAt
  <1>3. QED
    BY <1>1, <1>2, HashCounts

\* An altered record is detected at its own row.
LEMMA AlterationDetected ==
    ASSUME NEW table \in Seq(RowType), VerifyAuditChain(table), NEW k \in DOMAIN table,
           NEW rec \in Records, rec # table[k].rec
    PROVE  ~ VerifyAuditChain([table EXCEPT ![k].rec = rec])
  <1> DEFINE altered == [table EXCEPT ![k].rec = rec]
             prev == LinksTo(table, k)
  <1>1. SUFFICES ASSUME VerifiesAt(altered, k)
                 PROVE  FALSE
    BY DEF VerifyAuditChain
  <1>2. k \in 1..Len(table) /\ k \in 1..(Len(table) + 1) /\ table[k] \in RowType
    OBVIOUS
  <1>3. altered[k] = [table[k] EXCEPT !.rec = rec]
    OBVIOUS
  <1>4. altered[k].rec = rec /\ altered[k].hash = table[k].hash
    BY <1>2, <1>3 DEF RowType
  <1>5. LinksTo(altered, k) = prev
    BY <1>2 DEF LinksTo
  <1>6. Append(prev, rec) = Append(prev, table[k].rec)
    BY <1>1, <1>2, <1>4, <1>5 DEF VerifyAuditChain, VerifiesAt, computeAuditHash
  <1>7. prev \in Seq(Records) /\ table[k].rec \in Records
    BY <1>2, HashCounts DEF RowType
  <1>8. Append(prev, rec)[Len(prev) + 1] = rec /\ Append(prev, table[k].rec)[Len(prev) + 1] = table[k].rec
    BY <1>7
  <1>9. QED
    BY <1>6, <1>8

\* A missing row is detected at the row behind it.
LEMMA RemovalDetected ==
    ASSUME NEW table \in Seq(RowType), VerifyAuditChain(table), NEW k \in 1..(Len(table) - 1)
    PROVE  ~ VerifyAuditChain(Without(table, k))
  <1> DEFINE shorter == Without(table, k)
  <1>1. SUFFICES ASSUME VerifiesAt(shorter, k)
                 PROVE  FALSE
    BY DEF VerifyAuditChain, Without
  <1>2. k \in 1..(Len(table) + 1) /\ k + 1 \in 1..Len(table)
    OBVIOUS
  <1>3. shorter[k] = table[k + 1]
    BY DEF Without
  <1>4. LinksTo(shorter, k) = LinksTo(table, k)
    BY DEF LinksTo, Without
  <1>5. Len(table[k + 1].hash.prev) = k
    BY <1>2, PrevCounts
  <1>6. Len(table[k + 1].hash.prev) = k - 1
    BY <1>1, <1>2, <1>3, <1>4, HashCounts DEF VerifiesAt
  <1>7. QED
    BY <1>5, <1>6

\* Any other row of the table is detected where it does not belong.
LEMMA MisplacedDetected ==
    ASSUME NEW table \in Seq(RowType), VerifyAuditChain(table),
           NEW j \in DOMAIN table, NEW k \in DOMAIN table, j # k,
           NEW changed, j \in DOMAIN changed, changed[j] = table[k],
           LinksTo(changed, j) = LinksTo(table, j)
    PROVE  ~ VerifyAuditChain(changed)
  <1>1. SUFFICES ASSUME VerifiesAt(changed, j)
                 PROVE  FALSE
    BY DEF VerifyAuditChain
  <1>2. j \in 1..(Len(table) + 1) /\ j \in 1..Len(table) /\ k \in 1..Len(table)
    OBVIOUS
  <1>3. Len(table[k].hash.prev) = k - 1
    BY <1>2, PrevCounts
  <1>4. Len(table[k].hash.prev) = j - 1
    BY <1>1, <1>2, HashCounts DEF VerifiesAt
  <1>5. QED
    BY <1>2, <1>3, <1>4

\* Two exchanged rows are detected at the first of them.
LEMMA ExchangeDetected ==
    ASSUME NEW table \in Seq(RowType), VerifyAuditChain(table),
           NEW j \in DOMAIN table, NEW k \in DOMAIN table, j # k
    PROVE  ~ VerifyAuditChain(Exchanged(table, j, k))
  <1> DEFINE changed == Exchanged(table, j, k)
  <1>1. /\ DOMAIN changed = DOMAIN table
        /\ changed[j] = table[k] /\ changed[k] = table[j]
        /\ \A i \in DOMAIN table \ {j, k} : changed[i] = table[i]
    BY DEF Exchanged
  <1>2. j \in 1..Len(table) /\ k \in 1..Len(table) /\ Len(table) \in Nat
    OBVIOUS
  <1>3. CASE j < k
    <2>1. j = 1 \/ j - 1 \in DOMAIN table \ {j, k}
      BY <1>2, <1>3
    <2>2. LinksTo(changed, j) = LinksTo(table, j)
      BY <1>1, <2>1 DEF LinksTo
    <2>3. QED
      BY <1>1, <2>2, MisplacedDetected
  <1>4. CASE k < j
    <2>1. k = 1 \/ k - 1 \in DOMAIN table \ {j, k}
      BY <1>2, <1>4
    <2>2. LinksTo(changed, k) = LinksTo(table, k)
      BY <1>1, <2>1 DEF LinksTo
    <2>3. QED
      BY <1>1, <2>2, MisplacedDetected
  <1>5. QED
    BY <1>2, <1>3, <1>4

-----------------------------------------------------------------------------
(* Steps *)

\* The parts of AInv for a step of replica r, which becomes s.
LEMMA StepKeeps ==
    ASSUME AInv, NEW r \in Replicas, NEW s \in Replica,
           replica' = [replica EXCEPT ![r] = s],
           rows' \in Seq(RowType), gaps' \in Nat, auditFaults' \in Nat,
           lock' \subseteq Replicas,
           s.pc \in {"tail", "insert", "fill"} => lock' = {r},
           \A q \in Replicas \ {r} : lock = {q} => lock' = {q},
           \A q \in Replicas \ {r} : rows' = rows \/ ~ InTransaction(q),
           Knows(s, rows'),
           ChainOK'
    PROVE  AInv'
  <1>1. replica' \in [Replicas -> Replica] /\ replica'[r] = s
    BY DEF AInv, AuditTypeOK
  <1>2. \A q \in Replicas \ {r} : replica'[q] = replica[q]
    BY DEF AInv, AuditTypeOK
  <1>3. \A q \in Replicas : InTransaction(q)' => lock' = {q}
    BY <1>1, <1>2 DEF AInv, AuditTypeOK, InTransaction
  <1>4. \A q \in Replicas : Knows(replica'[q], rows')
    <2>1. SUFFICES ASSUME NEW q \in Replicas \ {r}
                   PROVE  Knows(replica[q], rows')
      BY <1>1, <1>2
    <2>2. Knows(replica[q], rows)
      BY DEF AInv
    <2>3. CASE rows' = rows
      BY <2>2, <2>3
    <2>4. CASE ~ InTransaction(q)
      BY <2>2, <2>4 DEF Knows, InTransaction
    <2>5. QED
      BY <2>3, <2>4
  <1>5. QED
    BY <1>1, <1>3, <1>4 DEF AInv, AuditTypeOK

\* ChainOK after a step that leaves the table alone and after which r serves only
\* if it did before.
LEMMA SameTable ==
    ASSUME AInv, NEW r \in Replicas, NEW s \in Replica,
           replica' = [replica EXCEPT ![r] = s], rows' = rows, gaps' = gaps,
           s.pc \in {"up", "lock", "tail", "insert"} => Serving(r)
    PROVE  ChainOK'
  <1>1. replica'[r] = s /\ \A q \in Replicas \ {r} : replica'[q] = replica[q]
    BY DEF AInv, AuditTypeOK
  <1>2. (\A q \in Replicas : ~ Serving(q)) => \A q \in Replicas : ~ Serving(q)'
    BY <1>1 DEF Serving
  <1>3. QED
    BY <1>2 DEF AInv, ChainOK

\* ChainOK after a step that leaves a fully hashed table alone.
LEMMA FullTable ==
    ASSUME AInv, rows' = rows, gaps' = gaps, Hashed(rows) = DOMAIN rows
    PROVE  ChainOK'
  <1>1. Hashed(rows) = {} => VerifyAuditChain(rows)
    BY DEF VerifyAuditChain
  <1>2. QED
    BY <1>1 DEF AInv, ChainOK

\* A replica outside every transaction knows nothing.
LEMMA IdleStates ==
    /\ Down \in Replica /\ Down.pc = "down" /\ \A table : Knows(Down, table)
    /\ Up \in Replica /\ Up.pc = "up" /\ \A table : Knows(Up, table)
  <1>1. <<>> \in Seq(Records) /\ <<>> \in Seq(RowType)
    OBVIOUS
  <1>2. Down \in Replica /\ Up \in Replica /\ Down.pc = "down" /\ Up.pc = "up"
    BY <1>1 DEF Down, Up, Filling, Replica
  <1>3. QED
    BY <1>2 DEF Knows

\* The holder of the lock is alone in a transaction.
LEMMA Alone ==
    ASSUME AInv, NEW r \in Replicas, InTransaction(r)
    PROVE  lock = {r} /\ \A q \in Replicas \ {r} : ~ InTransaction(q)
  BY DEF AInv, AuditTypeOK

\* WriteAudit begins.
LEMMA WriteAuditStep ==
    ASSUME AInv, NEW r \in Replicas, NEW rec \in Records, WriteAudit(r, rec)
    PROVE  AInv'
  <1> DEFINE s == Writing("lock", rec, <<>>)
  <1>1. s \in Replica /\ s.pc = "lock" /\ s.rec = rec
    BY DEF Writing, Replica
  <1>2. Serving(r)
    BY DEF WriteAudit, Serving
  <1>3. ChainOK'
    BY <1>1, <1>2, SameTable DEF WriteAudit, Becomes
  <1>4. Knows(s, rows')
    BY <1>1 DEF Knows
  <1>5. QED
    BY <1>1, <1>3, <1>4, StepKeeps DEF WriteAudit, Becomes, AInv, AuditTypeOK

\* A writer gets the lock.
LEMMA LockStep ==
    ASSUME AInv, NEW r \in Replicas, Lock(r)
    PROVE  AInv'
  <1> DEFINE s == Writing("tail", replica[r].rec, <<>>)
  <1>1. s \in Replica /\ s.pc = "tail" /\ s.rec = replica[r].rec
    <2>1. replica[r].rec \in Records
      BY DEF Lock, AInv, Knows
    <2>2. QED
      BY <2>1 DEF Writing, Replica
  <1>2. Serving(r)
    BY DEF Lock, Serving
  <1>3. ChainOK'
    BY <1>1, <1>2, SameTable DEF Lock, Becomes
  <1>4. Knows(s, rows')
    BY <1>1 DEF Knows, AInv, Lock
  <1>5. lock = {} /\ lock' = {r}
    BY DEF Lock, Acquire
  <1>6. QED
    BY <1>1, <1>3, <1>4, <1>5, StepKeeps DEF Lock, Becomes, AInv, AuditTypeOK

\* A writer reads the tail.
LEMMA ReadTailStep ==
    ASSUME AInv, NEW r \in Replicas, ReadTail(r)
    PROVE  AInv'
  <1> DEFINE s == Writing("insert", replica[r].rec, TailOf(rows))
  <1>1. TailOf(rows) \in Seq(Records)
    BY TailOfType DEF AInv, AuditTypeOK
  <1>2. s \in Replica /\ s.pc = "insert" /\ s.rec = replica[r].rec /\ s.tail = TailOf(rows)
    <2>1. replica[r].rec \in Records
      BY DEF ReadTail, AInv, Knows
    <2>2. QED
      BY <1>1, <2>1 DEF Writing, Replica
  <1>3. Serving(r) /\ InTransaction(r)
    BY DEF ReadTail, Serving, InTransaction
  <1>4. ChainOK'
    BY <1>2, <1>3, SameTable DEF ReadTail, Becomes
  <1>5. Knows(s, rows')
    BY <1>2 DEF Knows, AInv, ReadTail
  <1>6. QED
    BY <1>2, <1>3, <1>4, <1>5, StepKeeps, Alone DEF ReadTail, Becomes, AInv, AuditTypeOK

\* A writer inserts its row behind the tail it read, which is still the tail.
LEMMA InsertStep ==
    ASSUME AInv, NEW r \in Replicas, Insert(r)
    PROVE  AInv'
  <1> DEFINE rec == replica[r].rec
             tail == replica[r].tail
             row == ChainedRow(tail, rec)
  <1>1. Serving(r) /\ InTransaction(r)
    BY DEF Insert, Serving, InTransaction
  <1>2. rec \in Records /\ tail \in Seq(Records) /\ tail = TailOf(rows) /\ rows \in Seq(RowType)
    BY DEF Insert, AInv, AuditTypeOK, Knows, Replica
  <1>3. row \in RowType
    BY <1>2, ChainedType
  <1>4. rows' = Append(rows, row)
    BY DEF Insert
  <1>5. gaps = 0 => VerifyAuditChain(rows)
    BY <1>1 DEF AInv, ChainOK
  <1>6. gaps = 0 => VerifyAuditChain(rows')
    BY <1>2, <1>4, <1>5, TailOfVerified, AppendVerifies
  <1>7. ChainOK'
    BY <1>6 DEF Insert, ChainOK
  <1>8. rows' \in Seq(RowType)
    BY <1>2, <1>3, <1>4
  <1>9. QED
    BY <1>1, <1>7, <1>8, Alone, IdleStates, StepKeeps
    DEF Insert, Becomes, AInv, AuditTypeOK

\* A transaction is rolled back.
LEMMA WriteFailsStep ==
    ASSUME AInv, NEW r \in Replicas, WriteFails(r)
    PROVE  AInv'
  <1>1. Serving(r)
    BY DEF WriteFails, Serving
  <1>2. ChainOK'
    BY <1>1, IdleStates, SameTable DEF WriteFails, Becomes
  <1>3. \A q \in Replicas \ {r} : lock = {q} => lock' = {q}
    BY DEF WriteFails
  <1>4. lock' \subseteq Replicas
    BY DEF WriteFails, AInv, AuditTypeOK
  <1>5. QED
    BY <1>2, <1>3, <1>4, IdleStates, StepKeeps
    DEF WriteFails, Becomes, AInv, AuditTypeOK

\* A replica starts.
LEMMA ProbeStep ==
    ASSUME AInv, NEW r \in Replicas, Probe(r)
    PROVE  AInv'
  <1>1. CASE Hashed(rows) = DOMAIN rows
    <2>1. ChainOK'
      BY <1>1, FullTable DEF Probe
    <2>2. QED
      BY <1>1, <2>1, IdleStates, StepKeeps DEF Probe, Becomes, AInv, AuditTypeOK
  <1>2. CASE Hashed(rows) # DOMAIN rows
    <2> DEFINE s == Filling("fill-lock", <<>>, <<>>)
    <2>1. s \in Replica /\ s.pc = "fill-lock"
      BY DEF Filling, Replica
    <2>2. replica' = [replica EXCEPT ![r] = s]
      BY <1>2 DEF Probe, Becomes
    <2>3. ChainOK'
      BY <2>1, <2>2, SameTable DEF Probe
    <2>4. Knows(s, rows')
      BY <2>1 DEF Knows
    <2>5. QED
      BY <2>1, <2>2, <2>3, <2>4, StepKeeps DEF Probe, AInv, AuditTypeOK
  <1>3. QED
    BY <1>1, <1>2

\* A back-fill gets the lock and reads the tail.
LEMMA BackfillLockStep ==
    ASSUME AInv, NEW r \in Replicas, BackfillLock(r)
    PROVE  AInv'
  <1> DEFINE s == Filling("fill", TailOf(rows), <<>>)
  <1>1. TailOf(rows) \in Seq(Records)
    BY TailOfType DEF AInv, AuditTypeOK
  <1>2. s \in Replica /\ s.pc = "fill" /\ s.tail = TailOf(rows) /\ s.done = <<>>
    BY <1>1 DEF Filling, Replica
  <1>3. ChainOK'
    BY <1>2, SameTable DEF BackfillLock, Becomes
  <1>4. Hashed(rows) = {} => VerifyAuditChain(<<>>) /\ TailOf(rows) = LinksTo(<<>>, 1)
    BY DEF VerifyAuditChain, TailOf, LinksTo
  <1>5. Len(<<>>) = 0 /\ DOMAIN <<>> = {} /\ Len(rows) \in Nat
    BY DEF AInv, AuditTypeOK
  <1>6. Knows(s, rows)
    BY <1>2, <1>4, <1>5 DEF Knows
  <1>7. lock = {} /\ lock' = {r} /\ rows' = rows
    BY DEF BackfillLock, Acquire
  <1>8. QED
    BY <1>2, <1>3, <1>6, <1>7, StepKeeps DEF BackfillLock, Becomes, AInv, AuditTypeOK

\* A back-fill goes over the next row.
LEMMA BackfillRowStep ==
    ASSUME AInv, NEW r \in Replicas, BackfillRow(r)
    PROVE  AInv'
  <1> DEFINE s == replica[r]
             n == Len(s.done) + 1
             row == rows[n]
  <1>1. /\ s \in Replica /\ s.done \in Seq(RowType) /\ s.tail \in Seq(Records)
        /\ rows \in Seq(RowType) /\ InTransaction(r)
    BY DEF AInv, AuditTypeOK, Replica, BackfillRow, InTransaction
  <1>2. n \in 1..Len(rows) /\ n \in DOMAIN rows /\ row \in RowType
    BY <1>1 DEF BackfillRow
  <1>3. row.rec \in Records
    BY <1>2 DEF RowType
  <1>4. Knows(s, rows) /\ s.pc = "fill"
    BY DEF AInv, BackfillRow
  <1>5. rows' = rows /\ lock' = lock /\ gaps' = gaps /\ auditFaults' = auditFaults
    BY DEF BackfillRow
  <1>6. CASE row.hash.set
    <2> DEFINE t == Filling("fill", s.tail, Append(s.done, row))
    <2>1. t \in Replica /\ t.pc = "fill" /\ t.tail = s.tail /\ t.done = Append(s.done, row)
      BY <1>1, <1>2 DEF Filling, Replica
    <2>2. replica' = [replica EXCEPT ![r] = t]
      BY <1>6 DEF BackfillRow, Becomes
    <2>3. Hashed(rows) # {}
      BY <1>2, <1>6 DEF Hashed
    <2>4. Hashed(rows) = DOMAIN rows => \A k \in DOMAIN t.done : t.done[k] = rows[k]
      <3>1. Hashed(rows) = DOMAIN rows => \A k \in 1..Len(s.done) : s.done[k] = rows[k]
        BY <1>1, <1>4 DEF Knows
      <3>2. /\ DOMAIN t.done = 1..n /\ t.done[n] = row
            /\ \A k \in 1..Len(s.done) : t.done[k] = s.done[k]
        BY <1>1, <1>2, <2>1
      <3>3. \A k \in 1..n : k = n \/ k \in 1..Len(s.done)
        BY <1>1
      <3>4. QED
        BY <3>1, <3>2, <3>3
    <2>5. Knows(t, rows)
      BY <1>1, <1>2, <2>1, <2>3, <2>4 DEF Knows
    <2>6. ChainOK'
      BY <1>5, <2>1, <2>2, SameTable
    <2>7. QED
      BY <1>1, <1>5, <2>1, <2>2, <2>5, <2>6, Alone, StepKeeps DEF AInv, AuditTypeOK
  <1>7. CASE ~ row.hash.set
    <2> DEFINE t == Filling("fill", computeAuditHash(s.tail, row.rec),
                            Append(s.done, ChainedRow(s.tail, row.rec)))
    <2>1. /\ t \in Replica /\ t.pc = "fill" /\ t.tail = computeAuditHash(s.tail, row.rec)
          /\ t.done = Append(s.done, ChainedRow(s.tail, row.rec))
      <3>1. /\ computeAuditHash(s.tail, row.rec) \in Seq(Records)
            /\ ChainedRow(s.tail, row.rec) \in RowType
        BY <1>1, <1>3, ChainedType
      <3>2. Append(s.done, ChainedRow(s.tail, row.rec)) \in Seq(RowType)
        BY <1>1, <3>1
      <3>3. QED
        BY <3>1, <3>2 DEF Filling, Replica
    <2>2. replica' = [replica EXCEPT ![r] = t]
      BY <1>7 DEF BackfillRow, Becomes
    <2>3. Hashed(rows) # DOMAIN rows
      BY <1>2, <1>7 DEF Hashed
    <2>4. Hashed(rows) = {} =>
              VerifyAuditChain(t.done) /\ t.tail = LinksTo(t.done, Len(t.done) + 1)
      BY <1>1, <1>3, <1>4, <2>1, AppendVerifies DEF Knows
    <2>5. Len(t.done) <= Len(rows)
      BY <1>1, <1>2, <2>1
    <2>6. Knows(t, rows)
      BY <2>1, <2>3, <2>4, <2>5 DEF Knows
    <2>7. ChainOK'
      BY <1>5, <2>1, <2>2, SameTable
    <2>8. QED
      BY <1>1, <1>5, <2>1, <2>2, <2>6, <2>7, Alone, StepKeeps DEF AInv, AuditTypeOK
  <1>8. QED
    BY <1>6, <1>7

\* What a back-fill commits: the table itself, if that verified.
LEMMA CommitsSame ==
    ASSUME AInv, NEW r \in Replicas, BackfillCommit(r), Hashed(rows) = DOMAIN rows
    PROVE  rows' = rows
  <1> DEFINE done == replica[r].done
  <1>1. done \in Seq(RowType) /\ rows \in Seq(RowType)
    BY DEF AInv, AuditTypeOK, Replica
  <1>2. Len(done) = Len(rows) /\ rows' = done
    BY DEF BackfillCommit
  <1>3. \A k \in DOMAIN done : done[k] = rows[k]
    BY DEF AInv, Knows, BackfillCommit
  <1>4. QED
    BY <1>1, <1>2, <1>3

\* A back-fill commits.
LEMMA BackfillCommitStep ==
    ASSUME AInv, NEW r \in Replicas, BackfillCommit(r)
    PROVE  AInv'
  <1>1. InTransaction(r) /\ rows' \in Seq(RowType)
    BY DEF AInv, AuditTypeOK, Replica, BackfillCommit, InTransaction
  <1>2. VerifyAuditChain(rows) => VerifyAuditChain(rows')
    BY VerifiedHashed, CommitsSame
  <1>3. Hashed(rows) = {} => VerifyAuditChain(rows')
    BY DEF AInv, Knows, BackfillCommit
  <1>4. ChainOK'
    BY <1>2, <1>3 DEF AInv, ChainOK, BackfillCommit
  <1>5. QED
    BY <1>1, <1>4, IdleStates, Alone, StepKeeps DEF BackfillCommit, Becomes, AInv, AuditTypeOK

\* A back-fill fails.
LEMMA BackfillFailsStep ==
    ASSUME AInv, NEW r \in Replicas, BackfillFails(r)
    PROVE  AInv'
  <1>1. ChainOK'
    <2>1. CASE Hashed(rows) = DOMAIN rows
      BY <2>1, FullTable DEF BackfillFails
    <2>2. CASE Hashed(rows) # DOMAIN rows
      BY <2>2 DEF BackfillFails, ChainOK, AInv, AuditTypeOK
    <2>3. QED
      BY <2>1, <2>2
  <1>2. \A q \in Replicas \ {r} : lock = {q} => lock' = {q}
    BY DEF BackfillFails
  <1>3. lock' \subseteq Replicas /\ gaps' \in Nat /\ auditFaults' \in Nat
    BY DEF BackfillFails, AInv, AuditTypeOK
  <1>4. QED
    BY <1>1, <1>2, <1>3, IdleStates, StepKeeps DEF BackfillFails, Becomes, AInv, AuditTypeOK

\* A replica stops.
LEMMA RestartStep ==
    ASSUME AInv, NEW r \in Replicas, Restart(r)
    PROVE  AInv'
  <1>1. ChainOK'
    BY IdleStates, SameTable DEF Restart, Becomes
  <1>2. \A q \in Replicas \ {r} : lock = {q} => lock' = {q}
    BY DEF Restart
  <1>3. lock' \subseteq Replicas /\ auditFaults' \in Nat
    BY DEF Restart, AInv, AuditTypeOK
  <1>4. QED
    BY <1>1, <1>2, <1>3, IdleStates, StepKeeps DEF Restart, Becomes, AInv, AuditTypeOK

-----------------------------------------------------------------------------
(* The theorems *)

LEMMA InitAInv == AuditInit => AInv
  <1> SUFFICES ASSUME AuditInit
               PROVE  AInv
    OBVIOUS
  <1>1. rows \in Seq(RowType) /\ Hashed(rows) = {}
    <2>1. NoHash \in Hash /\ NoHash.set = FALSE
      BY DEF NoHash, Hash
    <2>2. Len(Legacy) \in Nat /\ DOMAIN Legacy = 1..Len(Legacy)
      BY AuditConstants
    <2>3. \A k \in DOMAIN Legacy : [rec |-> Legacy[k], hash |-> NoHash] \in RowType
      BY <2>1, AuditConstants DEF RowType
    <2>4. rows \in [1..Len(Legacy) -> RowType]
      BY <2>2, <2>3 DEF AuditInit
    <2>5. Hashed(rows) = {}
      BY <2>1 DEF AuditInit, Hashed
    <2>6. QED
      BY <2>2, <2>4, <2>5
  <1>2. replica \in [Replicas -> Replica] /\ \A r \in Replicas : replica[r] = Down
    BY IdleStates DEF AuditInit
  <1>3. \A r \in Replicas : ~ InTransaction(r) /\ ~ Serving(r)
    BY <1>2, IdleStates DEF InTransaction, Serving
  <1>4. \A r \in Replicas : Knows(replica[r], rows)
    BY <1>2, IdleStates
  <1>5. QED
    BY <1>1, <1>2, <1>3, <1>4 DEF AInv, AuditTypeOK, ChainOK, AuditInit

LEMMA NextAInv == AInv /\ [AuditNext]_auditVars => AInv'
  <1> SUFFICES ASSUME AInv, [AuditNext]_auditVars
               PROVE  AInv'
    OBVIOUS
  <1>1. ASSUME NEW r \in Replicas, NEW rec \in Records, WriteAudit(r, rec)
        PROVE  AInv'
    BY <1>1, WriteAuditStep
  <1>2. ASSUME NEW r \in Replicas, AuditStep(r)
        PROVE  AInv'
    BY <1>2, LockStep, ReadTailStep, InsertStep, ProbeStep, BackfillLockStep, BackfillRowStep,
       BackfillCommitStep DEF AuditStep
  <1>3. ASSUME NEW r \in Replicas, WriteFails(r) \/ BackfillFails(r) \/ Restart(r)
        PROVE  AInv'
    BY <1>3, WriteFailsStep, BackfillFailsStep, RestartStep
  <1>4. CASE UNCHANGED auditVars
    BY <1>4 DEF auditVars, AInv, AuditTypeOK, ChainOK, InTransaction, Serving
  <1>5. QED
    BY <1>1, <1>2, <1>3, <1>4 DEF AuditNext

LEMMA SpecAInv == AuditSpec => []AInv
  BY InitAInv, NextAInv, PTL DEF AuditSpec

\* Every variable keeps its type, and only the holder of the advisory lock is
\* ever inside a transaction, for any number of gateway replicas.
THEOREM AuditTypeCorrect == AuditSpec => []AuditTypeOK
  <1>1. AInv => AuditTypeOK
    BY DEF AInv
  <1>2. QED
    BY <1>1, SpecAInv, PTL

\* As long as no back-fill failed, VerifyAuditChain accepts the table from the
\* moment a replica serves, for any number of replicas, rows and restarts.
THEOREM TrailAlwaysIntact == AuditSpec => []TrailIntact
  <1>1. AInv => TrailIntact
    BY DEF AInv, ChainOK, TrailIntact
  <1>2. QED
    BY <1>1, SpecAInv, PTL

\* A step on a table that verifies only appends to it.
LEMMA StepAppends ==
    ASSUME AInv, [AuditNext]_auditVars, VerifyAuditChain(rows)
    PROVE  Len(rows') >= Len(rows) /\ \A k \in DOMAIN rows : rows'[k] = rows[k]
  <1>1. rows \in Seq(RowType)
    BY DEF AInv, AuditTypeOK
  <1>2. CASE rows' = rows
    BY <1>1, <1>2
  <1>3. ASSUME NEW r \in Replicas, Insert(r)
        PROVE  Len(rows') >= Len(rows) /\ \A k \in DOMAIN rows : rows'[k] = rows[k]
    <2>1. PICK row : rows' = Append(rows, row)
      BY <1>3 DEF Insert
    <2>2. QED
      BY <1>1, <2>1
  <1>4. ASSUME NEW r \in Replicas, BackfillCommit(r)
        PROVE  rows' = rows
    BY <1>4, VerifiedHashed, CommitsSame
  <1>5. \/ rows' = rows
        \/ \E r \in Replicas : Insert(r) \/ BackfillCommit(r)
    BY DEF AuditNext, AuditStep, auditVars, WriteAudit, Lock, ReadTail, WriteFails, Probe,
           BackfillLock, BackfillRow, BackfillFails, Restart
  <1>6. QED
    BY <1>2, <1>3, <1>4, <1>5

\* Once the trail verifies no append, back-fill, failure or restart changes a
\* row of it.
THEOREM TrailAppendOnly == AuditSpec => AppendOnly
  <1>1. AInv /\ [AuditNext]_auditVars =>
            [VerifyAuditChain(rows) =>
                 Len(rows') >= Len(rows) /\ \A k \in DOMAIN rows : rows'[k] = rows[k]]_auditVars
    BY StepAppends
  <1>2. QED
    BY <1>1, SpecAInv, PTL DEF AuditSpec, AppendOnly

\* In a trail that verifies an altered row, a row missing from before the last
\* and two exchanged rows are all found, whatever the rows hold.
THEOREM TamperingAlwaysEvident == AuditSpec => []TamperEvident
  <1>1. AInv => TamperEvident
    <2>1. AInv => rows \in Seq(RowType)
      BY DEF AInv, AuditTypeOK
    <2>2. QED
      BY <2>1, AlterationDetected, RemovalDetected, ExchangeDetected DEF TamperEvident
  <1>2. QED
    BY <1>1, SpecAInv, PTL

\* The trail can be relied on (appendChained, BackfillAuditChain, VerifyAuditChain):
\* intact, append-only and evident of tampering, for every number of replicas and rows.
THEOREM TrailAlwaysHolds == AuditSpec => TrailHolds
  BY TrailAlwaysIntact, TamperingAlwaysEvident, TrailAppendOnly, PTL DEF TrailHolds

-----------------------------------------------------------------------------
(* The graph: what an edge shows of an incident *)

Analyses == 1..MaxAnalyses
Entries == [PathIncidents -> SUBSET Analyses]
UpdateRows == [pc : {"idle", "clear", "add", "read", "write", "commit"}, analysis : 0..MaxAnalyses,
               links : BOOLEAN, read : Entries \cup {{}}]

TopoTypes ==
    /\ store \in {"neo4j", "postgres"} /\ node \in Rows \cup {0} /\ edge \in BOOLEAN
    /\ causal \in Entries /\ update \in [PathIncidents -> UpdateRows]
    /\ rowLock \in PathIncidents \cup {NoTx} /\ path \in [PathIncidents -> 0..MaxAnalyses]
    /\ clobbered \subseteq PathIncidents /\ toDelete \in 0..MaxWriters /\ analyses \in 0..MaxAnalyses

\* The lock is that of the one transaction between its write and its commit.
LockOK == \A i \in PathIncidents : update[i].pc = "commit" <=> rowLock = i

\* A row of an update: its steps are those of the store, and it carries an analysis.
StepsOK(row) ==
    /\ store = "neo4j" => row.pc \notin {"read", "write", "commit"}
    /\ store = "postgres" => row.pc \notin {"clear", "add"}
    /\ row.pc # "idle" => row.analysis \in Analyses
    /\ row.pc = "add" => row.links = TRUE
    /\ row.pc \in {"write", "commit"} => row.read \in Entries

\* Transactions that overlap on the row are known to.
HasRead(i) == update[i].pc \in {"write", "commit"}
OverlapsKnown == \A i, j \in PathIncidents : i # j /\ HasRead(i) /\ HasRead(j) => i \in clobbered /\ j \in clobbered

\* What a transaction has read of an incident that is not clobbered is still so.
ReadsCurrent ==
    \A i, j \in PathIncidents : i # j /\ HasRead(i) /\ j \notin clobbered => update[i].read[j] = causal[j]

\* Entries are on an edge.
NoEdgeNoEntry == edge = FALSE => \A i \in PathIncidents : causal[i] = {}

\* The edge shows what ended last, but between the two statements of Neo4j nothing.
Shows(n) == IF n = 0 THEN {} ELSE {n}
ShownOK ==
    \A i \in PathIncidents \ clobbered :
        causal[i] = IF update[i].pc = "add" THEN {} ELSE Shows(path[i])

\* The inductive invariant.
TopoIInv ==
    /\ TopoTypes /\ LockOK /\ (\A i \in PathIncidents : StepsOK(update[i]))
    /\ OverlapsKnown /\ ReadsCurrent /\ NoEdgeNoEntry /\ ShownOK

LEMMA TopoBounds == /\ MaxAnalyses \in Nat /\ MaxWriters \in Nat /\ MaxTopoFaults \in Nat /\ NoTx \notin PathIncidents
                    /\ Analyses \subseteq Nat /\ 0 \notin Analyses /\ Analyses \subseteq 0..MaxAnalyses
  BY TopologyConstants DEF NoTx, Analyses

LEMMA InitTopoIInv == ASSUME TopoInit PROVE TopoIInv
  <1> DEFINE idle == [pc |-> "idle", analysis |-> 0, links |-> FALSE, read |-> {}]
  <1>1. /\ store \in {"neo4j", "postgres"} /\ node = 1 /\ edge = TRUE /\ causal = NoEntries
        /\ update = [i \in PathIncidents |-> idle] /\ rowLock = NoTx
        /\ path = [i \in PathIncidents |-> 0] /\ clobbered = {} /\ toDelete = 0 /\ analyses = 0
    BY DEF TopoInit
  <1>2. idle \in UpdateRows /\ idle.pc = "idle"
    BY TopoBounds DEF UpdateRows
  <1>3. NoEntries \in Entries /\ \A i \in PathIncidents : NoEntries[i] = {}
    BY DEF NoEntries, Entries
  <1> HIDE DEF idle
  <1>4. TopoTypes
    BY <1>1, <1>2, <1>3, TopoBounds DEF TopoTypes, Rows
  <1>5. \A i \in PathIncidents : update[i].pc = "idle" /\ path[i] = 0
    BY <1>1, <1>2
  <1>6. LockOK
    BY <1>1, <1>5, TopoBounds DEF LockOK
  <1>7. \A i \in PathIncidents : StepsOK(update[i])
    BY <1>5 DEF StepsOK
  <1>8. OverlapsKnown /\ ReadsCurrent
    BY <1>5 DEF OverlapsKnown, ReadsCurrent, HasRead
  <1>9. NoEdgeNoEntry /\ ShownOK
    BY <1>1, <1>3, <1>5 DEF NoEdgeNoEntry, ShownOK, Shows
  <1>10. QED
    BY <1>4, <1>6, <1>7, <1>8, <1>9 DEF TopoIInv

\* A step that changes neither entries nor updates.
LEMMA NodesKeep ==
    ASSUME TopoIInv, UNCHANGED <<store, causal, update, rowLock, path, clobbered, analyses>>,
           node' \in Rows \cup {0}, edge' \in BOOLEAN, edge' = edge \/ edge' = TRUE, toDelete' \in 0..MaxWriters
    PROVE  TopoIInv'
  <1>1. TopoTypes'
    BY DEF TopoIInv, TopoTypes
  <1>2. LockOK' /\ (\A i \in PathIncidents : StepsOK(update[i])')
    BY DEF TopoIInv, LockOK, StepsOK
  <1>3. OverlapsKnown' /\ ReadsCurrent'
    BY DEF TopoIInv, OverlapsKnown, ReadsCurrent, HasRead
  <1>4. NoEdgeNoEntry' /\ ShownOK'
    BY DEF TopoIInv, NoEdgeNoEntry, ShownOK, Shows
  <1>5. QED
    BY <1>1, <1>2, <1>3, <1>4 DEF TopoIInv

\* One more cache deletion to make, or one less.
LEMMA DeletionsCounted ==
    ASSUME toDelete \in 0..MaxWriters, ThenInvalidates PROVE toDelete' \in 0..MaxWriters
  BY TopoBounds DEF ThenInvalidates

LEMMA TenantKeeps == ASSUME TopoIInv, DeleteTenant PROVE TopoIInv'
  <1>1. TopoTypes /\ LockOK /\ (\A i \in PathIncidents : StepsOK(update[i])) /\ OverlapsKnown
    BY DEF TopoIInv
  <1>2. /\ rowLock = NoTx /\ node' = 0 /\ edge' = FALSE /\ causal' = NoEntries
        /\ path' = [i \in PathIncidents |-> 0] /\ UNCHANGED <<store, update, rowLock, analyses>>
        /\ clobbered' = IF \E i \in PathIncidents : update[i].pc = "write" THEN PathIncidents ELSE clobbered
    BY DEF DeleteTenant
  <1>3. toDelete' \in 0..MaxWriters
    BY <1>1, DeletionsCounted DEF DeleteTenant, TopoTypes
  <1>4. NoEntries \in Entries /\ \A i \in PathIncidents : NoEntries[i] = {}
    BY DEF NoEntries, Entries
  <1>5. clobbered \subseteq clobbered' /\ clobbered' \subseteq PathIncidents
    BY <1>1, <1>2 DEF TopoTypes
  <1>6. path' \in [PathIncidents -> 0..MaxAnalyses] /\ \A i \in PathIncidents : path'[i] = 0
    BY <1>2, TopoBounds
  <1>7. TopoTypes'
    BY <1>1, <1>2, <1>3, <1>4, <1>5, <1>6 DEF TopoTypes
  <1>8. LockOK' /\ (\A i \in PathIncidents : StepsOK(update[i])')
    BY <1>1, <1>2 DEF LockOK, StepsOK
  <1>9. \A i \in PathIncidents : update[i].pc # "commit"
    BY <1>1, <1>2, TopoBounds DEF LockOK
  <1>10. OverlapsKnown'
    BY <1>1, <1>2, <1>5 DEF OverlapsKnown, HasRead
  <1>11. ReadsCurrent'
    BY <1>2, <1>9 DEF ReadsCurrent, HasRead
  <1>12. NoEdgeNoEntry' /\ ShownOK'
    BY <1>2, <1>4, <1>6 DEF NoEdgeNoEntry, ShownOK, Shows
  <1>13. QED
    BY <1>7, <1>8, <1>10, <1>11, <1>12 DEF TopoIInv

\* One update moves to row r; entries, the lock and what should show may change with
\* it, as long as everything about the others stays.
LEMMA UpdateMoves ==
    ASSUME TopoIInv, NEW i \in PathIncidents, NEW r \in UpdateRows, StepsOK(r),
           update' = [update EXCEPT ![i] = r], UNCHANGED <<store, node, edge>>,
           causal' \in Entries, path' \in [PathIncidents -> 0..MaxAnalyses],
           rowLock' \in PathIncidents \cup {NoTx}, r.pc = "commit" <=> rowLock' = i,
           \A j \in PathIncidents : j # i => (rowLock' = j <=> rowLock = j) /\ path'[j] = path[j],
           clobbered \subseteq clobbered', clobbered' \subseteq PathIncidents,
           \A j \in PathIncidents \ clobbered' : j # i => causal'[j] = causal[j],
           toDelete' \in 0..MaxWriters, analyses' \in 0..MaxAnalyses,
           edge = FALSE => causal' = causal \/ causal' = [causal EXCEPT ![i] = {}],
           i \notin clobbered' => causal'[i] = IF r.pc = "add" THEN {} ELSE Shows(path'[i]),
           r.pc \in {"write", "commit"} =>
               /\ \A j \in PathIncidents \ {i} : HasRead(j) => i \in clobbered' /\ j \in clobbered'
               /\ \A j \in PathIncidents \ {i} : j \notin clobbered' => r.read[j] = causal'[j],
           i \in clobbered' \/ (\A j \in PathIncidents \ {i} : HasRead(j) => causal'[i] = causal[i])
    PROVE  TopoIInv'
  <1>1. TopoTypes /\ LockOK /\ OverlapsKnown /\ ReadsCurrent /\ NoEdgeNoEntry /\ ShownOK
        /\ (\A j \in PathIncidents : StepsOK(update[j]))
    BY DEF TopoIInv
  <1>2. /\ update' \in [PathIncidents -> UpdateRows] /\ update'[i] = r
        /\ \A j \in PathIncidents : j # i => update'[j] = update[j]
    BY <1>1 DEF TopoTypes
  <1>3. TopoTypes'
    BY <1>1, <1>2 DEF TopoTypes
  <1>4. LockOK'
    BY <1>1, <1>2 DEF LockOK
  <1>5. \A j \in PathIncidents : StepsOK(update[j])'
    BY <1>1, <1>2 DEF StepsOK
  <1>6. /\ \A j \in PathIncidents : j # i => (HasRead(j)' <=> HasRead(j))
        /\ HasRead(i)' <=> r.pc \in {"write", "commit"}
    BY <1>2 DEF HasRead
  <1>7. OverlapsKnown'
    BY <1>1, <1>6 DEF OverlapsKnown
  <1>8. ReadsCurrent'
    <2> SUFFICES ASSUME NEW j \in PathIncidents, NEW k \in PathIncidents, j # k, HasRead(j)', k \notin clobbered'
                 PROVE  update'[j].read[k] = causal'[k]
      BY DEF ReadsCurrent
    <2>1. CASE j = i
      BY <1>2, <1>6, <2>1
    <2>2. CASE j # i
      <3>1. HasRead(j) /\ k \notin clobbered /\ update'[j] = update[j]
        BY <1>2, <1>6, <2>2
      <3>2. update[j].read[k] = causal[k]
        BY <1>1, <3>1 DEF ReadsCurrent
      <3>3. causal'[k] = causal[k]
        BY <2>2, <3>1
      <3>4. QED
        BY <3>1, <3>2, <3>3
    <2>3. QED
      BY <2>1, <2>2
  <1>9. NoEdgeNoEntry'
    BY <1>1 DEF NoEdgeNoEntry, TopoTypes, Entries
  <1>10. ShownOK'
    <2> SUFFICES ASSUME NEW j \in PathIncidents, j \notin clobbered'
                 PROVE  causal'[j] = IF update'[j].pc = "add" THEN {} ELSE Shows(path'[j])
      BY DEF ShownOK, Shows
    <2>1. CASE j = i
      BY <1>2, <2>1 DEF Shows
    <2>2. CASE j # i
      <3>1. causal[j] = IF update[j].pc = "add" THEN {} ELSE Shows(path[j])
        BY <1>1 DEF ShownOK
      <3>2. QED
        BY <1>2, <2>2, <3>1 DEF Shows
    <2>3. QED
      BY <2>1, <2>2
  <1>11. QED
    BY <1>3, <1>4, <1>5, <1>7, <1>8, <1>9, <1>10 DEF TopoIInv

\* The row of an update with its step, and what it read, replaced.
Moved(row, pc, read) == [row EXCEPT !.pc = pc, !.read = read]

LEMMA MovedTyped ==
    ASSUME NEW row \in UpdateRows, NEW pc \in {"idle", "clear", "add", "read", "write", "commit"},
           NEW read \in Entries \cup {{}}
    PROVE  /\ Moved(row, pc, read) \in UpdateRows
           /\ Moved(row, pc, read).pc = pc /\ Moved(row, pc, read).read = read
           /\ Moved(row, pc, read).analysis = row.analysis /\ Moved(row, pc, read).links = row.links
  BY DEF Moved, UpdateRows

LEMMA StepTyped ==
    ASSUME NEW row \in UpdateRows, NEW pc \in {"idle", "clear", "add", "read", "write", "commit"}
    PROVE  /\ Moved(row, pc, row.read) \in UpdateRows
           /\ Moved(row, pc, row.read).pc = pc /\ Moved(row, pc, row.read).read = row.read
           /\ Moved(row, pc, row.read).analysis = row.analysis /\ Moved(row, pc, row.read).links = row.links
  BY DEF Moved, UpdateRows

\* The updates of an action that gives one row a step.
LEMMA PcMoves ==
    ASSUME NEW i \in PathIncidents, update \in [PathIncidents -> UpdateRows], NEW pc,
           update' = [update EXCEPT ![i].pc = pc]
    PROVE  update' = [update EXCEPT ![i] = Moved(update[i], pc, update[i].read)]
  <1>1. update[i] \in UpdateRows
    OBVIOUS
  <1>2. [update[i] EXCEPT !.pc = pc] = Moved(update[i], pc, update[i].read)
    BY <1>1 DEF Moved, UpdateRows
  <1>3. QED
    BY <1>2

LEMMA EveryRowTyped ==
    ASSUME TopoIInv, NEW i \in PathIncidents
    PROVE  /\ update[i] \in UpdateRows /\ update[i].read \in Entries \cup {{}}
           /\ update[i].links \in BOOLEAN /\ update[i].analysis \in 0..MaxAnalyses
           /\ update[i].pc # "idle" => update[i].analysis \in Analyses
           /\ update \in [PathIncidents -> UpdateRows] /\ StepsOK(update[i])
  BY DEF TopoIInv, TopoTypes, UpdateRows, StepsOK

\* What ends an update: the row is idle, what should show is the analysis or nothing.
LEMMA FinishRow ==
    ASSUME TopoIInv, NEW i \in PathIncidents, update[i].pc # "idle", Finish(i)
    PROVE  LET r == Moved(update[i], "idle", {}) IN
           /\ r \in UpdateRows /\ r.pc = "idle" /\ StepsOK(r)
           /\ update' = [update EXCEPT ![i] = r]
           /\ path' \in [PathIncidents -> 0..MaxAnalyses]
           /\ path'[i] = IF update[i].links /\ edge THEN update[i].analysis ELSE 0
           /\ \A j \in PathIncidents : j # i => path'[j] = path[j]
           /\ toDelete' \in 0..MaxWriters
           /\ update[i].analysis # 0
           /\ Shows(path'[i]) = IF update[i].links /\ edge THEN {update[i].analysis} ELSE {}
  <1> DEFINE r == Moved(update[i], "idle", {})
  <1>1. r \in UpdateRows /\ r.pc = "idle"
    BY EveryRowTyped, MovedTyped
  <1>2. update' = [update EXCEPT ![i] = r]
    <2>1. update' = [update EXCEPT ![i].pc = "idle", ![i].read = {}]
      BY DEF Finish
    <2>2. update \in [PathIncidents -> UpdateRows]
      BY EveryRowTyped
    <2>3. QED
      BY <2>1, <2>2 DEF Moved, UpdateRows
  <1> HIDE DEF r
  <1>3. StepsOK(r)
    BY <1>1 DEF StepsOK
  <1>4. path \in [PathIncidents -> 0..MaxAnalyses] /\ toDelete \in 0..MaxWriters
    BY DEF TopoIInv, TopoTypes
  <1>5. toDelete' \in 0..MaxWriters
    BY <1>4, DeletionsCounted DEF Finish
  <1>6. update[i].analysis \in 0..MaxAnalyses /\ update[i].analysis # 0 /\ 0 \in 0..MaxAnalyses
    BY EveryRowTyped, TopoBounds
  <1>7. path' = [path EXCEPT ![i] = IF update[i].links /\ edge THEN update[i].analysis ELSE 0]
    BY DEF Finish
  <1>8. /\ path' \in [PathIncidents -> 0..MaxAnalyses]
        /\ path'[i] = IF update[i].links /\ edge THEN update[i].analysis ELSE 0
        /\ \A j \in PathIncidents : j # i => path'[j] = path[j]
    BY <1>4, <1>6, <1>7
  <1>9. Shows(path'[i]) = IF update[i].links /\ edge THEN {update[i].analysis} ELSE {}
    BY <1>6, <1>8 DEF Shows
  <1>10. QED
    BY <1>1, <1>2, <1>3, <1>5, <1>6, <1>8, <1>9 DEF r

LEMMA BeginPathKeeps == ASSUME TopoIInv, NEW i \in PathIncidents, BeginPath(i) PROVE TopoIInv'
  <1>1. /\ update[i].pc = "idle" /\ analyses < MaxAnalyses /\ analyses' = analyses + 1
        /\ UNCHANGED <<store, node, edge, causal, rowLock, path, clobbered, toDelete>>
    BY DEF BeginPath
  <1>2. PICK links \in BOOLEAN :
          update' = [update EXCEPT ![i] = [pc |-> IF store = "neo4j" THEN "clear" ELSE "read",
                                           analysis |-> analyses + 1, links |-> links, read |-> {}]]
    BY DEF BeginPath
  <1> DEFINE r == [pc |-> IF store = "neo4j" THEN "clear" ELSE "read",
                   analysis |-> analyses + 1, links |-> links, read |-> {}]
  <1>3. TopoTypes /\ LockOK /\ ShownOK
    BY DEF TopoIInv
  <1>4. analyses' \in Analyses /\ analyses' \in 0..MaxAnalyses
    BY <1>1, <1>3, TopoBounds DEF TopoTypes, Analyses
  <1>5. r \in UpdateRows /\ r.pc \in {"clear", "read"} /\ (r.pc = "clear" <=> store = "neo4j") /\ r.analysis \in Analyses
    BY <1>1, <1>4 DEF UpdateRows
  <1>6. update' = [update EXCEPT ![i] = r]
    BY <1>2
  <1> HIDE DEF r
  <1>7. StepsOK(r)
    BY <1>3, <1>5 DEF StepsOK, TopoTypes
  <1>8. rowLock # i
    BY <1>1, <1>3 DEF LockOK
  <1>9. i \notin clobbered' => causal'[i] = IF r.pc = "add" THEN {} ELSE Shows(path'[i])
    BY <1>1, <1>3, <1>5 DEF ShownOK, Shows
  <1>10. causal' \in Entries /\ path' \in [PathIncidents -> 0..MaxAnalyses] /\ toDelete' \in 0..MaxWriters
         /\ rowLock' \in PathIncidents \cup {NoTx} /\ clobbered' \subseteq PathIncidents
    BY <1>1, <1>3 DEF TopoTypes
  <1>11. QED
    BY <1>1, <1>4, <1>5, <1>6, <1>7, <1>8, <1>9, <1>10, UpdateMoves

\* Statements that end an update without the row's lock.
LEMMA SqlNothingKeeps == ASSUME TopoIInv, NEW i \in PathIncidents, SqlNothing(i) PROVE TopoIInv'
  <1>1. /\ update[i].pc = "read" /\ ~Concerned(i) /\ Finish(i)
        /\ UNCHANGED <<store, node, edge, causal, rowLock, clobbered, analyses>>
    BY DEF SqlNothing
  <1>2. PICK r \in UpdateRows : r = Moved(update[i], "idle", {}) /\ r.pc = "idle" /\ StepsOK(r)
                                /\ update' = [update EXCEPT ![i] = r]
    BY <1>1, FinishRow
  <1>3. /\ path' \in [PathIncidents -> 0..MaxAnalyses] /\ (\A j \in PathIncidents : j # i => path'[j] = path[j])
        /\ toDelete' \in 0..MaxWriters
        /\ Shows(path'[i]) = IF update[i].links /\ edge THEN {update[i].analysis} ELSE {}
    BY <1>1, FinishRow
  <1>4. TopoTypes /\ LockOK /\ NoEdgeNoEntry
    BY DEF TopoIInv
  <1>5. rowLock # i
    BY <1>1, <1>4 DEF LockOK
  <1>6. causal[i] = {} /\ ~(update[i].links /\ edge)
    BY <1>1, <1>4 DEF Concerned, NoEdgeNoEntry, TopoTypes
  <1>7. i \notin clobbered' => causal'[i] = IF r.pc = "add" THEN {} ELSE Shows(path'[i])
    BY <1>1, <1>2, <1>3, <1>6
  <1>8. causal' \in Entries /\ rowLock' \in PathIncidents \cup {NoTx} /\ clobbered' \subseteq PathIncidents
        /\ analyses' \in 0..MaxAnalyses
    BY <1>1, <1>4 DEF TopoTypes
  <1>9. QED
    BY <1>1, <1>2, <1>3, <1>5, <1>7, <1>8, UpdateMoves

LEMMA NeoAddKeeps == ASSUME TopoIInv, NEW i \in PathIncidents, NeoAdd(i) PROVE TopoIInv'
  <1>1. /\ update[i].pc = "add" /\ Finish(i)
        /\ causal' = IF edge THEN [causal EXCEPT ![i] = @ \cup {update[i].analysis}] ELSE causal
        /\ UNCHANGED <<store, node, edge, rowLock, clobbered, analyses>>
    BY DEF NeoAdd
  <1>2. PICK r \in UpdateRows : r = Moved(update[i], "idle", {}) /\ r.pc = "idle" /\ StepsOK(r)
                                /\ update' = [update EXCEPT ![i] = r]
    BY <1>1, FinishRow
  <1>3. /\ path' \in [PathIncidents -> 0..MaxAnalyses] /\ (\A j \in PathIncidents : j # i => path'[j] = path[j])
        /\ toDelete' \in 0..MaxWriters
        /\ Shows(path'[i]) = IF update[i].links /\ edge THEN {update[i].analysis} ELSE {}
    BY <1>1, FinishRow
  <1>4. TopoTypes /\ LockOK /\ NoEdgeNoEntry /\ ShownOK /\ (\A j \in PathIncidents : StepsOK(update[j]))
    BY DEF TopoIInv
  <1>5. rowLock # i /\ update[i].links = TRUE /\ update[i].analysis \in Analyses /\ edge \in BOOLEAN
    BY <1>1, <1>4 DEF LockOK, StepsOK, TopoTypes
  <1>6. i \notin clobbered => causal[i] = {}
    BY <1>1, <1>4 DEF ShownOK
  <1>7. /\ causal' \in Entries /\ (\A j \in PathIncidents : j # i => causal'[j] = causal[j])
        /\ causal'[i] = IF edge THEN causal[i] \cup {update[i].analysis} ELSE causal[i]
    BY <1>1, <1>4, <1>5 DEF TopoTypes, Entries
  <1>8. i \notin clobbered' => causal'[i] = IF r.pc = "add" THEN {} ELSE Shows(path'[i])
    BY <1>1, <1>2, <1>3, <1>5, <1>6, <1>7
  <1>9. rowLock' \in PathIncidents \cup {NoTx} /\ clobbered' \subseteq PathIncidents /\ analyses' \in 0..MaxAnalyses
    BY <1>1, <1>4 DEF TopoTypes
  <1>10. store = "neo4j" /\ (\A j \in PathIncidents : ~HasRead(j))
    BY <1>1, <1>4 DEF StepsOK, HasRead, TopoTypes
  <1>11. edge = FALSE => causal' = causal
    BY <1>1
  <1>12. QED
    BY <1>1, <1>2, <1>3, <1>5, <1>7, <1>8, <1>9, <1>10, <1>11, UpdateMoves

LEMMA NeoClearKeeps == ASSUME TopoIInv, NEW i \in PathIncidents, NeoClear(i) PROVE TopoIInv'
  <1>1. /\ update[i].pc = "clear" /\ causal' = [causal EXCEPT ![i] = {}]
        /\ UNCHANGED <<store, node, edge, rowLock, clobbered, analyses>>
    BY DEF NeoClear
  <1>2. TopoTypes /\ LockOK /\ (\A j \in PathIncidents : StepsOK(update[j]))
    BY DEF TopoIInv
  <1>3. /\ causal' \in Entries /\ (\A j \in PathIncidents : j # i => causal'[j] = causal[j]) /\ causal'[i] = {}
    BY <1>1, <1>2 DEF TopoTypes, Entries
  <1>4. rowLock' \in PathIncidents \cup {NoTx} /\ clobbered' \subseteq PathIncidents /\ analyses' \in 0..MaxAnalyses
    BY <1>1, <1>2 DEF TopoTypes
  <1>5. store = "neo4j" /\ (\A j \in PathIncidents : ~HasRead(j)) /\ rowLock # i
    BY <1>1, <1>2 DEF StepsOK, HasRead, TopoTypes, LockOK
  <1>6. CASE update[i].links
    <2>1. update' = [update EXCEPT ![i].pc = "add"] /\ path' = path /\ toDelete' = toDelete
      BY <1>6 DEF NeoClear
    <2> DEFINE r == Moved(update[i], "add", update[i].read)
    <2>2. update[i] \in UpdateRows /\ update[i].read \in Entries \cup {{}} /\ update[i].analysis \in Analyses
          /\ update[i].links = TRUE /\ update \in [PathIncidents -> UpdateRows]
      BY <1>1, <1>6, EveryRowTyped
    <2>3. r \in UpdateRows /\ r.pc = "add" /\ r.analysis = update[i].analysis /\ r.links = update[i].links
      <3>1. "add" \in {"idle", "clear", "add", "read", "write", "commit"}
        OBVIOUS
      <3>2. QED
        BY <2>2, <3>1, StepTyped
    <2>4. update' = [update EXCEPT ![i] = r]
      BY <2>1, <2>2, PcMoves
    <2> HIDE DEF r
    <2>5. StepsOK(r)
      BY <1>5, <2>2, <2>3 DEF StepsOK
    <2>6. path' \in [PathIncidents -> 0..MaxAnalyses] /\ toDelete' \in 0..MaxWriters
      BY <1>2, <2>1 DEF TopoTypes
    <2>7. QED
      BY <1>1, <1>3, <1>4, <1>5, <2>1, <2>3, <2>4, <2>5, <2>6, UpdateMoves
  <1>7. CASE ~update[i].links
    <2>1. Finish(i)
      BY <1>7 DEF NeoClear
    <2>2. PICK r \in UpdateRows : r = Moved(update[i], "idle", {}) /\ r.pc = "idle" /\ StepsOK(r)
                                  /\ update' = [update EXCEPT ![i] = r]
      BY <1>1, <2>1, FinishRow
    <2>3. /\ path' \in [PathIncidents -> 0..MaxAnalyses] /\ (\A j \in PathIncidents : j # i => path'[j] = path[j])
          /\ toDelete' \in 0..MaxWriters
          /\ Shows(path'[i]) = {}
      BY <1>1, <1>7, <2>1, FinishRow
    <2>4. QED
      BY <1>1, <1>3, <1>4, <1>5, <2>2, <2>3, UpdateMoves
  <1>8. QED
    BY <1>6, <1>7

LEMMA SqlReadKeeps == ASSUME TopoIInv, NEW i \in PathIncidents, SqlRead(i) PROVE TopoIInv'
  <1> DEFINE others == {j \in PathIncidents \ {i} : Overlaps(j)}
             r == Moved(update[i], "write", causal)
  <1>1. /\ update[i].pc = "read" /\ Concerned(i)
        /\ update' = [update EXCEPT ![i].pc = "write", ![i].read = causal]
        /\ clobbered' = IF others = {} THEN clobbered ELSE clobbered \cup others \cup {i}
        /\ UNCHANGED <<store, node, edge, causal, rowLock, path, toDelete, analyses>>
    BY DEF SqlRead
  <1>2. TopoTypes /\ LockOK /\ ShownOK /\ (\A j \in PathIncidents : StepsOK(update[j]))
    BY DEF TopoIInv
  <1>3. update[i] \in UpdateRows /\ update[i].analysis \in Analyses /\ update \in [PathIncidents -> UpdateRows]
    BY <1>1, EveryRowTyped
  <1>4. causal \in Entries
    BY <1>2 DEF TopoTypes
  <1>5. r \in UpdateRows /\ r.pc = "write" /\ r.read = causal /\ r.analysis = update[i].analysis
    <2>1. "write" \in {"idle", "clear", "add", "read", "write", "commit"} /\ causal \in Entries \cup {{}}
      BY <1>4
    <2>2. QED
      BY <1>3, <2>1, MovedTyped
  <1>6. update' = [update EXCEPT ![i] = r]
    BY <1>1, <1>3 DEF Moved, UpdateRows
  <1> HIDE DEF r
  <1>7. store = "postgres" /\ rowLock # i
    BY <1>1, <1>2 DEF StepsOK, TopoTypes, LockOK
  <1>8. StepsOK(r)
    BY <1>3, <1>4, <1>5, <1>7 DEF StepsOK
  <1>9. clobbered \subseteq clobbered' /\ clobbered' \subseteq PathIncidents
        /\ \A j \in PathIncidents \ {i} : HasRead(j) => i \in clobbered' /\ j \in clobbered'
    BY <1>1, <1>2 DEF TopoTypes, HasRead, Overlaps
  <1>10. i \notin clobbered' => causal'[i] = IF r.pc = "add" THEN {} ELSE Shows(path'[i])
    <2>1. i \notin clobbered => causal[i] = IF update[i].pc = "add" THEN {} ELSE Shows(path[i])
      BY <1>2 DEF ShownOK
    <2>2. QED
      BY <1>1, <1>5, <1>9, <2>1
  <1>11. /\ causal' \in Entries /\ path' \in [PathIncidents -> 0..MaxAnalyses] /\ toDelete' \in 0..MaxWriters
         /\ rowLock' \in PathIncidents \cup {NoTx} /\ analyses' \in 0..MaxAnalyses
    BY <1>1, <1>2 DEF TopoTypes
  <1>12. /\ UNCHANGED <<store, node, edge>> /\ causal' = causal /\ rowLock' = rowLock /\ path' = path
         /\ \A j \in PathIncidents \ {i} : j \notin clobbered' => r.read[j] = causal'[j]
    BY <1>1, <1>5
  <1> HIDE DEF others
  <1>13. QED
    BY <1>5, <1>6, <1>7, <1>8, <1>9, <1>10, <1>11, <1>12, UpdateMoves

LEMMA SqlWriteKeeps == ASSUME TopoIInv, NEW i \in PathIncidents, SqlWrite(i) PROVE TopoIInv'
  <1> DEFINE r == Moved(update[i], "commit", update[i].read)
  <1>1. /\ update[i].pc = "write" /\ rowLock = NoTx /\ rowLock' = i
        /\ update' = [update EXCEPT ![i].pc = "commit"]
        /\ UNCHANGED <<store, node, edge, causal, path, clobbered, toDelete, analyses>>
    BY DEF SqlWrite
  <1>2. TopoTypes /\ LockOK /\ ShownOK /\ OverlapsKnown /\ ReadsCurrent /\ StepsOK(update[i])
    BY DEF TopoIInv
  <1>3. update[i] \in UpdateRows /\ update[i].analysis \in Analyses /\ update \in [PathIncidents -> UpdateRows]
        /\ update[i].read \in Entries \cup {{}}
    BY <1>1, EveryRowTyped
  <1>4. r \in UpdateRows /\ r.pc = "commit" /\ r.read = update[i].read /\ r.analysis = update[i].analysis
    <2>1. "commit" \in {"idle", "clear", "add", "read", "write", "commit"}
      OBVIOUS
    <2>2. QED
      BY <1>3, <2>1, StepTyped
  <1>5. update' = [update EXCEPT ![i] = r]
    BY <1>1, <1>3, PcMoves
  <1> HIDE DEF r
  <1>6. StepsOK(r)
    BY <1>1, <1>2, <1>3, <1>4 DEF StepsOK
  <1>7. HasRead(i)
    BY <1>1 DEF HasRead
  <1>8. /\ \A j \in PathIncidents \ {i} : HasRead(j) => i \in clobbered' /\ j \in clobbered'
        /\ \A j \in PathIncidents \ {i} : j \notin clobbered' => r.read[j] = causal'[j]
    BY <1>1, <1>2, <1>4, <1>7 DEF OverlapsKnown, ReadsCurrent
  <1>9. i \notin clobbered' => causal'[i] = IF r.pc = "add" THEN {} ELSE Shows(path'[i])
    <2>1. i \notin clobbered => causal[i] = IF update[i].pc = "add" THEN {} ELSE Shows(path[i])
      BY <1>2 DEF ShownOK
    <2>2. QED
      BY <1>1, <1>4, <2>1
  <1>10. /\ causal' \in Entries /\ path' \in [PathIncidents -> 0..MaxAnalyses] /\ toDelete' \in 0..MaxWriters
         /\ clobbered' \subseteq PathIncidents /\ analyses' \in 0..MaxAnalyses
    BY <1>1, <1>2 DEF TopoTypes
  <1>11. \A j \in PathIncidents : j # i => (rowLock' = j <=> rowLock = j) /\ path'[j] = path[j]
    BY <1>1, TopoBounds
  <1>12. QED
    BY <1>1, <1>4, <1>5, <1>6, <1>8, <1>9, <1>10, <1>11, UpdateMoves

LEMMA SqlCommitKeeps == ASSUME TopoIInv, NEW i \in PathIncidents, SqlCommit(i) PROVE TopoIInv'
  <1> DEFINE mine == IF update[i].links THEN {update[i].analysis} ELSE {}
  <1>1. /\ update[i].pc = "commit" /\ Finish(i) /\ rowLock' = NoTx
        /\ causal' = IF edge THEN [update[i].read EXCEPT ![i] = mine] ELSE causal
        /\ UNCHANGED <<store, node, edge, clobbered, analyses>>
    BY DEF SqlCommit
  <1>2. PICK r \in UpdateRows : r = Moved(update[i], "idle", {}) /\ r.pc = "idle" /\ StepsOK(r)
                                /\ update' = [update EXCEPT ![i] = r]
    BY <1>1, FinishRow
  <1>3. /\ path' \in [PathIncidents -> 0..MaxAnalyses] /\ (\A j \in PathIncidents : j # i => path'[j] = path[j])
        /\ toDelete' \in 0..MaxWriters
        /\ Shows(path'[i]) = IF update[i].links /\ edge THEN {update[i].analysis} ELSE {}
    BY <1>1, FinishRow
  <1>4. TopoTypes /\ LockOK /\ NoEdgeNoEntry /\ OverlapsKnown /\ ReadsCurrent /\ StepsOK(update[i])
    BY DEF TopoIInv
  <1>5. HasRead(i) /\ rowLock = i /\ update[i].read \in Entries /\ update[i].analysis \in Analyses /\ edge \in BOOLEAN
    BY <1>1, <1>4 DEF HasRead, LockOK, StepsOK, TopoTypes
  <1>6. mine \subseteq Analyses
    BY <1>5
  <1>7. /\ causal' \in Entries /\ causal'[i] = IF edge THEN mine ELSE causal[i]
        /\ \A j \in PathIncidents : j # i => causal'[j] = IF edge THEN update[i].read[j] ELSE causal[j]
    <2> HIDE DEF mine
    <2>1. QED
      BY <1>1, <1>4, <1>5, <1>6 DEF TopoTypes, Entries
  <1>8. \A j \in PathIncidents \ clobbered' : j # i => causal'[j] = causal[j]
    BY <1>1, <1>4, <1>5, <1>7 DEF ReadsCurrent
  <1>9. i \notin clobbered' => causal'[i] = IF r.pc = "add" THEN {} ELSE Shows(path'[i])
    BY <1>1, <1>2, <1>3, <1>4, <1>5, <1>7 DEF NoEdgeNoEntry
  <1>10. clobbered' \subseteq PathIncidents /\ analyses' \in 0..MaxAnalyses
    BY <1>1, <1>4 DEF TopoTypes
  <1>11. i \in clobbered' \/ (\A j \in PathIncidents \ {i} : HasRead(j) => causal'[i] = causal[i])
    BY <1>1, <1>4, <1>5 DEF OverlapsKnown
  <1>12. edge = FALSE => causal' = causal
    BY <1>1
  <1>13. /\ rowLock' \in PathIncidents \cup {NoTx} /\ (r.pc = "commit" <=> rowLock' = i)
         /\ \A j \in PathIncidents : j # i => (rowLock' = j <=> rowLock = j) /\ path'[j] = path[j]
    BY <1>1, <1>2, <1>3, <1>5, TopoBounds
  <1> HIDE DEF mine
  <1>14. /\ UNCHANGED <<store, node, edge>> /\ clobbered \subseteq clobbered' /\ r.pc \notin {"write", "commit"}
    BY <1>1, <1>2
  <1>15. QED
    BY <1>2, <1>3, <1>7, <1>8, <1>9, <1>10, <1>11, <1>12, <1>13, <1>14, UpdateMoves

LEMMA PathFailsKeeps == ASSUME TopoIInv, NEW i \in PathIncidents, PathFails(i) PROVE TopoIInv'
  <1> DEFINE r == Moved(update[i], "idle", {})
  <1>1. /\ update[i].pc # "idle" /\ update' = [update EXCEPT ![i].pc = "idle", ![i].read = {}]
        /\ rowLock' = (IF rowLock = i THEN NoTx ELSE rowLock)
        /\ path' = [path EXCEPT ![i] = IF causal[i] = {} THEN 0 ELSE @]
        /\ UNCHANGED <<store, node, edge, causal, clobbered, toDelete, analyses>>
    BY DEF PathFails
  <1>2. TopoTypes /\ LockOK /\ ShownOK
    BY DEF TopoIInv
  <1>3. update[i] \in UpdateRows /\ update \in [PathIncidents -> UpdateRows]
    BY EveryRowTyped
  <1>4. r \in UpdateRows /\ r.pc = "idle"
    BY <1>3, MovedTyped
  <1>5. update' = [update EXCEPT ![i] = r]
    BY <1>1, <1>3 DEF Moved, UpdateRows
  <1> HIDE DEF r
  <1>6. StepsOK(r)
    BY <1>4 DEF StepsOK
  <1>7. path \in [PathIncidents -> 0..MaxAnalyses] /\ 0 \in 0..MaxAnalyses
    BY <1>2, TopoBounds DEF TopoTypes
  <1>8. /\ path' \in [PathIncidents -> 0..MaxAnalyses] /\ (\A j \in PathIncidents : j # i => path'[j] = path[j])
        /\ path'[i] = IF causal[i] = {} THEN 0 ELSE path[i]
    BY <1>1, <1>7
  <1>9. i \notin clobbered' => causal'[i] = IF r.pc = "add" THEN {} ELSE Shows(path'[i])
    <2>1. i \notin clobbered => causal[i] = IF update[i].pc = "add" THEN {} ELSE Shows(path[i])
      BY <1>2 DEF ShownOK
    <2>2. QED
      BY <1>1, <1>4, <1>8, <2>1 DEF Shows
  <1>10. /\ causal' \in Entries /\ toDelete' \in 0..MaxWriters /\ rowLock' \in PathIncidents \cup {NoTx}
         /\ clobbered' \subseteq PathIncidents /\ analyses' \in 0..MaxAnalyses
    BY <1>1, <1>2 DEF TopoTypes
  <1>11. /\ r.pc = "commit" <=> rowLock' = i
         /\ \A j \in PathIncidents : j # i => (rowLock' = j <=> rowLock = j) /\ path'[j] = path[j]
    BY <1>1, <1>4, <1>8, TopoBounds
  <1>12. QED
    BY <1>1, <1>4, <1>5, <1>6, <1>8, <1>9, <1>10, <1>11, UpdateMoves

LEMMA NextTopoIInv == ASSUME TopoIInv, [TopoNext]_topoVars PROVE TopoIInv'
  <1>1. TopoTypes
    BY DEF TopoIInv
  <1>2. ASSUME WriteNode PROVE TopoIInv'
    <2>1. toDelete' \in 0..MaxWriters
      BY <1>1, <1>2, DeletionsCounted DEF WriteNode, TopoTypes
    <2>2. QED
      BY <1>1, <1>2, <2>1, NodesKeep DEF WriteNode, TopoTypes
  <1>3. CASE UpsertDependencyEdge
    <2>1. toDelete' \in 0..MaxWriters
      BY <1>1, <1>3, DeletionsCounted DEF UpsertDependencyEdge, TopoTypes
    <2>2. node' \in Rows \cup {0}
      BY <1>1, <1>3 DEF UpsertDependencyEdge, TopoTypes, Rows
    <2>3. QED
      BY <1>1, <1>3, <2>1, <2>2, NodesKeep DEF UpsertDependencyEdge
  <1>4. CASE invalidateCache
    <2>1. toDelete' \in 0..MaxWriters
      BY <1>1, <1>4, TopoBounds DEF invalidateCache, TopoTypes
    <2>2. QED
      BY <1>1, <1>4, <2>1, NodesKeep DEF invalidateCache, TopoTypes
  <1>5. CASE LoadGraph \/ CacheGraph \/ ExpireGraph \/ UNCHANGED topoVars
    BY <1>1, <1>5, NodesKeep DEF LoadGraph, CacheGraph, ExpireGraph, topoVars, TopoTypes
  <1>6. ASSUME NEW i \in PathIncidents,
               BeginPath(i) \/ NeoClear(i) \/ NeoAdd(i) \/ SqlNothing(i) \/ SqlRead(i) \/ SqlWrite(i)
                 \/ SqlCommit(i) \/ PathFails(i)
        PROVE  TopoIInv'
    BY <1>6, BeginPathKeeps, NeoClearKeeps, NeoAddKeeps, SqlNothingKeeps, SqlReadKeeps, SqlWriteKeeps, SqlCommitKeeps, PathFailsKeeps
  <1>7. CASE DeleteTenant
    BY <1>7, TenantKeeps
  <1>8. CASE UpdateServiceState \/ GraphBuilderHandle \/ UpdateCatalog \/ PatchCatalogMetadata
    BY <1>2, <1>8 DEF UpdateServiceState, GraphBuilderHandle, UpdateCatalog, PatchCatalogMetadata
  <1>9. QED
    BY <1>3, <1>4, <1>5, <1>6, <1>7, <1>8 DEF TopoNext

\* The safety half of GraphIsRight.
AnalysesShow == \A i \in PathIncidents \ clobbered : AnalysisReplaces(i)

LEMMA TopoIInvShows == ASSUME TopoIInv PROVE TopoTypeOK /\ AnalysesShow
  <1>1. TopoTypeOK
    BY DEF TopoIInv, TopoTypes, TopoTypeOK, LockOK, Entries, Analyses
  <1>2. AnalysesShow
    BY DEF TopoIInv, AnalysesShow, AnalysisReplaces, ShownOK, Shows
  <1>3. QED
    BY <1>1, <1>2

\* The edge shows the analyses as they ended, whatever else ran: another incident's
\* update between a transaction's read and its commit, an update that failed half
\* way, a tenant's deletion, in both stores.  Only transactions of Postgres that
\* overlapped on the row may have taken an entry away (UpdateCausalPath).
THEOREM AnalysesAlwaysShow == TopoSpec => [](AnalysesShow /\ TopoTypeOK)
  <1>1. TopoInit => TopoIInv
    BY InitTopoIInv
  <1>2. TopoIInv /\ [TopoNext]_topoVars => TopoIInv'
    BY NextTopoIInv
  <1>3. TopoIInv => AnalysesShow /\ TopoTypeOK
    BY TopoIInvShows
  <1> HIDE DEF TopoIInv
  <1>4. QED
    BY <1>1, <1>2, <1>3, PTL DEF TopoSpec

-----------------------------------------------------------------------------
(* The rate limiter: its types *)

Enabled == Loaded(LimitRules)
Pending == {q \in InFlight : limReq[q] # NoReq}

\* Names are unique, what gateways load is enabled, and the counter of a window and
\* the requests that are still to be counted come from requests that began.
NamesUnique == \A r, s \in limTable : r.name = s.name => r = s
LoadsEnabled == /\ \A g \in LimGateways : limCopy[g] \subseteq Enabled
                /\ \A q \in Refreshes : refresher[q].rows \subseteq Enabled
LimCounts == /\ limRequests \in 0..MaxLimRequests /\ limEdits \in 0..MaxLimEdits /\ limFaults \in 0..MaxLimFaults
             /\ \A k \in Keys : counter[k] + Cardinality(Pending) <= limRequests
LimMore == NamesUnique /\ LoadsEnabled /\ LimCounts

LEMMA PendingFinite == IsFiniteSet(Pending) /\ Cardinality(Pending) \in Nat /\ Pending \subseteq InFlight
  BY LimBounds, FS_Subset, FS_CardinalityType DEF Pending

LEMMA PendingFiniteNext == IsFiniteSet(Pending') /\ Cardinality(Pending)' \in Nat /\ Pending' \subseteq InFlight
  BY LimBounds, FS_Subset, FS_CardinalityType DEF Pending

LEMMA LimNumbers == {MaxLimRequests, MaxBuckets, MaxLimEdits, MaxLimFaults} \subseteq Nat
  BY LimBounds

\* A step that leaves requests and counters alone.
LEMMA CountsSame ==
    ASSUME LimMore, UNCHANGED <<counter, limReq, limRequests>>,
           limEdits' \in 0..MaxLimEdits, limFaults' \in 0..MaxLimFaults
    PROVE  LimCounts'
  <1>1. Cardinality(Pending)' = Cardinality(Pending)
    BY DEF Pending
  <1>2. QED
    BY <1>1 DEF LimMore, LimCounts

LEMMA PickCounts == ASSUME LimIInv, LimMore, NEW q \in InFlight, NEW g \in LimGateways, PickRule(q, g) PROVE LimCounts'
  <1>1. /\ limRequests < MaxLimRequests /\ limRequests' = limRequests + 1
        /\ UNCHANGED <<counter, limEdits, limFaults>> /\ \E req : limReq' = [limReq EXCEPT ![q] = req]
    BY DEF PickRule
  <1>2. \A p \in InFlight : p # q => limReq'[p] = limReq[p]
    BY <1>1 DEF LimIInv, LimTypes
  <1>3. Pending' \subseteq Pending \cup {q}
    BY <1>2 DEF Pending
  <1>4. IsFiniteSet(Pending \cup {q}) /\ Cardinality(Pending \cup {q}) <= Cardinality(Pending) + 1
        /\ Cardinality(Pending \cup {q}) \in Nat
    <2>1. IsFiniteSet(Pending) /\ Cardinality(Pending) \in Nat
      BY PendingFinite
    <2>2. /\ IsFiniteSet(Pending \cup {q})
          /\ Cardinality(Pending \cup {q}) = IF q \in Pending THEN Cardinality(Pending) ELSE Cardinality(Pending) + 1
      BY <2>1, FS_AddElement
    <2>3. QED
      BY <2>1, <2>2
  <1>5. Cardinality(Pending') <= Cardinality(Pending \cup {q})
    BY <1>3, <1>4, FS_Subset
  <1>6. Cardinality(Pending') <= Cardinality(Pending) + 1 /\ Cardinality(Pending') \in Nat /\ Cardinality(Pending) \in Nat
    BY <1>4, <1>5, PendingFinite, PendingFiniteNext
  <1>7. /\ limRequests \in 0..MaxLimRequests /\ MaxLimRequests \in Nat /\ counter \in [Keys -> Nat]
        /\ limEdits \in 0..MaxLimEdits /\ limFaults \in 0..MaxLimFaults
        /\ \A k \in Keys : counter[k] + Cardinality(Pending) <= limRequests
    BY LimNumbers DEF LimIInv, LimTypes, LimMore, LimCounts
  <1>8. ASSUME NEW k \in Keys PROVE counter'[k] + Cardinality(Pending') <= limRequests'
    <2>1. counter[k] \in Nat /\ counter[k] + Cardinality(Pending) <= limRequests /\ counter'[k] = counter[k]
      BY <1>1, <1>7
    <2>2. QED
      BY <1>1, <1>6, <1>7, <2>1
  <1>9. limRequests' \in 0..MaxLimRequests
    BY <1>1, <1>7
  <1>10. QED
    BY <1>1, <1>7, <1>8, <1>9 DEF LimCounts

LEMMA AnswerCounts ==
    ASSUME LimIInv, LimMore, NEW q \in InFlight, RateLimit(q) \/ FailOpen(q) PROVE LimCounts'
  <1>1. /\ limReq[q] # NoReq /\ limReq' = [limReq EXCEPT ![q] = NoReq] /\ UNCHANGED <<limRequests, limEdits>>
        /\ limFaults' = limFaults \/ (limFaults < MaxLimFaults /\ limFaults' = limFaults + 1)
    BY DEF RateLimit, FailOpen, Count
  <1>2. limReq \in [InFlight -> Requests \cup {NoReq}] /\ counter \in [Keys -> Nat]
    BY DEF LimIInv, LimTypes
  <1>3. limReq'[q] = NoReq /\ \A p \in InFlight : p # q => limReq'[p] = limReq[p]
    BY <1>1, <1>2
  <1>4. q \in Pending /\ Pending' = Pending \ {q}
    BY <1>1, <1>3 DEF Pending
  <1>5. Cardinality(Pending') = Cardinality(Pending) - 1 /\ Cardinality(Pending) \in Nat /\ Cardinality(Pending') \in Nat
    BY <1>4, PendingFinite, PendingFiniteNext, FS_RemoveElement
  <1>6. /\ limRequests \in 0..MaxLimRequests /\ MaxLimFaults \in Nat /\ MaxLimRequests \in Nat
        /\ limEdits \in 0..MaxLimEdits /\ limFaults \in 0..MaxLimFaults
        /\ \A k \in Keys : counter[k] + Cardinality(Pending) <= limRequests
    BY LimNumbers DEF LimMore, LimCounts
  <1>7. \A k \in Keys : counter'[k] = counter[k] \/ counter'[k] = counter[k] + 1
    <2>1. CASE RateLimit(q)
      <3>1. \E j : counter' = [counter EXCEPT ![j] = @ + 1]
        BY <2>1 DEF RateLimit, Count
      <3>2. QED
        BY <1>2, <3>1
    <2>2. CASE FailOpen(q)
      BY <2>2 DEF FailOpen
    <2>3. QED
      BY <2>1, <2>2
  <1>8. ASSUME NEW k \in Keys PROVE counter'[k] + Cardinality(Pending') <= limRequests'
    <2>1. counter[k] \in Nat /\ counter[k] + Cardinality(Pending) <= limRequests
          /\ (counter'[k] = counter[k] \/ counter'[k] = counter[k] + 1) /\ limRequests' = limRequests
      BY <1>1, <1>2, <1>6, <1>7
    <2>2. QED
      BY <1>5, <1>6, <2>1
  <1>9. limFaults' \in 0..MaxLimFaults
    BY <1>1, <1>6
  <1>10. QED
    BY <1>1, <1>6, <1>8, <1>9 DEF LimCounts

\* An administrator's write leaves one rule of each name.
LEMMA WritesKeepNames ==
    ASSUME LimIInv, LimMore, NEW g \in LimGateways, NEW r \in LimitRules,
           CreateRateLimitRule(g, r) \/ UpdateRateLimitRule(g, r) \/ DeleteRateLimitRule(g, r)
    PROVE  NamesUnique' /\ \E table \in SUBSET LimitRules : Written(table, g)
  <1>1. NamesUnique /\ limTable \subseteq LimitRules
    BY DEF LimMore, LimIInv, LimTypes
  <1>2. CASE CreateRateLimitRule(g, r)
    <2>1. (\A s \in limTable : s.name # r.name) /\ Written(limTable \cup {r}, g)
      BY <1>2 DEF CreateRateLimitRule
    <2>2. limTable' = limTable \cup {r}
      BY <2>1 DEF Written
    <2>3. QED
      BY <1>1, <2>1, <2>2 DEF NamesUnique
  <1>3. CASE UpdateRateLimitRule(g, r)
    <2>1. PICK s \in limTable : s.name = r.name /\ Written((limTable \ {s}) \cup {r}, g)
      BY <1>3 DEF UpdateRateLimitRule
    <2>2. limTable' = (limTable \ {s}) \cup {r}
      BY <2>1 DEF Written
    <2>3. \A t \in limTable \ {s} : t.name # r.name
      BY <1>1, <2>1 DEF NamesUnique
    <2>4. (limTable \ {s}) \cup {r} \in SUBSET LimitRules
      BY <1>1
    <2>5. QED
      BY <1>1, <2>1, <2>2, <2>3, <2>4 DEF NamesUnique
  <1>4. CASE DeleteRateLimitRule(g, r)
    <2>1. Written(limTable \ {r}, g)
      BY <1>4 DEF DeleteRateLimitRule
    <2>2. limTable' = limTable \ {r}
      BY <2>1 DEF Written
    <2>3. QED
      BY <1>1, <2>1, <2>2 DEF NamesUnique
  <1>5. QED
    BY <1>2, <1>3, <1>4

LEMMA NextLimMore == ASSUME LimIInv, LimMore, [LimNext]_limVars PROVE LimMore'
  <1> DEFINE RefreshRows == [stage : {"idle", "due", "loaded"}, rows : SUBSET LimitRules]
  <1>1. NamesUnique /\ LoadsEnabled /\ LimCounts
    BY DEF LimMore
  <1>2. /\ limCopy \in [LimGateways -> SUBSET LimitRules] /\ refresher \in [Refreshes -> RefreshRows]
        /\ limTable \subseteq LimitRules
    BY DEF LimIInv, LimTypes
  <1>3. /\ limEdits \in 0..MaxLimEdits /\ limFaults \in 0..MaxLimFaults /\ MaxLimEdits \in Nat /\ MaxLimFaults \in Nat
    BY <1>1, LimNumbers DEF LimCounts
  <1>4. ASSUME UNCHANGED <<limTable, limCopy, refresher>> PROVE NamesUnique' /\ LoadsEnabled'
    BY <1>1, <1>4 DEF NamesUnique, LoadsEnabled
  <1>5. ASSUME NEW q \in InFlight, NEW g \in LimGateways, PickRule(q, g) PROVE LimMore'
    BY <1>4, <1>5, PickCounts DEF PickRule, LimMore
  <1>6. ASSUME NEW q \in InFlight, RateLimit(q) \/ FailOpen(q) PROVE LimMore'
    <2>1. UNCHANGED <<limTable, limCopy, refresher>>
      BY <1>6 DEF RateLimit, FailOpen, Count
    <2>2. QED
      BY <1>4, <1>6, <2>1, AnswerCounts DEF LimMore
  <1>7. ASSUME NEW g \in LimGateways, NEW r \in LimitRules,
               CreateRateLimitRule(g, r) \/ UpdateRateLimitRule(g, r) \/ DeleteRateLimitRule(g, r)
        PROVE  LimMore'
    <2>1. PICK table \in SUBSET LimitRules : Written(table, g)
      BY <1>7, WritesKeepNames
    <2>2. NamesUnique'
      BY <1>7, WritesKeepNames
    <2>3. /\ limEdits < MaxLimEdits /\ limEdits' = limEdits + 1 /\ limFaults' = limFaults
          /\ UNCHANGED <<counter, limReq, limRequests, limCopy>>
          /\ refresher' = [refresher EXCEPT ![<<g, "admin">>].stage = "due"]
      BY <2>1 DEF Written
    <2>4. LimCounts'
      BY <1>3, <2>3, CountsSame
    <2>5. \A q \in Refreshes : refresher'[q].rows = refresher[q].rows
      BY <1>2, <2>3
    <2>6. LoadsEnabled'
      BY <1>1, <2>3, <2>5 DEF LoadsEnabled
    <2>7. QED
      BY <2>2, <2>4, <2>6 DEF LimMore
  <1>8. ASSUME NEW q \in Refreshes, loadRules(q) PROVE LimMore'
    <2>1. /\ refresher' = [refresher EXCEPT ![q] = [stage |-> "loaded", rows |-> Loaded(limTable)]]
          /\ UNCHANGED <<limTable, limCopy, counter, limReq, limRequests, limEdits, limFaults>>
      BY <1>8 DEF loadRules
    <2>2. Loaded(limTable) \subseteq Enabled
      BY <1>2 DEF Loaded, Enabled
    <2>3. \A p \in Refreshes : refresher'[p].rows = refresher[p].rows \/ refresher'[p].rows = Loaded(limTable)
      BY <1>2, <2>1
    <2>4. LoadsEnabled' /\ NamesUnique'
      BY <1>1, <2>1, <2>2, <2>3 DEF LoadsEnabled, NamesUnique
    <2>5. QED
      BY <1>3, <2>1, <2>4, CountsSame DEF LimMore
  <1>9. ASSUME NEW q \in Refreshes, SetRules(q) PROVE LimMore'
    <2>1. /\ limCopy' = [limCopy EXCEPT ![q[1]] = refresher[q].rows]
          /\ refresher' = [refresher EXCEPT ![q] = IdleRefresh]
          /\ UNCHANGED <<limTable, counter, limReq, limRequests, limEdits, limFaults>>
      BY <1>9 DEF SetRules
    <2>2. \A p \in Refreshes : refresher'[p].rows = refresher[p].rows \/ refresher'[p].rows = {}
      BY <1>2, <2>1 DEF IdleRefresh
    <2>3. \A g \in LimGateways : limCopy'[g] = limCopy[g] \/ limCopy'[g] = refresher[q].rows
      BY <1>2, <2>1
    <2>4. LoadsEnabled' /\ NamesUnique'
      BY <1>1, <2>1, <2>2, <2>3 DEF LoadsEnabled, NamesUnique
    <2>5. QED
      BY <1>3, <2>1, <2>4, CountsSame DEF LimMore
  <1>10. ASSUME NEW q \in Refreshes, LoadFails(q) PROVE LimMore'
    <2>1. /\ limFaults < MaxLimFaults /\ limFaults' = limFaults + 1
          /\ refresher' = [refresher EXCEPT ![q] = IdleRefresh]
          /\ UNCHANGED <<limTable, limCopy, counter, limReq, limRequests, limEdits>>
      BY <1>10 DEF LoadFails
    <2>2. \A p \in Refreshes : refresher'[p].rows = refresher[p].rows \/ refresher'[p].rows = {}
      BY <1>2, <2>1 DEF IdleRefresh
    <2>3. LoadsEnabled' /\ NamesUnique'
      BY <1>1, <2>1, <2>2 DEF LoadsEnabled, NamesUnique
    <2>4. limFaults' \in 0..MaxLimFaults
      BY <1>3, <2>1
    <2>5. QED
      BY <1>3, <2>1, <2>3, <2>4, CountsSame DEF LimMore
  <1>11. CASE NextBucket \/ UNCHANGED limVars
    <2>1. UNCHANGED <<limTable, limCopy, refresher, counter, limReq, limRequests, limEdits, limFaults>>
      BY <1>11 DEF NextBucket, limVars
    <2>2. QED
      BY <1>3, <1>4, <2>1, CountsSame DEF LimMore
  <1>12. QED
    BY <1>5, <1>6, <1>7, <1>8, <1>9, <1>10, <1>11 DEF LimNext

LEMMA InitLimMore == ASSUME LimInit PROVE LimMore
  <1>1. NamesUnique
    BY DEF LimInit, NamesUnique
  <1>2. limTable \subseteq LimitRules
    BY DEF LimInit
  <1>3. LoadsEnabled
    BY <1>2 DEF LimInit, LoadsEnabled, Enabled, Loaded, IdleRefresh
  <1>4. Pending = {}
    BY DEF LimInit, Pending
  <1>5. Cardinality(Pending) = 0
    BY <1>4, FS_EmptySet
  <1>6. LimCounts
    BY <1>5, LimNumbers DEF LimInit, LimCounts
  <1>7. QED
    BY <1>1, <1>3, <1>6 DEF LimMore

LEMMA LimTypesFollow == ASSUME LimIInv, LimMore PROVE LimTypeOK
  <1>1. /\ limTable \subseteq LimitRules /\ bucketNow \in 0..MaxBuckets
        /\ refresher \in [Refreshes -> [stage : {"idle", "due", "loaded"}, rows : SUBSET LimitRules]]
        /\ DOMAIN topLimit = Keys /\ DOMAIN limReq = InFlight
        /\ counter \in [Keys -> Nat] /\ granted \in [Keys -> Nat]
        /\ \A k \in Keys : granted[k] <= counter[k]
    BY DEF LimIInv, LimTypes
  <1>2. NamesUnique /\ LoadsEnabled /\ LimCounts
    BY DEF LimMore
  <1>3. \A g \in LimGateways : limCopy[g] \subseteq {r \in LimitRules : r.enabled}
    BY <1>2 DEF LoadsEnabled, Enabled, Loaded
  <1>4. \A q \in Refreshes : refresher[q].stage \in {"idle", "due", "loaded"} /\ refresher[q].rows \subseteq LimitRules
    BY <1>1
  <1>5. ASSUME NEW k \in Keys PROVE counter[k] \in 0..MaxLimRequests /\ granted[k] \in 0..MaxLimRequests
    <2>1. counter[k] \in Nat /\ granted[k] \in Nat /\ granted[k] <= counter[k]
      BY <1>1
    <2>2. counter[k] + Cardinality(Pending) <= limRequests /\ limRequests \in 0..MaxLimRequests
      BY <1>2 DEF LimCounts
    <2>3. QED
      BY <2>1, <2>2, PendingFinite, LimNumbers
  <1>6. counter \in [Keys -> 0..MaxLimRequests] /\ granted \in [Keys -> 0..MaxLimRequests]
    BY <1>1, <1>5
  <1>7. QED
    BY <1>1, <1>2, <1>3, <1>4, <1>6 DEF LimTypeOK, NamesUnique, LimCounts

-----------------------------------------------------------------------------
(* The listing: its types *)

\* One turn of the loop, and what the loop has kept after n.
KeepStep(x, k) ==
    LET a == lister.alerts[k]
    IN  IF \E s \in lister.active : silenceMatches(s, a, listClock) THEN x ELSE Append(x, a)
KeepsTo(f, n) == f = [k \in 0..n |-> IF k = 0 THEN <<>> ELSE KeepStep(f[k - 1], k)]

LEMMA LoopExists == ASSUME NEW n \in Nat PROVE \E f : KeepsTo(f, n)
  <1> DEFINE T == {k \in Nat : ~ \E f : KeepsTo(f, k)}
  <1>1. SUFFICES ASSUME T # {} PROVE FALSE
    OBVIOUS
  <1>2. PICK m \in T : \A k \in T : m <= k
    BY <1>1, Least
  <1>3. CASE m = 0
    <2> DEFINE g == [k \in 0..0 |-> <<>>]
    <2>1. g = [k \in 0..0 |-> IF k = 0 THEN <<>> ELSE KeepStep(g[k - 1], k)]
      OBVIOUS
    <2>2. QED
      BY <1>2, <1>3, <2>1 DEF KeepsTo
  <1>4. CASE m # 0
    <2>1. m \in Nat /\ m - 1 \in Nat /\ m - 1 \notin T
      BY <1>2, <1>4
    <2>2. PICK f : KeepsTo(f, m - 1)
      BY <2>1
    <2>3. \A k \in 0..(m - 1) : f[k] = IF k = 0 THEN <<>> ELSE KeepStep(f[k - 1], k)
      BY <2>2 DEF KeepsTo
    <2> DEFINE last == KeepStep(f[m - 1], m)
               g == [k \in 0..m |-> IF k = m THEN last ELSE f[k]]
    <2>4. ASSUME NEW k \in 0..m
          PROVE  g[k] = IF k = 0 THEN <<>> ELSE KeepStep(g[k - 1], k)
      <3>1. CASE k = 0
        <4>1. k # m /\ 0 \in 0..(m - 1)
          BY <1>4, <2>1, <3>1
        <4>2. g[k] = f[k] /\ f[0] = <<>>
          BY <2>3, <4>1
        <4>3. QED
          BY <3>1, <4>2
      <3>2. CASE k = m
        <4>1. m - 1 \in 0..m /\ m - 1 # m /\ m \in 0..m
          BY <1>4, <2>1
        <4>2. g[m - 1] = f[m - 1] /\ g[m] = last
          BY <4>1, Zenon
        <4>3. last = KeepStep(g[m - 1], m)
          BY <4>2, Zenon
        <4> HIDE DEF g, last
        <4>4. QED
          BY <1>4, <3>2, <4>2, <4>3
      <3>3. CASE k \in 1..(m - 1)
        <4>1. k - 1 \in 0..m /\ k - 1 # m /\ k # m /\ k # 0 /\ k \in 0..(m - 1)
          BY <2>1, <3>3
        <4>2. g[k] = f[k] /\ g[k - 1] = f[k - 1]
          BY <4>1, Zenon
        <4>3. QED
          BY <2>3, <4>1, <4>2
      <3>4. QED
        BY <2>1, <3>1, <3>2, <3>3
    <2>5. g = [k \in 0..m |-> g[k]]
      OBVIOUS
    <2> HIDE DEF g
    <2>6. KeepsTo(g, m)
      BY <2>4, <2>5 DEF KeepsTo
    <2>7. QED
      BY <1>2, <2>6
  <1>5. QED
    BY <1>3, <1>4

\* The loop keeps alerts.
LEMMA KeptAlerts == ASSUME lister.alerts \in Seq(AlertRows) PROVE Kept[Len(lister.alerts)] \in Seq(AlertRows)
  <1> DEFINE n == Len(lister.alerts)
             f == Kept
             S == Seq(AlertRows)
  <1>1. n \in Nat /\ \A k \in 1..n : lister.alerts[k] \in AlertRows
    OBVIOUS
  <1>2. KeepsTo(f, n)
    <2>1. \E h : KeepsTo(h, n)
      BY <1>1, LoopExists
    <2>2. Kept = CHOOSE h : KeepsTo(h, n)
      BY DEF Kept, KeepsTo, KeepStep
    <2>3. QED
      BY <2>1, <2>2
  <1>3. \A k \in 0..n : f[k] = IF k = 0 THEN <<>> ELSE KeepStep(f[k - 1], k)
    BY <1>2 DEF KeepsTo
  <1>4. ASSUME NEW k \in 1..n, NEW x \in S PROVE KeepStep(x, k) \in S
    BY <1>1 DEF KeepStep
  <1>5. <<>> \in S
    OBVIOUS
  <1> HIDE DEF f, n, S
  <1>6. \A k \in 0..n : f[k] \in S
    <2> DEFINE T == {k \in 0..n : f[k] \notin S}
    <2>1. SUFFICES ASSUME T # {} PROVE FALSE
      OBVIOUS
    <2>2. T \in SUBSET Nat
      OBVIOUS
    <2>3. PICK m \in T : \A k \in T : m <= k
      BY <2>1, <2>2, Least
    <2>4. m \in 0..n /\ f[m] \notin S
      OBVIOUS
    <2>5. m # 0
      BY <1>1, <1>3, <1>5, <2>4
    <2>6. m - 1 \in 0..n /\ m - 1 \notin T /\ m \in 1..n
      BY <1>1, <2>3, <2>4, <2>5
    <2>7. QED
      BY <1>3, <1>4, <2>4, <2>5, <2>6
  <1>7. QED
    BY <1>1, <1>6 DEF f, n, S

Listings == [at : {"idle", "read", "matched"}, alerts : Seq(AlertRows), active : SUBSET Silences]

\* The inductive invariant: the types, and what the listing holds.
ListIInv == ListTypeOK /\ lister \in Listings

LEMMA ListNumbers == /\ MaxListTime \in Nat /\ 1 \in ListTimes /\ MaxAlerts \in Nat /\ MaxSilences \in Nat
                     /\ MaxListFaults \in Nat
  BY ListConstants DEF ListTimes

LEMMA IdleListing == IdleLister \in Listings
  BY DEF IdleLister, Listings

LEMMA ListingTyped ==
    ASSUME lister \in Listings
    PROVE  /\ lister.at \in {"idle", "read", "matched"} /\ lister.alerts \in Seq(AlertRows)
           /\ lister.active \subseteq Silences
  BY DEF Listings

LEMMA InitListIInv == ASSUME ListInit PROVE ListIInv
  <1>1. /\ listClock = 1 /\ stored = <<>> /\ silences = {} /\ lister = IdleLister
        /\ page = <<>> /\ created = 0 /\ listFaults = 0
    BY DEF ListInit
  <1>2. lister \in Listings
    BY <1>1, IdleListing
  <1>3. lister.at \in {"idle", "read", "matched"} /\ lister.alerts \in Seq(AlertRows) /\ lister.active \subseteq Silences
    BY <1>2, ListingTyped
  <1>4. /\ listClock \in ListTimes /\ stored \in Seq(AlertRows) /\ Len(stored) <= MaxAlerts /\ page \in Seq(AlertRows)
        /\ created \in 0..MaxSilences /\ listFaults \in 0..MaxListFaults
    BY <1>1, ListNumbers
  <1>5. Latest(stored)
    BY <1>1 DEF Latest
  <1>6. QED
    BY <1>1, <1>2, <1>3, <1>4, <1>5 DEF ListIInv, ListTypeOK

\* An alert is stored somewhere among the others.
LEMMA StoredTyped ==
    ASSUME ListIInv, NEW kind \in AlertKinds, NEW at \in ListTimes, StoreAlert(kind, at)
    PROVE  stored' \in Seq(AlertRows) /\ Len(stored') <= MaxAlerts /\ Latest(stored)'
  <1> DEFINE a == [id |-> Len(stored) + 1, kind |-> kind, at |-> at]
  <1>1. stored \in Seq(AlertRows) /\ Len(stored) \in Nat /\ Len(stored) < MaxAlerts /\ MaxAlerts \in Nat
    BY ListNumbers DEF ListIInv, ListTypeOK, StoreAlert
  <1>2. PICK i \in 0..Len(stored) :
            /\ Latest(SubSeq(stored, 1, i) \o <<a>> \o SubSeq(stored, i + 1, Len(stored)))
            /\ stored' = SubSeq(stored, 1, i) \o <<a>> \o SubSeq(stored, i + 1, Len(stored))
    BY DEF StoreAlert
  <1>3. a \in AlertRows
    <2>1. Len(stored) + 1 \in 1..MaxAlerts
      BY <1>1
    <2>2. QED
      BY <2>1 DEF AlertRows
  <1> DEFINE before == SubSeq(stored, 1, i)
             after == SubSeq(stored, i + 1, Len(stored))
  <1>4. before \in Seq(AlertRows) /\ Len(before) = i
    <2>1. \A k \in 1..i : stored[k] \in AlertRows
      BY <1>1
    <2>2. QED
      BY <1>1, <2>1, SubSeqProperties
  <1>5. after \in Seq(AlertRows) /\ Len(after) = Len(stored) - i
    <2>1. \A k \in (i + 1)..Len(stored) : stored[k] \in AlertRows
      BY <1>1
    <2>2. i + 1 \in 1..(Len(stored) + 1)
      BY <1>1
    <2>3. QED
      BY <1>1, <2>1, <2>2, SubSeqProperties
  <1> HIDE DEF a, before, after
  <1>6. <<a>> \in Seq(AlertRows) /\ Len(<<a>>) = 1
    BY <1>3
  <1>7. before \o <<a>> \in Seq(AlertRows) /\ Len(before \o <<a>>) = i + 1
    BY <1>4, <1>6, ConcatProperties
  <1>8. before \o <<a>> \o after \in Seq(AlertRows) /\ Len(before \o <<a>> \o after) = Len(stored) + 1
    <2>1. Len(before \o <<a>> \o after) = Len(before \o <<a>>) + Len(after) /\ before \o <<a>> \o after \in Seq(AlertRows)
      BY <1>5, <1>7, ConcatProperties
    <2>2. QED
      BY <1>1, <1>5, <1>7, <2>1
  <1>9. stored' = before \o <<a>> \o after /\ Latest(before \o <<a>> \o after)
    BY <1>2 DEF a, before, after
  <1>10. Latest(stored)'
    BY <1>9 DEF Latest
  <1>11. QED
    BY <1>1, <1>8, <1>9, <1>10

LEMMA NextListIInv == ASSUME ListIInv, [ListNext]_listVars PROVE ListIInv'
  <1>1. /\ listClock \in ListTimes /\ stored \in Seq(AlertRows) /\ Len(stored) <= MaxAlerts /\ Latest(stored)
        /\ silences \subseteq Silences /\ (\A s \in silences : s.starts < s.ends)
        /\ lister \in Listings /\ page \in Seq(AlertRows)
        /\ created \in 0..MaxSilences /\ listFaults \in 0..MaxListFaults
    BY DEF ListIInv, ListTypeOK
  <1>2. ASSUME lister' \in Listings, listClock' \in ListTimes, page' \in Seq(AlertRows),
               stored' \in Seq(AlertRows), Len(stored') <= MaxAlerts, Latest(stored)',
               silences' \subseteq Silences, \A s \in silences' : s.starts < s.ends,
               created' \in 0..MaxSilences, listFaults' \in 0..MaxListFaults
        PROVE  ListIInv'
    <2>1. /\ lister'.at \in {"idle", "read", "matched"} /\ lister'.alerts \in Seq(AlertRows)
          /\ lister'.active \subseteq Silences
      BY <1>2 DEF Listings
    <2>2. QED
      BY <1>2, <2>1 DEF ListIInv, ListTypeOK
  <1>3. ASSUME UNCHANGED stored PROVE stored' \in Seq(AlertRows) /\ Len(stored') <= MaxAlerts /\ Latest(stored)'
    BY <1>1, <1>3 DEF Latest
  <1>4. ASSUME NEW s \in Silences, CreateSilence(s) PROVE ListIInv'
    <2>1. created' \in 0..MaxSilences
      BY <1>1, <1>4, ListNumbers DEF CreateSilence
    <2>2. s.starts < s.ends
      <3>1. s.starts \in Int /\ s.ends \in Int
        BY DEF Silences, ListTimes
      <3>2. QED
        BY <1>4, <3>1 DEF CreateSilence
    <2>3. silences' = silences \cup {s} /\ UNCHANGED <<listClock, stored, lister, page, listFaults>>
      BY <1>4 DEF CreateSilence
    <2>4. QED
      BY <1>1, <1>2, <1>3, <2>1, <2>2, <2>3
  <1>5. ASSUME NEW s \in Silences, DeleteSilence(s) PROVE ListIInv'
    <2>1. silences' = silences \ {s} /\ UNCHANGED <<listClock, stored, lister, page, created, listFaults>>
      BY <1>5 DEF DeleteSilence
    <2>2. QED
      BY <1>1, <1>2, <1>3, <2>1
  <1>6. CASE ListAlerts
    <2>1. lister' = [at |-> "read", alerts |-> stored, active |-> {}]
          /\ UNCHANGED <<listClock, stored, silences, page, created, listFaults>>
      BY <1>6 DEF ListAlerts
    <2>2. lister' \in Listings
      BY <1>1, <2>1 DEF Listings
    <2>3. QED
      BY <1>1, <1>2, <1>3, <2>1, <2>2
  <1>7. CASE ActiveForTenant
    <2> DEFINE open == {s \in silences : s.starts <= listClock /\ s.ends > listClock}
    <2>1. /\ lister' = [lister EXCEPT !.at = "matched", !.active = open]
             \/ lister' = [lister EXCEPT !.at = "matched"]
          /\ UNCHANGED <<listClock, stored, silences, page, created>>
          /\ listFaults' = listFaults \/ (listFaults < MaxListFaults /\ listFaults' = listFaults + 1)
      BY <1>7 DEF ActiveForTenant
    <2>2. open \subseteq Silences
      BY <1>1
    <2> HIDE DEF open
    <2>3. lister' \in Listings
      BY <1>1, <2>1, <2>2 DEF Listings
    <2>4. listFaults' \in 0..MaxListFaults
      BY <1>1, <2>1, ListNumbers
    <2>5. QED
      BY <1>1, <1>2, <1>3, <2>1, <2>3, <2>4
  <1>8. CASE annotateSilenced
    <2>1. page' = Kept[Len(lister.alerts)] /\ lister' = IdleLister
          /\ UNCHANGED <<listClock, stored, silences, created, listFaults>>
      BY <1>8 DEF annotateSilenced
    <2>2. page' \in Seq(AlertRows)
      BY <1>1, <2>1, ListingTyped, KeptAlerts
    <2>3. QED
      BY <1>1, <1>2, <1>3, <2>1, <2>2, IdleListing
  <1>9. CASE ListTick
    <2>1. listClock' = listClock + 1 /\ listClock < MaxListTime
          /\ UNCHANGED <<stored, silences, lister, page, created, listFaults>>
      BY <1>9 DEF ListTick
    <2>2. listClock' \in ListTimes
      BY <1>1, <2>1, ListNumbers DEF ListTimes
    <2>3. QED
      BY <1>1, <1>2, <1>3, <2>1, <2>2
  <1>10. ASSUME NEW kind \in AlertKinds, NEW at \in ListTimes, StoreAlert(kind, at) PROVE ListIInv'
    <2>1. UNCHANGED <<listClock, silences, lister, page, created, listFaults>>
      BY <1>10 DEF StoreAlert
    <2>2. stored' \in Seq(AlertRows) /\ Len(stored') <= MaxAlerts /\ Latest(stored)'
      BY <1>10, StoredTyped
    <2>3. QED
      BY <1>1, <1>2, <2>1, <2>2
  <1>11. CASE UNCHANGED listVars
    BY <1>1, <1>2, <1>3, <1>11 DEF listVars
  <1>12. QED
    BY <1>4, <1>5, <1>6, <1>7, <1>8, <1>9, <1>10, <1>11 DEF ListNext

-----------------------------------------------------------------------------
(* The composition *)

LEMMA MigTypesFollow == ASSUME MigIInv PROVE MigTypeOK
  <1>1. ASSUME NEW s \in Starters
        PROVE  /\ starter[s].at \in {"start", "next", "record", "commit", "failed", "serving"}
               /\ starter[s].next \in 1..(FilesOf[s] + 1) /\ starter[s].applied \subseteq Versions
    <2>1. starter[s] \in StarterRows /\ StarterOK(s, starter[s], recorded)
      BY DEF MigIInv, MigTypes
    <2>2. starter[s].next \in Nat \ {0} /\ starter[s].next <= FilesOf[s] + 1
      BY <2>1 DEF StarterRows, StarterOK
    <2>3. starter[s].next \in 1..(FilesOf[s] + 1)
      BY <2>2, MigShapes
    <2>4. QED
      BY <2>1, <2>3 DEF StarterRows
  <1>2. QED
    BY <1>1 DEF MigIInv, MigTypes, MigTypeOK

\* The inductive invariant: that of each part, whichever the behaviour follows.
StoresIInv ==
    /\ part \in Parts
    /\ IInv /\ AInv /\ TopoIInv /\ SpanIInv /\ LimIInv /\ LimMore /\ ListIInv /\ MigIInv

LEMMA StoresStart == ASSUME StoresInit PROVE StoresIInv
  <1>1. part \in Parts /\ WalInit /\ AuditInit /\ TopoInit /\ SpanInit /\ LimInit /\ ListInit /\ MigInit
    BY DEF StoresInit
  <1>2. QED
    BY <1>1, InitIInv, InitAInv, InitTopoIInv, InitSpanIInv, InitLimIInv, InitLimMore, InitListIInv, InitMigIInv
    DEF StoresIInv

LEMMA StoresStepKeeps == ASSUME StoresIInv, [StoresNext]_storesVars PROVE StoresIInv'
  <1>1. /\ UNCHANGED part /\ [WalNext]_walVars /\ [AuditNext]_auditVars /\ [TopoNext]_topoVars
        /\ [SpanNext]_spanVars /\ [LimNext]_limVars /\ [ListNext]_listVars /\ [MigNext]_migVars
    BY DEF StoresNext, storesVars
  <1>2. IInv' /\ AInv'
    BY <1>1, NextIInv, NextAInv DEF StoresIInv
  <1>3. LimIInv' /\ LimMore'
    BY <1>1, NextLimIInv, NextLimMore DEF StoresIInv
  <1>4. TopoIInv' /\ SpanIInv' /\ ListIInv' /\ MigIInv'
    BY <1>1, NextTopoIInv, NextSpanIInv, NextListIInv, NextMigIInv DEF StoresIInv
  <1>5. QED
    BY <1>1, <1>2, <1>3, <1>4 DEF StoresIInv

\* Types, of the seven parts and for every value of their constants: a segment's
\* offsets, the chain's rows and their replicas, one transaction with the row, the
\* counters within the requests made, the stored alerts in order, versions in order.
THEOREM StoresTypeCorrect == StoresFairSpec => []StoresTypeOK
  <1>1. StoresIInv => StoresTypeOK
    <2>1. SUFFICES ASSUME StoresIInv PROVE StoresTypeOK
      OBVIOUS
    <2>2. WalTypeOK /\ AuditTypeOK
      BY <2>1, IInvImplies DEF StoresIInv, AInv
    <2>3. TopoTypeOK /\ SpanTypeOK /\ LimTypeOK /\ ListTypeOK /\ MigTypeOK
      BY <2>1, TopoIInvShows, LimTypesFollow, MigTypesFollow DEF StoresIInv, SpanIInv, ListIInv
    <2>4. part \in {"wal", "audit", "topology", "spans", "limits", "listing", "schema"}
      BY <2>1, PartsAreKnown DEF StoresIInv
    <2>5. QED
      BY <2>2, <2>3, <2>4 DEF StoresTypeOK
  <1>2. StoresInit => StoresIInv
    BY StoresStart
  <1>3. StoresIInv /\ [StoresNext]_storesVars => StoresIInv'
    BY StoresStepKeeps
  <1> HIDE DEF StoresIInv
  <1>4. QED
    BY <1>1, <1>2, <1>3, PTL DEF StoresFairSpec
=============================================================================
