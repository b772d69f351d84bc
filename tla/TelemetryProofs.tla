--------------------------- MODULE TelemetryProofs ----------------------------
(***************************************************************************)
(* Proofs about what becomes of telemetry, for every value of the          *)
(* constants:                                                              *)
(*   - the anomaly detector: detection that is switched off stops within   *)
(*     the life of a cached setting;                                       *)
(*   - the intake of logs: an acknowledged entry is kept or known to be    *)
(*     lost, and the usage counter is what clients were told is accepted;  *)
(*   - the intake of alerts: no alerting record is skipped, none is stored *)
(*     twice without a crash, and a reported loss is one;                  *)
(*   - service levels: alerts of a severity are a cooldown apart, and a    *)
(*     burn that is over wakes nobody;                                     *)
(*   - alert rules: a rule stays with its tenant;                          *)
(*   - the composition of these keeps their types.                         *)
(***************************************************************************)
EXTENDS MCTelemetry, FiniteSetTheorems, TLAPS

-----------------------------------------------------------------------------
(* The anomaly detector *)

AnomalyTypes ==
    /\ enabled \in BOOLEAN /\ warned \in BOOLEAN
    /\ cached \in [on : BOOLEAN, left : 0..ConfigTTL]
    /\ offFor \in Nat

\* A setting that says on and is still served, though detection is off, was cached
\* before the switch or by a failed lookup, which starts the count again: the polls
\* it has left and the polls since add up to no more than its life.
StaleIsShort ==
    /\ enabled = TRUE => offFor = 0
    /\ enabled = FALSE /\ cached.on = TRUE /\ cached.left > 0 => offFor + cached.left <= ConfigTTL

AnomalyIInv == AnomalyTypes /\ StaleIsShort /\ OffStopsWarnings

EmptyCache == [on |-> TRUE, left |-> 0]

\* The cache of a detector that has just started.
LEMMA EmptyCacheTyped ==
    EmptyCache \in [on : BOOLEAN, left : 0..ConfigTTL] /\ EmptyCache.left = 0
<1>1. 0 \in 0..ConfigTTL BY AnomalyConstants
<1>2. TRUE \in BOOLEAN OBVIOUS
<1>3. QED BY <1>1, <1>2 DEF EmptyCache

\* The invariant holds at the start.
LEMMA AnomalyStarts == AnomalyInit => AnomalyIInv
<1> SUFFICES ASSUME AnomalyInit PROVE AnomalyIInv OBVIOUS
<1>1. cached = EmptyCache BY DEF AnomalyInit, EmptyCache
<1>2. AnomalyTypes
  <2>1. enabled \in BOOLEAN /\ warned \in BOOLEAN /\ offFor \in Nat BY DEF AnomalyInit
  <2>2. QED BY <1>1, <2>1, EmptyCacheTyped DEF AnomalyTypes
<1>3. StaleIsShort BY <1>1, EmptyCacheTyped DEF AnomalyInit, StaleIsShort
<1>4. OffStopsWarnings BY DEF AnomalyInit, OffStopsWarnings
<1>5. QED BY <1>2, <1>3, <1>4 DEF AnomalyIInv

\* SetConfig flips the switch and starts the count.
LEMMA SetConfigKeeps ==
    ASSUME AnomalyIInv, SetConfig
    PROVE  AnomalyIInv'
<1> USE AnomalyConstants
<1>1. AnomalyTypes' BY DEF AnomalyIInv, AnomalyTypes, SetConfig
<1>2. StaleIsShort' BY DEF AnomalyIInv, AnomalyTypes, StaleIsShort, SetConfig
<1>3. OffStopsWarnings' BY DEF OffStopsWarnings, SetConfig
<1>4. QED BY <1>1, <1>2, <1>3 DEF AnomalyIInv

\* A poll either uses a setting still in the cache, looks the setting up, or fails to.
LEMMA PollKeeps ==
    ASSUME AnomalyIInv, Poll
    PROVE  AnomalyIInv'
<1> USE AnomalyConstants
<1>1. PICK setting \in BOOLEAN : configFor(setting) /\ warned' = (setting /\ Anomalous)
  BY DEF Poll
<1>2. enabled' = enabled BY DEF Poll
<1>3. warned' \in BOOLEAN BY <1>1
<1>4. warned' = TRUE => setting = TRUE BY <1>1
<1>5. CASE /\ cached.left > 0 /\ setting = cached.on
           /\ cached' = [cached EXCEPT !.left = @ - 1]
           /\ offFor' = IF ~enabled /\ offFor <= ConfigTTL THEN offFor + 1 ELSE offFor
  <2>1. /\ cached' \in [on : BOOLEAN, left : 0..ConfigTTL]
        /\ cached'.on = cached.on /\ cached'.left = cached.left - 1
    BY <1>5 DEF AnomalyIInv, AnomalyTypes
  <2>2. /\ enabled = TRUE => offFor' = offFor
        /\ enabled = FALSE => offFor' <= offFor + 1
        /\ offFor' \in Nat
    BY <1>5 DEF AnomalyIInv, AnomalyTypes
  <2>3. AnomalyTypes' BY <1>2, <1>3, <2>1, <2>2 DEF AnomalyIInv, AnomalyTypes
  <2>4. StaleIsShort'
    BY <1>2, <1>5, <2>1, <2>2 DEF AnomalyIInv, AnomalyTypes, StaleIsShort
  <2>5. setting = TRUE => offFor' <= ConfigTTL
    BY <1>2, <1>5, <2>2 DEF AnomalyIInv, AnomalyTypes, StaleIsShort
  <2>6. OffStopsWarnings' BY <1>3, <1>4, <2>5 DEF OffStopsWarnings
  <2>7. QED BY <2>3, <2>4, <2>6 DEF AnomalyIInv
<1>6. CASE /\ cached.left = 0 /\ setting = enabled
           /\ cached' = [on |-> setting, left |-> ConfigTTL]
           /\ offFor' = IF ~enabled /\ offFor <= ConfigTTL THEN offFor + 1 ELSE offFor
  <2>1. /\ cached' \in [on : BOOLEAN, left : 0..ConfigTTL]
        /\ cached'.on = enabled /\ cached'.left = ConfigTTL
    BY <1>6 DEF AnomalyIInv, AnomalyTypes
  <2>2. /\ enabled = TRUE => offFor' = offFor
        /\ offFor' \in Nat
    BY <1>6 DEF AnomalyIInv, AnomalyTypes
  <2>3. AnomalyTypes' BY <1>2, <1>3, <2>1, <2>2 DEF AnomalyIInv, AnomalyTypes
  <2>4. StaleIsShort'
    BY <1>2, <2>1, <2>2 DEF AnomalyIInv, AnomalyTypes, StaleIsShort
  <2>5. setting = TRUE => offFor' <= ConfigTTL
    BY <1>6, <2>2 DEF AnomalyIInv, AnomalyTypes, StaleIsShort
  <2>6. OffStopsWarnings' BY <1>3, <1>4, <2>5 DEF OffStopsWarnings
  <2>7. QED BY <2>3, <2>4, <2>6 DEF AnomalyIInv
<1>7. CASE cached' = [on |-> TRUE, left |-> ConfigTTL] /\ offFor' = 0
  <2>1. AnomalyTypes' BY <1>2, <1>3, <1>7 DEF AnomalyIInv, AnomalyTypes
  <2>2. StaleIsShort' BY <1>2, <1>7 DEF AnomalyIInv, AnomalyTypes, StaleIsShort
  <2>3. OffStopsWarnings' BY <1>7 DEF OffStopsWarnings
  <2>4. QED BY <2>1, <2>2, <2>3 DEF AnomalyIInv
<1>8. QED BY <1>1, <1>5, <1>6, <1>7 DEF configFor

\* Every step keeps the invariant: a restart empties the cache, the rest leaves the
\* setting, the cache and the count alone.
LEMMA AnomalyStepKeeps ==
    ASSUME AnomalyIInv, [AnomalyNext]_anomalyVars
    PROVE  AnomalyIInv'
<1> USE AnomalyConstants
<1>1. CASE SetConfig BY <1>1, SetConfigKeeps
<1>2. CASE Poll BY <1>2, PollKeeps
<1>3. CASE Drift \/ Seed \/ UNCHANGED anomalyVars
  <2>1. enabled' = enabled /\ warned' = warned /\ cached' = cached /\ offFor' = offFor
    BY <1>3 DEF Drift, Seed, anomalyVars
  <2>2. QED BY <2>1 DEF AnomalyIInv, AnomalyTypes, StaleIsShort, OffStopsWarnings
<1>4. CASE RestartDetector
  <2>1. /\ enabled' = enabled /\ warned' = FALSE /\ offFor' = offFor
        /\ cached' = EmptyCache
    BY <1>4 DEF RestartDetector, EmptyCache
  <2>2. AnomalyTypes'
    <3>1. warned' \in BOOLEAN BY <2>1
    <3>2. QED BY <2>1, <3>1, EmptyCacheTyped DEF AnomalyIInv, AnomalyTypes
  <2>3. StaleIsShort' BY <2>1, EmptyCacheTyped DEF AnomalyIInv, StaleIsShort
  <2>4. OffStopsWarnings' BY <2>1 DEF OffStopsWarnings
  <2>5. QED BY <2>2, <2>3, <2>4 DEF AnomalyIInv
<1>5. QED BY <1>1, <1>2, <1>3, <1>4 DEF AnomalyNext

\* Detection that is switched off (Update of anomaly_handler.go) writes no warning once
\* the cached setting is over, whatever lookups fail and restarts happen meanwhile.
THEOREM OffDoesStopWarnings == AnomalySpec => []OffStopsWarnings
<1>1. AnomalySpec => []AnomalyIInv
  BY AnomalyStarts, AnomalyStepKeeps, PTL DEF AnomalySpec
<1>2. AnomalyIInv => OffStopsWarnings BY DEF AnomalyIInv
<1>3. QED BY <1>1, <1>2, PTL

-----------------------------------------------------------------------------
(* The intake of logs *)

Pcs == {"idle", "enqueue", "meter", "count", "publish", "answer", "acked", "refused"}
ClientRows == [pc : Pcs, try : Nat, next : 1..(BatchLen + 1)]

LogTypes ==
    /\ client \in [Batches -> ClientRows]
    /\ logQueue \in Seq(AllEntries) /\ batch \in [LogWorkers -> Seq(AllEntries)]
    /\ usage \in Nat /\ miscount \in [missed : Nat, refused : Nat]

\* Where the entries that left a client can be.
Held == Underway \cup logTopic \cup dropped

\* A request is at a place its intake has; one that is being taken in has its earlier
\* entries taken, and one that is past that has all of them.
RequestOK(b, r) ==
    /\ r.pc \in {"enqueue", "meter"} => b \in Queued
    /\ r.pc \in {"count", "publish"} => b \in Direct
    /\ r.pc = "idle" => r.next = 1
    /\ r.pc = "enqueue" => r.next <= BatchLen
TakenIn(b, r, held) ==
    /\ r.pc = "enqueue" => \A i \in 1..(r.next - 1) : [of |-> b, i |-> i, try |-> r.try] \in held
    /\ r.pc \in {"meter", "count", "answer", "acked"} =>
           \A i \in 1..BatchLen : [of |-> b, i |-> i, try |-> r.try] \in held

RequestsOK == \A b \in Batches : RequestOK(b, client[b])
AllTakenIn == \A b \in Batches : TakenIn(b, client[b], Held)

LogIInv == LogTypes /\ RequestsOK /\ AllTakenIn /\ BilledOnceAccepted


\* The sequence of a channel or of a worker's batch, as a set.
LEMMA ToSetAppend ==
    ASSUME NEW E, NEW s \in Seq(E), NEW e \in E
    PROVE  Append(s, e) \in Seq(E) /\ ToSet(Append(s, e)) = ToSet(s) \cup {e}
<1>1. Append(s, e) \in Seq(E) OBVIOUS
<1>2. ASSUME NEW x \in ToSet(Append(s, e)) PROVE x \in ToSet(s) \cup {e} BY DEF ToSet
<1>3. ASSUME NEW x \in ToSet(s) PROVE x \in ToSet(Append(s, e)) BY DEF ToSet
<1>4. e \in ToSet(Append(s, e))
  <2>1. Append(s, e)[Len(s) + 1] = e /\ Len(s) + 1 \in DOMAIN Append(s, e) OBVIOUS
  <2>2. QED BY <2>1 DEF ToSet
<1>5. QED BY <1>1, <1>2, <1>3, <1>4

\* A sequence holds its head and its tail.
LEMMA ToSetHeadTail ==
    ASSUME NEW E, NEW s \in Seq(E), s # <<>>
    PROVE  Head(s) \in E /\ Tail(s) \in Seq(E) /\ ToSet(s) \subseteq {Head(s)} \cup ToSet(Tail(s))
<1>1. Head(s) \in E /\ Tail(s) \in Seq(E) OBVIOUS
<1>2. ASSUME NEW i \in DOMAIN s PROVE s[i] \in {Head(s)} \cup ToSet(Tail(s))
  <2>1. CASE i = 1 BY <2>1
  <2>2. CASE i # 1
    <3>1. i - 1 \in DOMAIN Tail(s) /\ Tail(s)[i - 1] = s[i] BY <2>2
    <3>2. QED BY <3>1 DEF ToSet
  <2>3. QED BY <2>1, <2>2
<1>3. QED BY <1>1, <1>2 DEF ToSet

\* The empty sequence holds nothing.
LEMMA ToSetEmpty == ToSet(<<>>) = {}
  BY DEF ToSet

\* A request moved on to its next entry, and to place p.
LEMMA RowAt ==
    ASSUME NEW r \in ClientRows, NEW p \in Pcs, NEW n \in 1..(BatchLen + 1)
    PROVE  LET row == [r EXCEPT !.next = n, !.pc = p]
           IN  row \in ClientRows /\ row.pc = p /\ row.next = n /\ row.try = r.try
<1> DEFINE on == [r EXCEPT !.next = n]
<1>1. on \in ClientRows /\ on.next = n /\ on.try = r.try BY DEF ClientRows
<1> HIDE DEF on
<1>2. [on EXCEPT !.pc = p] \in ClientRows BY <1>1 DEF ClientRows
<1>3. /\ [on EXCEPT !.pc = p].pc = p
      /\ [on EXCEPT !.pc = p].next = on.next /\ [on EXCEPT !.pc = p].try = on.try
  BY <1>1 DEF ClientRows
<1>4. [r EXCEPT !.next = n, !.pc = p] = [on EXCEPT !.pc = p] BY DEF on
<1>5. QED BY <1>1, <1>2, <1>3, <1>4

\* Goes moves one request and nothing else.
LEMMA GoesMoves ==
    ASSUME LogTypes, NEW b \in Batches, NEW p \in Pcs, Goes(b, p)
    PROVE  /\ client' \in [Batches -> ClientRows]
           /\ client'[b].pc = p /\ client'[b].try = client[b].try /\ client'[b].next = client[b].next
           /\ \A c \in Batches \ {b} : client'[c] = client[c]
<1>1. client[b] \in ClientRows BY DEF LogTypes
<1>2. client' = [client EXCEPT ![b] = [client[b] EXCEPT !.pc = p]] BY DEF Goes
<1>3. [client[b] EXCEPT !.pc = p] \in ClientRows BY <1>1 DEF ClientRows
<1>4. client'[b] = [client[b] EXCEPT !.pc = p] /\ \A c \in Batches \ {b} : client'[c] = client[c]
  BY <1>2 DEF LogTypes
<1>5. client' \in [Batches -> ClientRows] BY <1>2, <1>3 DEF LogTypes
<1>6. QED BY <1>1, <1>4, <1>5 DEF ClientRows

\* What was taken in stays so while no place loses an entry.
LEMMA TakenInGrows ==
    ASSUME NEW b \in Batches, NEW r \in ClientRows, NEW H1, NEW H2, H1 \subseteq H2, TakenIn(b, r, H1)
    PROVE  TakenIn(b, r, H2)
  BY DEF TakenIn

\* A step that moves request b and loses no entry keeps the others as they are.
LEMMA OneRequestMoves ==
    ASSUME LogIInv, NEW b \in Batches, client' \in [Batches -> ClientRows],
           \A c \in Batches \ {b} : client'[c] = client[c],
           Held \subseteq Held', RequestOK(b, client'[b]), TakenIn(b, client'[b], Held')
    PROVE  RequestsOK' /\ AllTakenIn'
<1>1. ASSUME NEW c \in Batches \ {b} PROVE RequestOK(c, client'[c]) /\ TakenIn(c, client'[c], Held')
  <2>1. client'[c] = client[c] /\ client[c] \in ClientRows BY DEF LogIInv, LogTypes
  <2>2. RequestOK(c, client[c]) /\ TakenIn(c, client[c], Held)
    BY DEF LogIInv, RequestsOK, AllTakenIn
  <2>3. TakenIn(c, client[c], Held')
    BY <2>1, <2>2, TakenInGrows
  <2>4. QED BY <2>1, <2>2, <2>3
<1>2. QED BY <1>1 DEF RequestsOK, AllTakenIn

\* The requests that have been counted and not refused.
Billed == {b \in Batches : client[b].pc \in {"publish", "answer", "acked"}}

\* There are finitely many clients.
LEMMA BilledFinite ==
    /\ IsFiniteSet(Batches)
    /\ IsFiniteSet(Billed) /\ Cardinality(Billed) \in Nat
    /\ IsFiniteSet(Billed') /\ Cardinality(Billed') \in Nat
<1>1. IsFiniteSet(Batches) BY LogConstants, FS_Union DEF Batches
<1>2. Billed \subseteq Batches /\ Billed' \subseteq Batches BY DEF Billed
<1>3. IsFiniteSet(Billed) /\ IsFiniteSet(Billed') BY <1>1, <1>2, FS_Subset
<1>4. QED BY <1>1, <1>3, FS_CardinalityType

\* A batch more, or less, in the bill.
LEMMA Times ==
    ASSUME NEW m \in Nat, NEW n \in Nat, NEW k \in Nat
    PROVE  /\ k * (n + 1) = k * n + k
           /\ m <= n => k * (n - m) = k * n - k * m
           /\ k * n \in Nat
  OBVIOUS

\* A step that changes neither who is billed nor the counters keeps the bill.
LEMMA BillStays ==
    ASSUME LogIInv, Billed' = Billed, usage' = usage, miscount' = miscount
    PROVE  BilledOnceAccepted'
  BY DEF LogIInv, BilledOnceAccepted, Billed

\* A step that counts request b, in Redis or among what Redis missed.
LEMMA BillCounts ==
    ASSUME LogIInv, NEW b \in Batches \ Billed, Billed' = Billed \cup {b}, Counted(b)
    PROVE  /\ usage' \in Nat /\ miscount' \in [missed : Nat, refused : Nat]
           /\ BilledOnceAccepted'
<1>1. Cardinality(Billed') = Cardinality(Billed) + 1 BY BilledFinite, FS_AddElement
<1>2. Cardinality(Billed) \in Nat /\ BatchLen \in Nat BY BilledFinite, LogConstants
<1> DEFINE n == Cardinality(Billed)
<1>3. BatchLen * Cardinality(Billed') = BatchLen * n + BatchLen /\ BatchLen * n \in Nat
  BY <1>1, <1>2, Times
<1>4. usage + miscount.missed - miscount.refused = BatchLen * n BY DEF LogIInv, BilledOnceAccepted, Billed
<1>5. usage \in Nat /\ miscount \in [missed : Nat, refused : Nat] BY DEF LogIInv, LogTypes
<1> HIDE DEF n
<1>6. CASE usage' = usage + BatchLen /\ miscount' = miscount
  <2>1. usage' + miscount'.missed - miscount'.refused = BatchLen * n + BatchLen
    BY <1>2, <1>4, <1>5, <1>6
  <2>2. QED BY <1>2, <1>3, <1>5, <1>6, <2>1 DEF BilledOnceAccepted, Billed
<1>7. CASE usage' = usage /\ miscount' = [miscount EXCEPT !.missed = @ + BatchLen]
  <2>1. /\ miscount' \in [missed : Nat, refused : Nat]
        /\ miscount'.missed = miscount.missed + BatchLen /\ miscount'.refused = miscount.refused
    BY <1>2, <1>5, <1>7
  <2>2. usage' + miscount'.missed - miscount'.refused = BatchLen * n + BatchLen
    BY <1>2, <1>3, <1>4, <1>5, <1>7, <2>1
  <2>3. QED BY <1>3, <1>5, <1>7, <2>1, <2>2 DEF BilledOnceAccepted, Billed
<1>8. QED BY <1>6, <1>7 DEF Counted

\* A step that takes the requests T, all of them billed, out of the bill and says so.
LEMMA BillRefuses ==
    ASSUME LogIInv, NEW T \in SUBSET Billed, Billed' = Billed \ T, usage' = usage,
           miscount' = [miscount EXCEPT !.refused = @ + BatchLen * Cardinality(T)]
    PROVE  miscount' \in [missed : Nat, refused : Nat] /\ BilledOnceAccepted'
<1>1. IsFiniteSet(T) /\ Cardinality(T) \in Nat /\ Cardinality(T) <= Cardinality(Billed)
  BY BilledFinite, FS_Subset, FS_CardinalityType
<1>2. Cardinality(Billed') = Cardinality(Billed) - Cardinality(T)
  <2>1. Cardinality(Billed \ T) = Cardinality(Billed) - Cardinality(Billed \cap T)
    BY BilledFinite, FS_Difference
  <2>2. Billed \cap T = T OBVIOUS
  <2>3. QED BY <2>1, <2>2
<1> DEFINE n == Cardinality(Billed)
           m == Cardinality(T)
<1>3. n \in Nat /\ m \in Nat /\ m <= n /\ BatchLen \in Nat BY <1>1, BilledFinite, LogConstants
<1>4. usage + miscount.missed - miscount.refused = BatchLen * n BY DEF LogIInv, BilledOnceAccepted, Billed
<1>5. usage \in Nat /\ miscount \in [missed : Nat, refused : Nat] BY DEF LogIInv, LogTypes
<1>6. miscount' = [miscount EXCEPT !.refused = @ + BatchLen * m] /\ Cardinality(Billed') = n - m BY <1>2
<1> HIDE DEF n, m
<1>7. BatchLen * (n - m) = BatchLen * n - BatchLen * m /\ BatchLen * m \in Nat /\ BatchLen * n \in Nat
  BY <1>3, Times
<1> DEFINE k == BatchLen * m
           l == BatchLen * n
<1>8. k \in Nat /\ l \in Nat /\ BatchLen * Cardinality(Billed') = l - k BY <1>6, <1>7
<1>9. miscount' = [miscount EXCEPT !.refused = @ + k] /\ usage + miscount.missed - miscount.refused = l
  BY <1>4, <1>6
<1> HIDE DEF k, l
<1>10. /\ miscount' \in [missed : Nat, refused : Nat]
       /\ miscount'.missed = miscount.missed /\ miscount'.refused = miscount.refused + k
  BY <1>5, <1>8, <1>9
<1>11. usage' + miscount'.missed - miscount'.refused = l - k
  BY <1>5, <1>8, <1>9, <1>10
<1>12. QED BY <1>8, <1>10, <1>11 DEF BilledOnceAccepted, Billed

\* At the start nobody has sent anything.
LEMMA LogStarts == LogInit => LogIInv
<1> SUFFICES ASSUME LogInit PROVE LogIInv OBVIOUS
<1> USE LogConstants
<1>1. NewClient \in ClientRows BY DEF NewClient, ClientRows, Pcs
<1>2. LogTypes
  <2>1. client \in [Batches -> ClientRows] BY <1>1 DEF LogInit
  <2>2. logQueue \in Seq(AllEntries) /\ batch \in [LogWorkers -> Seq(AllEntries)] BY DEF LogInit
  <2>3. usage \in Nat /\ miscount \in [missed : Nat, refused : Nat] BY DEF LogInit
  <2>4. QED BY <2>1, <2>2, <2>3 DEF LogTypes
<1>3. \A b \in Batches : client[b].pc = "idle" /\ client[b].next = 1 BY DEF LogInit, NewClient
<1>4. RequestsOK BY <1>3 DEF RequestsOK, RequestOK
<1>5. AllTakenIn BY <1>3 DEF AllTakenIn, TakenIn
<1>6. BilledOnceAccepted
  <2>1. {b \in Batches : client[b].pc \in {"publish", "answer", "acked"}} = {} BY <1>3
  <2>2. Cardinality({b \in Batches : client[b].pc \in {"publish", "answer", "acked"}}) = 0
    BY <2>1, FS_EmptySet
  <2>3. usage = 0 /\ miscount.missed = 0 /\ miscount.refused = 0 BY DEF LogInit
  <2>4. QED BY <2>2, <2>3 DEF BilledOnceAccepted
<1>7. QED BY <1>2, <1>4, <1>5, <1>6 DEF LogIInv

\* A request that is moved and not counted keeps the invariant when its new place asks
\* for no more than its old one.
LEMMA PlainMoveKeeps ==
    ASSUME LogIInv, NEW b \in Batches, NEW p \in Pcs, Goes(b, p),
           UNCHANGED <<logQueue, batch, logTopic, dropped, usage, miscount>>,
           (b \in Billed) = (p \in {"publish", "answer", "acked"}),
           RequestOK(b, client'[b]), TakenIn(b, client'[b], Held)
    PROVE  LogIInv'
<1>1. LogTypes BY DEF LogIInv
<1>2. /\ client' \in [Batches -> ClientRows] /\ client'[b].pc = p
      /\ \A c \in Batches \ {b} : client'[c] = client[c]
  BY <1>1, GoesMoves
<1>3. Held' = Held BY DEF Held, Underway
<1>4. RequestsOK' /\ AllTakenIn' BY <1>2, <1>3, OneRequestMoves
<1>5. LogTypes' BY <1>1, <1>2 DEF LogTypes
<1>6. Billed' = Billed BY <1>2 DEF Billed
<1>7. BilledOnceAccepted' BY <1>6, BillStays
<1>8. QED BY <1>4, <1>5, <1>7 DEF LogIInv

\* Receive starts with the first entry.
LEMMA ReceiveKeeps ==
    ASSUME LogIInv, NEW b \in Batches, Receive(b)
    PROVE  LogIInv'
<1>1. LogTypes /\ RequestOK(b, client[b]) BY DEF LogIInv, RequestsOK
<1>2. Goes(b, "enqueue") /\ client[b].pc = "idle" /\ b \in Queued BY DEF Receive
<1>3. "enqueue" \in Pcs BY DEF Pcs
<1>4. client'[b].pc = "enqueue" /\ client'[b].next = client[b].next BY <1>1, <1>2, <1>3, GoesMoves
<1>5. client'[b].next = 1 BY <1>1, <1>2, <1>4 DEF RequestOK
<1>6. RequestOK(b, client'[b]) BY <1>2, <1>4, <1>5, LogConstants DEF RequestOK
<1>7. TakenIn(b, client'[b], Held) BY <1>4, <1>5 DEF TakenIn
<1>8. b \notin Billed BY <1>2 DEF Billed
<1>9. QED BY <1>2, <1>3, <1>6, <1>7, <1>8, PlainMoveKeeps DEF Receive

\* Accept answers for entries that are held.
LEMMA AcceptKeeps ==
    ASSUME LogIInv, NEW b \in Batches, Accept(b)
    PROVE  LogIInv'
<1>1. LogTypes /\ TakenIn(b, client[b], Held) BY DEF LogIInv, AllTakenIn
<1>2. Goes(b, "acked") /\ client[b].pc = "answer" BY DEF Accept
<1>3. "acked" \in Pcs BY DEF Pcs
<1>4. client'[b].pc = "acked" /\ client'[b].try = client[b].try BY <1>1, <1>2, <1>3, GoesMoves
<1>5. RequestOK(b, client'[b]) BY <1>4 DEF RequestOK
<1>6. TakenIn(b, client'[b], Held) BY <1>1, <1>2, <1>4 DEF TakenIn
<1>7. b \in Billed BY <1>2 DEF Billed
<1>8. QED BY <1>2, <1>3, <1>5, <1>6, <1>7, PlainMoveKeeps DEF Accept

\* Enqueue puts one entry into the queue, or refuses the request.
LEMMA EnqueueKeeps ==
    ASSUME LogIInv, NEW b \in Batches, Enqueue(b)
    PROVE  LogIInv'
<1> USE LogConstants
<1>1. LogTypes /\ RequestOK(b, client[b]) /\ TakenIn(b, client[b], Held)
  BY DEF LogIInv, RequestsOK, AllTakenIn
<1>2. client[b].pc = "enqueue" /\ client[b] \in ClientRows BY <1>1 DEF Enqueue, LogTypes
<1>3. b \notin Billed BY <1>2 DEF Billed
<1>4. b \in Queued /\ client[b].next \in 1..BatchLen BY <1>1, <1>2 DEF RequestOK, ClientRows
<1>5. CASE Len(logQueue) < QueueCap
  <2> DEFINE e == EntryOf(b, client[b].next)
             to == IF client[b].next = BatchLen THEN "meter" ELSE "enqueue"
             row == [client[b] EXCEPT !.next = client[b].next + 1, !.pc = to]
  <2>1. e \in AllEntries BY <1>2, <1>4 DEF EntryOf, AllEntries, ClientRows
  <2>2. logQueue' = Append(logQueue, e) BY <1>5 DEF Enqueue
  <2>3. logQueue' \in Seq(AllEntries) /\ ToSet(logQueue') = ToSet(logQueue) \cup {e}
    BY <1>1, <2>1, <2>2, ToSetAppend DEF LogTypes
  <2>4. client' = [client EXCEPT ![b] = row]
    BY <1>1, <1>2, <1>5 DEF Enqueue, LogTypes
  <2>5. to \in {"meter", "enqueue"} /\ to \in Pcs BY DEF Pcs
  <2>6. to = "enqueue" => client[b].next < BatchLen BY <1>4
  <2>61. to = "meter" => client[b].next = BatchLen OBVIOUS
  <2> HIDE DEF to
  <2>7. row \in ClientRows /\ row.pc = to /\ row.next = client[b].next + 1 /\ row.try = client[b].try
    <3>1. client[b].next + 1 \in 1..(BatchLen + 1) BY <1>4
    <3>2. QED BY <1>2, <2>5, <3>1, RowAt
  <2> HIDE DEF row
  <2>8. /\ client' \in [Batches -> ClientRows] /\ client'[b] = row
        /\ \A c \in Batches \ {b} : client'[c] = client[c]
    BY <1>1, <2>4, <2>7 DEF LogTypes
  <2>9. Held' = Held \cup {e}
    <3>1. UNCHANGED <<batch, logTopic, dropped>> BY DEF Enqueue
    <3>2. QED BY <2>3, <3>1 DEF Held, Underway
  <2>10. RequestOK(b, row) BY <1>4, <2>5, <2>6, <2>7 DEF RequestOK
  <2>11. e = [of |-> b, i |-> client[b].next, try |-> client[b].try] BY DEF EntryOf
  <2>12. \A i \in 1..client[b].next : [of |-> b, i |-> i, try |-> client[b].try] \in Held'
    <3> TAKE i \in 1..client[b].next
    <3>1. CASE i = client[b].next BY <2>9, <2>11, <3>1
    <3>2. CASE i # client[b].next
      <4>1. i \in 1..(client[b].next - 1) BY <1>4, <3>2
      <4>2. QED BY <1>1, <1>2, <2>9, <4>1 DEF TakenIn
    <3>3. QED BY <3>1, <3>2
  <2>13. TakenIn(b, row, Held')
    <3>1. CASE to = "enqueue" BY <1>4, <2>7, <2>12, <3>1 DEF TakenIn
    <3>2. CASE to = "meter"
      <4>1. 1..client[b].next = 1..BatchLen BY <2>61, <3>2
      <4>2. QED BY <2>7, <2>12, <3>2, <4>1 DEF TakenIn
    <3>3. QED BY <2>5, <3>1, <3>2
  <2>14. RequestsOK' /\ AllTakenIn' BY <2>8, <2>9, <2>10, <2>13, OneRequestMoves
  <2>15. LogTypes' BY <1>1, <2>3, <2>8 DEF LogTypes, Enqueue
  <2>16. Billed' = Billed BY <1>3, <2>5, <2>7, <2>8 DEF Billed
  <2>17. BilledOnceAccepted' BY <2>16, BillStays DEF Enqueue
  <2>18. QED BY <2>14, <2>15, <2>17 DEF LogIInv
<1>6. CASE ~(Len(logQueue) < QueueCap)
  <2>1. Goes(b, "refused") /\ logQueue' = logQueue BY <1>6 DEF Enqueue
  <2>2. "refused" \in Pcs BY DEF Pcs
  <2>3. client'[b].pc = "refused" BY <1>1, <2>1, <2>2, GoesMoves
  <2>4. RequestOK(b, client'[b]) /\ TakenIn(b, client'[b], Held) BY <2>3 DEF RequestOK, TakenIn
  <2>5. QED BY <1>3, <2>1, <2>2, <2>4, PlainMoveKeeps DEF Enqueue
<1>7. QED BY <1>5, <1>6

\* A request that is counted, on its way to p.
LEMMA CountingKeeps ==
    ASSUME LogIInv, NEW b \in Batches \ Billed, NEW p \in {"publish", "answer"}, Goes(b, p), Counted(b),
           UNCHANGED <<logQueue, batch, logTopic, dropped>>,
           RequestOK(b, client'[b]), TakenIn(b, client'[b], Held)
    PROVE  LogIInv'
<1>1. LogTypes /\ p \in Pcs BY DEF LogIInv, Pcs
<1>2. /\ client' \in [Batches -> ClientRows] /\ client'[b].pc = p
      /\ \A c \in Batches \ {b} : client'[c] = client[c]
  BY <1>1, GoesMoves
<1>3. Held' = Held BY DEF Held, Underway
<1>4. RequestsOK' /\ AllTakenIn' BY <1>2, <1>3, OneRequestMoves
<1>5. Billed' = Billed \cup {b} BY <1>2 DEF Billed
<1>6. /\ usage' \in Nat /\ miscount' \in [missed : Nat, refused : Nat] /\ BilledOnceAccepted'
  BY <1>5, BillCounts
<1>7. LogTypes' BY <1>1, <1>2, <1>6 DEF LogTypes
<1>8. QED BY <1>4, <1>6, <1>7 DEF LogIInv

\* The three places that count: after the queue, after the publish, before it.
LEMMA CountsKeep ==
    ASSUME LogIInv, NEW b \in Batches, MeterBatch(b) \/ CountDirect(b) \/ emitLogs(b)
    PROVE  LogIInv'
<1>1. LogTypes /\ TakenIn(b, client[b], Held) BY DEF LogIInv, AllTakenIn
<1>2. "answer" \in Pcs /\ "publish" \in Pcs BY DEF Pcs
<1>3. CASE MeterBatch(b) \/ CountDirect(b)
  <2>1. /\ Goes(b, "answer") /\ Counted(b) /\ client[b].pc \in {"meter", "count"}
        /\ UNCHANGED <<logQueue, batch, logTopic, dropped>>
    BY <1>3 DEF MeterBatch, CountDirect
  <2>2. client'[b].pc = "answer" /\ client'[b].try = client[b].try BY <1>1, <1>2, <2>1, GoesMoves
  <2>3. RequestOK(b, client'[b]) BY <2>2 DEF RequestOK
  <2>4. TakenIn(b, client'[b], Held) BY <1>1, <2>1, <2>2 DEF TakenIn
  <2>5. b \notin Billed BY <2>1 DEF Billed
  <2>6. QED BY <2>1, <2>3, <2>4, <2>5, CountingKeeps
<1>4. CASE emitLogs(b)
  <2>1. /\ Goes(b, "publish") /\ Counted(b) /\ client[b].pc = "idle" /\ b \in Direct
        /\ UNCHANGED <<logQueue, batch, logTopic, dropped>>
    BY <1>4 DEF emitLogs
  <2>2. client'[b].pc = "publish" BY <1>1, <1>2, <2>1, GoesMoves
  <2>3. RequestOK(b, client'[b]) /\ TakenIn(b, client'[b], Held) BY <2>1, <2>2 DEF RequestOK, TakenIn
  <2>4. b \notin Billed BY <2>1 DEF Billed
  <2>5. QED BY <2>1, <2>3, <2>4, CountingKeeps
<1>5. QED BY <1>3, <1>4

\* Retry starts afresh: nothing of the new attempt is owed.
LEMMA RetryKeeps ==
    ASSUME LogIInv, NEW b \in Batches, Retry(b)
    PROVE  LogIInv'
<1> USE LogConstants
<1>1. LogTypes /\ client[b].pc = "refused" BY DEF LogIInv, Retry
<1> DEFINE row == [NewClient EXCEPT !.try = client[b].try + 1]
<1>2. row \in ClientRows /\ row.pc = "idle" /\ row.next = 1
  <2>1. client[b].try \in Nat BY <1>1 DEF LogTypes, ClientRows
  <2>2. QED BY <2>1 DEF NewClient, ClientRows, Pcs
<1>3. client' = [client EXCEPT ![b] = row] BY DEF Retry
<1> HIDE DEF row
<1>4. /\ client' \in [Batches -> ClientRows] /\ client'[b] = row
      /\ \A c \in Batches \ {b} : client'[c] = client[c]
  BY <1>1, <1>2, <1>3 DEF LogTypes
<1>5. RequestOK(b, row) BY <1>2 DEF RequestOK
<1>6. TakenIn(b, row, Held) BY <1>2 DEF TakenIn
<1>7. UNCHANGED <<logQueue, batch, logTopic, dropped, usage, miscount>> BY DEF Retry
<1>8. Held' = Held BY <1>7 DEF Held, Underway
<1>9. RequestsOK' /\ AllTakenIn' BY <1>4, <1>5, <1>6, <1>8, OneRequestMoves
<1>10. LogTypes' BY <1>1, <1>4, <1>7 DEF LogTypes
<1>11. Billed' = Billed BY <1>1, <1>2, <1>4 DEF Billed
<1>12. BilledOnceAccepted' BY <1>7, <1>11, BillStays
<1>13. QED BY <1>9, <1>10, <1>12 DEF LogIInv

\* Every entry of a batch, as TakenIn writes it.
LEMMA EntriesAre ==
    ASSUME NEW b \in Batches
    PROVE  Entries(b) = {[of |-> b, i |-> i, try |-> client[b].try] : i \in 1..BatchLen}
  BY DEF Entries, EntryOf

\* A publish adds to the topic; one that meets no fault adds everything.
LEMMA PublishAdds ==
    ASSUME LogTypes, logFaults \in Nat, NEW entries, PublishBatch(entries)
    PROVE  logTopic \subseteq logTopic' /\ (logFaults' = logFaults => entries \subseteq logTopic')
<1>1. CASE logTopic' = logTopic \cup entries BY <1>1
<1>2. CASE LogFault /\ \E arrived \in SUBSET entries : logTopic' = logTopic \cup arrived
  <2>1. logFaults' # logFaults BY <1>2 DEF LogFault
  <2>2. logTopic \subseteq logTopic' BY <1>2
  <2>3. QED BY <2>1, <2>2
<1>3. QED BY <1>1, <1>2 DEF PublishBatch

\* The gateway's handlers: a request whose publish succeeded is in the topic.
LEMMA GatewayPublishKeeps ==
    ASSUME LogIInv, logFaults \in Nat, NEW b \in Batches, DatadogLogs(b) \/ SplunkHEC(b)
    PROVE  LogIInv'
<1>1. LogTypes BY DEF LogIInv
<1>2. /\ b \in Direct /\ client[b].pc = "idle"
      /\ UNCHANGED <<logQueue, batch, dropped, usage, miscount>>
  BY DEF DatadogLogs, SplunkHEC
<1>3. PICK p \in {"count", "refused"} :
        /\ Goes(b, p) /\ logTopic \subseteq logTopic'
        /\ p = "count" => Entries(b) \subseteq logTopic'
  <2>1. CASE publishLogs(b)
    <3>1. CASE logFaults' = logFaults BY <1>1, <2>1, <3>1, PublishAdds DEF publishLogs
    <3>2. CASE logFaults' # logFaults BY <1>1, <2>1, <3>2, PublishAdds DEF publishLogs
    <3>3. QED BY <3>1, <3>2
  <2>2. CASE Goes(b, "refused") /\ logTopic' = logTopic BY <2>2
  <2>3. QED BY <2>1, <2>2 DEF DatadogLogs, SplunkHEC
<1>4. p \in Pcs BY DEF Pcs
<1>5. /\ client' \in [Batches -> ClientRows] /\ client'[b].pc = p /\ client'[b].try = client[b].try
      /\ \A c \in Batches \ {b} : client'[c] = client[c]
  BY <1>1, <1>3, <1>4, GoesMoves
<1>6. Held \subseteq Held' /\ logTopic' \subseteq Held' BY <1>2, <1>3 DEF Held, Underway
<1>7. RequestOK(b, client'[b]) BY <1>2, <1>5 DEF RequestOK
<1>8. TakenIn(b, client'[b], Held')
  <2>1. CASE p = "refused" BY <1>5, <2>1 DEF TakenIn
  <2>2. CASE p = "count" BY <1>3, <1>5, <1>6, <2>2, EntriesAre DEF TakenIn
  <2>3. QED BY <2>1, <2>2
<1>9. RequestsOK' /\ AllTakenIn' BY <1>5, <1>6, <1>7, <1>8, OneRequestMoves
<1>10. LogTypes' BY <1>1, <1>2, <1>5 DEF LogTypes
<1>11. Billed' = Billed BY <1>2, <1>5 DEF Billed
<1>12. BilledOnceAccepted' BY <1>2, <1>11, BillStays
<1>13. QED BY <1>9, <1>10, <1>12 DEF LogIInv

\* The OTLP bridge: a failed publish takes the request out of the bill and says so.
LEMMA BridgePublishKeeps ==
    ASSUME LogIInv, logFaults \in Nat, NEW b \in Batches, BridgePublish(b)
    PROVE  LogIInv'
<1>1. LogTypes BY DEF LogIInv
<1>2. client[b].pc = "publish" /\ b \in Billed /\ UNCHANGED <<logQueue, batch, dropped, usage>>
  BY DEF BridgePublish, Billed
<1>3. logTopic \subseteq logTopic' /\ (logFaults' = logFaults => Entries(b) \subseteq logTopic')
  BY <1>1, PublishAdds DEF BridgePublish
<1>4. Held \subseteq Held' /\ logTopic' \subseteq Held' BY <1>2, <1>3 DEF Held, Underway
<1>5. CASE logFaults' = logFaults
  <2>1. Goes(b, "answer") /\ miscount' = miscount /\ "answer" \in Pcs BY <1>5 DEF BridgePublish, Pcs
  <2>2. /\ client' \in [Batches -> ClientRows] /\ client'[b].pc = "answer" /\ client'[b].try = client[b].try
        /\ \A c \in Batches \ {b} : client'[c] = client[c]
    BY <1>1, <2>1, GoesMoves
  <2>3. RequestOK(b, client'[b]) BY <2>2 DEF RequestOK
  <2>4. TakenIn(b, client'[b], Held') BY <1>3, <1>4, <1>5, <2>2, EntriesAre DEF TakenIn
  <2>5. RequestsOK' /\ AllTakenIn' BY <1>4, <2>2, <2>3, <2>4, OneRequestMoves
  <2>6. LogTypes' BY <1>1, <1>2, <2>1, <2>2 DEF LogTypes
  <2>7. Billed' = Billed BY <1>2, <2>2 DEF Billed
  <2>8. BilledOnceAccepted' BY <1>2, <2>1, <2>7, BillStays
  <2>9. QED BY <2>5, <2>6, <2>8 DEF LogIInv
<1>6. CASE logFaults' # logFaults
  <2>1. /\ Goes(b, "refused") /\ "refused" \in Pcs
        /\ miscount' = [miscount EXCEPT !.refused = @ + BatchLen]
    BY <1>6 DEF BridgePublish, Pcs
  <2>2. /\ client' \in [Batches -> ClientRows] /\ client'[b].pc = "refused"
        /\ \A c \in Batches \ {b} : client'[c] = client[c]
    BY <1>1, <2>1, GoesMoves
  <2>3. RequestOK(b, client'[b]) /\ TakenIn(b, client'[b], Held') BY <2>2 DEF RequestOK, TakenIn
  <2>4. RequestsOK' /\ AllTakenIn' BY <1>4, <2>2, <2>3, OneRequestMoves
  <2>5. Billed' = Billed \ {b} BY <1>2, <2>2 DEF Billed
  <2>6. Cardinality({b}) = 1 BY FS_Singleton
  <2>7. BatchLen * Cardinality({b}) = BatchLen BY <2>6, LogConstants
  <2>8. miscount' = [miscount EXCEPT !.refused = @ + BatchLen * Cardinality({b})] BY <2>1, <2>7
  <2>9. {b} \in SUBSET Billed BY <1>2
  <2>10. miscount' \in [missed : Nat, refused : Nat] /\ BilledOnceAccepted'
    BY <1>2, <2>5, <2>8, <2>9, BillRefuses
  <2>11. LogTypes' BY <1>1, <1>2, <2>2, <2>10 DEF LogTypes
  <2>12. QED BY <2>4, <2>10, <2>11 DEF LogIInv
<1>7. QED BY <1>5, <1>6

\* A step that moves no request and loses no entry.
LEMMA NoRequestMoves ==
    ASSUME LogIInv, UNCHANGED <<client, usage, miscount>>, Held \subseteq Held',
           logQueue' \in Seq(AllEntries), batch' \in [LogWorkers -> Seq(AllEntries)]
    PROVE  LogIInv'
<1>1. LogTypes' BY DEF LogIInv, LogTypes
<1>2. RequestsOK' BY DEF LogIInv, RequestsOK
<1>3. AllTakenIn'
  <2>1. ASSUME NEW b \in Batches PROVE TakenIn(b, client[b], Held')
    <3>1. client[b] \in ClientRows /\ TakenIn(b, client[b], Held)
      BY DEF LogIInv, LogTypes, AllTakenIn
    <3>2. QED BY <3>1, TakenInGrows
  <2>2. QED BY <2>1 DEF AllTakenIn
<1>4. BilledOnceAccepted' BY BillStays DEF Billed
<1>5. QED BY <1>1, <1>2, <1>3, <1>4 DEF LogIInv

\* A worker takes an entry from the queue into its batch.
LEMMA TakeKeeps ==
    ASSUME LogIInv, NEW w \in LogWorkers, Take(w)
    PROVE  LogIInv'
<1>1. LogTypes BY DEF LogIInv
<1>2. /\ logQueue # <<>> /\ logQueue' = Tail(logQueue)
      /\ batch' = [batch EXCEPT ![w] = Append(batch[w], Head(logQueue))]
      /\ UNCHANGED <<client, logTopic, dropped, usage, miscount>>
  BY DEF Take
<1>3. logQueue \in Seq(AllEntries) /\ batch[w] \in Seq(AllEntries) BY <1>1 DEF LogTypes
<1>4. /\ Head(logQueue) \in AllEntries /\ logQueue' \in Seq(AllEntries)
      /\ ToSet(logQueue) \subseteq {Head(logQueue)} \cup ToSet(logQueue')
  BY <1>2, <1>3, ToSetHeadTail
<1> DEFINE more == Append(batch[w], Head(logQueue))
<1>5. more \in Seq(AllEntries) /\ ToSet(more) = ToSet(batch[w]) \cup {Head(logQueue)}
  BY <1>3, <1>4, ToSetAppend
<1> HIDE DEF more
<1>6. batch' = [batch EXCEPT ![w] = more] BY <1>2 DEF more
<1>7. /\ batch' \in [LogWorkers -> Seq(AllEntries)] /\ batch'[w] = more
      /\ \A v \in LogWorkers \ {w} : batch'[v] = batch[v]
  BY <1>1, <1>5, <1>6 DEF LogTypes
<1>8. \A v \in LogWorkers : ToSet(batch[v]) \subseteq ToSet(batch'[v]) BY <1>5, <1>7
<1>9. Head(logQueue) \in ToSet(batch'[w]) BY <1>5, <1>7
<1>10. Underway \subseteq Underway' BY <1>4, <1>8, <1>9 DEF Underway
<1>11. Held \subseteq Held' BY <1>2, <1>10 DEF Held
<1>12. QED BY <1>2, <1>4, <1>7, <1>11, NoRequestMoves

\* A flush: what of the batch does not arrive is dropped.
LEMMA FlushKeeps ==
    ASSUME LogIInv, logFaults \in Nat, NEW w \in LogWorkers, flushBatch(w)
    PROVE  LogIInv'
<1>1. LogTypes BY DEF LogIInv
<1>2. /\ batch' = [batch EXCEPT ![w] = <<>>]
      /\ dropped' = dropped \cup (ToSet(batch[w]) \ logTopic')
      /\ UNCHANGED <<client, logQueue, usage, miscount>>
  BY DEF flushBatch
<1>3. logTopic \subseteq logTopic' BY <1>1, PublishAdds DEF flushBatch
<1>4. /\ batch' \in [LogWorkers -> Seq(AllEntries)]
      /\ \A v \in LogWorkers \ {w} : batch'[v] = batch[v]
  BY <1>1, <1>2 DEF LogTypes
<1>5. Underway \subseteq Underway' \cup ToSet(batch[w])
  <2>1. ASSUME NEW x \in Underway PROVE x \in Underway' \cup ToSet(batch[w])
    <3>1. CASE x \in ToSet(logQueue) BY <1>2, <3>1 DEF Underway
    <3>2. CASE x \notin ToSet(logQueue)
      <4>1. PICK v \in LogWorkers : x \in ToSet(batch[v]) BY <3>2 DEF Underway
      <4>2. CASE v = w BY <4>1, <4>2
      <4>3. CASE v # w BY <1>4, <4>1, <4>3 DEF Underway
      <4>4. QED BY <4>2, <4>3
    <3>3. QED BY <3>1, <3>2
  <2>2. QED BY <2>1
<1>6. ToSet(batch[w]) \subseteq logTopic' \cup dropped' BY <1>2
<1>7. Held \subseteq Held'
  <2>1. dropped \subseteq dropped' BY <1>2
  <2>2. QED BY <1>3, <1>5, <1>6, <2>1 DEF Held
<1>8. logQueue' \in Seq(AllEntries) BY <1>1, <1>2 DEF LogTypes
<1>9. QED BY <1>2, <1>4, <1>7, <1>8, NoRequestMoves

\* The end of the process: its requests are refused, and those already counted are
\* taken out of the bill.
LEMMA CutOffKeeps ==
    ASSUME LogIInv, CutOff, Held \subseteq Held', usage' = usage,
           logQueue' \in Seq(AllEntries), batch' \in [LogWorkers -> Seq(AllEntries)]
    PROVE  LogIInv'
<1>1. LogTypes BY DEF LogIInv
<1> DEFINE T == {b \in Queued : client[b].pc = "answer"}
<1>2. ASSUME NEW b \in Batches
      PROVE  /\ client'[b] \in ClientRows
             /\ InRequest(b) => client'[b].pc = "refused"
             /\ ~InRequest(b) => client'[b] = client[b]
  <2>1. client[b] \in ClientRows BY <1>1 DEF LogTypes
  <2>2. CASE InRequest(b)
    <3>1. client'[b] = [client[b] EXCEPT !.pc = "refused"] BY <2>2 DEF CutOff
    <3>2. QED BY <2>1, <2>2, <3>1 DEF ClientRows, Pcs
  <2>3. CASE ~InRequest(b) BY <2>1, <2>3 DEF CutOff
  <2>4. QED BY <2>2, <2>3
<1>3. client' \in [Batches -> ClientRows]
  <2>1. DOMAIN client' = Batches BY DEF CutOff
  <2>2. client' = [b \in Batches |-> client'[b]] BY DEF CutOff
  <2>3. QED BY <1>2, <2>2
<1>4. ASSUME NEW b \in Batches PROVE RequestOK(b, client'[b]) /\ TakenIn(b, client'[b], Held')
  <2>1. CASE InRequest(b) BY <1>2, <2>1 DEF RequestOK, TakenIn
  <2>2. CASE ~InRequest(b)
    <3>1. RequestOK(b, client[b]) /\ TakenIn(b, client[b], Held) /\ client[b] \in ClientRows
      BY <1>1 DEF LogIInv, RequestsOK, AllTakenIn, LogTypes
    <3>2. TakenIn(b, client[b], Held') BY <3>1, TakenInGrows
    <3>3. QED BY <1>2, <2>2, <3>1, <3>2
  <2>3. QED BY <2>1, <2>2
<1>5. RequestsOK' /\ AllTakenIn' BY <1>4 DEF RequestsOK, AllTakenIn
<1>6. T \in SUBSET Billed BY DEF Billed, Batches
<1>7. Billed' = Billed \ T
  <2>1. ASSUME NEW b \in Batches PROVE b \in Billed' <=> b \in Billed /\ b \notin T
    <3>1. CASE InRequest(b)
      <4>1. client'[b].pc = "refused" /\ b \notin Billed' BY <1>2, <3>1 DEF Billed
      <4>2. b \in Billed => b \in T BY <3>1 DEF InRequest, Billed
      <4>3. QED BY <4>1, <4>2
    <3>2. CASE ~InRequest(b)
      <4>1. b \notin T BY <3>2 DEF InRequest
      <4>2. b \in Billed' <=> b \in Billed BY <1>2, <3>2 DEF Billed
      <4>3. QED BY <4>1, <4>2
    <3>3. QED BY <3>1, <3>2
  <2>2. Billed \subseteq Batches /\ Billed' \subseteq Batches BY DEF Billed
  <2>3. QED BY <2>1, <2>2
<1>8. miscount' = [miscount EXCEPT !.refused = @ + BatchLen * Cardinality(T)] BY DEF CutOff
<1> HIDE DEF T
<1>9. miscount' \in [missed : Nat, refused : Nat] /\ BilledOnceAccepted'
  BY <1>6, <1>7, <1>8, BillRefuses
<1>10. usage' \in Nat BY <1>1 DEF LogTypes
<1>11. LogTypes' BY <1>3, <1>9, <1>10 DEF LogTypes
<1>12. QED BY <1>5, <1>9, <1>11 DEF LogIInv

\* Exit leaves nothing behind; Die drops what the process held.
LEMMA EndKeeps ==
    ASSUME LogIInv, Exit \/ Die
    PROVE  LogIInv'
<1>1. LogTypes /\ CutOff /\ usage' = usage BY DEF LogIInv, Exit, Die
<1>2. CASE Exit
  <2>1. UNCHANGED <<logQueue, batch, logTopic, dropped>> BY <1>2 DEF Exit
  <2>2. Held' = Held BY <2>1 DEF Held, Underway
  <2>3. logQueue' \in Seq(AllEntries) /\ batch' \in [LogWorkers -> Seq(AllEntries)]
    BY <1>1, <2>1 DEF LogTypes
  <2>4. QED BY <1>1, <2>2, <2>3, CutOffKeeps
<1>3. CASE Die
  <2>1. /\ dropped' = dropped \cup Underway /\ logTopic' = logTopic
        /\ logQueue' = <<>> /\ batch' = [w \in LogWorkers |-> <<>>]
    BY <1>3 DEF Die, Underway
  <2>2. Held \subseteq Held' BY <2>1 DEF Held
  <2>3. logQueue' \in Seq(AllEntries) /\ batch' \in [LogWorkers -> Seq(AllEntries)] BY <2>1
  <2>4. QED BY <1>1, <2>2, <2>3, CutOffKeeps
<1>4. QED BY <1>2, <1>3

\* The count of faults is a number, which tells a failed publish from one that was not.
LEMMA FaultsCounted ==
    ASSUME logFaults \in Nat, [LogNext]_logVars
    PROVE  logFaults' \in Nat
<1>1. LogFault \/ logFaults' = logFaults => logFaults' \in Nat BY DEF LogFault
<1>2. ASSUME NEW b \in Batches, Counted(b) PROVE logFaults' \in Nat BY <1>1, <1>2 DEF Counted
<1>3. ASSUME NEW entries, PublishBatch(entries) PROVE logFaults' \in Nat BY <1>1, <1>3 DEF PublishBatch
<1>4. ASSUME NEW b \in Batches,
             \/ Receive(b) \/ Enqueue(b) \/ MeterBatch(b) \/ Accept(b) \/ Retry(b)
             \/ DatadogLogs(b) \/ SplunkHEC(b) \/ CountDirect(b) \/ emitLogs(b) \/ BridgePublish(b)
      PROVE  logFaults' \in Nat
  BY <1>1, <1>2, <1>3, <1>4
  DEF Receive, Enqueue, MeterBatch, Accept, Retry, DatadogLogs, SplunkHEC, CountDirect, emitLogs,
      BridgePublish, publishLogs
<1>5. ASSUME NEW w \in LogWorkers, Take(w) \/ flushBatch(w) PROVE logFaults' \in Nat
  BY <1>1, <1>3, <1>5 DEF Take, flushBatch
<1>6. CASE BeginShutdown \/ CloseQueue \/ Exit \/ Die \/ StartServer \/ UNCHANGED logVars
  BY <1>1, <1>6 DEF BeginShutdown, CloseQueue, Exit, Die, StartServer, logVars
<1>7. QED BY <1>4, <1>5, <1>6 DEF LogNext

\* Every step keeps the invariant.
LEMMA LogStepKeeps ==
    ASSUME LogIInv, logFaults \in Nat, [LogNext]_logVars
    PROVE  LogIInv'
<1>1. ASSUME NEW b \in Batches,
             \/ Receive(b) \/ Enqueue(b) \/ MeterBatch(b) \/ Accept(b) \/ Retry(b)
             \/ DatadogLogs(b) \/ SplunkHEC(b) \/ CountDirect(b) \/ emitLogs(b) \/ BridgePublish(b)
      PROVE  LogIInv'
  BY <1>1, ReceiveKeeps, EnqueueKeeps, CountsKeep, AcceptKeeps, RetryKeeps, GatewayPublishKeeps,
     BridgePublishKeeps
<1>2. ASSUME NEW w \in LogWorkers, Take(w) \/ flushBatch(w) PROVE LogIInv'
  BY <1>2, TakeKeeps, FlushKeeps
<1>3. CASE BeginShutdown \/ CloseQueue \/ StartServer \/ UNCHANGED logVars
  <2>1. UNCHANGED <<client, logQueue, batch, logTopic, dropped, usage, miscount>>
    BY <1>3 DEF BeginShutdown, CloseQueue, StartServer, logVars
  <2>2. Held' = Held BY <2>1 DEF Held, Underway
  <2>3. logQueue' \in Seq(AllEntries) /\ batch' \in [LogWorkers -> Seq(AllEntries)]
    BY <2>1 DEF LogIInv, LogTypes
  <2>4. QED BY <2>1, <2>2, <2>3, NoRequestMoves
<1>4. CASE Exit \/ Die BY <1>4, EndKeeps
<1>5. QED BY <1>1, <1>2, <1>3, <1>4 DEF LogNext

\* Whatever fails, retries or stops, for any number of clients, workers and faults: an
\* entry the client was told is accepted is in the queue, in a batch, in the topic or
\* among those a failed publish or a dying process lost, and the usage counter is what
\* was accepted but for what is known to be missed or refused (IngestLog, flushBatch,
\* DatadogLogs, SplunkHEC, emitLogs, main's shutdown).
THEOREM EntriesAreAccountedFor == LogSpec => []EntriesAccountedFor
<1> DEFINE Numbered == logFaults \in Nat
<1>1. LogInit => Numbered BY DEF LogInit
<1>2. Numbered /\ [LogNext]_logVars => Numbered' BY FaultsCounted
<1>3. LogIInv /\ Numbered /\ [LogNext]_logVars => LogIInv' BY LogStepKeeps
<1> HIDE DEF Numbered
<1>4. LogSpec => []LogIInv
  BY <1>1, <1>2, <1>3, LogStarts, PTL DEF LogSpec
<1>5. LogIInv => EntriesAccountedFor
  <2> SUFFICES ASSUME LogIInv PROVE AckedAccountedFor
    BY DEF LogIInv, EntriesAccountedFor
  <2>1. ASSUME NEW b \in Batches, client[b].pc = "acked" PROVE Entries(b) \subseteq Held
    BY <2>1, EntriesAre DEF LogIInv, AllTakenIn, TakenIn
  <2>2. QED BY <2>1 DEF AckedAccountedFor, Held
<1>6. QED BY <1>4, <1>5, PTL

-----------------------------------------------------------------------------
(* The intake of alerts *)

Reads == [edges : BOOLEAN, oldest : Nat, newest : Nat]

AlertTypes ==
    /\ records \in Seq({"alert", "quiet"})
    /\ oldest \in 0..Newest /\ committed \in -1..Newest /\ position \in -1..Newest
    /\ rows \in Seq(Nat) /\ \A i \in DOMAIN rows : rows[i] \in Alerting
    /\ pending \subseteq DOMAIN rows /\ forwarded \subseteq DOMAIN rows
    /\ gone \in [unread : SUBSET Nat, unsent : SUBSET DOMAIN rows]
    /\ crashes \in Nat

\* The rows made from a record, and whether the group is done with it.
RowsOf(o) == {i \in DOMAIN rows : rows[i] = o}
Settled(o) == o \in gone.unread \/ RowsOf(o) # {}

\* In a session the position is not behind what is committed, and everything before it
\* is settled.
PositionOK ==
    /\ position # -1 => committed <= position
    /\ \A o \in Alerting : o < committed \/ o < position => Settled(o)

\* The first record the group will be handed again, or for the first time.
Ahead == IF position = -1 THEN committed ELSE position

\* Each record has a row more than there were crashes at most, and one that is to be
\* handed over still has none too many.
RowsCounted ==
    \A o \in Alerting : /\ Cardinality(RowsOf(o)) <= 1 + crashes
                        /\ o >= Ahead => Cardinality(RowsOf(o)) <= crashes

\* The watcher's edges are of now or of before.
EdgesRead ==
    /\ watch.read \in Reads
    /\ watch.read.edges = TRUE => watch.read.oldest <= oldest

AlertIInv == AlertTypes /\ PositionOK /\ RowsCounted /\ EdgesRead

LEMMA AlertingIs ==
    ASSUME records \in Seq({"alert", "quiet"})
    PROVE  /\ Newest \in Nat /\ Alerting \subseteq Nat
           /\ \A o \in Alerting : o < Newest
  BY DEF Newest, Alerting

\* A row is one of finitely many.
LEMMA RowsAreFinite ==
    ASSUME rows \in Seq(Nat), NEW o
    PROVE  IsFiniteSet(RowsOf(o)) /\ Cardinality(RowsOf(o)) \in Nat
<1>1. DOMAIN rows = 1..Len(rows) /\ Len(rows) \in Nat OBVIOUS
<1>2. IsFiniteSet(1..Len(rows)) BY <1>1, FS_Interval
<1>3. RowsOf(o) \subseteq 1..Len(rows) BY <1>1 DEF RowsOf
<1>4. QED BY <1>2, <1>3, FS_Subset, FS_CardinalityType

LEMMA AlertStarts == ASSUME AlertInit PROVE AlertIInv
<1>1. /\ records = <<>> /\ oldest = 0 /\ committed = -1 /\ position = -1
      /\ rows = <<>> /\ pending = {} /\ forwarded = {} /\ crashes = 0
      /\ gone = [unread |-> {}, unsent |-> {}] /\ watch = [read |-> NoRead, report |-> NoReport]
  BY DEF AlertInit
<1>2. Newest = 0 /\ Alerting = {} BY <1>1 DEF Newest, Alerting
<1>3. AlertTypes BY <1>1, <1>2 DEF AlertTypes
<1>4. PositionOK /\ RowsCounted BY <1>1, <1>2 DEF PositionOK, RowsCounted
<1>5. watch.read = NoRead BY <1>1
<1>6. NoRead \in Reads /\ NoRead.edges = FALSE
  <2>1. FALSE \in BOOLEAN /\ 0 \in Nat OBVIOUS
  <2>2. QED BY <2>1 DEF NoRead, Reads
<1>7. EdgesRead BY <1>5, <1>6 DEF EdgesRead
<1>8. QED BY <1>3, <1>4, <1>7 DEF AlertIInv

\* A new record is quiet or has no row yet.
LEMMA ProduceKeeps == ASSUME AlertIInv, Produce PROVE AlertIInv'
<1>1. PICK kind \in {"alert", "quiet"} : records' = Append(records, kind) BY DEF Produce
<1>2. UNCHANGED <<oldest, committed, position, rows, pending, forwarded, watch, gone, crashes>> BY DEF Produce
<1>3. records \in Seq({"alert", "quiet"}) /\ records' \in Seq({"alert", "quiet"}) BY <1>1 DEF AlertIInv, AlertTypes
<1>4. Newest' = Newest + 1 /\ Newest \in Nat BY <1>1, <1>3 DEF Newest
<1>5. Alerting \subseteq Alerting' /\ Alerting' \subseteq Alerting \cup {Newest} BY <1>1, <1>3, <1>4 DEF Alerting, Newest
<1>6. RowsOf(Newest) = {}
  BY <1>3, AlertingIs DEF RowsOf, AlertIInv, AlertTypes
<1>7. \A o : RowsOf(o)' = RowsOf(o) BY <1>2 DEF RowsOf
<1>8. AlertTypes' BY <1>2, <1>3, <1>4, <1>5 DEF AlertIInv, AlertTypes
<1>9. PositionOK'
  <2>1. \A o : Settled(o)' <=> Settled(o) BY <1>2 DEF Settled, RowsOf
  <2>2. position <= Newest /\ committed <= Newest /\ position \in Int /\ committed \in Int BY <1>4 DEF AlertIInv, AlertTypes
  <2>3. QED BY <1>2, <1>4, <1>5, <2>1, <2>2 DEF AlertIInv, PositionOK
<1>10. RowsCounted'
  <2>1. Cardinality(RowsOf(Newest)) = 0 BY <1>6, FS_EmptySet
  <2>2. Ahead' = Ahead /\ crashes' = crashes /\ crashes \in Nat BY <1>2 DEF Ahead, AlertIInv, AlertTypes
  <2>3. SUFFICES ASSUME NEW o \in Alerting'
                 PROVE  Cardinality(RowsOf(o)) <= 1 + crashes /\ (o >= Ahead => Cardinality(RowsOf(o)) <= crashes)
    BY <1>7, <2>2 DEF RowsCounted
  <2>4. CASE o = Newest BY <2>1, <2>2, <2>4
  <2>5. CASE o \in Alerting BY <2>5 DEF AlertIInv, RowsCounted
  <2>6. QED BY <1>5, <2>4, <2>5
<1>11. EdgesRead' BY <1>2 DEF AlertIInv, EdgesRead
<1>12. QED BY <1>8, <1>9, <1>10, <1>11 DEF AlertIInv

LEMMA ExpireKeeps == ASSUME AlertIInv, Expire PROVE AlertIInv'
<1>1. UNCHANGED <<records, committed, position, rows, pending, forwarded, watch, gone, crashes>> /\ oldest' = oldest + 1 /\ oldest < Newest
  BY DEF Expire
<1>2. Newest \in Nat BY AlertingIs DEF AlertIInv, AlertTypes
<1>3. Newest' = Newest /\ Alerting' = Alerting BY <1>1 DEF Newest, Alerting
<1>4. AlertTypes' BY <1>1, <1>2, <1>3 DEF AlertIInv, AlertTypes
<1>5. PositionOK' /\ RowsCounted' BY <1>1, <1>3 DEF AlertIInv, PositionOK, RowsCounted, Settled, RowsOf, Ahead
<1>6. oldest \in Nat /\ (watch.read.edges = TRUE => watch.read.oldest <= oldest) /\ watch.read \in Reads
  BY <1>2 DEF AlertIInv, AlertTypes, EdgesRead
<1>7. watch.read.oldest \in Nat BY <1>6 DEF Reads
<1>8. EdgesRead' BY <1>1, <1>6, <1>7 DEF EdgesRead
<1>9. QED BY <1>4, <1>5, <1>8 DEF AlertIInv

\* The session begins where the group left off, or past what the broker no longer holds.
LEMMA JoinKeeps == ASSUME AlertIInv, Join PROVE AlertIInv'
<1>1. /\ UNCHANGED <<records, oldest, committed, rows, pending, forwarded, watch, crashes>>
      /\ position = -1 /\ position' = ResumeAt
      /\ gone' = [gone EXCEPT !.unread = @ \cup {o \in Alerting : committed <= o /\ o < ResumeAt}]
  BY DEF Join
<1>2. Newest \in Nat /\ Newest' = Newest /\ Alerting' = Alerting /\ Alerting \subseteq Nat
  BY <1>1, AlertingIs DEF AlertIInv, AlertTypes, Newest, Alerting
<1>3. committed \in -1..Newest /\ oldest \in 0..Newest BY DEF AlertIInv, AlertTypes
<1>4. ResumeAt \in 0..Newest /\ committed <= ResumeAt BY <1>2, <1>3 DEF ResumeAt
<1>5. /\ gone'.unread = gone.unread \cup {o \in Alerting : committed <= o /\ o < ResumeAt}
      /\ gone' \in [unread : SUBSET Nat, unsent : SUBSET DOMAIN rows]
  <2>1. gone \in [unread : SUBSET Nat, unsent : SUBSET DOMAIN rows] BY DEF AlertIInv, AlertTypes
  <2>2. QED BY <1>1, <1>2, <2>1
<1>6. AlertTypes' BY <1>1, <1>2, <1>4, <1>5 DEF AlertIInv, AlertTypes
<1>7. PositionOK'
  <2>1. \A o \in Alerting : o < ResumeAt => Settled(o)'
    <3>1. SUFFICES ASSUME NEW o \in Alerting, o < ResumeAt PROVE Settled(o)' OBVIOUS
    <3>2. CASE o < committed BY <1>1, <1>5, <3>2 DEF AlertIInv, PositionOK, Settled, RowsOf
    <3>3. CASE ~(o < committed) BY <1>2, <1>3, <1>5, <3>1, <3>3 DEF Settled
    <3>4. QED BY <3>2, <3>3
  <2>2. \A o \in Alerting : o < committed => o < ResumeAt BY <1>2, <1>3, <1>4
  <2>3. QED BY <1>1, <1>2, <1>4, <2>1, <2>2 DEF PositionOK
<1>8. RowsCounted'
  <2>1. Ahead = committed /\ Ahead' = ResumeAt BY <1>1, <1>4 DEF Ahead
  <2>2. \A o \in Alerting : o >= ResumeAt => o >= committed BY <1>2, <1>3, <1>4
  <2>3. \A o : RowsOf(o)' = RowsOf(o) BY <1>1 DEF RowsOf
  <2>4. QED BY <1>1, <1>2, <2>1, <2>2, <2>3 DEF AlertIInv, RowsCounted
<1>9. QED BY <1>1, <1>6, <1>7, <1>8 DEF AlertIInv, EdgesRead

\* A record handled without a row: it is quiet, or its insert failed.
LEMMA PassKeeps ==
    ASSUME AlertIInv, position' = position + 1, position \in oldest..(Newest - 1),
           UNCHANGED <<records, oldest, committed, rows, pending, forwarded, watch, crashes>>,
           gone' \in [unread : SUBSET Nat, unsent : SUBSET DOMAIN rows],
           gone.unread \subseteq gone'.unread,
           position \in Alerting => position \in gone'.unread
    PROVE  AlertIInv'
<1>1. Newest \in Nat /\ Newest' = Newest /\ Alerting' = Alerting /\ Alerting \subseteq Nat
  BY AlertingIs DEF AlertIInv, AlertTypes, Newest, Alerting
<1>2. oldest \in Nat /\ position \in 0..(Newest - 1) /\ committed \in -1..Newest BY <1>1 DEF AlertIInv, AlertTypes
<1>3. AlertTypes' BY <1>1, <1>2 DEF AlertIInv, AlertTypes
<1>4. committed <= position BY <1>2 DEF AlertIInv, PositionOK
<1>5. PositionOK'
  <2>0. committed' <= position' BY <1>2, <1>4
  <2>1. SUFFICES ASSUME NEW o \in Alerting, o < committed \/ o < position + 1 PROVE Settled(o)'
    BY <1>1, <2>0 DEF PositionOK
  <2>2. CASE o = position BY <2>2 DEF Settled
  <2>3. CASE o # position
    <3>1. o < committed \/ o < position BY <1>1, <1>2, <2>1, <2>3
    <3>2. Settled(o) BY <3>1 DEF AlertIInv, PositionOK
    <3>3. QED BY <3>2 DEF Settled, RowsOf
  <2>4. QED BY <2>2, <2>3
<1>6. RowsCounted'
  <2>1. Ahead = position /\ Ahead' = position + 1 BY <1>2 DEF Ahead
  <2>2. \A o \in Alerting : o >= position + 1 => o >= position BY <1>1, <1>2
  <2>3. \A o : RowsOf(o)' = RowsOf(o) BY DEF RowsOf
  <2>4. QED BY <1>1, <2>1, <2>2, <2>3 DEF AlertIInv, RowsCounted
<1>7. QED BY <1>3, <1>5, <1>6 DEF AlertIInv, EdgesRead

\* A record handled with a row.
LEMMA InsertKeeps ==
    ASSUME AlertIInv, position' = position + 1, position \in oldest..(Newest - 1), position \in Alerting,
           UNCHANGED <<records, oldest, committed, forwarded, watch, crashes>>,
           rows' = Append(rows, position),
           pending' \subseteq pending \cup {Len(rows) + 1},
           gone'.unread = gone.unread, gone'.unsent \subseteq gone.unsent \cup {Len(rows) + 1},
           gone' \in [unread : SUBSET Nat, unsent : SUBSET Nat]
    PROVE  AlertIInv'
<1>1. Newest \in Nat /\ Newest' = Newest /\ Alerting' = Alerting /\ Alerting \subseteq Nat
  BY AlertingIs DEF AlertIInv, AlertTypes, Newest, Alerting
<1>2. oldest \in Nat /\ position \in 0..(Newest - 1) /\ committed \in -1..Newest /\ crashes \in Nat
  BY <1>1 DEF AlertIInv, AlertTypes
<1>3. /\ rows \in Seq(Nat) /\ rows' \in Seq(Nat) /\ Len(rows) + 1 \in DOMAIN rows'
      /\ DOMAIN rows' = DOMAIN rows \cup {Len(rows) + 1} /\ Len(rows) + 1 \notin DOMAIN rows
      /\ rows'[Len(rows) + 1] = position /\ \A i \in DOMAIN rows : rows'[i] = rows[i]
  BY <1>2 DEF AlertIInv, AlertTypes
<1>4. AlertTypes'
  <2>1. gone.unsent \subseteq DOMAIN rows BY DEF AlertIInv, AlertTypes
  <2>2. gone' \in [unread : SUBSET Nat, unsent : SUBSET DOMAIN rows'] BY <1>3, <2>1
  <2>3. \A i \in DOMAIN rows' : rows'[i] \in Alerting BY <1>3 DEF AlertIInv, AlertTypes
  <2>4. pending' \subseteq DOMAIN rows' /\ forwarded' \subseteq DOMAIN rows' BY <1>3 DEF AlertIInv, AlertTypes
  <2>5. position' \in -1..Newest' BY <1>1, <1>2
  <2>6. QED BY <1>1, <1>3, <2>2, <2>3, <2>4, <2>5 DEF AlertIInv, AlertTypes
<1>5. \A o : o # position => RowsOf(o)' = RowsOf(o) BY <1>3 DEF RowsOf
<1>6. \A o : o = position => RowsOf(o)' = RowsOf(o) \cup {Len(rows) + 1} /\ Len(rows) + 1 \notin RowsOf(o)
  BY <1>3 DEF RowsOf
<1>7. committed <= position BY <1>2 DEF AlertIInv, PositionOK
<1>8. PositionOK'
  <2>1. SUFFICES ASSUME NEW o \in Alerting, o < committed \/ o < position + 1 PROVE Settled(o)'
    BY <1>1, <1>2, <1>7 DEF PositionOK
  <2>2. CASE o = position BY <1>6, <2>2 DEF Settled
  <2>3. CASE o # position
    <3>1. o < committed \/ o < position BY <1>1, <1>2, <2>1, <2>3
    <3>2. Settled(o) BY <3>1 DEF AlertIInv, PositionOK
    <3>3. QED BY <1>5, <2>3, <3>2 DEF Settled
  <2>4. QED BY <2>2, <2>3
<1>9. RowsCounted'
  <2>1. Ahead = position /\ Ahead' = position + 1 BY <1>2 DEF Ahead
  <2>2. ASSUME NEW o \in Alerting, o = position PROVE Cardinality(RowsOf(o)') <= 1 + crashes
    <3>1. IsFiniteSet(RowsOf(o)) /\ Cardinality(RowsOf(o)) \in Nat BY <1>3, RowsAreFinite
    <3>2. Cardinality(RowsOf(o)') = Cardinality(RowsOf(o)) + 1
      BY <1>6, <2>2, <3>1, FS_AddElement
    <3>3. Cardinality(RowsOf(o)) <= crashes BY <1>2, <2>1, <2>2 DEF AlertIInv, RowsCounted
    <3>4. QED BY <1>2, <3>1, <3>2, <3>3
  <2>3. SUFFICES ASSUME NEW o \in Alerting
                 PROVE  /\ Cardinality(RowsOf(o)') <= 1 + crashes
                        /\ o >= position + 1 => Cardinality(RowsOf(o)') <= crashes
    BY <1>1, <2>1 DEF RowsCounted
  <2>4. CASE o = position BY <1>2, <2>2, <2>4
  <2>5. CASE o # position
    <3>1. RowsOf(o)' = RowsOf(o) BY <1>5, <2>5
    <3>2. o >= position + 1 => o >= position BY <1>1, <1>2
    <3>3. QED BY <2>1, <3>1, <3>2 DEF AlertIInv, RowsCounted
  <2>6. QED BY <2>4, <2>5
<1>10. QED BY <1>4, <1>8, <1>9 DEF AlertIInv, EdgesRead

LEMMA HandleKeeps == ASSUME AlertIInv, Handle PROVE AlertIInv'
<1>1. /\ position \in oldest..(Newest - 1) /\ position' = position + 1
      /\ UNCHANGED <<records, oldest, committed, forwarded, watch, crashes>>
  BY DEF Handle
<1>2. gone \in [unread : SUBSET Nat, unsent : SUBSET DOMAIN rows] /\ DOMAIN rows \subseteq Nat /\ Alerting \subseteq Nat
      /\ Len(rows) \in Nat
  BY AlertingIs DEF AlertIInv, AlertTypes
<1>3. CASE position \notin Alerting /\ UNCHANGED <<rows, pending, gone>>
  BY <1>1, <1>2, <1>3, PassKeeps
<1>4. CASE position \in Alerting /\ rows' = Append(rows, position) /\ pending' = pending \cup {Len(rows) + 1} /\ UNCHANGED gone
  <2>1. gone' \in [unread : SUBSET Nat, unsent : SUBSET Nat] BY <1>2, <1>4
  <2>2. QED BY <1>1, <1>4, <2>1, InsertKeeps
<1>5. CASE /\ position \in Alerting /\ rows' = Append(rows, position) /\ UNCHANGED pending
           /\ gone' = [gone EXCEPT !.unsent = @ \cup {Len(rows) + 1}]
  <2>1. /\ gone' \in [unread : SUBSET Nat, unsent : SUBSET Nat]
        /\ gone'.unread = gone.unread /\ gone'.unsent = gone.unsent \cup {Len(rows) + 1}
    BY <1>2, <1>5
  <2>2. QED BY <1>1, <1>5, <2>1, InsertKeeps
<1>6. CASE position \in Alerting /\ UNCHANGED <<rows, pending>> /\ gone' = [gone EXCEPT !.unread = @ \cup {position}]
  <2>1. /\ gone' \in [unread : SUBSET Nat, unsent : SUBSET DOMAIN rows]
        /\ gone'.unread = gone.unread \cup {position}
    BY <1>2, <1>6
  <2>2. QED BY <1>1, <1>6, <2>1, PassKeeps
<1>7. QED BY <1>3, <1>4, <1>5, <1>6 DEF Handle

\* The group's offset moves up to its position, and the session goes on or ends; or it
\* ends by a crash, which is counted.
LEMMA LeaveKeeps ==
    ASSUME AlertIInv, position # -1, UNCHANGED <<records, oldest, rows, forwarded, watch>>,
           pending' \subseteq pending, gone' \in [unread : SUBSET Nat, unsent : SUBSET DOMAIN rows], gone'.unread = gone.unread,
           committed' \in {committed, position}, position' \in {-1, position}, crashes' \in {crashes, crashes + 1},
           position' = -1 /\ crashes' = crashes => committed' = position
    PROVE  AlertIInv'
<1>1. Newest \in Nat /\ Newest' = Newest /\ Alerting' = Alerting /\ Alerting \subseteq Nat
  BY AlertingIs DEF AlertIInv, AlertTypes, Newest, Alerting
<1>2. position \in 0..Newest /\ committed \in -1..Newest /\ crashes \in Nat /\ committed <= position
  BY <1>1 DEF AlertIInv, AlertTypes, PositionOK
<1>3. AlertTypes' BY <1>1, <1>2 DEF AlertIInv, AlertTypes
<1>4. \A o : RowsOf(o)' = RowsOf(o) /\ (Settled(o)' <=> Settled(o)) BY DEF RowsOf, Settled
<1>5. PositionOK'
  <2>1. \A o \in Alerting : o < committed' \/ o < position' => o < committed \/ o < position BY <1>1, <1>2
  <2>2. position' # -1 => committed' <= position' BY <1>2
  <2>3. QED BY <1>1, <1>4, <2>1, <2>2 DEF AlertIInv, PositionOK
<1>6. RowsCounted'
  <2>1. SUFFICES ASSUME NEW o \in Alerting
                 PROVE  Cardinality(RowsOf(o)) <= 1 + crashes' /\ (o >= Ahead' => Cardinality(RowsOf(o)) <= crashes')
    BY <1>1, <1>4 DEF RowsCounted
  <2>2. /\ Cardinality(RowsOf(o)) <= 1 + crashes /\ (o >= position => Cardinality(RowsOf(o)) <= crashes)
        /\ Cardinality(RowsOf(o)) \in Nat
    BY <1>2, RowsAreFinite DEF AlertIInv, AlertTypes, RowsCounted, Ahead
  <2>3. CASE crashes' = crashes + 1 BY <1>2, <2>2, <2>3
  <2>4. CASE crashes' = crashes
    <3>1. Ahead' = position BY <1>2, <2>4 DEF Ahead
    <3>2. QED BY <2>2, <2>4, <3>1
  <2>5. QED BY <2>3, <2>4
<1>7. QED BY <1>3, <1>5, <1>6 DEF AlertIInv, EdgesRead

LEMMA SessionKeeps == ASSUME AlertIInv, AutoCommit \/ EndSession \/ OutOfRange \/ Crash PROVE AlertIInv'
<1>1. gone \in [unread : SUBSET Nat, unsent : SUBSET DOMAIN rows] /\ pending \subseteq DOMAIN rows /\ crashes \in Nat
  BY DEF AlertIInv, AlertTypes
<1>2. position # -1 => committed <= position /\ position \in Int /\ committed \in Int
  BY AlertingIs DEF AlertIInv, AlertTypes, PositionOK
<1>3. /\ [gone EXCEPT !.unsent = @ \cup pending] \in [unread : SUBSET Nat, unsent : SUBSET DOMAIN rows]
      /\ [gone EXCEPT !.unsent = @ \cup pending].unread = gone.unread
  BY <1>1
<1>4. CASE AutoCommit BY <1>1, <1>4, LeaveKeeps DEF AutoCommit, CommitMarked
<1>5. CASE EndSession
  <2>1. /\ position # -1 /\ position' = -1 /\ UNCHANGED <<records, oldest, rows, forwarded, watch, crashes>>
        /\ IF position > committed THEN committed' = position ELSE UNCHANGED committed
    BY <1>5 DEF EndSession, CommitMarked
  <2>2. committed' = position BY <1>2, <2>1
  <2>3. pending' \subseteq pending /\ gone' \in [unread : SUBSET Nat, unsent : SUBSET DOMAIN rows] /\ gone'.unread = gone.unread
    BY <1>1, <1>3, <1>5 DEF EndSession
  <2>4. QED BY <2>1, <2>2, <2>3, LeaveKeeps
<1>6. CASE OutOfRange
  <2>1. /\ position # -1 /\ position' = -1 /\ UNCHANGED <<records, oldest, rows, forwarded, watch, crashes, pending, gone>>
        /\ IF position > committed THEN committed' = position ELSE UNCHANGED committed
    BY <1>6 DEF OutOfRange, CommitMarked
  <2>2. committed' = position BY <1>2, <2>1
  <2>3. QED BY <1>1, <2>1, <2>2, LeaveKeeps
<1>7. CASE Crash
  <2>1. /\ position # -1 /\ position' = -1 /\ UNCHANGED <<records, oldest, rows, forwarded, watch, committed>>
        /\ crashes' = crashes + 1 /\ pending' = {} /\ gone' = [gone EXCEPT !.unsent = @ \cup pending]
    BY <1>7 DEF Crash
  <2>2. crashes' # crashes BY <1>1, <2>1
  <2>3. QED BY <1>3, <2>1, <2>2, LeaveKeeps
<1>8. QED BY <1>4, <1>5, <1>6, <1>7

LEMMA PublishKeeps == ASSUME AlertIInv, NEW r \in pending, PublishAlert(r) PROVE AlertIInv'
<1>1. UNCHANGED <<records, oldest, committed, position, rows, watch, crashes>> /\ pending' = pending \ {r} BY DEF PublishAlert
<1>2. Newest' = Newest /\ Alerting' = Alerting BY <1>1 DEF Newest, Alerting
<1>3. gone \in [unread : SUBSET Nat, unsent : SUBSET DOMAIN rows] /\ pending \subseteq DOMAIN rows /\ forwarded \subseteq DOMAIN rows
  BY DEF AlertIInv, AlertTypes
<1>4. /\ gone' \in [unread : SUBSET Nat, unsent : SUBSET DOMAIN rows] /\ gone'.unread = gone.unread
      /\ forwarded' \subseteq DOMAIN rows
  <2>1. gone' = gone \/ gone' = [gone EXCEPT !.unsent = @ \cup {r}] BY DEF PublishAlert, PublishFailed
  <2>2. forwarded' = forwarded \/ forwarded' = forwarded \cup {r} BY DEF PublishAlert, PublishFailed
  <2>3. QED BY <1>3, <2>1, <2>2
<1>5. AlertTypes' BY <1>1, <1>2, <1>3, <1>4 DEF AlertIInv, AlertTypes
<1>6. QED BY <1>1, <1>2, <1>4, <1>5 DEF AlertIInv, PositionOK, RowsCounted, EdgesRead, Settled, RowsOf, Ahead

LEMMA WatchKeeps == ASSUME AlertIInv, ReadEdges \/ Report PROVE AlertIInv'
<1>1. UNCHANGED <<records, oldest, committed, position, rows, pending, forwarded, gone, crashes>> BY DEF ReadEdges, Report
<1>2. Newest' = Newest /\ Alerting' = Alerting BY <1>1 DEF Newest, Alerting
<1>3. Newest \in Nat /\ oldest \in Nat BY AlertingIs DEF AlertIInv, AlertTypes
<1>4. EdgesRead'
  <2>1. CASE ReadEdges
    <3> DEFINE seen == [edges |-> TRUE, oldest |-> oldest, newest |-> Newest]
    <3>1. watch'.read = seen BY <2>1 DEF ReadEdges, AlertIInv, EdgesRead
    <3>2. seen \in Reads /\ seen.oldest = oldest BY <1>3 DEF Reads
    <3>3. QED BY <1>1, <1>3, <3>1, <3>2 DEF EdgesRead
  <2>2. CASE Report
    <3>1. watch'.read = NoRead BY <2>2 DEF Report
    <3>2. NoRead \in Reads /\ NoRead.edges = FALSE
      <4>1. FALSE \in BOOLEAN /\ 0 \in Nat OBVIOUS
      <4>2. QED BY <4>1 DEF NoRead, Reads
    <3>3. QED BY <3>1, <3>2 DEF EdgesRead
  <2>3. QED BY <2>1, <2>2
<1>5. QED BY <1>1, <1>2, <1>4 DEF AlertIInv, AlertTypes, PositionOK, RowsCounted, Settled, RowsOf, Ahead

LEMMA AlertStepKeeps == ASSUME AlertIInv, [AlertNext]_alertVars PROVE AlertIInv'
<1>1. CASE UNCHANGED alertVars
  <2>1. Newest' = Newest /\ Alerting' = Alerting BY <1>1 DEF alertVars, Newest, Alerting
  <2>2. QED
    BY <1>1, <2>1 DEF alertVars, AlertIInv, AlertTypes, PositionOK, RowsCounted, EdgesRead, Settled, RowsOf, Ahead
<1>2. QED
  BY <1>1, ProduceKeeps, ExpireKeeps, JoinKeeps, HandleKeeps, SessionKeeps, PublishKeeps, WatchKeeps DEF AlertNext

LEMMA AlertInvariant == AlertSpec => []AlertIInv
  BY AlertStarts, AlertStepKeeps, PTL DEF AlertSpec

\* Wherever crashes, rebalances, automatic commits and retention leave the group: an
\* alerting record below its committed offset has a row, or its insert failed, or the
\* broker no longer held it (Consume, Handle, the marks and the automatic commit).
THEOREM NothingIsSkipped == AlertSpec => []NoAlertSkipped
<1>1. AlertIInv => NoAlertSkipped
  BY DEF AlertIInv, PositionOK, NoAlertSkipped, Settled, RowsOf
<1>2. QED BY <1>1, AlertInvariant, PTL

\* A record is stored a second time only after a crash, for any number of records,
\* stops and crashes.
THEOREM RowsAreCounted == AlertSpec => []RowsPerDelivery
<1>1. AlertIInv => RowsPerDelivery
  BY DEF AlertIInv, RowsCounted, RowsPerDelivery, RowsOf
<1>2. QED BY <1>1, AlertInvariant, PTL

\* The watcher reads the edges of the partition and the group's offset in two calls;
\* whatever moves between them, a loss it reports is a loss.
THEOREM LossIsLoss == AlertSpec => LossReportsAreTrue
<1> DEFINE A == watch'.report # watch.report /\ watch'.report.state = "data_lost"
          => oldest - committed >= watch'.report.lost
<1>1. ASSUME AlertIInv, [AlertNext]_alertVars, watch'.report # watch.report, watch'.report.state = "data_lost"
      PROVE  oldest - committed >= watch'.report.lost
  <2>1. Report
    <3>1. watch' # watch BY <1>1
    <3>2. ReadEdges \/ Report
      BY <1>1, <3>1 DEF AlertNext, alertVars, Produce, Expire, Join, Handle, AutoCommit, EndSession, OutOfRange, Crash, PublishAlert
    <3>3. ReadEdges => watch'.report = watch.report BY <1>1 DEF ReadEdges
    <3>4. QED BY <1>1, <3>2, <3>3
  <2>2. watch.read.edges /\ watch.read \in Reads /\ oldest \in Nat /\ committed \in Int
    BY <1>1, <2>1, AlertingIs DEF Report, AlertIInv, AlertTypes, EdgesRead
  <2>3. watch.read.oldest \in Nat /\ watch.read.newest \in Nat /\ watch.read.oldest <= oldest
    BY <1>1, <2>2 DEF Reads, AlertIInv, EdgesRead
  <2>4. watch'.report = classifyRetention(watch.read.oldest, watch.read.newest, committed)
    BY <1>1, <2>1 DEF Report
  <2>5. ASSUME ~(committed < watch.read.oldest) PROVE FALSE
    BY <1>1, <2>2, <2>3, <2>4, <2>5 DEF classifyRetention
  <2>6. watch'.report.lost = watch.read.oldest - committed
    BY <2>2, <2>3, <2>4, <2>5 DEF classifyRetention
  <2>7. QED BY <2>2, <2>3, <2>6
<1>2. AlertIInv /\ [AlertNext]_alertVars => [A]_alertVars BY <1>1
<1>3. LossReportsAreTrue <=> [][A]_alertVars BY DEF LossReportsAreTrue
<1> HIDE DEF A
<1>4. QED BY <1>2, <1>3, AlertInvariant, PTL DEF AlertSpec

LEMMA AlertTypesHold == AlertIInv => AlertTypeOK
  BY DEF AlertIInv, AlertTypes, AlertTypeOK

-----------------------------------------------------------------------------
(* Error-budget alerts *)

TickPcs == {"idle", "measure", "store", "evaluate", "fire", "publish"}
Ticks == [pc : TickPcs, budget : Budgets \cup {NoSlo}, month : Int, severity : Severities \cup {"none"}]

SloTypes ==
    /\ definition \in Budgets \cup {NoSlo} /\ scene \in Scenes
    /\ worker \in Ticks
    /\ cooling \in [Severities -> 0..AlertCooldown] /\ spacing \in [Severities -> 0..AlertCooldown]
    /\ sloFaults \in Nat

\* A severity is decided from the evaluation on, and not before.
Decided(w) == IF w.pc \in {"fire", "publish"} THEN w.severity \in Severities ELSE w.severity = "none"

\* What is left of a cooldown and what has passed since the alert make a cooldown at
\* least, and while an alert is between its insert and its publish nothing has passed.
CooldownHolds ==
    /\ \A s \in Severities : cooling[s] + spacing[s] >= AlertCooldown
    /\ worker.pc = "publish" => cooling[worker.severity] = AlertCooldown

SloIInv == SloTypes /\ Decided(worker) /\ CooldownHolds

\* The most severe of the thresholds that are breached decides.
LEMMA FirstOfIs ==
    ASSUME NEW thresholds, NEW breached \in SUBSET (1..4)
    PROVE  \/ FirstOf(thresholds, breached) = "none"
           \/ \E i \in breached : FirstOf(thresholds, breached) = thresholds[i].severity
<1>1. CASE breached = {} BY <1>1 DEF FirstOf
<1>2. CASE breached # {}
  <2>1. \E i \in breached : \A j \in breached : i <= j
    <3>1. CASE 1 \in breached BY <3>1
    <3>2. CASE 1 \notin breached /\ 2 \in breached BY <3>2
    <3>3. CASE 1 \notin breached /\ 2 \notin breached /\ 3 \in breached BY <3>3
    <3>4. CASE 1 \notin breached /\ 2 \notin breached /\ 3 \notin breached
      <4>1. \A i \in breached : i = 4 BY <3>4
      <4>2. PICK i \in breached : TRUE BY <1>2
      <4>3. \A j \in breached : i <= j
        <5>1. TAKE j \in breached
        <5>2. i = 4 /\ j = 4 BY <4>1
        <5>3. QED BY <5>2
      <4>4. QED BY <4>3
    <3>5. QED BY <3>1, <3>2, <3>3, <3>4
  <2>2. QED BY <1>2, <2>1 DEF FirstOf
<1>3. QED BY <1>1, <1>2

LEMMA ThresholdsAre ==
    /\ DOMAIN MultiWindow = 1..4 /\ DOMAIN SingleWindow = 1..3
    /\ \A i \in 1..4 : /\ MultiWindow[i].severity \in Severities
                       /\ MultiWindow[i].multiplier \in Nat \ {0}
                       /\ MultiWindow[i].severity # "INFO" => MultiWindow[i].short \in ShortWindows
    /\ \A i \in 1..3 : SingleWindow[i].severity \in Severities
  BY DEF MultiWindow, SingleWindow, Severities, ShortWindows

\* Evaluate decides on a severity or on none.
LEMMA SeverityIs ==
    ASSUME NEW traffic, NEW month, NEW budget, NEW failed
    PROVE  Severity(traffic, month, budget, failed) \in Severities \cup {"none"}
<1>1. \A thresholds : \A breached \in SUBSET (1..4) :
          (\A i \in breached : thresholds[i].severity \in Severities)
              => FirstOf(thresholds, breached) \in Severities \cup {"none"}
  BY FirstOfIs
<1> DEFINE sli == sliByWindow(traffic, failed)
           Multi == {i \in DOMAIN MultiWindow :
                        /\ MultiWindow[i].long \in DOMAIN sli /\ MultiWindow[i].short \in DOMAIN sli
                        /\ Burns(sli[MultiWindow[i].long], budget, MultiWindow[i].multiplier)
                        /\ Burns(sli[MultiWindow[i].short], budget, MultiWindow[i].multiplier)}
           Single == {i \in DOMAIN SingleWindow : Burns(month, budget, SingleWindow[i].multiplier)}
<1>2. evaluateMultiWindow(sli, budget) = FirstOf(MultiWindow, Multi) BY DEF evaluateMultiWindow
<1>3. evaluateSingleWindow(month, budget) = FirstOf(SingleWindow, Single) BY DEF evaluateSingleWindow
<1>4. Multi \in SUBSET (1..4) /\ \A i \in Multi : MultiWindow[i].severity \in Severities BY ThresholdsAre
<1>5. Single \in SUBSET (1..4) /\ \A i \in Single : SingleWindow[i].severity \in Severities BY ThresholdsAre
<1>6. Severity(traffic, month, budget, failed) \in {evaluateMultiWindow(sli, budget), evaluateSingleWindow(month, budget)}
  BY DEF Severity
<1> HIDE DEF sli, Multi, Single
<1>7. QED BY <1>1, <1>2, <1>3, <1>4, <1>5, <1>6

LEMMA IdleTick == Idle \in Ticks /\ Idle.pc = "idle" /\ Idle.severity = "none" /\ Decided(Idle)
<1>1. NoSlo \in Budgets \cup {NoSlo} /\ NoEvents \in Int BY DEF NoEvents
<1>2. QED BY <1>1 DEF Idle, Ticks, TickPcs, Decided

LEMMA SloStarts == ASSUME SloInit PROVE SloIInv
<1>1. /\ definition = NoSlo /\ scene \in Scenes /\ worker = Idle /\ sloFaults = 0
      /\ cooling = [s \in Severities |-> 0] /\ spacing = [s \in Severities |-> AlertCooldown]
  BY DEF SloInit
<1>2. SloTypes BY <1>1, IdleTick, SloConstants DEF SloTypes
<1>3. CooldownHolds BY <1>1, IdleTick, SloConstants DEF CooldownHolds
<1>4. QED BY <1>1, <1>2, <1>3, IdleTick DEF SloIInv

\* A step that leaves the cooldowns alone and does not bring the worker to its publish.
LEMMA WorkerMoves ==
    ASSUME SloIInv, UNCHANGED <<cooling, spacing>>, definition' \in Budgets \cup {NoSlo}, scene' \in Scenes,
           worker' \in Ticks, Decided(worker'), worker'.pc = "publish" => worker' = worker, sloFaults' \in Nat
    PROVE  SloIInv'
<1>1. SloTypes' BY DEF SloIInv, SloTypes
<1>2. CooldownHolds' BY DEF SloIInv, CooldownHolds
<1>3. QED BY <1>1, <1>2 DEF SloIInv

\* Users, traffic and the tick up to its decision.
LEMMA TickKeeps ==
    ASSUME SloIInv,
           \/ \E budget \in Budgets : CreateDefinition(budget)
           \/ DeleteDefinition \/ SceneChange \/ BeginTick \/ ComputeSLI \/ InsertSnapshot \/ Evaluate
    PROVE  SloIInv'
<1>1. /\ definition \in Budgets \cup {NoSlo} /\ scene \in Scenes /\ worker \in Ticks /\ Decided(worker) /\ sloFaults \in Nat
      /\ scene["month"] \in Int
  BY ScenesAssumption DEF SloIInv, SloTypes
<1>2. CASE (\E budget \in Budgets : CreateDefinition(budget)) \/ DeleteDefinition
  BY <1>1, <1>2, WorkerMoves DEF CreateDefinition, DeleteDefinition, Edited
<1>3. CASE SceneChange BY <1>1, <1>3, WorkerMoves DEF SceneChange
<1>4. CASE BeginTick
  <2>1. worker' = [Idle EXCEPT !.pc = "measure", !.budget = definition] /\ UNCHANGED <<cooling, spacing, definition, scene, sloFaults>>
    BY <1>4 DEF BeginTick
  <2>2. worker' \in Ticks /\ Decided(worker') /\ worker'.pc = "measure"
    <3>1. [Idle EXCEPT !.budget = definition] \in Ticks /\ [Idle EXCEPT !.budget = definition].severity = "none"
      BY <1>1, IdleTick DEF Ticks
    <3> DEFINE tick == [Idle EXCEPT !.budget = definition]
    <3>2. worker' = [tick EXCEPT !.pc = "measure"] BY <2>1 DEF Idle
    <3> HIDE DEF tick
    <3>3. tick \in Ticks /\ tick.severity = "none" BY <3>1 DEF tick
    <3>4. QED BY <3>2, <3>3 DEF Ticks, TickPcs, Decided
  <2>3. QED BY <1>1, <2>1, <2>2, WorkerMoves
<1>5. CASE ComputeSLI
  <2>1. worker.pc = "measure" /\ UNCHANGED <<cooling, spacing, definition, scene>> /\ sloFaults' \in Nat
    BY <1>1, <1>5 DEF ComputeSLI, SloFault
  <2>2. worker' = Idle \/ worker' = [worker EXCEPT !.pc = "store", !.month = scene["month"]] BY <1>5 DEF ComputeSLI
  <2>3. worker' \in Ticks /\ Decided(worker') /\ worker'.pc # "publish"
    <3>1. CASE worker' = Idle BY <3>1, IdleTick
    <3>2. CASE worker' = [worker EXCEPT !.pc = "store", !.month = scene["month"]]
      BY <1>1, <2>1, <3>2 DEF Ticks, TickPcs, Decided
    <3>3. QED BY <2>2, <3>1, <3>2
  <2>4. QED BY <1>1, <2>1, <2>3, WorkerMoves
<1>6. CASE InsertSnapshot
  <2>1. worker.pc = "store" /\ UNCHANGED <<cooling, spacing, definition, scene>> /\ sloFaults' \in Nat
    BY <1>1, <1>6 DEF InsertSnapshot, SloFault
  <2>2. worker' = Idle \/ worker' = [worker EXCEPT !.pc = "evaluate"] BY <1>6 DEF InsertSnapshot
  <2>3. worker' \in Ticks /\ Decided(worker') /\ worker'.pc # "publish"
    <3>1. CASE worker' = Idle BY <3>1, IdleTick
    <3>2. CASE worker' = [worker EXCEPT !.pc = "evaluate"] BY <1>1, <2>1, <3>2 DEF Ticks, TickPcs, Decided
    <3>3. QED BY <2>2, <3>1, <3>2
  <2>4. QED BY <1>1, <2>1, <2>3, WorkerMoves
<1>7. CASE Evaluate
  <2>1. worker.pc = "evaluate" /\ UNCHANGED <<cooling, spacing, definition, scene>> /\ sloFaults' \in Nat
    <3>1. worker.pc = "evaluate" /\ UNCHANGED <<cooling, spacing, definition, scene>> BY <1>7 DEF Evaluate
    <3>2. sloFaults' = sloFaults \/ sloFaults' = sloFaults + 1
      <4>1. \E failed \in SUBSET Windows : IF failed = {} THEN UNCHANGED sloFaults ELSE SloFault BY <1>7 DEF Evaluate
      <4>2. QED BY <4>1 DEF SloFault
    <3>3. QED BY <1>1, <3>1, <3>2
  <2>2. PICK failed \in SUBSET Windows :
            worker' = IF Severity(scene, worker.month, worker.budget, failed) = "none" THEN Idle
                      ELSE [worker EXCEPT !.pc = "fire", !.severity = Severity(scene, worker.month, worker.budget, failed)]
    BY <1>7 DEF Evaluate
  <2> DEFINE severity == Severity(scene, worker.month, worker.budget, failed)
  <2>3. severity \in Severities \cup {"none"} BY SeverityIs
  <2> HIDE DEF severity
  <2>4. worker' \in Ticks /\ Decided(worker') /\ worker'.pc # "publish"
    <3>1. CASE severity = "none" BY <2>2, <3>1, IdleTick DEF severity
    <3>2. CASE severity # "none"
      <4>1. worker' = [worker EXCEPT !.pc = "fire", !.severity = severity] BY <2>2, <3>2 DEF severity
      <4>2. QED BY <1>1, <2>3, <3>2, <4>1 DEF Ticks, TickPcs, Decided
    <3>3. QED BY <3>1, <3>2
  <2>5. QED BY <1>1, <2>1, <2>4, WorkerMoves
<1>8. QED BY <1>2, <1>3, <1>4, <1>5, <1>6, <1>7

LEMMA MinuteKeeps == ASSUME SloIInv, AMinute PROVE SloIInv'
<1>1. /\ worker.pc # "publish" /\ UNCHANGED <<definition, scene, worker, sloFaults>>
      /\ cooling' = [s \in Severities |-> IF cooling[s] > 0 THEN cooling[s] - 1 ELSE 0]
      /\ spacing' = [s \in Severities |-> IF spacing[s] < AlertCooldown THEN spacing[s] + 1 ELSE spacing[s]]
  BY DEF AMinute
<1>2. \A s \in Severities : cooling[s] \in 0..AlertCooldown /\ spacing[s] \in 0..AlertCooldown /\ AlertCooldown \in Nat
  BY SloConstants DEF SloIInv, SloTypes
<1>3. cooling' \in [Severities -> 0..AlertCooldown] /\ spacing' \in [Severities -> 0..AlertCooldown] BY <1>1, <1>2, SloConstants
<1>4. ASSUME NEW s \in Severities PROVE cooling'[s] + spacing'[s] >= AlertCooldown
  <2>1. cooling[s] + spacing[s] >= AlertCooldown BY DEF SloIInv, CooldownHolds
  <2>2. cooling'[s] = IF cooling[s] > 0 THEN cooling[s] - 1 ELSE 0 BY <1>1
  <2>3. spacing'[s] = IF spacing[s] < AlertCooldown THEN spacing[s] + 1 ELSE spacing[s] BY <1>1
  <2>4. QED BY <1>2, <2>1, <2>2, <2>3
<1>5. QED BY <1>1, <1>3, <1>4 DEF SloIInv, SloTypes, CooldownHolds

\* The cooldown starts, then the alert goes out, or does not.
LEMMA FireKeeps == ASSUME SloIInv, Fire \/ PublishBudgetAlert PROVE SloIInv'
<1>1. /\ UNCHANGED <<definition, scene>> /\ worker.pc \in {"fire", "publish"} /\ worker \in Ticks
      /\ worker.severity \in Severities /\ sloFaults' \in Nat
      /\ cooling \in [Severities -> 0..AlertCooldown] /\ spacing \in [Severities -> 0..AlertCooldown]
      /\ AlertCooldown \in Nat /\ 0 \in 0..AlertCooldown /\ AlertCooldown \in 0..AlertCooldown
  BY SloConstants DEF SloIInv, SloTypes, Decided, Fire, PublishBudgetAlert, SloFault
<1>2. /\ worker' = Idle \/ (worker' = [worker EXCEPT !.pc = "publish"] /\ cooling'[worker.severity] = AlertCooldown)
      /\ cooling' = cooling \/ cooling' = [cooling EXCEPT ![worker.severity] = AlertCooldown]
      /\ \/ spacing' = spacing
         \/ spacing' = [spacing EXCEPT ![worker.severity] = 0] /\ cooling'[worker.severity] = AlertCooldown
  BY <1>1 DEF Fire, PublishBudgetAlert, GoesOut, SloIInv, CooldownHolds
<1>3. /\ worker' \in Ticks /\ Decided(worker')
      /\ worker'.pc = "publish" => cooling'[worker'.severity] = AlertCooldown
  <2>1. CASE worker' = Idle BY <2>1, IdleTick
  <2>2. CASE worker' = [worker EXCEPT !.pc = "publish"] /\ cooling'[worker.severity] = AlertCooldown
    BY <1>1, <2>2 DEF Ticks, TickPcs, Decided
  <2>3. QED BY <1>2, <2>1, <2>2
<1>4. cooling' \in [Severities -> 0..AlertCooldown] /\ spacing' \in [Severities -> 0..AlertCooldown] BY <1>1, <1>2
<1>5. ASSUME NEW s \in Severities PROVE cooling'[s] + spacing'[s] >= AlertCooldown
  <2>1. cooling[s] + spacing[s] >= AlertCooldown BY DEF SloIInv, CooldownHolds
  <2>2. cooling'[s] \in 0..AlertCooldown /\ spacing'[s] \in 0..AlertCooldown /\ cooling[s] \in 0..AlertCooldown /\ spacing[s] \in 0..AlertCooldown
    BY <1>1, <1>4
  <2>3. cooling'[s] = cooling[s] \/ cooling'[s] = AlertCooldown BY <1>1, <1>2
  <2>4. spacing'[s] = spacing[s] \/ cooling'[s] = AlertCooldown BY <1>1, <1>2
  <2>5. QED BY <1>1, <2>1, <2>2, <2>3, <2>4
<1>6. SloTypes' BY <1>1, <1>3, <1>4 DEF SloIInv, SloTypes
<1>7. QED BY <1>3, <1>5, <1>6 DEF SloIInv, CooldownHolds

LEMMA SloStepKeeps == ASSUME SloIInv, [SloNext]_sloVars PROVE SloIInv'
<1>1. CASE UNCHANGED sloVars BY <1>1 DEF sloVars, SloIInv, SloTypes, CooldownHolds
<1>2. CASE RestartWorker
  <2>1. /\ worker' = Idle /\ cooling' = [s \in Severities |-> 0] /\ spacing' = [s \in Severities |-> AlertCooldown]
        /\ UNCHANGED <<definition, scene>> /\ sloFaults' \in Nat
    BY <1>2 DEF RestartWorker, SloFault, SloIInv, SloTypes
  <2>2. SloTypes' BY <2>1, IdleTick, SloConstants DEF SloIInv, SloTypes
  <2>3. CooldownHolds' BY <2>1, IdleTick, SloConstants DEF CooldownHolds
  <2>4. QED BY <2>1, <2>2, <2>3, IdleTick DEF SloIInv
<1>3. QED BY <1>1, <1>2, TickKeeps, MinuteKeeps, FireKeeps DEF SloNext

LEMMA SloInvariant == SloSpec => []SloIInv
  BY SloStarts, SloStepKeeps, PTL DEF SloSpec

\* Two alerts of one severity are a cooldown apart whichever of the insert and the
\* publish of the first failed, for any cooldown (fireAlert of burn_rate_alerter.go).
THEOREM AlertsAreSpaced == SloSpec => NoAlertStorm
<1> DEFINE A == \A s \in Severities : spacing'[s] = 0 /\ spacing[s] > 0 /\ worker.pc = "fire"
          => spacing[s] = AlertCooldown
<1>1. ASSUME SloIInv, [SloNext]_sloVars, NEW s \in Severities, spacing'[s] = 0, spacing[s] > 0, worker.pc = "fire"
      PROVE  spacing[s] = AlertCooldown
  <2>1. /\ spacing[s] \in 0..AlertCooldown /\ cooling[s] \in 0..AlertCooldown /\ AlertCooldown \in Nat \ {0}
        /\ cooling[s] + spacing[s] >= AlertCooldown /\ spacing \in [Severities -> 0..AlertCooldown]
    BY <1>1, SloConstants DEF SloIInv, SloTypes, CooldownHolds
  <2>2. spacing' # spacing BY <1>1, <2>1
  <2>3. AMinute \/ Fire \/ RestartWorker
    BY <1>1, <2>2 DEF SloNext, sloVars, CreateDefinition, DeleteDefinition, Edited, SceneChange, BeginTick, ComputeSLI,
       InsertSnapshot, Evaluate, PublishBudgetAlert
  <2>4. CASE AMinute
    <3>1. spacing'[s] = IF spacing[s] < AlertCooldown THEN spacing[s] + 1 ELSE spacing[s] BY <2>4 DEF AMinute
    <3>2. QED BY <1>1, <2>1, <3>1
  <2>5. CASE RestartWorker
    <3>1. spacing'[s] = AlertCooldown BY <2>5 DEF RestartWorker
    <3>2. QED BY <1>1, <2>1, <3>1
  <2>6. CASE Fire
    <3>1. spacing' = [spacing EXCEPT ![worker.severity] = 0] /\ ~ (cooling[worker.severity] > 0)
      BY <2>2, <2>6 DEF Fire, GoesOut
    <3>2. s = worker.severity BY <1>1, <2>1, <3>1
    <3>3. QED BY <2>1, <3>1, <3>2
  <2>7. QED BY <2>3, <2>4, <2>5, <2>6
<1>2. SloIInv /\ [SloNext]_sloVars => [A]_sloVars BY <1>1
<1>3. NoAlertStorm <=> [][A]_sloVars BY DEF NoAlertStorm
<1> HIDE DEF A
<1>4. QED BY <1>2, <1>3, SloInvariant, PTL DEF SloSpec

\* The windows are finitely many.
LEMMA WindowsAreFinite ==
    ASSUME NEW W \in SUBSET Windows
    PROVE  IsFiniteSet(W) /\ Cardinality(W) \in Nat
<1>1. IsFiniteSet(Windows)
  <2>1. \A a, b, c : IsFiniteSet({a, b, c})
    <3>1. TAKE a, b, c
    <3>2. IsFiniteSet({a}) /\ IsFiniteSet({b}) /\ IsFiniteSet({c}) BY FS_Singleton
    <3>3. IsFiniteSet({a} \cup {b}) BY <3>2, FS_Union
    <3>4. IsFiniteSet(({a} \cup {b}) \cup {c}) BY <3>2, <3>3, FS_Union
    <3>5. {a, b, c} = ({a} \cup {b}) \cup {c} OBVIOUS
    <3>6. QED BY <3>4, <3>5
  <2>2. IsFiniteSet({"5m", "30m", "2h"}) /\ IsFiniteSet({"1h", "6h", "24h"}) /\ IsFiniteSet({"72h"})
    BY <2>1, FS_Singleton
  <2>3. IsFiniteSet({"1h", "6h", "24h"} \cup {"72h"}) BY <2>2, FS_Union
  <2>4. IsFiniteSet({"5m", "30m", "2h"} \cup ({"1h", "6h", "24h"} \cup {"72h"})) BY <2>2, <2>3, FS_Union
  <2>5. Windows = {"5m", "30m", "2h"} \cup ({"1h", "6h", "24h"} \cup {"72h"}) BY DEF Windows, ShortWindows
  <2>6. QED BY <2>4, <2>5
<1>2. QED BY <1>1, FS_Subset, FS_CardinalityType

\* Calm short windows let neither CRITICAL nor WARNING out of the multi-window model.
LEMMA CalmIsQuiet ==
    ASSUME NEW traffic \in Scenes, NEW month, NEW budget \in Int,
           Severity(traffic, month, budget, {}) \in {"CRITICAL", "WARNING"}
    PROVE  \/ \E w \in ShortWindows : traffic[w] > 0
           \/ Cardinality({w \in Windows : traffic[w] # NoEvents}) < 2
<1> DEFINE sli == sliByWindow(traffic, {})
           seen == {w \in Windows : traffic[w] # NoEvents}
           Multi == {i \in DOMAIN MultiWindow :
                        /\ MultiWindow[i].long \in DOMAIN sli /\ MultiWindow[i].short \in DOMAIN sli
                        /\ Burns(sli[MultiWindow[i].long], budget, MultiWindow[i].multiplier)
                        /\ Burns(sli[MultiWindow[i].short], budget, MultiWindow[i].multiplier)}
<1>1. DOMAIN sli = seen /\ \A w \in seen : sli[w] = traffic[w] BY DEF sliByWindow
<1>2. Cardinality(seen) \in Nat BY WindowsAreFinite
<1>3. SUFFICES ASSUME Cardinality(seen) >= 2 PROVE \E w \in ShortWindows : traffic[w] > 0 BY <1>2
<1>4. Severity(traffic, month, budget, {}) = evaluateMultiWindow(sli, budget)
  <2>1. Cardinality(DOMAIN sli) >= 2 BY <1>1, <1>3
  <2>2. QED BY <2>1 DEF Severity
<1>5. evaluateMultiWindow(sli, budget) = FirstOf(MultiWindow, Multi) BY DEF evaluateMultiWindow
<1>6. Multi \in SUBSET (1..4) BY ThresholdsAre
<1>7. PICK i \in Multi : FirstOf(MultiWindow, Multi) = MultiWindow[i].severity
  <2>1. FirstOf(MultiWindow, Multi) \in {"CRITICAL", "WARNING"} BY <1>4, <1>5
  <2> HIDE DEF Multi
  <2>2. QED BY <1>6, <2>1, FirstOfIs
<1> DEFINE w == MultiWindow[i].short
<1>8. w \in ShortWindows /\ MultiWindow[i].multiplier \in Nat \ {0}
  <2>1. i \in 1..4 BY <1>6
  <2>2. MultiWindow[i].severity # "INFO" BY <1>4, <1>5, <1>7
  <2>3. QED BY <2>1, <2>2, ThresholdsAre
<1>9. w \in seen /\ Burns(sli[w], budget, MultiWindow[i].multiplier) BY <1>1
<1>10. Burns(traffic[w], budget, MultiWindow[i].multiplier) BY <1>1, <1>9
<1>11. traffic[w] \in Int BY <1>8, ScenesAssumption DEF Windows
<1>12. \A t \in Int, m \in Nat \ {0} : Burns(t, budget, m) => t > 0
  <2>1. \A m \in Nat \ {0} : budget > 0 => m * budget > 0 OBVIOUS
  <2>2. QED BY <2>1 DEF Burns
<1>13. traffic[w] > 0 BY <1>8, <1>10, <1>11, <1>12
<1>14. QED BY <1>8, <1>13

\* A burn that is over wakes nobody: with calm short windows a severity above INFO comes
\* only out of the single-window model (Evaluate, evaluateMultiWindow).
THEOREM RecoveredStaysQuiet == SloSpec => RecoveredIsQuiet
<1> DEFINE A == worker.pc = "evaluate" /\ worker'.severity \in {"CRITICAL", "WARNING"} /\ sloFaults' = sloFaults
          => \/ \E w \in ShortWindows : scene[w] > 0
             \/ Cardinality({w \in Windows : scene[w] # NoEvents}) < 2
<1>1. ASSUME SloIInv, [SloNext]_sloVars, worker.pc = "evaluate", worker'.severity \in {"CRITICAL", "WARNING"},
             sloFaults' = sloFaults
      PROVE  \/ \E w \in ShortWindows : scene[w] > 0
             \/ Cardinality({w \in Windows : scene[w] # NoEvents}) < 2
  <2>1. /\ worker.severity = "none" /\ sloFaults \in Nat /\ scene \in Scenes /\ worker \in Ticks
        /\ worker.budget \in Int
    <3>1. worker.severity = "none" /\ sloFaults \in Nat /\ scene \in Scenes /\ worker \in Ticks
      BY <1>1 DEF SloIInv, Decided, SloTypes
    <3>2. worker.budget \in Budgets \cup {NoSlo} BY <3>1 DEF Ticks
    <3>3. worker.budget \in Int
      <4>1. worker.budget \in 0..99 \/ worker.budget = -1 BY <3>2, SloConstants DEF NoSlo
      <4>2. QED BY <4>1
    <3>4. QED BY <3>1, <3>3
  <2>2. worker' # worker /\ worker' # Idle BY <1>1, <2>1, IdleTick
  <2>3. Evaluate
    BY <1>1, <2>2 DEF SloNext, sloVars, CreateDefinition, DeleteDefinition, Edited, SceneChange, AMinute, BeginTick,
       ComputeSLI, InsertSnapshot, Fire, PublishBudgetAlert, RestartWorker
  <2>4. PICK failed \in SUBSET Windows :
          /\ IF failed = {} THEN UNCHANGED sloFaults ELSE SloFault
          /\ worker' = IF Severity(scene, worker.month, worker.budget, failed) = "none" THEN Idle
                       ELSE [worker EXCEPT !.pc = "fire", !.severity = Severity(scene, worker.month, worker.budget, failed)]
    BY <2>3 DEF Evaluate
  <2>5. failed = {} BY <1>1, <2>1, <2>4 DEF SloFault
  <2> DEFINE severity == Severity(scene, worker.month, worker.budget, {})
  <2>6. worker' = [worker EXCEPT !.pc = "fire", !.severity = severity] BY <2>2, <2>4, <2>5
  <2> HIDE DEF severity
  <2>7. severity \in {"CRITICAL", "WARNING"} BY <1>1, <2>1, <2>6 DEF Ticks
  <2>8. QED BY <2>1, <2>7, CalmIsQuiet DEF severity
<1>2. SloIInv /\ [SloNext]_sloVars => [A]_sloVars BY <1>1
<1>3. RecoveredIsQuiet <=> [][A]_sloVars BY DEF RecoveredIsQuiet
<1> HIDE DEF A
<1>4. QED BY <1>2, <1>3, SloInvariant, PTL DEF SloSpec

LEMMA SloTypesHold == SloIInv => SloTypeOK
  BY DEF SloIInv, SloTypes, SloTypeOK, Decided, Ticks, TickPcs

-----------------------------------------------------------------------------
(* Alert rules *)

RuleIInv == RuleTypeOK /\ wrongly = FALSE

LEMMA RuleStarts == ASSUME RuleInit PROVE RuleIInv
<1>1. 0 \in 0..RuleCooldown BY RuleConstants
<1>2. QED BY <1>1 DEF RuleInit, RuleIInv, RuleTypeOK

LEMMA RuleStepKeeps == ASSUME RuleIInv, [RuleNext]_ruleVars PROVE RuleIInv'
<1>1. /\ ruleCooling \in [RuleTenants -> 0..RuleCooldown] /\ 0 \in 0..RuleCooldown /\ RuleCooldown \in 0..RuleCooldown
      /\ metrics \in [RuleTenants -> {"few", "calm", "hot"}] /\ loaded \in BOOLEAN /\ rule \in {"none", "on", "off"}
      /\ wrongly = FALSE
  BY RuleConstants DEF RuleIInv, RuleTypeOK
<1>2. CASE UNCHANGED ruleVars BY <1>2 DEF ruleVars, RuleIInv, RuleTypeOK
<1>3. CASE CreateAlertRule \/ UpdateAlertRule \/ DeleteAlertRule
  BY <1>1, <1>3 DEF CreateAlertRule, UpdateAlertRule, DeleteAlertRule, Written, RuleIInv, RuleTypeOK
<1>4. CASE refreshRules BY <1>1, <1>4 DEF refreshRules, RuleIInv, RuleTypeOK
<1>5. CASE MinutePasses
  <2>1. ruleCooling' \in [RuleTenants -> 0..RuleCooldown]
    <3>1. \A t \in RuleTenants : ruleCooling[t] \in 0..RuleCooldown /\ RuleCooldown \in Nat BY <1>1, RuleConstants
    <3>2. QED BY <1>5, <3>1 DEF MinutePasses
  <2>2. QED BY <1>1, <1>5, <2>1 DEF MinutePasses, RuleIInv, RuleTypeOK
<1>6. CASE RestartEvaluator
  <2>1. loaded' \in BOOLEAN
    <3>1. (rule = "on") \in BOOLEAN /\ FALSE \in BOOLEAN OBVIOUS
    <3>2. QED BY <1>6, <3>1 DEF RestartEvaluator
  <2>2. ruleCooling' \in [RuleTenants -> 0..RuleCooldown] BY <1>1, <1>6 DEF RestartEvaluator
  <2>3. UNCHANGED <<rule, metrics, wrongly>> BY <1>6 DEF RestartEvaluator
  <2>4. QED BY <1>1, <2>1, <2>2, <2>3 DEF RuleIInv, RuleTypeOK
<1>7. ASSUME NEW t \in RuleTenants, Shift(t) PROVE RuleIInv' BY <1>1, <1>7 DEF Shift, RuleIInv, RuleTypeOK
<1>8. ASSUME NEW t \in RuleTenants, evaluateRule(t) PROVE RuleIInv'
  <2>1. t = Owner /\ UNCHANGED <<rule, loaded, metrics>> /\ ruleCooling' = [ruleCooling EXCEPT ![t] = RuleCooldown]
    BY <1>8 DEF evaluateRule, Applies
  <2>2. wrongly' = FALSE BY <1>1, <1>8, <2>1 DEF evaluateRule, publish
  <2>3. QED BY <1>1, <2>1, <2>2 DEF RuleIInv, RuleTypeOK
<1>9. QED BY <1>2, <1>3, <1>4, <1>5, <1>6, <1>7, <1>8 DEF RuleNext

\* No evaluation of a rule speaks for another tenant's service, with whatever copy of
\* the rules and however many tenants run a service of that name (evaluateOnce).
THEOREM RulesDoStayHome == RuleSpec => []RulesStayHome
<1>1. RuleIInv => RulesStayHome BY DEF RuleIInv, RulesStayHome
<1>2. QED BY <1>1, RuleStarts, RuleStepKeeps, PTL DEF RuleSpec

-----------------------------------------------------------------------------
(* The parts together *)

LEMMA RuleTypesHold == RuleIInv => RuleTypeOK
  BY DEF RuleIInv

\* What the detector measures, and how far its count goes.
Measured ==
    /\ p99 \in Latencies
    /\ baseline \in [ewma : Nat, samples : 0..MinSamples]
    /\ offFor <= ConfigTTL + 1

\* The queue and the batches within their limits, and only entries in the topic.
LogBounds ==
    /\ Len(logQueue) <= QueueCap /\ \A w \in LogWorkers : Len(batch[w]) <= FlushSize
    /\ server \in {"up", "draining", "closed", "down"}
    /\ logTopic \subseteq AllEntries /\ dropped \subseteq AllEntries
    /\ logFaults \in Nat

\* The average of two numbers of milliseconds is one.
LEMMA FoldedIs ==
    ASSUME AnomalyTypes, Measured
    PROVE  Folded \in [ewma : Nat, samples : 0..MinSamples]
<1>1. p99 \in Nat /\ baseline.ewma \in Nat /\ baseline.samples \in 0..MinSamples /\ MinSamples \in Nat
  BY AnomalyConstants DEF Measured
<1>2. \A a, b \in Nat : (a + 4 * b) \div 5 \in Nat OBVIOUS
<1>3. (p99 + 4 * baseline.ewma) \div 5 \in Nat BY <1>1, <1>2
<1>4. (IF baseline.samples < MinSamples THEN baseline.samples + 1 ELSE MinSamples) \in 0..MinSamples BY <1>1
<1>5. QED BY <1>3, <1>4 DEF Folded

LEMMA MeasuredStays == ASSUME AnomalyIInv, Measured, [AnomalyNext]_anomalyVars PROVE Measured'
<1>1. offFor \in Nat /\ ConfigTTL \in Nat /\ MinSamples \in Nat \ {0} /\ Latencies \subseteq Nat
  BY AnomalyConstants DEF AnomalyIInv, AnomalyTypes
<1>2. CASE UNCHANGED anomalyVars BY <1>2 DEF anomalyVars, Measured
<1>3. CASE SetConfig \/ Drift BY <1>1, <1>3 DEF SetConfig, Drift, Measured
<1>4. CASE Seed
  <2>1. [ewma |-> p99, samples |-> 1] \in [ewma : Nat, samples : 0..MinSamples] BY <1>1 DEF Measured
  <2>2. QED BY <1>4, <2>1 DEF Seed, Measured
<1>5. CASE RestartDetector
  <2>1. [ewma |-> 0, samples |-> 0] \in [ewma : Nat, samples : 0..MinSamples] BY <1>1
  <2>2. QED BY <1>5, <2>1 DEF RestartDetector, Measured
<1>6. CASE Poll
  <2>1. p99' = p99 /\ baseline' = Folded BY <1>6 DEF Poll, Fold
  <2>2. baseline' \in [ewma : Nat, samples : 0..MinSamples] BY <2>1, FoldedIs DEF AnomalyIInv
  <2>3. PICK setting \in BOOLEAN : configFor(setting) BY <1>6 DEF Poll
  <2>4. offFor' = 0 \/ offFor' = offFor \/ (offFor <= ConfigTTL /\ offFor' = offFor + 1) BY <2>3 DEF configFor
  <2>5. offFor' <= ConfigTTL + 1 BY <1>1, <2>4 DEF Measured
  <2>6. QED BY <2>1, <2>2, <2>5 DEF Measured
<1>7. QED BY <1>2, <1>3, <1>4, <1>5, <1>6 DEF AnomalyNext

LEMMA LimitsAre == {QueueCap, FlushSize} \subseteq Nat /\ 0 <= QueueCap /\ 0 <= FlushSize
<1>1. QueueCap \in Nat /\ FlushSize \in Nat BY LogConstants
<1>2. QED BY <1>1

\* What is published was in a request or in a batch.
LEMMA PublishedAreEntries ==
    ASSUME LogBounds, NEW entries \in SUBSET AllEntries, PublishBatch(entries)
    PROVE  logTopic' \subseteq AllEntries
  BY DEF PublishBatch, LogBounds

LEMMA LogBoundsStay == ASSUME LogIInv, LogBounds, [LogNext]_logVars PROVE LogBounds'
<1>1. /\ logQueue \in Seq(AllEntries) /\ batch \in [LogWorkers -> Seq(AllEntries)] /\ logFaults' \in Nat
      /\ QueueCap \in Nat /\ FlushSize \in Nat
  BY FaultsCounted, LimitsAre DEF LogIInv, LogTypes, LogBounds
<1>2. \A b \in Batches : Entries(b) \subseteq AllEntries
  BY EntriesAre DEF LogIInv, LogTypes, ClientRows, AllEntries, Entries, EntryOf
<1>3. CASE UNCHANGED logVars BY <1>3 DEF logVars, LogBounds
<1>4. ASSUME NEW b \in Batches, Receive(b) \/ MeterBatch(b) \/ Accept(b) \/ Retry(b) \/ CountDirect(b) \/ emitLogs(b)
      PROVE  LogBounds'
  BY <1>1, <1>4 DEF Receive, MeterBatch, Accept, Retry, CountDirect, emitLogs, LogBounds
<1>5. ASSUME NEW b \in Batches, Enqueue(b) PROVE LogBounds'
  <2>1. UNCHANGED <<batch, server, logTopic, dropped>> BY <1>5 DEF Enqueue
  <2>2. logQueue' = logQueue \/ (Len(logQueue) < QueueCap /\ logQueue' = Append(logQueue, EntryOf(b, client[b].next)))
    BY <1>5 DEF Enqueue
  <2>3. \A e : Len(Append(logQueue, e)) = Len(logQueue) + 1 /\ Len(logQueue) \in Nat BY <1>1
  <2>4. Len(logQueue') <= QueueCap BY <1>1, <2>2, <2>3 DEF LogBounds
  <2>5. QED BY <1>1, <2>1, <2>4 DEF LogBounds
<1>6. ASSUME NEW b \in Batches, DatadogLogs(b) \/ SplunkHEC(b) \/ BridgePublish(b) PROVE LogBounds'
  <2>1. UNCHANGED <<logQueue, batch, server, dropped>> BY <1>6 DEF DatadogLogs, SplunkHEC, BridgePublish
  <2>2. PublishBatch(Entries(b)) \/ logTopic' = logTopic BY <1>6 DEF DatadogLogs, SplunkHEC, BridgePublish, publishLogs
  <2>3. logTopic' \subseteq AllEntries BY <1>2, <2>2, PublishedAreEntries DEF LogBounds
  <2>4. QED BY <1>1, <2>1, <2>3 DEF LogBounds
<1>7. ASSUME NEW w \in LogWorkers, Take(w) PROVE LogBounds'
  <2>1. /\ UNCHANGED <<server, logTopic, dropped>> /\ logQueue # <<>> /\ Len(batch[w]) < FlushSize
        /\ batch' = [batch EXCEPT ![w] = Append(@, Head(logQueue))] /\ logQueue' = Tail(logQueue)
    BY <1>7 DEF Take
  <2>2. Len(logQueue') <= QueueCap BY <1>1, <2>1 DEF LogBounds
  <2>3. ASSUME NEW v \in LogWorkers PROVE Len(batch'[v]) <= FlushSize
    <3>1. CASE v = w
      <4>1. batch'[w] = Append(batch[w], Head(logQueue)) /\ batch[w] \in Seq(AllEntries) BY <1>1, <2>1
      <4>2. Len(batch'[w]) = Len(batch[w]) + 1 /\ Len(batch[w]) \in Nat BY <4>1
      <4>3. QED BY <1>1, <2>1, <3>1, <4>2
    <3>2. CASE v # w BY <1>1, <2>1, <3>2 DEF LogBounds
    <3>3. QED BY <3>1, <3>2
  <2>4. QED BY <1>1, <2>1, <2>2, <2>3 DEF LogBounds
<1>8. ASSUME NEW w \in LogWorkers, flushBatch(w) PROVE LogBounds'
  <2>1. /\ UNCHANGED <<logQueue, server>> /\ batch' = [batch EXCEPT ![w] = <<>>]
        /\ PublishBatch(ToSet(batch[w])) /\ dropped' = dropped \cup (ToSet(batch[w]) \ logTopic')
    BY <1>8 DEF flushBatch
  <2>2. ToSet(batch[w]) \subseteq AllEntries BY <1>1 DEF ToSet
  <2>3. logTopic' \subseteq AllEntries /\ dropped' \subseteq AllEntries BY <2>1, <2>2, PublishedAreEntries DEF LogBounds
  <2>4. \A v \in LogWorkers : Len(batch'[v]) <= FlushSize
    <3>1. \A v \in LogWorkers : batch'[v] = batch[v] \/ batch'[v] = <<>> BY <1>1, <2>1
    <3>2. QED BY <3>1, LimitsAre DEF LogBounds
  <2>5. QED BY <1>1, <2>1, <2>3, <2>4 DEF LogBounds
<1>9. CASE BeginShutdown \/ CloseQueue \/ StartServer \/ Exit
  BY <1>1, <1>9 DEF BeginShutdown, CloseQueue, StartServer, Exit, CutOff, LogBounds
<1>10. CASE Die
  <2>1. /\ server' = "down" /\ logTopic' = logTopic /\ logQueue' = <<>> /\ batch' = [w \in LogWorkers |-> <<>>]
        /\ dropped' = dropped \cup ToSet(logQueue) \cup UNION {ToSet(batch[w]) : w \in LogWorkers}
    BY <1>10 DEF Die, CutOff
  <2>2. ToSet(logQueue) \subseteq AllEntries /\ \A w \in LogWorkers : ToSet(batch[w]) \subseteq AllEntries BY <1>1 DEF ToSet
  <2>3. dropped' \subseteq AllEntries BY <2>1, <2>2 DEF LogBounds
  <2>4. QED BY <1>1, <2>1, <2>3, LimitsAre DEF LogBounds
<1>11. QED BY <1>3, <1>4, <1>5, <1>6, <1>7, <1>8, <1>9, <1>10 DEF LogNext

\* Each part keeps its invariant, whichever part a behaviour follows.
TelemetryIInv ==
    /\ part \in Parts
    /\ LogIInv /\ LogBounds /\ AlertIInv /\ SloIInv /\ RuleIInv /\ AnomalyIInv /\ Measured

LEMMA TelemetryStarts == ASSUME TelemetryInit PROVE TelemetryIInv
<1>1. LogBounds
  <2>1. /\ logQueue = <<>> /\ batch = [w \in LogWorkers |-> <<>>] /\ server = "up" /\ logTopic = {} /\ dropped = {}
        /\ logFaults = 0
    BY DEF TelemetryInit, LogInit
  <2>2. QED BY <2>1, LimitsAre DEF LogBounds
<1>2. Measured
  <2>1. p99 \in Latencies /\ baseline = [ewma |-> 0, samples |-> 0] /\ offFor = 0 BY DEF TelemetryInit, AnomalyInit
  <2>2. [ewma |-> 0, samples |-> 0] \in [ewma : Nat, samples : 0..MinSamples] BY AnomalyConstants
  <2>3. QED BY <2>1, <2>2, AnomalyConstants DEF Measured
<1>3. QED BY <1>1, <1>2, LogStarts, AlertStarts, SloStarts, RuleStarts, AnomalyStarts DEF TelemetryInit, TelemetryIInv

LEMMA TelemetryStepKeeps == ASSUME TelemetryIInv, [TelemetryNext]_telemetryVars PROVE TelemetryIInv'
<1>1. /\ UNCHANGED part /\ [LogNext]_logVars /\ [AlertNext]_alertVars /\ [SloNext]_sloVars
      /\ [RuleNext]_ruleVars /\ [AnomalyNext]_anomalyVars
  BY DEF TelemetryNext, telemetryVars
<1>2. LogIInv' /\ LogBounds' BY <1>1, LogStepKeeps, LogBoundsStay DEF TelemetryIInv, LogBounds
<1>3. AnomalyIInv' /\ Measured' BY <1>1, AnomalyStepKeeps, MeasuredStays DEF TelemetryIInv
<1>4. QED BY <1>1, <1>2, <1>3, AlertStepKeeps, SloStepKeeps, RuleStepKeeps DEF TelemetryIInv

\* Types, of the five parts and for every value of their constants: the queue and the
\* batches of log-service stay within their capacity, rows name alerting records, and a
\* cooldown is never longer than it is set.
THEOREM TelemetryTypeCorrect == TelemetryFairSpec => []TelemetryTypeOK
<1>1. TelemetryIInv => TelemetryTypeOK
  <2>1. SUFFICES ASSUME TelemetryIInv PROVE TelemetryTypeOK OBVIOUS
  <2>2. LogTypeOK
    <3>1. \A s \in Seq(AllEntries) : ToSet(s) \subseteq AllEntries BY DEF ToSet
    <3>2. QED BY <2>1, <3>1 DEF TelemetryIInv, LogIInv, LogTypes, LogBounds, LogTypeOK, ClientRows, Pcs
  <2>3. AnomalyTypeOK
    <3>1. AnomalyTypes /\ Measured BY <2>1 DEF TelemetryIInv, AnomalyIInv
    <3>2. cached.on \in BOOLEAN /\ cached.left \in 0..ConfigTTL /\ baseline.ewma \in Nat /\ baseline.samples \in 0..MinSamples
      BY <3>1 DEF AnomalyTypes, Measured
    <3>3. offFor \in 0..(ConfigTTL + 1) BY <3>1, AnomalyConstants DEF AnomalyTypes, Measured
    <3>4. {enabled, warned, cached.on} \subseteq BOOLEAN BY <3>1, <3>2 DEF AnomalyTypes
    <3>5. QED BY <3>1, <3>2, <3>3, <3>4 DEF AnomalyTypeOK, Measured
  <2>4. AlertTypeOK /\ SloTypeOK /\ RuleTypeOK BY <2>1, AlertTypesHold, SloTypesHold, RuleTypesHold DEF TelemetryIInv
  <2>5. part \in {"logs", "alerts", "slo", "rules", "anomaly"} BY <2>1, PartsAreKnown DEF TelemetryIInv
  <2>6. QED BY <2>2, <2>3, <2>4, <2>5 DEF TelemetryTypeOK
<1>2. QED BY <1>1, TelemetryStarts, TelemetryStepKeeps, PTL DEF TelemetryFairSpec
=============================================================================
