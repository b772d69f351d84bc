---------------------------- MODULE AnomalyWatch ----------------------------
(***************************************************************************)
(* The anomaly detector of correlation-service (engine/                    *)
(* anomaly_detector.go) on one tenant's service: a rolling baseline of     *)
(* p99, the tenant's tuning (repository/anomaly_config_repository.go,      *)
(* handler/anomaly_handler.go) through a cache, and the warning it writes  *)
(* to the topology.  Error rate and throughput drift the same way as p99   *)
(* and are left out.  Latencies are whole milliseconds, rounded down; one  *)
(* unit of time is a poll (15 s).                                          *)
(***************************************************************************)
EXTENDS Integers

CONSTANTS
    Latencies,      \* p99 values the service shows
    Multiplier10,   \* P99Multiplier in tenths
    MinSamples,     \* minSamplesToWarn
    ConfigTTL,      \* anomalyConfigTTL in polls
    MaxAnomalyEdits, MaxDrifts, MaxAnomalyFaults    \* bounds

ASSUME AnomalyConstants ==
    /\ Latencies \subseteq Nat \ {0} /\ Multiplier10 \in Nat /\ MinSamples \in Nat \ {0} /\ ConfigTTL \in Nat \ {0}
    /\ {MaxAnomalyEdits, MaxDrifts, MaxAnomalyFaults} \subseteq Nat

VARIABLES
    p99,        \* of the service now
    enabled,    \* anomaly_config.enabled of the tenant
    baseline,   \* ewmaP99Ms and samples (counted to MinSamples); samples 0 is no baseline
    cached,     \* configCache: the setting and the polls it has left; left 0 is expired
    warned,     \* the last poll found an anomaly
    offFor,     \* history: polls since the setting is off and no lookup has failed
    anomalyEdits, drifts, anomalyFaults

anomalyVars == <<p99, enabled, baseline, cached, warned, offFor, anomalyEdits, drifts, anomalyFaults>>

AnomalyFault == anomalyFaults < MaxAnomalyFaults /\ anomalyFaults' = anomalyFaults + 1

\* Update, Upsert.
SetConfig ==
    /\ anomalyEdits < MaxAnomalyEdits /\ anomalyEdits' = anomalyEdits + 1
    /\ enabled' = ~enabled
    /\ offFor' = 0
    /\ UNCHANGED <<p99, baseline, cached, warned, drifts, anomalyFaults>>

Drift ==
    /\ drifts < MaxDrifts /\ drifts' = drifts + 1
    /\ p99' \in Latencies \ {p99}
    /\ UNCHANGED <<enabled, baseline, cached, warned, offFor, anomalyEdits, anomalyFaults>>

\* ewmaAlpha is 0.2.
Folded == [ewma |-> (p99 + 4 * baseline.ewma) \div 5,
           samples |-> IF baseline.samples < MinSamples THEN baseline.samples + 1 ELSE MinSamples]

Fold == baseline' = Folded

\* detectAnomalies against the baseline as it was.
Anomalous == baseline.samples >= MinSamples /\ baseline.ewma > 0 /\ 10 * p99 >= baseline.ewma * Multiplier10

\* Faulty variant: a hit renews the entry.
configForSliding(setting) ==
    \/ /\ cached.left > 0 /\ setting = cached.on
       /\ cached' = [cached EXCEPT !.left = ConfigTTL]
       /\ offFor' = IF ~enabled /\ offFor <= ConfigTTL THEN offFor + 1 ELSE offFor
       /\ UNCHANGED anomalyFaults
    \/ /\ cached.left = 0 /\ setting = enabled
       /\ cached' = [on |-> setting, left |-> ConfigTTL]
       /\ offFor' = IF ~enabled /\ offFor <= ConfigTTL THEN offFor + 1 ELSE offFor
       /\ UNCHANGED anomalyFaults

\* configFor: what is cached, or a lookup, which falls back to the defaults (on) when
\* it fails; either answer is cached.
configFor(setting) ==
    \/ /\ cached.left > 0 /\ setting = cached.on
       /\ cached' = [cached EXCEPT !.left = @ - 1]
       /\ offFor' = IF ~enabled /\ offFor <= ConfigTTL THEN offFor + 1 ELSE offFor
       /\ UNCHANGED anomalyFaults
    \/ /\ cached.left = 0 /\ setting = enabled
       /\ cached' = [on |-> setting, left |-> ConfigTTL]
       /\ offFor' = IF ~enabled /\ offFor <= ConfigTTL THEN offFor + 1 ELSE offFor
       /\ UNCHANGED anomalyFaults
    \/ /\ cached.left = 0 /\ setting = TRUE /\ AnomalyFault
       /\ cached' = [on |-> TRUE, left |-> ConfigTTL]
       /\ offFor' = 0

\* pollOnce on a row with enough requests: the first sight seeds the baseline.
Seed ==
    /\ baseline.samples = 0
    /\ baseline' = [ewma |-> p99, samples |-> 1]
    /\ UNCHANGED <<p99, enabled, cached, warned, offFor, anomalyEdits, drifts, anomalyFaults>>

Poll ==
    /\ baseline.samples > 0
    /\ \E setting \in BOOLEAN : configFor(setting) /\ warned' = (setting /\ Anomalous)
    /\ Fold
    /\ UNCHANGED <<p99, enabled, anomalyEdits, drifts>>

\* Baselines and cache are in memory.
RestartDetector ==
    /\ AnomalyFault
    /\ baseline' = [ewma |-> 0, samples |-> 0] /\ cached' = [on |-> TRUE, left |-> 0] /\ warned' = FALSE
    /\ UNCHANGED <<p99, enabled, offFor, anomalyEdits, drifts>>

AnomalyInit ==
    /\ p99 \in Latencies /\ enabled = TRUE
    /\ baseline = [ewma |-> 0, samples |-> 0] /\ cached = [on |-> TRUE, left |-> 0]
    /\ warned = FALSE /\ offFor = 0
    /\ anomalyEdits = 0 /\ drifts = 0 /\ anomalyFaults = 0

AnomalyNext == SetConfig \/ Drift \/ Seed \/ Poll \/ RestartDetector

AnomalySpec == AnomalyInit /\ [][AnomalyNext]_anomalyVars

-----------------------------------------------------------------------------
(* Properties *)

AnomalyTypeOK ==
    /\ p99 \in Latencies /\ {enabled, warned, cached.on} \subseteq BOOLEAN
    /\ baseline.samples \in 0..MinSamples /\ baseline.ewma \in Nat
    /\ cached.left \in 0..ConfigTTL /\ offFor \in 0..(ConfigTTL + 1)

\* Detection that is switched off stops within the life of a cached setting, also
\* when a lookup failed meanwhile and cached the default, which is on.
OffStopsWarnings == warned => offFor <= ConfigTTL

=============================================================================
