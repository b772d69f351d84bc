---------------------------- MODULE MCIncidents ----------------------------
EXTENDS Incidents

\* Alerts of one service, handled one after the other.
TwoAlerts == {[id |-> n, tenant |-> "t", service |-> "api", level |-> 4] : n \in 1..2}
\* Two services, one depending on the other, handled by two workers.
TwoServices == {[id |-> 1, tenant |-> "t", service |-> "api", level |-> 4],
                [id |-> 2, tenant |-> "t", service |-> "db", level |-> 5]}
ApiOnly == [s \in {"api"} |-> {}]
ApiNeedsDb == [s \in {"api", "db"} |-> IF s = "api" THEN {"db"} ELSE {}]
OnePartition == [s \in {"api"} |-> 1]
TwoPartitions == [s \in {"api", "db"} |-> IF s = "api" THEN 1 ELSE 2]
=============================================================================
