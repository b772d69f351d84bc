----------------------------- MODULE Migrations -----------------------------
(***************************************************************************)
(* How a service brings its schema up to date when it starts               *)
(* (shared/migrate.Run, called by main): replicas of one or of two         *)
(* releases start side by side, each reads once which versions are         *)
(* recorded and applies the others in order, one transaction each, with no *)
(* lock around it.  An error ends the process, which is started again.     *)
(*                                                                         *)
(* Postgres is external: an INSERT of a version that another open          *)
(* transaction has inserted waits for that transaction to end.  Its        *)
(* statement of a migration takes effect with the commit.                  *)
(***************************************************************************)
EXTENDS Naturals

CONSTANTS
    Starters,       \* the replicas
    FilesOf,        \* [replica -> how many migrations its release has]
    MaxMigFaults    \* bound: statements that fail and processes that are killed

ASSUME MigrationConstants == FilesOf \in [Starters -> Nat] /\ MaxMigFaults \in Nat

VARIABLES
    recorded,   \* schema_migrations_<service>, committed rows
    effects,    \* history: [version -> how often its statements were committed]
    starter,    \* [replica -> where it is, the versions it read, the one it is at]
    migFaults

migVars == <<recorded, effects, starter, migFaults>>

Versions == UNION {1..FilesOf[s] : s \in Starters}
NotStarted == [at |-> "start", applied |-> {}, next |-> 1]

GoTo(s, at) == starter' = [starter EXCEPT ![s].at = at]

\* The table is created if it is missing, and the recorded versions are read.
LoadApplied(s) ==
    /\ starter[s].at = "start"
    /\ starter' = [starter EXCEPT ![s] = [at |-> "next", applied |-> recorded, next |-> 1]]
    /\ UNCHANGED <<recorded, effects, migFaults>>

\* A version that was recorded is skipped; at the end the service serves.
Skip(s) ==
    LET m == starter[s] IN
    /\ m.at = "next"
    /\ \/ m.next > FilesOf[s] /\ GoTo(s, "serving")
       \/ m.next <= FilesOf[s] /\ m.next \in m.applied /\ starter' = [starter EXCEPT ![s].next = @ + 1]
    /\ UNCHANGED <<recorded, effects, migFaults>>

\* The transaction begins, and the file's statements run in it.
Apply(s) ==
    /\ starter[s].at = "next" /\ starter[s].next <= FilesOf[s]
    /\ starter[s].next \notin starter[s].applied
    /\ GoTo(s, "record")
    /\ UNCHANGED <<recorded, effects, migFaults>>

\* Another transaction has inserted the version and has not ended.
Inserting(s) == \E o \in Starters \ {s} : starter[o].at = "commit" /\ starter[o].next = starter[s].next

\* Faulty variant: a version that is there already is not an error.
RecordOnConflict(s) ==
    /\ starter[s].at = "record" /\ ~ Inserting(s)
    /\ GoTo(s, "commit")
    /\ UNCHANGED <<recorded, effects, migFaults>>

\* The INSERT: it waits for another of the same version, and fails on the primary key
\* once that one is committed; the transaction is rolled back and Run returns the error.
Record(s) ==
    /\ starter[s].at = "record" /\ ~ Inserting(s)
    /\ GoTo(s, IF starter[s].next \in recorded THEN "failed" ELSE "commit")
    /\ UNCHANGED <<recorded, effects, migFaults>>

Commit(s) ==
    LET v == starter[s].next IN
    /\ starter[s].at = "commit"
    /\ recorded' = recorded \cup {v}
    /\ effects' = [effects EXCEPT ![v] = @ + 1]
    /\ starter' = [starter EXCEPT ![s].at = "next", ![s].next = @ + 1]
    /\ UNCHANGED migFaults

\* A statement fails, the tracking table's included; or the process is killed.
StatementFails(s) ==
    /\ starter[s].at \in {"start", "record", "commit"}
    /\ migFaults < MaxMigFaults
    /\ migFaults' = migFaults + 1
    /\ GoTo(s, "failed")
    /\ UNCHANGED <<recorded, effects>>

\* main ends on the error (log.Fatalf); the process is started again.
StartAgain(s) ==
    /\ starter[s].at = "failed"
    /\ starter' = [starter EXCEPT ![s] = NotStarted]
    /\ UNCHANGED <<recorded, effects, migFaults>>

MigInit ==
    /\ recorded = {} /\ effects = [v \in Versions |-> 0]
    /\ starter = [s \in Starters |-> NotStarted] /\ migFaults = 0

MigStep(s) == LoadApplied(s) \/ Skip(s) \/ Apply(s) \/ Record(s) \/ Commit(s) \/ StartAgain(s)

MigNext == \E s \in Starters : MigStep(s) \/ StatementFails(s)

MigSpec == MigInit /\ [][MigNext]_migVars

-----------------------------------------------------------------------------
(* Properties *)

MigTypeOK ==
    /\ recorded \subseteq Versions /\ effects \in [Versions -> Nat] /\ migFaults \in 0..MaxMigFaults
    /\ \A s \in Starters :
        /\ starter[s].at \in {"start", "next", "record", "commit", "failed", "serving"}
        /\ starter[s].next \in 1..(FilesOf[s] + 1) /\ starter[s].applied \subseteq Versions

\* However replicas of two releases race, every migration takes effect at most once, the
\* recorded ones are those that did, and they came in order (migrate.Run keeps no lock:
\* the primary key of the tracking table is what holds the second one back).
AppliedOnceInOrder ==
    /\ \A v \in Versions : effects[v] = IF v \in recorded THEN 1 ELSE 0
    /\ \A v \in recorded : 1..v \subseteq recorded

\* A replica that serves finds every table of its release.
ServesOnItsSchema ==
    \A s \in Starters : starter[s].at = "serving" => 1..FilesOf[s] \subseteq recorded

\* The schema is what the recorded versions say, and a replica serves on its own.
SchemaInStep == AppliedOnceInOrder /\ ServesOnItsSchema
=============================================================================
