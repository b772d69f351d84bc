------------------------------ MODULE Topology ------------------------------
(***************************************************************************)
(* The topology store and its cache (topology-service/internal/repository, *)
(* internal/handler/api.go, shared/graph with its two stores), seen from   *)
(* one edge of one tenant and the service at its end.                      *)
(*                                                                         *)
(* Writers change the store and then delete the cached graph; a reader     *)
(* that misses loads the graph and then caches it.  UpdateCausalPath       *)
(* replaces what one incident says of the edge: in Neo4j by two statements *)
(* that each are atomic, in Postgres by reading the list, computing, and   *)
(* writing it back inside a transaction (READ COMMITTED: the row is locked *)
(* by the first write, not by the read).                                   *)
(***************************************************************************)
EXTENDS Integers, FiniteSets

CONSTANTS
    PathIncidents,  \* incidents whose causal paths are written
    MaxAnalyses,    \* bound: analyses
    MaxWriters,     \* bound: writers that are between the store and the cache
    MaxTopoFaults   \* bound: failed store writes and failed cache deletions

ASSUME TopologyConstants ==
    /\ IsFiniteSet(PathIncidents) /\ "none" \notin PathIncidents
    /\ {MaxAnalyses, MaxWriters, MaxTopoFaults} \subseteq Nat

VARIABLES
    store,      \* TOPOLOGY_STORE
    node,       \* graph_nodes: what the row says, 0 for no row
    edge,       \* graph_edges: the edge is there
    causal,     \* causal_entries: for each incident, the analyses whose entry is there
    update,     \* UpdateCausalPath of each incident: step, analysis, whether it names the edge, what it read
    rowLock,    \* Postgres: the incident whose transaction has written the row
    path,       \* history: for each incident, the analysis that should show, 0 for none
    clobbered,  \* history: incidents whose transactions overlapped on the row
    toDelete,   \* cache deletions still to be made by writers
    graphCache, \* topo:graph:<tenant>
    reader,     \* GetGraph of one request
    analyses, topoFaults

topoVars == <<store, node, edge, causal, update, rowLock, path, clobbered, toDelete, graphCache, reader, analyses, topoFaults>>

Rows == 1..2
Content == [node |-> node, edge |-> edge, causal |-> causal]
NoGraph == [held |-> FALSE]
Holding(g) == [held |-> TRUE, graph |-> g]
TopoFault == topoFaults < MaxTopoFaults /\ topoFaults' = topoFaults + 1
NoTx == "none"
NoEntries == [i \in PathIncidents |-> {}]
\* A writer is done with the store and still has to delete the cached graph.
ThenInvalidates == toDelete < MaxWriters /\ toDelete' = toDelete + 1

-----------------------------------------------------------------------------
(* Nodes and edges *)

\* The store makes or changes the row.
WriteNode ==
    /\ node' \in Rows \ {node}
    /\ ThenInvalidates
    /\ UNCHANGED <<store, edge, causal, update, rowLock, path, clobbered, graphCache, reader, analyses, topoFaults>>

\* The correlator's and the detector's states.
UpdateServiceState == WriteNode

\* A log line of the service makes it HEALTHY, whatever it was.
GraphBuilderHandle == WriteNode

UpdateCatalog == WriteNode

PatchCatalogMetadata == WriteNode

\* Both ends and the edge are made if they are missing, and left as they are if not.
UpsertDependencyEdge ==
    /\ ~edge
    /\ edge' = TRUE /\ node' = (IF node = 0 THEN 1 ELSE node)
    /\ ThenInvalidates
    /\ UNCHANGED <<store, causal, update, rowLock, path, clobbered, graphCache, reader, analyses, topoFaults>>

\* DeleteTenant: edges and nodes, once no transaction has written the row.  A
\* transaction that has read the entries may still write them back.
DeleteTenant ==
    /\ edge /\ rowLock = NoTx
    /\ node' = 0 /\ edge' = FALSE /\ causal' = NoEntries /\ path' = [i \in PathIncidents |-> 0]
    /\ clobbered' = IF \E i \in PathIncidents : update[i].pc = "write" THEN PathIncidents ELSE clobbered
    /\ ThenInvalidates
    /\ UNCHANGED <<store, update, rowLock, graphCache, reader, analyses, topoFaults>>

\* invalidateCache: an error of Redis is logged.
invalidateCache ==
    /\ toDelete > 0
    /\ toDelete' = toDelete - 1
    /\ \/ graphCache' = NoGraph /\ UNCHANGED topoFaults
       \/ TopoFault /\ UNCHANGED graphCache
    /\ UNCHANGED <<store, node, edge, causal, update, rowLock, path, clobbered, reader, analyses>>

-----------------------------------------------------------------------------
(* UpdateCausalPath *)

\* A new analysis of an incident asks; its chain names the edge or not.
BeginPath(i) ==
    /\ update[i].pc = "idle" /\ analyses < MaxAnalyses /\ analyses' = analyses + 1
    /\ \E links \in BOOLEAN :
          update' = [update EXCEPT ![i] = [pc |-> IF store = "neo4j" THEN "clear" ELSE "read",
                                           analysis |-> analyses + 1, links |-> links, read |-> {}]]
    /\ UNCHANGED <<store, node, edge, causal, rowLock, path, clobbered, toDelete, graphCache, reader, topoFaults>>

\* The request is answered: with success the cached graph is to be deleted.
Finish(i) ==
    /\ update' = [update EXCEPT ![i].pc = "idle", ![i].read = {}]
    /\ path' = [path EXCEPT ![i] = IF update[i].links /\ edge THEN update[i].analysis ELSE 0]
    /\ ThenInvalidates

\* Faulty variant: what the incident said before stays.
NeoClearNothing(i) ==
    /\ update[i].pc = "clear"
    /\ IF update[i].links THEN /\ update' = [update EXCEPT ![i].pc = "add"]
                               /\ UNCHANGED <<path, toDelete>>
       ELSE Finish(i)
    /\ UNCHANGED <<store, node, edge, causal, rowLock, clobbered, graphCache, reader, analyses, topoFaults>>

\* Neo4j, the first statement: the incident's entries are dropped from every edge.
NeoClear(i) ==
    /\ update[i].pc = "clear"
    /\ causal' = [causal EXCEPT ![i] = {}]
    /\ IF update[i].links THEN /\ update' = [update EXCEPT ![i].pc = "add"]
                               /\ UNCHANGED <<path, toDelete>>
       ELSE Finish(i)
    /\ UNCHANGED <<store, node, edge, rowLock, clobbered, graphCache, reader, analyses, topoFaults>>

\* The second: the entry is added.
NeoAdd(i) ==
    /\ update[i].pc = "add"
    /\ causal' = IF edge THEN [causal EXCEPT ![i] = @ \cup {update[i].analysis}] ELSE causal
    /\ Finish(i)
    /\ UNCHANGED <<store, node, edge, rowLock, clobbered, graphCache, reader, analyses, topoFaults>>

\* Postgres: clearIncident and addEntry read the list; there is nothing to write
\* when it has nothing of this incident and the chain does not name the edge.
Concerned(i) == edge /\ (update[i].links \/ causal[i] # {})
Overlaps(j) == update[j].pc \in {"write", "commit"}

SqlNothing(i) ==
    /\ update[i].pc = "read" /\ ~Concerned(i)
    /\ Finish(i)
    /\ UNCHANGED <<store, node, edge, causal, rowLock, clobbered, graphCache, reader, analyses, topoFaults>>

SqlRead(i) ==
    /\ update[i].pc = "read" /\ Concerned(i)
    /\ update' = [update EXCEPT ![i].pc = "write", ![i].read = causal]
    /\ clobbered' = LET others == {j \in PathIncidents \ {i} : Overlaps(j)} IN
                    IF others = {} THEN clobbered ELSE clobbered \cup others \cup {i}
    /\ UNCHANGED <<store, node, edge, causal, rowLock, path, toDelete, graphCache, reader, analyses, topoFaults>>

\* ... and write it back whole, once no other transaction has the row.
SqlWrite(i) ==
    /\ update[i].pc = "write" /\ rowLock = NoTx
    /\ rowLock' = i
    /\ update' = [update EXCEPT ![i].pc = "commit"]
    /\ UNCHANGED <<store, node, edge, causal, path, clobbered, toDelete, graphCache, reader, analyses, topoFaults>>

SqlCommit(i) ==
    /\ update[i].pc = "commit"
    /\ causal' = IF edge THEN [update[i].read EXCEPT ![i] = IF update[i].links THEN {update[i].analysis} ELSE {}]
                 ELSE causal
    /\ rowLock' = NoTx
    /\ Finish(i)
    /\ UNCHANGED <<store, node, edge, clobbered, graphCache, reader, analyses, topoFaults>>

\* A statement fails: the transaction is rolled back, what Neo4j has done stays done.
PathFails(i) ==
    /\ update[i].pc # "idle" /\ TopoFault
    /\ update' = [update EXCEPT ![i].pc = "idle", ![i].read = {}]
    /\ rowLock' = IF rowLock = i THEN NoTx ELSE rowLock
    /\ path' = [path EXCEPT ![i] = IF causal[i] = {} THEN 0 ELSE @]
    /\ UNCHANGED <<store, node, edge, causal, clobbered, toDelete, graphCache, reader, analyses>>

-----------------------------------------------------------------------------
(* GetGraph *)

\* A miss loads; a hit changes nothing.
LoadGraph ==
    /\ reader = NoGraph /\ graphCache = NoGraph
    /\ reader' = Holding(Content)
    /\ UNCHANGED <<store, node, edge, causal, update, rowLock, path, clobbered, toDelete, graphCache, analyses, topoFaults>>

\* ... and caches what it loaded, for five minutes.
CacheGraph ==
    /\ reader # NoGraph
    /\ graphCache' = reader /\ reader' = NoGraph
    /\ UNCHANGED <<store, node, edge, causal, update, rowLock, path, clobbered, toDelete, analyses, topoFaults>>

ExpireGraph ==
    /\ graphCache # NoGraph
    /\ graphCache' = NoGraph
    /\ UNCHANGED <<store, node, edge, causal, update, rowLock, path, clobbered, toDelete, reader, analyses, topoFaults>>

-----------------------------------------------------------------------------

TopoInit ==
    /\ store \in {"neo4j", "postgres"}
    /\ node = 1 /\ edge = TRUE /\ causal = NoEntries
    /\ update = [i \in PathIncidents |-> [pc |-> "idle", analysis |-> 0, links |-> FALSE, read |-> {}]]
    /\ rowLock = NoTx /\ path = [i \in PathIncidents |-> 0] /\ clobbered = {}
    /\ toDelete = 0 /\ graphCache = NoGraph /\ reader = NoGraph /\ analyses = 0 /\ topoFaults = 0

TopoNext ==
    \/ UpdateServiceState \/ GraphBuilderHandle \/ UpdateCatalog \/ PatchCatalogMetadata
    \/ UpsertDependencyEdge \/ DeleteTenant
    \/ invalidateCache \/ LoadGraph \/ CacheGraph \/ ExpireGraph
    \/ \E i \in PathIncidents : BeginPath(i) \/ NeoClear(i) \/ NeoAdd(i)
                                \/ SqlNothing(i) \/ SqlRead(i) \/ SqlWrite(i) \/ SqlCommit(i) \/ PathFails(i)

TopoSpec == TopoInit /\ [][TopoNext]_topoVars

-----------------------------------------------------------------------------
(* Properties *)

TopoTypeOK ==
    /\ node \in Rows \cup {0} /\ toDelete \in 0..MaxWriters
    /\ causal \in [PathIncidents -> SUBSET (1..MaxAnalyses)]
    /\ rowLock \in PathIncidents \cup {NoTx}
    /\ \A i \in PathIncidents : update[i].pc = "commit" <=> rowLock = i

\* A finished analysis is what the edge shows of its incident: a shorter chain
\* leaves nothing of the old one behind, and no other incident's analysis, at
\* whatever moment it runs, takes the entry away.  In Postgres two transactions
\* that overlap on the row may (clobbered).
AnalysisReplaces(i) ==
    update[i].pc = "idle" => causal[i] = (IF path[i] = 0 THEN {} ELSE {path[i]})

\* A cached graph that is out of date does not stay, though a reader may store
\* one it loaded before a write after that write's deletion, or the deletion fail.
StaleGraphGoes == (graphCache # NoGraph /\ graphCache.graph # Content) ~>
                      (graphCache = NoGraph \/ graphCache.graph = Content)

\* The graph shows the analyses as they ended, and a reader sees it in the end.
GraphIsRight == [](\A i \in PathIncidents \ clobbered : AnalysisReplaces(i)) /\ StaleGraphGoes
=============================================================================
