------------------------------ MODULE SpanEdges ------------------------------
(***************************************************************************)
(* How topology-service finds dependencies in traces (handleReceiveTraces  *)
(* in internal/handler/api.go, and the Redis keys span:, pending: and      *)
(* topo:edgemetric: of internal/repository/repository.go).  Spans arrive   *)
(* in any order, in requests that run side by side, and a collector that   *)
(* sees no answer sends a span again.                                      *)
(***************************************************************************)
EXTENDS Integers, FiniteSets

CONSTANTS
    Spans,
    ParentOf,       \* the parent of each span, Root for none
    Root,
    Deliveries,     \* the requests, one span each: more than one of a span is a retry
    SpanOf,         \* the span of each
    MaxSpanFaults   \* bound: keys that expire before their use, failed Redis calls

ASSUME SpanConstants ==
    /\ IsFiniteSet(Spans) /\ Root \notin Spans /\ ParentOf \in [Spans -> Spans \cup {Root}]
    /\ IsFiniteSet(Deliveries) /\ SpanOf \in [Deliveries -> Spans] /\ MaxSpanFaults \in Nat

VARIABLES
    known,      \* span:<id>: spans whose service is stored
    waiting,    \* pending:<id>: for each span, the children that wait for it
    calls,      \* topo:edgemetric: for each child span, how often its call was counted;
                \* the edge from its parent's service exists once it was
    handling,   \* each delivery: how far its request is
    overlapped, \* history: spans handled while their parent or a child was, or again
    spanFaults

spanVars == <<known, waiting, calls, handling, overlapped, spanFaults>>

Relatives(s) == {r \in Spans : r = ParentOf[s] \/ ParentOf[r] = s}
At(pc) == [pc |-> pc, children |-> {}]
To(d, pc) == handling' = [handling EXCEPT ![d] = At(pc)]
Active(s) == \E d \in Deliveries : SpanOf[d] = s /\ handling[d].pc \notin {"out", "done"}
Arrivals(s) == Cardinality({d \in Deliveries : SpanOf[d] = s /\ handling[d].pc # "out"})
SpanFault == spanFaults < MaxSpanFaults /\ spanFaults' = spanFaults + 1

\* A request with the span.
Arrive(d) ==
    /\ handling[d].pc = "out"
    /\ To(d, "store")
    /\ overlapped' = LET s == SpanOf[d]
                         busy == {r \in Relatives(s) : Active(r)} IN
                     IF busy = {} THEN overlapped ELSE overlapped \cup busy \cup {s}
    /\ UNCHANGED <<known, waiting, calls, spanFaults>>

\* 1. SetSpanService; an error is logged.
StoreSpan(d) ==
    /\ handling[d].pc = "store"
    /\ \/ known' = known \cup {SpanOf[d]} /\ UNCHANGED spanFaults
       \/ SpanFault /\ UNCHANGED known
    /\ To(d, IF ParentOf[SpanOf[d]] = Root THEN "children" ELSE "parent")
    /\ UNCHANGED <<waiting, calls, overlapped>>

\* 2. GetSpanService of the parent ...
LookForParent(d) ==
    /\ handling[d].pc = "parent"
    /\ To(d, IF ParentOf[SpanOf[d]] \in known THEN "count" ELSE "wait")
    /\ UNCHANGED <<known, waiting, calls, overlapped, spanFaults>>

\* ... found: UpsertDependencyEdge and RecordEdgeMetric ...
CountCall(d) ==
    /\ handling[d].pc = "count"
    /\ calls' = [calls EXCEPT ![SpanOf[d]] = @ + 1]
    /\ To(d, "children")
    /\ UNCHANGED <<known, waiting, overlapped, spanFaults>>

\* Faulty variant: the span waits under its own id.
AddPendingChildOwn(d) ==
    /\ handling[d].pc = "wait"
    /\ waiting' = [waiting EXCEPT ![SpanOf[d]] = @ \cup {SpanOf[d]}]
    /\ To(d, "children")
    /\ UNCHANGED <<known, calls, overlapped, spanFaults>>

\* ... or not: AddPendingChild, into a set.
AddPendingChild(d) ==
    /\ handling[d].pc = "wait"
    /\ \/ waiting' = [waiting EXCEPT ![ParentOf[SpanOf[d]]] = @ \cup {SpanOf[d]}] /\ UNCHANGED spanFaults
       \/ SpanFault /\ UNCHANGED waiting
    /\ To(d, "children")
    /\ UNCHANGED <<known, calls, overlapped>>

\* Faulty variant: only a span without a parent of its own looks for children.
ReadWaitingRoots(d) ==
    /\ handling[d].pc = "children"
    /\ handling' = [handling EXCEPT ![d] = IF waiting[SpanOf[d]] = {} \/ ParentOf[SpanOf[d]] # Root THEN At("done")
                                           ELSE [pc |-> "resolve", children |-> waiting[SpanOf[d]]]]
    /\ UNCHANGED <<known, waiting, calls, overlapped, spanFaults>>

\* 3. GetPendingChildren ...
ReadWaiting(d) ==
    /\ handling[d].pc = "children"
    /\ handling' = [handling EXCEPT ![d] = IF waiting[SpanOf[d]] = {} THEN At("done")
                                           ELSE [pc |-> "resolve", children |-> waiting[SpanOf[d]]]]
    /\ UNCHANGED <<known, waiting, calls, overlapped, spanFaults>>

\* ... each gets its edge and is counted ...
Resolve(d) ==
    /\ handling[d].pc = "resolve"
    /\ calls' = [c \in Spans |-> IF c \in handling[d].children THEN calls[c] + 1 ELSE calls[c]]
    /\ To(d, "delete")
    /\ UNCHANGED <<known, waiting, overlapped, spanFaults>>

\* ... and the whole set is deleted.
DeletePending(d) ==
    /\ handling[d].pc = "delete"
    /\ waiting' = [waiting EXCEPT ![SpanOf[d]] = {}]
    /\ To(d, "done")
    /\ UNCHANGED <<known, calls, overlapped, spanFaults>>

\* Five minutes passed.
ExpireKey(s) ==
    /\ SpanFault
    /\ \/ s \in known /\ known' = known \ {s} /\ UNCHANGED waiting
       \/ waiting[s] # {} /\ waiting' = [waiting EXCEPT ![s] = {}] /\ UNCHANGED known
    /\ UNCHANGED <<calls, handling, overlapped>>

SpanInit ==
    /\ known = {} /\ waiting = [s \in Spans |-> {}] /\ calls = [s \in Spans |-> 0]
    /\ handling = [d \in Deliveries |-> At("out")]
    /\ overlapped = {} /\ spanFaults = 0

SpanNext ==
    \/ \E d \in Deliveries :
          \/ Arrive(d) \/ StoreSpan(d) \/ LookForParent(d) \/ CountCall(d) \/ AddPendingChild(d)
          \/ ReadWaiting(d) \/ Resolve(d) \/ DeletePending(d)
    \/ \E s \in Spans : ExpireKey(s)

SpanSpec == SpanInit /\ [][SpanNext]_spanVars

-----------------------------------------------------------------------------
(* Properties *)

Children(s) == {c \in Spans : ParentOf[c] = s}
SpanTypeOK ==
    /\ known \subseteq Spans /\ \A s \in Spans : waiting[s] \subseteq Children(s)
    /\ \A d \in Deliveries : handling[d].children \subseteq Children(SpanOf[d])

Handled(s) == s # Root /\ Arrivals(s) > 0 /\ ~Active(s)

\* In whichever order parent and child arrive, the call between them becomes an
\* edge once both are handled, provided nothing failed or expired and the two
\* requests did not run side by side.
CallsBecomeEdges ==
    \A c \in Spans :
        Handled(c) /\ Handled(ParentOf[c]) /\ spanFaults = 0 /\ {c, ParentOf[c]} \cap overlapped = {}
            => calls[c] > 0

\* A call is not counted more often than its span arrived, in any interleaving
\* and though a span that waits is counted by another request than its own, as
\* long as the parent is not itself sent twice.
CallsCountedPerArrival ==
    \A c \in Spans : ParentOf[c] # Root /\ Arrivals(ParentOf[c]) <= 1 => calls[c] <= Arrivals(c)

\* A call between services is found, and not counted too often, in whichever order,
\* side by side or repeated, its spans arrive.
CallsCounted == CallsBecomeEdges /\ CallsCountedPerArrival
=============================================================================
