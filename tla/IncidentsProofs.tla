--------------------------- MODULE IncidentsProofs ---------------------------
(***************************************************************************)
(* Proofs about Incidents, for every set of alerts, services, workers and  *)
(* sweepers, every window and any number of failures: no alert is lost,    *)
(* alerts of one service within the window share an incident, an incident  *)
(* is resolved only when it was quiet, and announced as resolved once.     *)
(* And about Notifications, which composes it with the queue and the       *)
(* workers that page: every incident is on its way to PagerDuty, there, or *)
(* in the dead-letter queue.                                               *)
(*                                                                         *)
(* Each property rests on a fact about the state between two steps of an   *)
(* actor: what a worker's lookup said still holds when it writes, what it  *)
(* wrote is linked until it marks the message, and what a sweeper still    *)
(* has to announce nobody else has or will.                                *)
(***************************************************************************)
EXTENDS Notifications, SequenceTheorems, TLAPS

Message == [alert: Alerts, age: 0..MaxLag]

Place == [pc: {"idle", "upsert", "notify", "schedule"}, incident: Nat, built: 0..QuietCap]

Row == [tenant: {a.tenant : a \in Alerts}, status: {"OPEN", "RESOLVED"}, severity: 1..5,
        count: Nat, age: 0..AgeCap, quiet: 0..QuietCap,
        alerts: SUBSET Alerts, analyzed: SUBSET Alerts]

Running == [incident: Nat, loaded: BOOLEAN, alerts: SUBSET Alerts]

Shapes ==
    /\ fired \subseteq Alerts /\ dropped \subseteq Alerts
    /\ topic \in [Workers -> Seq(Message)] /\ marked \in [Workers -> Seq(Message)]
    /\ worker \in [Workers -> Place]
    /\ incidents \in Seq(Row) /\ lastAlert \in Seq(0..QuietCap)
    /\ inflight \subseteq Running
    /\ sweeping \in [Sweepers -> SUBSET Nat]
    /\ resolves \in [PossibleIds -> Nat]
    /\ failures \in [DOMAIN FailureBound -> Nat]

\* Every message is in the partition of its service.
Routed(q, w) == \A k \in DOMAIN q : PartitionOf[q[k].alert.service] = w
TopicOK == \A w \in Workers : Routed(topic[w], w) /\ Routed(marked[w], w)

\* A worker that is not idle handles the first message of its partition; once
\* it has written, the message's alert is linked to the incident it wrote.
WorkersOK == \A w \in Workers :
    /\ worker[w].pc # "idle" => topic[w] # <<>>
    /\ worker[w].pc = "upsert" => worker[w].incident \in Ids \cup {0}
    /\ worker[w].pc \in {"notify", "schedule"} =>
           /\ worker[w].incident \in Ids
           /\ Head(topic[w]).alert \in incidents[worker[w].incident].alerts

\* No row is without an alert, and its updated_at is no older than its last alert.
RowsOK ==
    /\ Len(lastAlert) = Len(incidents)
    /\ \A i \in Ids : /\ incidents[i].alerts # {}
                      /\ incidents[i].analyzed \subseteq incidents[i].alerts
                      /\ incidents[i].quiet <= lastAlert[i]

\* An analysis is of an incident, and has seen alerts of that incident only.
AnalysesOK == \A n \in inflight :
    n.incident \in Ids /\ n.alerts \subseteq incidents[n.incident].alerts

\* What sweepers have to announce is resolved, not announced, and nobody else's.
SweepsOK ==
    /\ \A s \in Sweepers : \A i \in sweeping[s] :
           /\ i \in Ids /\ incidents[i].status = "RESOLVED"
           /\ i \in PossibleIds => resolves[i] = 0
    /\ \A s, t \in Sweepers : s # t => sweeping[s] \cap sweeping[t] = {}
    /\ \A i \in PossibleIds : resolves[i] # 0 =>
           resolves[i] = 1 /\ i \in Ids /\ incidents[i].status = "RESOLVED"

\* A worker about to open an incident is right to: no open incident with an
\* alert of that service is within the window.
LookupsOK ==
    failures.queries = 0 =>
        \A w \in Workers : worker[w].pc = "upsert" /\ worker[w].incident = 0 =>
            \A i \in Ids :
                /\ incidents[i].status = "OPEN"
                /\ \E a \in incidents[i].alerts : a.service = Head(topic[w]).alert.service
                => incidents[i].age > Head(topic[w]).age + Window

\* The inductive invariant.
IncIInv ==
    /\ Shapes /\ TopicOK /\ WorkersOK /\ RowsOK /\ AnalysesOK /\ SweepsOK /\ LookupsOK
    /\ NoAlertLost /\ OneIncidentPerService

-----------------------------------------------------------------------------
(* Messages and rows *)

AlertsOf(q) == {q[k].alert : k \in DOMAIN q}

\* A queue of messages at its two ends.
LEMMA Queues ==
    ASSUME NEW q \in Seq(Message)
    PROVE  /\ \A m \in Message : /\ Append(q, m) \in Seq(Message) /\ Append(q, m) # <<>>
                                 /\ AlertsOf(Append(q, m)) = AlertsOf(q) \cup {m.alert}
                                 /\ q # <<>> => Head(Append(q, m)) = Head(q)
           /\ \A p \in Seq(Message) : /\ p \o q \in Seq(Message)
                                      /\ AlertsOf(q) \subseteq AlertsOf(p \o q)
           /\ q # <<>> => /\ Tail(q) \in Seq(Message) /\ Head(q) \in Message
                          /\ AlertsOf(q) = AlertsOf(Tail(q)) \cup {Head(q).alert}
                          /\ Head(q) = q[1] /\ 1 \in DOMAIN q
  <1>1. ASSUME NEW m \in Message
        PROVE  /\ Append(q, m) \in Seq(Message) /\ Append(q, m) # <<>>
               /\ AlertsOf(Append(q, m)) = AlertsOf(q) \cup {m.alert}
               /\ q # <<>> => Head(Append(q, m)) = Head(q)
    <2> DEFINE p == Append(q, m)
    <2>1. p \in Seq(Message) /\ DOMAIN p = 1..(Len(q) + 1) /\ p[Len(q) + 1] = m
          /\ \A k \in DOMAIN q : k \in DOMAIN p /\ p[k] = q[k]
      OBVIOUS
    <2>2. \A k \in DOMAIN p : k \in DOMAIN q \/ k = Len(q) + 1
      BY <2>1
    <2>3. Len(q) + 1 \in DOMAIN p
      BY <2>1
    <2>4. p # <<>> /\ (q # <<>> => Head(p) = Head(q))
      <3>1. Len(q) \in Nat /\ Len(p) = Len(q) + 1 /\ (q # <<>> => 1 \in DOMAIN q /\ Head(q) = q[1])
        OBVIOUS
      <3>2. p # <<>> => Head(p) = p[1]
        BY <2>1
      <3> HIDE DEF p
      <3>3. p # <<>>
        BY <3>1
      <3>4. QED
        BY <2>1, <3>1, <3>2, <3>3
    <2> HIDE DEF p
    <2>5. AlertsOf(p) = AlertsOf(q) \cup {m.alert}
      BY <2>1, <2>2, <2>3 DEF AlertsOf
    <2>6. QED
      BY <2>1, <2>4, <2>5 DEF p
  <1>2. ASSUME NEW p \in Seq(Message)
        PROVE  p \o q \in Seq(Message) /\ AlertsOf(q) \subseteq AlertsOf(p \o q)
    <2> DEFINE c == p \o q
    <2>1. c \in Seq(Message) /\ DOMAIN c = 1..(Len(p) + Len(q))
          /\ \A k \in DOMAIN q : k + Len(p) \in DOMAIN c /\ c[k + Len(p)] = q[k]
      OBVIOUS
    <2> HIDE DEF c
    <2>2. AlertsOf(q) \subseteq AlertsOf(c)
      BY <2>1 DEF AlertsOf
    <2>3. QED
      BY <2>1, <2>2 DEF c
  <1>3. ASSUME q # <<>>
        PROVE  /\ Tail(q) \in Seq(Message) /\ Head(q) \in Message
               /\ AlertsOf(q) = AlertsOf(Tail(q)) \cup {Head(q).alert}
               /\ Head(q) = q[1] /\ 1 \in DOMAIN q
    <2> DEFINE t == Tail(q)
    <2>1. t \in Seq(Message) /\ Head(q) = q[1] /\ 1 \in DOMAIN q /\ Head(q) \in Message
          /\ \A k \in DOMAIN t : k + 1 \in DOMAIN q /\ t[k] = q[k + 1]
      BY <1>3
    <2>2. \A k \in DOMAIN q : k = 1 \/ (k - 1 \in DOMAIN t /\ t[k - 1] = q[k])
      BY <1>3
    <2> HIDE DEF t
    <2>3. AlertsOf(q) = AlertsOf(t) \cup {Head(q).alert}
      BY <2>1, <2>2 DEF AlertsOf
    <2>4. QED
      BY <2>1, <2>3 DEF t
  <1>4. QED
    BY <1>1, <1>2, <1>3

\* Appending, taking the first message and putting messages back keep them
\* in their partition.
LEMMA RoutedQueues ==
    ASSUME NEW w \in Workers, NEW q \in Seq(Message), Routed(q, w)
    PROVE  /\ \A m \in Message : PartitionOf[m.alert.service] = w => Routed(Append(q, m), w)
           /\ \A p \in Seq(Message) : Routed(p, w) => Routed(p \o q, w)
           /\ q # <<>> => Routed(Tail(q), w) /\ Routed(<<Head(q)>>, w)
                          /\ PartitionOf[Head(q).alert.service] = w
           /\ Routed(<<>>, w)
  <1>1. ASSUME NEW m \in Message, PartitionOf[m.alert.service] = w PROVE Routed(Append(q, m), w)
    BY <1>1 DEF Routed
  <1>2. ASSUME NEW p \in Seq(Message), Routed(p, w) PROVE Routed(p \o q, w)
    BY <1>2 DEF Routed
  <1>3. ASSUME q # <<>>
        PROVE  Routed(Tail(q), w) /\ Routed(<<Head(q)>>, w) /\ PartitionOf[Head(q).alert.service] = w
    <2>1. Head(q) = q[1] /\ 1 \in DOMAIN q
      BY <1>3, Queues
    <2>2. PartitionOf[Head(q).alert.service] = w
      BY <2>1 DEF Routed
    <2>3. \A k \in DOMAIN Tail(q) : k + 1 \in DOMAIN q /\ Tail(q)[k] = q[k + 1]
      BY <1>3
    <2>4. QED
      BY <2>2, <2>3 DEF Routed
  <1>4. Routed(<<>>, w)
    BY DEF Routed
  <1>5. QED
    BY <1>1, <1>2, <1>3, <1>4

\* Alerts waiting, in terms of queues.
LEMMA WaitingIs == WaitingAlerts = UNION {AlertsOf(topic[w]) : w \in Workers}
  BY DEF WaitingAlerts, AlertsOf

\* The bounds of ages.
LEMMA Caps == AgeCap \in Nat /\ QuietCap \in Nat /\ MaxLag \in Nat /\ Window \in Nat
              /\ Quiet \in Nat /\ AgeCap = Window + MaxLag + 1 /\ QuietCap = Quiet + 1
  BY IncidentConstants DEF AgeCap, QuietCap

\* What the rest of the proof uses of the types.
LEMMA Typed ==
    ASSUME IncIInv
    PROVE  /\ \A w \in Workers : /\ topic[w] \in Seq(Message) /\ marked[w] \in Seq(Message)
                                 /\ worker[w] \in Place
                                 /\ Routed(topic[w], w) /\ Routed(marked[w], w)
           /\ Len(incidents) \in Nat /\ Ids = 1..Len(incidents) /\ DOMAIN lastAlert = Ids
           /\ \A i \in Ids : incidents[i] \in Row /\ lastAlert[i] \in 0..QuietCap
  <1>1. Shapes /\ TopicOK /\ Len(lastAlert) = Len(incidents)
    BY DEF IncIInv, RowsOK
  <1>2. \A w \in Workers : /\ topic[w] \in Seq(Message) /\ marked[w] \in Seq(Message)
                            /\ worker[w] \in Place
                            /\ Routed(topic[w], w) /\ Routed(marked[w], w)
    BY <1>1 DEF Shapes, TopicOK
  <1>3. incidents \in Seq(Row) /\ lastAlert \in Seq(0..QuietCap)
    BY <1>1 DEF Shapes
  <1>4. Len(incidents) \in Nat /\ Ids = 1..Len(incidents) /\ DOMAIN lastAlert = Ids
    BY <1>1, <1>3 DEF Ids
  <1>5. \A i \in Ids : incidents[i] \in Row /\ lastAlert[i] \in 0..QuietCap
    <2>1. \A i \in 1..Len(incidents) : incidents[i] \in Row
      BY <1>3
    <2> DEFINE ages == 0..QuietCap
    <2>2. \A i \in 1..Len(incidents) : lastAlert[i] \in ages
      <3>1. lastAlert \in Seq(ages)
        BY <1>3
      <3> HIDE DEF ages
      <3>2. \A i \in 1..Len(lastAlert) : lastAlert[i] \in ages
        BY <3>1
      <3>3. QED
        BY <1>1, <3>2
    <2>3. QED
      BY <1>4, <2>1, <2>2
  <1>6. QED
    BY <1>2, <1>4, <1>5

\* The rows of a step that touches no row.
LEMMA SameRows ==
    ASSUME IncIInv, UNCHANGED <<incidents, lastAlert>>
    PROVE  RowsOK'
  BY DEF IncIInv, RowsOK, Ids

\* A failure is counted.
LEMMA FailCounted ==
    ASSUME IncIInv, NEW kind \in DOMAIN FailureBound, Fail(kind)
    PROVE  /\ failures' \in [DOMAIN FailureBound -> Nat]
           /\ failures'[kind] # 0
           /\ \A k \in DOMAIN FailureBound : failures'[k] = 0 => failures[k] = 0
  BY DEF IncIInv, Shapes, Fail

\* An alert is published.
LEMMA FireKeeps == ASSUME IncIInv, NEW a \in Alerts, Fire(a) PROVE IncIInv'
  <1> DEFINE v == PartitionOf[a.service]
             m == [alert |-> a, age |-> 0]
  <1>1. /\ fired' = fired \cup {a} /\ topic' = [topic EXCEPT ![v] = Append(topic[v], m)]
        /\ UNCHANGED <<marked, worker, incidents, inflight, sweeping, mq, resolves, lastAlert,
                       dropped, failures>>
    BY DEF Fire
  <1>2. m \in Message /\ v \in Workers /\ m.alert = a
    BY Caps, IncidentConstants DEF Message
  <1> HIDE DEF m, v
  <1>3. \A w \in Workers : topic[w] \in Seq(Message) /\ Routed(topic[w], w)
    BY Typed
  <1>4. \A w \in Workers :
            /\ topic'[w] \in Seq(Message) /\ Routed(topic'[w], w)
            /\ AlertsOf(topic[w]) \subseteq AlertsOf(topic'[w])
            /\ topic[w] # <<>> => topic'[w] # <<>> /\ Head(topic'[w]) = Head(topic[w])
    <2>1. SUFFICES ASSUME NEW w \in Workers
                   PROVE  /\ topic'[w] \in Seq(Message) /\ Routed(topic'[w], w)
                          /\ AlertsOf(topic[w]) \subseteq AlertsOf(topic'[w])
                          /\ topic[w] # <<>> => topic'[w] # <<>> /\ Head(topic'[w]) = Head(topic[w])
      OBVIOUS
    <2>2. CASE w = v
      <3>1. topic'[w] = Append(topic[w], m)
        BY <1>1, <2>2 DEF IncIInv, Shapes
      <3>2. PartitionOf[m.alert.service] = w
        BY <1>2, <2>2 DEF v
      <3>3. topic[w] \in Seq(Message) /\ Routed(topic[w], w)
        BY <1>3
      <3>4. Routed(Append(topic[w], m), w)
        <4>1. \A x \in Message : PartitionOf[x.alert.service] = w => Routed(Append(topic[w], x), w)
          BY <3>3, RoutedQueues
        <4>2. QED
          BY <1>2, <3>2, <4>1
      <3>5. /\ Append(topic[w], m) \in Seq(Message) /\ Append(topic[w], m) # <<>>
            /\ AlertsOf(Append(topic[w], m)) = AlertsOf(topic[w]) \cup {m.alert}
            /\ topic[w] # <<>> => Head(Append(topic[w], m)) = Head(topic[w])
        BY <1>2, <3>3, Queues
      <3>6. QED
        BY <3>1, <3>4, <3>5
    <2>3. CASE w # v
      BY <1>1, <1>3, <2>3 DEF IncIInv, Shapes
    <2>4. QED
      BY <2>2, <2>3
  <1>5. a \in AlertsOf(topic'[v])
    <2>1. topic'[v] = Append(topic[v], m)
      BY <1>1, <1>2 DEF IncIInv, Shapes
    <2>2. QED
      BY <1>2, <1>3, <2>1, Queues
  <1>6. Shapes'
    <2>1. topic' \in [Workers -> Seq(Message)]
      BY <1>1, <1>4 DEF IncIInv, Shapes
    <2>2. fired' \subseteq Alerts
      BY <1>1 DEF IncIInv, Shapes
    <2>3. QED
      BY <1>1, <2>1, <2>2 DEF IncIInv, Shapes, PossibleIds, FailureBound
  <1>7. TopicOK'
    BY <1>1, <1>4 DEF IncIInv, TopicOK
  <1>8. WorkersOK'
    BY <1>1, <1>4 DEF IncIInv, WorkersOK, Ids
  <1>9. LookupsOK'
    BY <1>1, <1>4 DEF IncIInv, LookupsOK, WorkersOK, Ids
  <1>10. NoAlertLost'
    <2>1. WaitingAlerts' = UNION {AlertsOf(topic'[w]) : w \in Workers}
      BY DEF WaitingAlerts, AlertsOf
    <2>2. LinkedAlerts' = LinkedAlerts /\ dropped' = dropped
      BY <1>1 DEF LinkedAlerts, Ids
    <2>3. WaitingAlerts \cup {a} \subseteq WaitingAlerts'
      BY <1>2, <1>4, <1>5, <2>1, WaitingIs
    <2>4. QED
      BY <1>1, <2>2, <2>3 DEF IncIInv, NoAlertLost
  <1>11. RowsOK' /\ AnalysesOK' /\ SweepsOK' /\ OneIncidentPerService'
    BY <1>1 DEF IncIInv, RowsOK, AnalysesOK, SweepsOK, OneIncidentPerService, Ids, PossibleIds
  <1>12. QED
    BY <1>6, <1>7, <1>8, <1>9, <1>10, <1>11 DEF IncIInv

\* The lookup: what it finds is an incident; if it finds none, there is none.
LEMMA LookupKeeps == ASSUME IncIInv, NEW w \in Workers, Lookup(w) PROVE IncIInv'
  <1> DEFINE m == Head(topic[w])
             self == {m.alert.service}
  <1>1. /\ worker[w].pc = "idle" /\ topic[w] # <<>>
        /\ UNCHANGED <<fired, topic, marked, incidents, inflight, sweeping, mq, resolves,
                       lastAlert, dropped>>
    BY DEF Lookup
  <1>2. PICK i : /\ worker' = [worker EXCEPT ![w] = [pc |-> "upsert", incident |-> i, built |-> 0]]
                 /\ i \in Ids \cup {0}
                 /\ \/ /\ failures' = failures
                       /\ i = 0 => \A j \in Ids :
                              /\ incidents[j].status = "OPEN"
                              /\ \E a \in incidents[j].alerts : a.service = m.alert.service
                              => ~ InWindow(j, m.age)
                    \/ Fail("queries")
    <2>1. CASE \E services \in {self, self \cup Upstream[m.alert.service]} :
                   LET found == OpenByWindow(services, m.age) IN
                   \E i \in IF found = {} THEN {0} ELSE Newest(found) :
                       worker' = [worker EXCEPT ![w] = [pc |-> "upsert", incident |-> i, built |-> 0]]
               /\ UNCHANGED failures
      <3>1. PICK services \in {self, self \cup Upstream[m.alert.service]} :
                   \E i \in IF OpenByWindow(services, m.age) = {} THEN {0}
                            ELSE Newest(OpenByWindow(services, m.age)) :
                       worker' = [worker EXCEPT ![w] = [pc |-> "upsert", incident |-> i, built |-> 0]]
        BY <2>1
      <3> DEFINE found == OpenByWindow(services, m.age)
      <3>2. PICK i \in IF found = {} THEN {0} ELSE Newest(found) :
                worker' = [worker EXCEPT ![w] = [pc |-> "upsert", incident |-> i, built |-> 0]]
        BY <3>1
      <3>3. Newest(found) \subseteq Ids
        BY DEF Newest, OpenByWindow
      <3>4. 0 \notin Ids
        BY Typed
      <3>5. m.alert.service \in services
        OBVIOUS
      <3>6. i = 0 => found = {}
        BY <3>3, <3>4
      <3>7. found = {} => \A j \in Ids :
                              /\ incidents[j].status = "OPEN"
                              /\ \E a \in incidents[j].alerts : a.service = m.alert.service
                              => ~ InWindow(j, m.age)
        BY <3>5 DEF OpenByWindow
      <3>8. i \in Ids \cup {0}
        BY <3>3
      <3>9. QED
        BY <2>1, <3>2, <3>6, <3>7, <3>8
    <2>2. CASE /\ Fail("queries")
               /\ worker' = [worker EXCEPT ![w] = [pc |-> "upsert", incident |-> 0, built |-> 0]]
      BY <2>2
    <2>3. QED
      BY <2>1, <2>2 DEF Lookup
  <1>3. m \in Message /\ m.age \in Nat /\ i \in Nat
    <2>1. topic[w] \in Seq(Message) /\ Len(incidents) \in Nat /\ Ids = 1..Len(incidents)
      BY Typed
    <2>2. m \in Message
      BY <1>1, <2>1, Queues
    <2>3. i \in Nat
      BY <1>2, <2>1
    <2>4. m.age \in Nat
      BY <2>2, Caps DEF Message
    <2>5. QED
      BY <2>2, <2>3, <2>4
  <1>4. failures' \in [DOMAIN FailureBound -> Nat]
        /\ (failures'.queries = 0 => failures' = failures)
    <2>1. CASE failures' = failures
      BY <2>1 DEF IncIInv, Shapes
    <2>2. CASE Fail("queries")
      BY <2>2, FailCounted DEF FailureBound
    <2>3. QED
      BY <1>2, <2>1, <2>2
  <1>5. /\ worker' \in [Workers -> Place]
        /\ worker'[w] = [pc |-> "upsert", incident |-> i, built |-> 0]
        /\ \A u \in Workers : u # w => worker'[u] = worker[u]
    BY <1>2, <1>3, Caps DEF IncIInv, Shapes, Place
  <1>6. Shapes'
    BY <1>1, <1>4, <1>5 DEF IncIInv, Shapes, PossibleIds, FailureBound
  <1>7. WorkersOK'
    <2>1. WorkersOK
      BY DEF IncIInv
    <2>2. SUFFICES ASSUME NEW u \in Workers
                   PROVE  /\ worker'[u].pc # "idle" => topic[u] # <<>>
                          /\ worker'[u].pc = "upsert" => worker'[u].incident \in Ids \cup {0}
                          /\ worker'[u].pc \in {"notify", "schedule"} =>
                               /\ worker'[u].incident \in Ids
                               /\ Head(topic[u]).alert \in incidents[worker'[u].incident].alerts
      BY <1>1 DEF WorkersOK, Ids
    <2>3. CASE u = w
      BY <1>1, <1>2, <1>5, <2>3
    <2>4. CASE u # w
      BY <1>5, <2>1, <2>4 DEF WorkersOK
    <2>5. QED
      BY <2>3, <2>4
  <1>8. LookupsOK'
    <2>1. SUFFICES ASSUME failures'.queries = 0, NEW u \in Workers,
                          worker'[u].pc = "upsert", worker'[u].incident = 0,
                          NEW j \in Ids, incidents[j].status = "OPEN",
                          \E a \in incidents[j].alerts : a.service = Head(topic[u]).alert.service
                   PROVE  incidents[j].age > Head(topic[u]).age + Window
      BY <1>1 DEF LookupsOK, Ids
    <2>2. CASE u = w
      <3>1. i = 0 /\ failures'.queries = 0
        BY <1>5, <2>1, <2>2
      <3>2. ~ Fail("queries")
        BY <3>1, FailCounted DEF FailureBound
      <3>3. ~ InWindow(j, m.age)
        BY <1>2, <2>1, <2>2, <3>1, <3>2
      <3>4. incidents[j].age \in Nat /\ Window \in Nat
        BY Typed, Caps DEF Row
      <3>5. QED
        BY <1>3, <2>2, <3>3, <3>4 DEF InWindow
    <2>3. CASE u # w
      BY <1>4, <1>5, <2>1, <2>3 DEF IncIInv, LookupsOK
    <2>4. QED
      BY <2>2, <2>3
  <1>9. OneIncidentPerService'
    BY <1>1, <1>4 DEF IncIInv, OneIncidentPerService, Ids
  <1>10. TopicOK' /\ RowsOK' /\ AnalysesOK' /\ SweepsOK' /\ NoAlertLost'
    BY <1>1 DEF IncIInv, TopicOK, RowsOK, AnalysesOK, SweepsOK, Ids, PossibleIds,
                NoAlertLost, WaitingAlerts, LinkedAlerts
  <1>11. QED
    BY <1>6, <1>7, <1>8, <1>9, <1>10 DEF IncIInv
-----------------------------------------------------------------------------
(* Steps that write rows *)

\* What every write to a row keeps: when it started, its alerts, and that it
\* is resolved.
Keeps(r, s) ==
    /\ s.age = r.age /\ r.alerts \subseteq s.alerts
    /\ r.status = "RESOLVED" => s.status = "RESOLVED"
    /\ s.status = "OPEN" => r.status = "OPEN"

Evolves(rows, new) ==
    /\ DOMAIN rows \subseteq DOMAIN new
    /\ \A i \in DOMAIN rows : Keeps(rows[i], new[i])

\* Two open incidents were as open, as far apart and of as few services before.
LEMMA EvolvedPairs ==
    ASSUME IncIInv, Ids' = Ids, Evolves(incidents, incidents'),
           failures'.queries = 0 => failures.queries = 0
    PROVE  OneIncidentPerService'
  <1>1. SUFFICES ASSUME failures'.queries = 0, NEW i \in Ids, NEW j \in Ids, i # j,
                        incidents'[i].status = "OPEN", incidents'[j].status = "OPEN",
                        incidents'[i].age < AgeCap, incidents'[j].age < AgeCap,
                        NEW s \in Services,
                        \A a \in incidents'[i].alerts \cup incidents'[j].alerts : a.service = s
                 PROVE  \/ incidents'[i].age > incidents'[j].age + Window
                        \/ incidents'[j].age > incidents'[i].age + Window
    BY DEF OneIncidentPerService, AgeCap
  <1>2. Keeps(incidents[i], incidents'[i]) /\ Keeps(incidents[j], incidents'[j])
    BY DEF Evolves, Ids
  <1>3. \A a \in incidents[i].alerts \cup incidents[j].alerts : a.service = s
    BY <1>1, <1>2 DEF Keeps
  <1>4. QED
    BY <1>1, <1>2, <1>3 DEF Keeps, IncIInv, OneIncidentPerService

\* No link is removed.
LEMMA EvolvedLinks ==
    ASSUME Evolves(incidents, incidents')
    PROVE  LinkedAlerts \subseteq LinkedAlerts'
  BY DEF Evolves, Keeps, LinkedAlerts, Ids

\* What sweepers have to announce stays resolved.
LEMMA EvolvedSweeps ==
    ASSUME IncIInv, Evolves(incidents, incidents'), UNCHANGED <<sweeping, resolves>>
    PROVE  SweepsOK'
  <1>1. \A i \in Ids : i \in Ids' /\ (incidents[i].status = "RESOLVED" => incidents'[i].status = "RESOLVED")
    BY DEF Evolves, Keeps, Ids
  <1>2. PossibleIds' = PossibleIds /\ SweepsOK
    BY DEF PossibleIds, IncIInv
  <1>3. QED
    BY <1>1, <1>2 DEF SweepsOK

\* What analyses have seen stays linked.
LEMMA EvolvedAnalyses ==
    ASSUME IncIInv, Evolves(incidents, incidents'), inflight' \subseteq inflight
    PROVE  AnalysesOK'
  <1>1. \A i \in Ids : i \in Ids' /\ incidents[i].alerts \subseteq incidents'[i].alerts
    BY DEF Evolves, Keeps, Ids
  <1>2. QED
    BY <1>1 DEF IncIInv, AnalysesOK

\* A worker that stays where it is, at the same message, stays right.
LEMMA EvolvedWorkers ==
    ASSUME IncIInv, Evolves(incidents, incidents'), NEW u \in Workers,
           worker'[u] = worker[u], topic'[u] = topic[u]
    PROVE  /\ worker'[u].pc # "idle" => topic'[u] # <<>>
           /\ worker'[u].pc = "upsert" => worker'[u].incident \in Ids' \cup {0}
           /\ worker'[u].pc \in {"notify", "schedule"} =>
                  /\ worker'[u].incident \in Ids'
                  /\ Head(topic'[u]).alert \in incidents'[worker'[u].incident].alerts
  <1>1. \A i \in Ids : i \in Ids' /\ incidents[i].alerts \subseteq incidents'[i].alerts
    BY DEF Evolves, Keeps, Ids
  <1>2. QED
    BY <1>1 DEF IncIInv, WorkersOK

\* Rows that are not written.
LEMMA SameEvolve == ASSUME incidents' = incidents PROVE Evolves(incidents, incidents')
  BY DEF Evolves, Keeps

\* What a worker is at, once it has looked up.
LEMMA AtUpsert ==
    ASSUME IncIInv, NEW w \in Workers, worker[w].pc = "upsert"
    PROVE  /\ topic[w] \in Seq(Message) /\ topic[w] # <<>> /\ Head(topic[w]) \in Message
           /\ PartitionOf[Head(topic[w]).alert.service] = w
           /\ worker[w] \in Place /\ worker[w].incident \in Ids \cup {0}
  <1>1. topic[w] \in Seq(Message) /\ worker[w] \in Place /\ Routed(topic[w], w)
    BY Typed
  <1>2. topic[w] # <<>> /\ worker[w].incident \in Ids \cup {0}
    BY DEF IncIInv, WorkersOK
  <1>3. Head(topic[w]) \in Message
    BY <1>1, <1>2, Queues
  <1>4. PartitionOf[Head(topic[w]).alert.service] = w
    BY <1>1, <1>2, RoutedQueues
  <1>5. QED
    BY <1>1, <1>2, <1>3, <1>4

\* Alerts that two workers handle are of two services.
LEMMA OwnServices ==
    ASSUME IncIInv, NEW w \in Workers, NEW u \in Workers, u # w,
           worker[w].pc = "upsert", worker[u].pc = "upsert"
    PROVE  Head(topic[w]).alert.service # Head(topic[u]).alert.service
  BY AtUpsert

\* The upsert of a new incident.
LEMMA OpenKeeps ==
    ASSUME IncIInv, NEW w \in Workers, Upsert(w), worker[w].incident = 0
    PROVE  IncIInv'
  <1> DEFINE m == Head(topic[w])
             n == Len(incidents) + 1
             built == worker[w].built
             row == NewIncident(m, built)
  <1>1. /\ worker[w].pc = "upsert"
        /\ incidents' = Append(incidents, row) /\ lastAlert' = Append(lastAlert, built)
        /\ worker' = [worker EXCEPT ![w].pc = "notify", ![w].incident = n]
        /\ UNCHANGED <<fired, topic, marked, inflight, sweeping, mq, resolves, dropped, failures>>
    BY DEF Upsert
  <1>2. m \in Message /\ worker[w] \in Place /\ topic[w] # <<>>
    BY <1>1, AtUpsert
  <1>3. Len(incidents) \in Nat /\ Ids = 1..Len(incidents) /\ Len(lastAlert) = Len(incidents)
        /\ incidents \in Seq(Row) /\ lastAlert \in Seq(0..QuietCap)
    BY Typed DEF IncIInv, RowsOK, Shapes
  <1>4. m.alert \in Alerts /\ m.age \in 0..MaxLag /\ built \in 0..QuietCap
    BY <1>2 DEF Message, Place
  <1>5. /\ row \in Row /\ row.alerts = {m.alert} /\ row.analyzed = {} /\ row.quiet = built
        /\ row.age = m.age /\ row.status = "OPEN"
    BY <1>4, Caps, IncidentConstants DEF NewIncident, Row
  <1>6. worker'[w] = [worker[w] EXCEPT !.pc = "notify", !.incident = n]
        /\ \A u \in Workers : u # w => worker'[u] = worker[u]
    BY <1>1 DEF IncIInv, Shapes
  <1>7. worker'[w].pc = "notify" /\ worker'[w].incident = n /\ worker' \in [Workers -> Place]
    <2>1. n \in Nat
      BY <1>3
    <2> HIDE DEF n, row, built, m
    <2>2. worker'[w].pc = "notify" /\ worker'[w].incident = n /\ worker'[w] \in Place
      BY <1>2, <1>6, <2>1 DEF Place
    <2>3. worker' \in [Workers -> Place]
      BY <1>1, <1>6, <2>2 DEF IncIInv, Shapes
    <2>4. QED
      BY <2>2, <2>3
  <1> HIDE DEF row, built, m
  <1>8. /\ incidents' \in Seq(Row) /\ Ids' = Ids \cup {n} /\ n \notin Ids /\ incidents'[n] = row
        /\ \A i \in Ids : incidents'[i] = incidents[i]
    BY <1>1, <1>3, <1>5 DEF Ids
  <1>9. /\ lastAlert' \in Seq(0..QuietCap) /\ Len(lastAlert') = Len(incidents') /\ lastAlert'[n] = built
        /\ \A i \in Ids : lastAlert'[i] = lastAlert[i]
    BY <1>1, <1>3, <1>4, <1>5
  <1>10. Evolves(incidents, incidents')
    BY <1>8 DEF Evolves, Keeps, Ids
  <1>11. Shapes'
    BY <1>1, <1>7, <1>8, <1>9 DEF IncIInv, Shapes, PossibleIds, FailureBound
  <1>12. TopicOK'
    BY <1>1 DEF IncIInv, TopicOK
  <1>13. RowsOK'
    <2>1. RowsOK
      BY DEF IncIInv
    <2>2. SUFFICES ASSUME NEW i \in Ids'
                   PROVE  /\ incidents'[i].alerts # {}
                          /\ incidents'[i].analyzed \subseteq incidents'[i].alerts
                          /\ incidents'[i].quiet <= lastAlert'[i]
      BY <1>9 DEF RowsOK
    <2>3. CASE i = n
      <3>1. incidents'[i] = row /\ lastAlert'[i] = built
        BY <1>8, <1>9, <2>3
      <3>2. built <= built
        BY <1>4, Caps
      <3>3. QED
        BY <1>5, <3>1, <3>2
    <2>4. CASE i # n
      <3>1. i \in Ids /\ incidents'[i] = incidents[i] /\ lastAlert'[i] = lastAlert[i]
        BY <1>8, <1>9, <2>4
      <3>2. QED
        BY <2>1, <3>1 DEF RowsOK
    <2>5. QED
      BY <2>3, <2>4
  <1>14. WorkersOK'
    <2>1. SUFFICES ASSUME NEW u \in Workers
                   PROVE  /\ worker'[u].pc # "idle" => topic'[u] # <<>>
                          /\ worker'[u].pc = "upsert" => worker'[u].incident \in Ids' \cup {0}
                          /\ worker'[u].pc \in {"notify", "schedule"} =>
                               /\ worker'[u].incident \in Ids'
                               /\ Head(topic'[u]).alert \in incidents'[worker'[u].incident].alerts
      BY DEF WorkersOK
    <2>2. CASE u = w
      <3>1. topic'[w] = topic[w] /\ n \in Ids' /\ incidents'[n].alerts = {m.alert}
        BY <1>1, <1>5, <1>8
      <3>2. QED
        BY <1>2, <1>7, <2>2, <3>1 DEF m
    <2>3. CASE u # w
      BY <1>1, <1>6, <1>10, <2>3, EvolvedWorkers
    <2>4. QED
      BY <2>2, <2>3
  <1>15. AnalysesOK' /\ SweepsOK'
    BY <1>1, <1>10, EvolvedAnalyses, EvolvedSweeps
  <1>16. NoAlertLost'
    BY <1>1, <1>10, EvolvedLinks DEF IncIInv, NoAlertLost, WaitingAlerts
  <1>17. LookupsOK'
    <2>1. SUFFICES ASSUME failures.queries = 0, NEW u \in Workers,
                          worker'[u].pc = "upsert", worker'[u].incident = 0,
                          NEW j \in Ids', incidents'[j].status = "OPEN",
                          NEW a \in incidents'[j].alerts, a.service = Head(topic[u]).alert.service
                   PROVE  incidents'[j].age > Head(topic[u]).age + Window
      BY <1>1 DEF LookupsOK
    <2>2. u # w /\ worker[u] = worker'[u]
      BY <1>6, <1>7, <2>1
    <2>3. Head(topic[w]).alert.service # Head(topic[u]).alert.service
      BY <1>1, <2>1, <2>2, OwnServices
    <2>4. j # n
      BY <1>5, <1>8, <2>1, <2>3 DEF m
    <2>5. j \in Ids /\ incidents'[j] = incidents[j]
      BY <1>8, <2>4
    <2>6. QED
      BY <2>1, <2>2, <2>5 DEF IncIInv, LookupsOK
  <1>18. OneIncidentPerService'
    <2>1. ASSUME failures.queries = 0, NEW j \in Ids, incidents[j].status = "OPEN",
                 NEW s \in Services, s = m.alert.service,
                 \A a \in incidents[j].alerts : a.service = s
          PROVE  incidents[j].age > m.age + Window
      <3>1. \E a \in incidents[j].alerts : a.service = m.alert.service
        BY <2>1 DEF IncIInv, RowsOK
      <3>2. QED
        BY <1>1, <2>1, <3>1 DEF IncIInv, LookupsOK, m
    <2>2. SUFFICES ASSUME failures.queries = 0, NEW i \in Ids', NEW j \in Ids', i # j,
                          incidents'[i].status = "OPEN", incidents'[j].status = "OPEN",
                          incidents'[i].age < AgeCap, incidents'[j].age < AgeCap,
                          NEW s \in Services,
                          \A a \in incidents'[i].alerts \cup incidents'[j].alerts : a.service = s
                   PROVE  \/ incidents'[i].age > incidents'[j].age + Window
                          \/ incidents'[j].age > incidents'[i].age + Window
      BY <1>1 DEF OneIncidentPerService, AgeCap
    <2>3. CASE i \in Ids /\ j \in Ids
      BY <1>8, <2>2, <2>3 DEF IncIInv, OneIncidentPerService
    <2>4. CASE i = n
      <3>1. j \in Ids /\ incidents'[j] = incidents[j] /\ incidents'[i] = row
        BY <1>8, <2>2, <2>4
      <3>2. QED
        BY <1>5, <2>1, <2>2, <3>1
    <2>5. CASE j = n
      <3>1. i \in Ids /\ incidents'[i] = incidents[i] /\ incidents'[j] = row
        BY <1>8, <2>2, <2>5
      <3>2. QED
        BY <1>5, <2>1, <2>2, <3>1
    <2>6. QED
      BY <1>8, <2>3, <2>4, <2>5
  <1>19. QED
    BY <1>11, <1>12, <1>13, <1>14, <1>15, <1>16, <1>17, <1>18 DEF IncIInv

\* A row an alert joins.
LEMMA JoinedRow ==
    ASSUME NEW r \in Row, NEW a \in Alerts
    PROVE  /\ Joined(r, a) \in Row /\ Joined(r, a).alerts = r.alerts \cup {a}
           /\ Joined(r, a).analyzed = r.analyzed /\ Joined(r, a).quiet = 0
           /\ Joined(r, a).age = r.age /\ Joined(r, a).status = r.status
  <1>1. /\ r.count + 1 \in Nat /\ 0 \in 0..QuietCap /\ r.alerts \cup {a} \in SUBSET Alerts
    BY Caps DEF Row
  <1>2. Joined(r, a).alerts = r.alerts \cup {a} /\ Joined(r, a).analyzed = r.analyzed
    BY DEF Joined, Row
  <1>3. Joined(r, a).quiet = 0 /\ Joined(r, a).age = r.age /\ Joined(r, a).status = r.status
    BY DEF Joined, Row
  <1>4. Joined(r, a) \in Row
    BY <1>1 DEF Joined, Row
  <1>5. QED
    BY <1>2, <1>3, <1>4

\* The upsert of an incident the lookup found, resolved since or not.
LEMMA JoinKeeps ==
    ASSUME IncIInv, NEW w \in Workers, Upsert(w), worker[w].incident # 0
    PROVE  IncIInv'
  <1> DEFINE m == Head(topic[w])
             i == worker[w].incident
             row == Joined(incidents[i], m.alert)
  <1>1. /\ worker[w].pc = "upsert"
        /\ incidents' = [incidents EXCEPT ![i] = row] /\ lastAlert' = [lastAlert EXCEPT ![i] = 0]
        /\ worker' = [worker EXCEPT ![w].pc = "notify", ![w].incident = i]
        /\ UNCHANGED <<fired, topic, marked, inflight, sweeping, mq, resolves, dropped, failures>>
    BY DEF Upsert
  <1>2. m \in Message /\ worker[w] \in Place /\ topic[w] # <<>> /\ i \in Ids
    BY <1>1, AtUpsert
  <1>3. Len(incidents) \in Nat /\ Ids = 1..Len(incidents) /\ Len(lastAlert) = Len(incidents)
        /\ incidents \in Seq(Row) /\ lastAlert \in Seq(0..QuietCap) /\ incidents[i] \in Row
    BY <1>2, Typed DEF IncIInv, RowsOK, Shapes
  <1>4. m.alert \in Alerts
    BY <1>2 DEF Message
  <1>5. /\ row \in Row /\ row.alerts = incidents[i].alerts \cup {m.alert}
        /\ row.analyzed = incidents[i].analyzed /\ row.quiet = 0
        /\ row.age = incidents[i].age /\ row.status = incidents[i].status
    BY <1>3, <1>4, JoinedRow
  <1>6. worker'[w] = [worker[w] EXCEPT !.pc = "notify", !.incident = i]
        /\ \A u \in Workers : u # w => worker'[u] = worker[u]
    BY <1>1 DEF IncIInv, Shapes
  <1>7. worker'[w].pc = "notify" /\ worker'[w].incident = i /\ worker' \in [Workers -> Place]
    <2>1. i \in Nat
      BY <1>2, <1>3
    <2> HIDE DEF i, row, m
    <2>2. worker'[w].pc = "notify" /\ worker'[w].incident = i /\ worker'[w] \in Place
      BY <1>2, <1>6, <2>1 DEF Place
    <2>3. worker' \in [Workers -> Place]
      BY <1>1, <1>6, <2>2 DEF IncIInv, Shapes
    <2>4. QED
      BY <2>2, <2>3
  <1> HIDE DEF row, m, i
  <1>8. /\ incidents' \in Seq(Row) /\ Ids' = Ids /\ incidents'[i] = row
        /\ \A j \in Ids : j # i => incidents'[j] = incidents[j]
    BY <1>1, <1>2, <1>3, <1>5 DEF Ids
  <1>9. /\ lastAlert' \in Seq(0..QuietCap) /\ Len(lastAlert') = Len(incidents') /\ lastAlert'[i] = 0
        /\ \A j \in Ids : j # i => lastAlert'[j] = lastAlert[j]
    <2>1. 0 \in 0..QuietCap
      BY Caps
    <2> DEFINE ages == 0..QuietCap
    <2>2. lastAlert \in Seq(ages) /\ 0 \in ages
      BY <1>3, <2>1
    <2> HIDE DEF ages
    <2>3. lastAlert' \in Seq(ages) /\ Len(lastAlert') = Len(incidents') /\ lastAlert'[i] = 0
          /\ \A j \in Ids : j # i => lastAlert'[j] = lastAlert[j]
      BY <1>1, <1>2, <1>3, <2>2
    <2>4. QED
      BY <2>3 DEF ages
  <1>10. Evolves(incidents, incidents')
    BY <1>2, <1>5, <1>8 DEF Evolves, Keeps, Ids
  <1>11. Shapes'
    BY <1>1, <1>7, <1>8, <1>9 DEF IncIInv, Shapes, PossibleIds, FailureBound
  <1>12. TopicOK'
    BY <1>1 DEF IncIInv, TopicOK
  <1>13. RowsOK'
    <2>1. RowsOK
      BY DEF IncIInv
    <2>2. SUFFICES ASSUME NEW j \in Ids
                   PROVE  /\ incidents'[j].alerts # {}
                          /\ incidents'[j].analyzed \subseteq incidents'[j].alerts
                          /\ incidents'[j].quiet <= lastAlert'[j]
      BY <1>8, <1>9 DEF RowsOK
    <2>3. CASE j = i
      <3>1. incidents'[j] = row /\ lastAlert'[j] = 0
        BY <1>8, <1>9, <2>3
      <3>2. incidents[i].analyzed \subseteq incidents[i].alerts
        BY <1>2, <2>1 DEF RowsOK
      <3>3. QED
        BY <1>5, <3>1, <3>2
    <2>4. CASE j # i
      <3>1. incidents'[j] = incidents[j] /\ lastAlert'[j] = lastAlert[j]
        BY <1>8, <1>9, <2>4
      <3>2. QED
        BY <2>1, <3>1 DEF RowsOK
    <2>5. QED
      BY <2>3, <2>4
  <1>14. WorkersOK'
    <2>1. SUFFICES ASSUME NEW u \in Workers
                   PROVE  /\ worker'[u].pc # "idle" => topic'[u] # <<>>
                          /\ worker'[u].pc = "upsert" => worker'[u].incident \in Ids' \cup {0}
                          /\ worker'[u].pc \in {"notify", "schedule"} =>
                               /\ worker'[u].incident \in Ids'
                               /\ Head(topic'[u]).alert \in incidents'[worker'[u].incident].alerts
      BY DEF WorkersOK
    <2>2. CASE u = w
      <3>1. topic'[w] = topic[w] /\ i \in Ids' /\ m.alert \in incidents'[i].alerts
        BY <1>1, <1>2, <1>5, <1>8
      <3>2. QED
        BY <1>2, <1>7, <2>2, <3>1 DEF m
    <2>3. CASE u # w
      BY <1>1, <1>6, <1>10, <2>3, EvolvedWorkers
    <2>4. QED
      BY <2>2, <2>3
  <1>15. AnalysesOK' /\ SweepsOK' /\ OneIncidentPerService'
    BY <1>1, <1>8, <1>10, EvolvedAnalyses, EvolvedSweeps, EvolvedPairs
  <1>16. NoAlertLost'
    BY <1>1, <1>10, EvolvedLinks DEF IncIInv, NoAlertLost, WaitingAlerts
  <1>17. LookupsOK'
    <2>1. SUFFICES ASSUME failures.queries = 0, NEW u \in Workers,
                          worker'[u].pc = "upsert", worker'[u].incident = 0,
                          NEW j \in Ids, incidents'[j].status = "OPEN",
                          NEW a \in incidents'[j].alerts, a.service = Head(topic[u]).alert.service
                   PROVE  incidents'[j].age > Head(topic[u]).age + Window
      BY <1>1, <1>8 DEF LookupsOK
    <2>2. u # w /\ worker[u] = worker'[u]
      BY <1>6, <1>7, <2>1
    <2>3. Head(topic[w]).alert.service # Head(topic[u]).alert.service
      BY <1>1, <2>1, <2>2, OwnServices
    <2>4. a # m.alert
      BY <2>1, <2>3 DEF m
    <2>5. a \in incidents[j].alerts /\ incidents[j].age = incidents'[j].age
          /\ incidents[j].status = "OPEN"
      BY <1>5, <1>8, <2>1, <2>4
    <2>6. QED
      BY <2>1, <2>2, <2>5 DEF IncIInv, LookupsOK
  <1>18. QED
    BY <1>11, <1>12, <1>13, <1>14, <1>15, <1>16, <1>17 DEF IncIInv

-----------------------------------------------------------------------------
(* The end of a handler *)

\* The consumer marks a message: it leaves the topic, the worker is free, and
\* every other alert waits as before.
LEMMA Marks ==
    ASSUME IncIInv, NEW w \in Workers, topic[w] # <<>>, Mark(w)
    PROVE  /\ topic' \in [Workers -> Seq(Message)] /\ marked' \in [Workers -> Seq(Message)]
           /\ worker' \in [Workers -> Place] /\ TopicOK'
           /\ worker'[w].pc = "idle"
           /\ \A u \in Workers : u # w => worker'[u] = worker[u] /\ topic'[u] = topic[u]
           /\ WaitingAlerts \subseteq WaitingAlerts' \cup {Head(topic[w]).alert}
  <1>1. topic[w] \in Seq(Message) /\ Routed(topic[w], w)
        /\ topic \in [Workers -> Seq(Message)] /\ marked \in [Workers -> Seq(Message)]
        /\ worker \in [Workers -> Place]
    BY Typed DEF IncIInv, Shapes
  <1>2. Tail(topic[w]) \in Seq(Message) /\ Head(topic[w]) \in Message
        /\ AlertsOf(topic[w]) = AlertsOf(Tail(topic[w])) \cup {Head(topic[w]).alert}
    BY <1>1, Queues
  <1>3. Routed(Tail(topic[w]), w) /\ Routed(<<Head(topic[w])>>, w)
    BY <1>1, RoutedQueues
  <1>4. <<Head(topic[w])>> \in Seq(Message)
    BY <1>2
  <1>5. Free \in Place /\ Free.pc = "idle"
    BY Caps DEF Free, Place
  <1>6. /\ topic' = [topic EXCEPT ![w] = Tail(topic[w])]
        /\ marked' = [marked EXCEPT ![w] = <<Head(topic[w])>>]
        /\ worker' = [worker EXCEPT ![w] = Free]
    BY DEF Mark
  <1>7. /\ topic' \in [Workers -> Seq(Message)] /\ marked' \in [Workers -> Seq(Message)]
        /\ worker' \in [Workers -> Place] /\ worker'[w].pc = "idle"
        /\ topic'[w] = Tail(topic[w]) /\ marked'[w] = <<Head(topic[w])>>
        /\ \A u \in Workers : u # w => worker'[u] = worker[u] /\ topic'[u] = topic[u]
                                       /\ marked'[u] = marked[u]
    BY <1>1, <1>2, <1>4, <1>5, <1>6
  <1>8. TopicOK'
    BY <1>3, <1>7 DEF IncIInv, TopicOK
  <1>9. WaitingAlerts \subseteq WaitingAlerts' \cup {Head(topic[w]).alert}
    <2>1. WaitingAlerts' = UNION {AlertsOf(topic'[u]) : u \in Workers}
      BY DEF WaitingAlerts, AlertsOf
    <2>2. \A u \in Workers : AlertsOf(topic[u]) \subseteq AlertsOf(topic'[u]) \cup {Head(topic[w]).alert}
      BY <1>2, <1>7
    <2>3. QED
      BY <2>1, <2>2, WaitingIs
  <1>10. QED
    BY <1>7, <1>8, <1>9

\* A worker that is free asks nothing of the rows, and the others are as before.
LEMMA MarkedWorkers ==
    ASSUME IncIInv, NEW w \in Workers, topic[w] # <<>>, Mark(w), UNCHANGED incidents,
           failures'.queries = 0 => failures.queries = 0
    PROVE  WorkersOK' /\ LookupsOK'
  <1>1. worker'[w].pc = "idle"
        /\ \A u \in Workers : u # w => worker'[u] = worker[u] /\ topic'[u] = topic[u]
    BY Marks
  <1>2. WorkersOK'
    BY <1>1 DEF IncIInv, WorkersOK, Ids
  <1>3. LookupsOK'
    BY <1>1 DEF IncIInv, LookupsOK, Ids
  <1>4. QED
    BY <1>2, <1>3

\* The transaction fails: the alert is given up on.
LEMMA UpsertFailsKeeps == ASSUME IncIInv, NEW w \in Workers, UpsertFails(w) PROVE IncIInv'
  <1>1. /\ worker[w].pc = "upsert" /\ Fail("queries") /\ Mark(w)
        /\ dropped' = dropped \cup {Head(topic[w]).alert}
        /\ UNCHANGED <<fired, incidents, inflight, sweeping, mq, resolves, lastAlert>>
    BY DEF UpsertFails
  <1>2. topic[w] # <<>> /\ Head(topic[w]).alert \in Alerts
    BY <1>1, AtUpsert DEF Message
  <1>3. failures' \in [DOMAIN FailureBound -> Nat] /\ failures'.queries # 0
    BY <1>1, FailCounted DEF FailureBound
  <1>4. /\ topic' \in [Workers -> Seq(Message)] /\ marked' \in [Workers -> Seq(Message)]
        /\ worker' \in [Workers -> Place] /\ TopicOK'
        /\ WaitingAlerts \subseteq WaitingAlerts' \cup {Head(topic[w]).alert}
    BY <1>1, <1>2, Marks
  <1>5. WorkersOK' /\ LookupsOK'
    BY <1>1, <1>2, <1>3, MarkedWorkers
  <1>6. Evolves(incidents, incidents') /\ Ids' = Ids
    BY <1>1, SameEvolve DEF Ids
  <1>7. AnalysesOK' /\ SweepsOK' /\ OneIncidentPerService'
    BY <1>1, <1>3, <1>6, EvolvedAnalyses, EvolvedSweeps, EvolvedPairs
  <1>8. RowsOK'
    BY <1>1, SameRows
  <1>9. Shapes'
    BY <1>1, <1>2, <1>3, <1>4 DEF IncIInv, Shapes, PossibleIds, FailureBound
  <1>10. NoAlertLost'
    BY <1>1, <1>4, <1>6, EvolvedLinks DEF IncIInv, NoAlertLost
  <1>11. QED
    BY <1>4, <1>5, <1>7, <1>8, <1>9, <1>10 DEF IncIInv

\* The handler ends: the alert it handled is linked.
LEMMA ScheduleKeeps == ASSUME IncIInv, NEW w \in Workers, Schedule(w) PROVE IncIInv'
  <1> DEFINE i == worker[w].incident
             new == [incident |-> i, loaded |-> FALSE, alerts |-> {}]
  <1>1. /\ worker[w].pc = "schedule" /\ Mark(w)
        /\ inflight' \subseteq inflight \cup {new}
        /\ UNCHANGED <<fired, incidents, sweeping, mq, resolves, lastAlert, dropped, failures>>
    BY DEF Schedule
  <1>2. topic[w] # <<>> /\ i \in Ids /\ Head(topic[w]).alert \in incidents[i].alerts
    BY <1>1 DEF IncIInv, WorkersOK
  <1>3. i \in Nat
    BY Typed DEF Place
  <1>4. /\ topic' \in [Workers -> Seq(Message)] /\ marked' \in [Workers -> Seq(Message)]
        /\ worker' \in [Workers -> Place] /\ TopicOK'
        /\ WaitingAlerts \subseteq WaitingAlerts' \cup {Head(topic[w]).alert}
    BY <1>1, <1>2, Marks
  <1>5. WorkersOK' /\ LookupsOK'
    BY <1>1, <1>2, MarkedWorkers
  <1>6. Evolves(incidents, incidents') /\ Ids' = Ids
    BY <1>1, SameEvolve DEF Ids
  <1>7. SweepsOK' /\ OneIncidentPerService' /\ RowsOK'
    BY <1>1, <1>6, EvolvedSweeps, EvolvedPairs, SameRows
  <1>8. new \in Running /\ new.incident = i /\ new.alerts = {}
    BY <1>3 DEF Running
  <1> HIDE DEF new
  <1>9. AnalysesOK'
    BY <1>1, <1>2, <1>6, <1>8 DEF IncIInv, AnalysesOK
  <1>10. Shapes'
    BY <1>1, <1>4, <1>8 DEF IncIInv, Shapes, PossibleIds, FailureBound
  <1>11. NoAlertLost'
    <2>1. Head(topic[w]).alert \in LinkedAlerts
      BY <1>2 DEF LinkedAlerts
    <2>2. QED
      BY <1>1, <1>4, <1>6, <2>1, EvolvedLinks DEF IncIInv, NoAlertLost
  <1>12. QED
    BY <1>4, <1>5, <1>7, <1>9, <1>10, <1>11 DEF IncIInv

\* The publication of "triggered", whether it works or not.
LEMMA NotifyKeeps == ASSUME IncIInv, NEW w \in Workers, Notify(w) PROVE IncIInv'
  <1>1. /\ worker[w].pc = "notify" /\ worker' = [worker EXCEPT ![w].pc = "schedule"]
        /\ failures' = failures \/ Fail("publishes")
        /\ UNCHANGED <<fired, topic, marked, incidents, inflight, sweeping, resolves, lastAlert,
                       dropped>>
    BY DEF Notify
  <1>2. worker \in [Workers -> Place]
    BY DEF IncIInv, Shapes
  <1>3. /\ worker' \in [Workers -> Place] /\ worker'[w].pc = "schedule"
        /\ worker'[w].incident = worker[w].incident
        /\ \A u \in Workers : u # w => worker'[u] = worker[u]
    BY <1>1, <1>2 DEF Place
  <1>4. failures' \in [DOMAIN FailureBound -> Nat] /\ (failures'.queries = 0 => failures.queries = 0)
    <2>1. CASE failures' = failures
      BY <2>1 DEF IncIInv, Shapes
    <2>2. CASE Fail("publishes")
      BY <2>2, FailCounted DEF FailureBound
    <2>3. QED
      BY <1>1, <2>1, <2>2
  <1>5. Evolves(incidents, incidents') /\ Ids' = Ids
    BY <1>1, SameEvolve DEF Ids
  <1>6. AnalysesOK' /\ SweepsOK' /\ OneIncidentPerService' /\ RowsOK'
    BY <1>1, <1>4, <1>5, EvolvedAnalyses, EvolvedSweeps, EvolvedPairs, SameRows
  <1>7. Shapes'
    BY <1>1, <1>3, <1>4 DEF IncIInv, Shapes, PossibleIds, FailureBound
  <1>8. WorkersOK'
    BY <1>1, <1>3 DEF IncIInv, WorkersOK, Ids
  <1>9. LookupsOK'
    BY <1>1, <1>3, <1>4 DEF IncIInv, LookupsOK, Ids
  <1>10. TopicOK' /\ NoAlertLost'
    BY <1>1 DEF IncIInv, TopicOK, NoAlertLost, WaitingAlerts, LinkedAlerts, Ids
  <1>11. QED
    BY <1>6, <1>7, <1>8, <1>9, <1>10 DEF IncIInv

-----------------------------------------------------------------------------
(* Analyses and sweepers *)

\* Steps of other goroutines leave the workers where they are.
LEMMA Elsewhere ==
    ASSUME IncIInv, Evolves(incidents, incidents'), Ids' = Ids,
           \A i \in Ids : incidents'[i].alerts = incidents[i].alerts,
           UNCHANGED <<fired, topic, marked, worker, dropped>>,
           failures'.queries = 0 => failures.queries = 0
    PROVE  TopicOK' /\ WorkersOK' /\ LookupsOK' /\ NoAlertLost' /\ OneIncidentPerService'
  <1>1. WorkersOK'
    BY EvolvedWorkers DEF WorkersOK
  <1>2. LookupsOK'
    <2>1. SUFFICES ASSUME failures'.queries = 0, NEW u \in Workers,
                          worker[u].pc = "upsert", worker[u].incident = 0,
                          NEW j \in Ids, incidents'[j].status = "OPEN",
                          \E a \in incidents[j].alerts : a.service = Head(topic[u]).alert.service
                   PROVE  incidents'[j].age > Head(topic[u]).age + Window
      BY DEF LookupsOK
    <2>2. incidents'[j].age = incidents[j].age /\ incidents[j].status = "OPEN"
      BY <2>1 DEF Evolves, Keeps, Ids
    <2>3. QED
      BY <2>1, <2>2 DEF IncIInv, LookupsOK
  <1>3. NoAlertLost'
    BY EvolvedLinks DEF IncIInv, NoAlertLost, WaitingAlerts
  <1>4. TopicOK'
    BY DEF IncIInv, TopicOK
  <1>5. OneIncidentPerService'
    BY EvolvedPairs
  <1>6. QED
    BY <1>1, <1>2, <1>3, <1>4, <1>5

\* An analysis loads its alerts.
LEMMA LoadKeeps == ASSUME IncIInv, NEW n \in inflight, LoadEvidence(n) PROVE IncIInv'
  <1> DEFINE k == [n EXCEPT !.loaded = TRUE, !.alerts = incidents[n.incident].alerts]
  <1>1. /\ inflight' = (inflight \ {n}) \cup {k}
        /\ UNCHANGED <<fired, topic, marked, worker, incidents, sweeping, mq, resolves, lastAlert,
                       dropped, failures>>
    BY DEF LoadEvidence
  <1>2. n \in Running /\ n.incident \in Ids
    BY DEF IncIInv, Shapes, AnalysesOK
  <1>3. incidents[n.incident].alerts \in SUBSET Alerts
    BY <1>2, Typed DEF Row
  <1>4. k \in Running /\ k.incident = n.incident /\ k.alerts = incidents[n.incident].alerts
    BY <1>2, <1>3 DEF Running
  <1> HIDE DEF k
  <1>5. Evolves(incidents, incidents') /\ Ids' = Ids
    BY <1>1, SameEvolve DEF Ids
  <1>6. TopicOK' /\ WorkersOK' /\ LookupsOK' /\ NoAlertLost' /\ OneIncidentPerService'
    BY <1>1, <1>5, Elsewhere
  <1>7. SweepsOK' /\ RowsOK'
    BY <1>1, <1>5, EvolvedSweeps, SameRows
  <1>8. AnalysesOK'
    BY <1>1, <1>2, <1>4, <1>5 DEF IncIInv, AnalysesOK
  <1>9. Shapes'
    BY <1>1, <1>4 DEF IncIInv, Shapes, PossibleIds, FailureBound
  <1>10. QED
    BY <1>6, <1>7, <1>8, <1>9 DEF IncIInv

\* A row whose analysis is written.
Analyzed(r, seen) == [r EXCEPT !.analyzed = seen, !.quiet = 0]

LEMMA AnalyzedRow ==
    ASSUME NEW r \in Row, NEW seen \in SUBSET Alerts
    PROVE  /\ Analyzed(r, seen) \in Row /\ Keeps(r, Analyzed(r, seen))
           /\ Analyzed(r, seen).alerts = r.alerts
           /\ Analyzed(r, seen).analyzed = seen /\ Analyzed(r, seen).quiet = 0
  <1> DEFINE s == Analyzed(r, seen)
  <1>1. 0 \in 0..QuietCap
    BY Caps
  <1>2. s.alerts = r.alerts /\ s.analyzed = seen /\ s.quiet = 0
    BY DEF Row, Analyzed
  <1>3. s.age = r.age /\ s.status = r.status
    BY DEF Row, Analyzed
  <1>4. s \in Row
    BY <1>1 DEF Row, Analyzed
  <1>5. QED
    BY <1>2, <1>3, <1>4 DEF Keeps

\* The result of an analysis is written.
LEMMA UpdateKeeps == ASSUME IncIInv, NEW n \in inflight, UpdateCausalAnalysis(n) PROVE IncIInv'
  <1> DEFINE i == n.incident
             row == Analyzed(incidents[i], n.alerts)
  <1>1. /\ inflight' = inflight \ {n}
        /\ incidents' = [incidents EXCEPT ![i].analyzed = n.alerts, ![i].quiet = 0]
        /\ UNCHANGED <<fired, topic, marked, worker, sweeping, mq, resolves, lastAlert, dropped,
                       failures>>
    BY DEF UpdateCausalAnalysis
  <1>2. n \in Running /\ i \in Ids /\ n.alerts \subseteq incidents[i].alerts
    BY DEF IncIInv, Shapes, AnalysesOK
  <1>3. Len(incidents) \in Nat /\ Ids = 1..Len(incidents) /\ Len(lastAlert) = Len(incidents)
        /\ incidents \in Seq(Row) /\ incidents[i] \in Row
    BY <1>2, Typed DEF IncIInv, RowsOK, Shapes
  <1>4. n.alerts \in SUBSET Alerts
    BY <1>2 DEF Running
  <1>5. /\ row \in Row /\ Keeps(incidents[i], row) /\ row.alerts = incidents[i].alerts
        /\ row.analyzed = n.alerts /\ row.quiet = 0
    BY <1>3, <1>4, AnalyzedRow
  <1>6. incidents' = [incidents EXCEPT ![i] = row]
    BY <1>1, <1>2, <1>3 DEF Analyzed
  <1> HIDE DEF row, i
  <1>7. /\ incidents' \in Seq(Row) /\ Ids' = Ids /\ incidents'[i] = row
        /\ Len(incidents') = Len(incidents)
        /\ \A j \in Ids : j # i => incidents'[j] = incidents[j]
    BY <1>2, <1>3, <1>5, <1>6 DEF Ids
  <1>8. Evolves(incidents, incidents')
    BY <1>2, <1>5, <1>7 DEF Evolves, Keeps, Ids
  <1>9. TopicOK' /\ WorkersOK' /\ LookupsOK' /\ NoAlertLost' /\ OneIncidentPerService'
    <2>1. \A j \in Ids : incidents'[j].alerts = incidents[j].alerts
      BY <1>5, <1>7
    <2>2. QED
      BY <1>1, <1>7, <1>8, <2>1, Elsewhere
  <1>10. SweepsOK' /\ AnalysesOK'
    BY <1>1, <1>8, EvolvedSweeps, EvolvedAnalyses
  <1>11. RowsOK'
    <2>1. RowsOK
      BY DEF IncIInv
    <2>2. SUFFICES ASSUME NEW j \in Ids
                   PROVE  /\ incidents'[j].alerts # {}
                          /\ incidents'[j].analyzed \subseteq incidents'[j].alerts
                          /\ incidents'[j].quiet <= lastAlert[j]
      BY <1>1, <1>3, <1>7 DEF RowsOK
    <2>3. CASE j = i
      <3>1. incidents'[j] = row /\ lastAlert[j] \in 0..QuietCap /\ incidents[j].alerts # {}
        BY <1>7, <2>1, <2>3, Typed DEF RowsOK
      <3>2. 0 <= lastAlert[j]
        BY <3>1, Caps
      <3>3. QED
        BY <1>2, <1>5, <2>3, <3>1, <3>2
    <2>4. CASE j # i
      BY <1>7, <2>1, <2>4 DEF RowsOK
    <2>5. QED
      BY <2>3, <2>4
  <1>12. Shapes'
    BY <1>1, <1>7 DEF IncIInv, Shapes, PossibleIds, FailureBound
  <1>13. QED
    BY <1>9, <1>10, <1>11, <1>12 DEF IncIInv

\* An analysis fails.
LEMMA AnalysisFailsKeeps == ASSUME IncIInv, NEW n \in inflight, AnalysisFails(n) PROVE IncIInv'
  <1>1. /\ inflight' \subseteq inflight /\ Fail("analyses")
        /\ UNCHANGED <<fired, topic, marked, worker, incidents, sweeping, mq, resolves, lastAlert,
                       dropped>>
    BY DEF AnalysisFails
  <1>2. failures' \in [DOMAIN FailureBound -> Nat] /\ (failures'.queries = 0 => failures.queries = 0)
    BY <1>1, FailCounted DEF FailureBound
  <1>3. Evolves(incidents, incidents') /\ Ids' = Ids
    BY <1>1, SameEvolve DEF Ids
  <1>4. TopicOK' /\ WorkersOK' /\ LookupsOK' /\ NoAlertLost' /\ OneIncidentPerService'
    BY <1>1, <1>2, <1>3, Elsewhere
  <1>5. SweepsOK' /\ AnalysesOK' /\ RowsOK'
    BY <1>1, <1>3, EvolvedSweeps, EvolvedAnalyses, SameRows
  <1>6. Shapes'
    BY <1>1, <1>2 DEF IncIInv, Shapes, PossibleIds, FailureBound
  <1>7. QED
    BY <1>4, <1>5, <1>6 DEF IncIInv

\* A function over the positions of a sequence is a sequence of that length.
LEMMA SameLength ==
    ASSUME NEW S, NEW T, NEW s \in Seq(S), NEW f \in [DOMAIN s -> T]
    PROVE  f \in Seq(T) /\ DOMAIN f = DOMAIN s /\ Len(f) = Len(s)
  <1>1. Len(s) \in Nat /\ DOMAIN s = 1..Len(s)
    OBVIOUS
  <1>2. f \in [1..Len(s) -> T]
    BY <1>1
  <1>3. f \in Seq(T)
    BY <1>1, <1>2, SeqDef
  <1>4. Len(f) = Len(s)
    BY <1>1, <1>2, <1>3
  <1>5. QED
    BY <1>3, <1>4

\* A row that is resolved.
ResolvedRow(r) == [r EXCEPT !.status = "RESOLVED", !.quiet = 0]

LEMMA ResolvingRow ==
    ASSUME NEW r \in Row
    PROVE  /\ ResolvedRow(r) \in Row /\ Keeps(r, ResolvedRow(r))
           /\ ResolvedRow(r).alerts = r.alerts /\ ResolvedRow(r).analyzed = r.analyzed
           /\ ResolvedRow(r).quiet = 0 /\ ResolvedRow(r).status = "RESOLVED"
  <1> DEFINE s == ResolvedRow(r)
  <1>1. 0 \in 0..QuietCap
    BY Caps
  <1>2. s.alerts = r.alerts /\ s.analyzed = r.analyzed /\ s.quiet = 0
    BY DEF Row, ResolvedRow
  <1>3. s.age = r.age /\ s.status = "RESOLVED"
    BY DEF Row, ResolvedRow
  <1>4. s \in Row
    BY <1>1 DEF Row, ResolvedRow
  <1>5. QED
    BY <1>2, <1>3, <1>4 DEF Keeps

\* A sweep resolves rows nobody has to announce yet: it found them open.
LEMMA ResolveKeeps == ASSUME IncIInv, NEW s \in Sweepers, ResolveStale(s) PROVE IncIInv'
  <1>1. /\ sweeping[s] = {}
        /\ incidents' = [i \in Ids |-> IF i \in Stale THEN ResolvedRow(incidents[i]) ELSE incidents[i]]
        /\ sweeping' = [sweeping EXCEPT ![s] = Stale]
        /\ UNCHANGED <<fired, topic, marked, worker, inflight, mq, resolves, lastAlert, dropped,
                       failures>>
    BY DEF ResolveStale, ResolvedRow
  <1>2. Stale \subseteq Ids /\ \A i \in Stale : incidents[i].status = "OPEN"
    BY DEF Stale
  <1>3. /\ incidents \in Seq(Row) /\ Ids \subseteq Nat
        /\ \A i \in Ids : incidents[i] \in Row
    BY Typed DEF IncIInv, Shapes
  <1>4. incidents' \in [Ids -> Row]
    BY <1>1, <1>3, ResolvingRow
  <1>5. incidents' \in Seq(Row) /\ Ids' = Ids /\ Len(incidents') = Len(incidents)
    BY <1>3, <1>4, SameLength DEF Ids
  <1>6. \A i \in Ids : /\ Keeps(incidents[i], incidents'[i])
                       /\ incidents'[i].alerts = incidents[i].alerts
                       /\ incidents'[i].analyzed = incidents[i].analyzed
                       /\ incidents'[i].quiet = 0 \/ incidents'[i].quiet = incidents[i].quiet
    BY <1>1, <1>3, ResolvingRow DEF Keeps
  <1>7. \A i \in Stale : incidents'[i].status = "RESOLVED"
    BY <1>1, <1>2, <1>3, ResolvingRow
  <1>8. Evolves(incidents, incidents')
    BY <1>5, <1>6 DEF Evolves, Ids
  <1>9. TopicOK' /\ WorkersOK' /\ LookupsOK' /\ NoAlertLost' /\ OneIncidentPerService'
    BY <1>1, <1>5, <1>6, <1>8, Elsewhere
  <1>10. AnalysesOK'
    BY <1>1, <1>8, EvolvedAnalyses
  <1>11. RowsOK'
    <2>1. RowsOK /\ \A i \in Ids : lastAlert[i] \in 0..QuietCap
      BY Typed DEF IncIInv
    <2>2. \A i \in Ids : 0 <= lastAlert[i]
      BY <2>1, Caps
    <2>3. QED
      BY <1>1, <1>5, <1>6, <2>1, <2>2 DEF RowsOK
  <1>12. SweepsOK'
    <2>1. SweepsOK /\ sweeping \in [Sweepers -> SUBSET Nat] /\ PossibleIds' = PossibleIds
      BY DEF IncIInv, Shapes, PossibleIds
    <2>2. \A i \in Ids : incidents[i].status = "RESOLVED" => incidents'[i].status = "RESOLVED"
      BY <1>6 DEF Keeps
    <2>3. sweeping'[s] = Stale /\ \A t \in Sweepers : t # s => sweeping'[t] = sweeping[t]
      BY <1>1, <2>1
    <2>4. \A t \in Sweepers : sweeping[t] \cap Stale = {}
      BY <1>2, <2>1 DEF SweepsOK
    <2>5. \A i \in Stale : i \in PossibleIds => resolves[i] = 0
      BY <1>2, <2>1 DEF SweepsOK
    <2>6. \A t \in Sweepers : \A i \in sweeping'[t] :
              /\ i \in Ids /\ incidents'[i].status = "RESOLVED"
              /\ i \in PossibleIds => resolves[i] = 0
      BY <1>2, <1>7, <2>1, <2>2, <2>3, <2>5 DEF SweepsOK
    <2>7. \A t, u \in Sweepers : t # u => sweeping'[t] \cap sweeping'[u] = {}
      BY <2>1, <2>3, <2>4 DEF SweepsOK
    <2>8. \A i \in PossibleIds : resolves[i] # 0 =>
              resolves[i] = 1 /\ i \in Ids /\ incidents'[i].status = "RESOLVED"
      BY <2>1, <2>2 DEF SweepsOK
    <2>9. QED
      BY <1>1, <1>5, <2>1, <2>6, <2>7, <2>8 DEF SweepsOK
  <1>13. sweeping' \in [Sweepers -> SUBSET Nat]
    BY <1>1, <1>2, <1>3 DEF IncIInv, Shapes
  <1>14. Shapes'
    BY <1>1, <1>5, <1>13 DEF IncIInv, Shapes, PossibleIds, FailureBound
  <1>15. QED
    BY <1>9, <1>10, <1>11, <1>12, <1>14 DEF IncIInv

\* The announcement of a resolved incident, whether it works or not.
LEMMA AnnounceKeeps == ASSUME IncIInv, NEW s \in Sweepers, NotifyResolved(s) PROVE IncIInv'
  <1>1. PICK i \in sweeping[s] :
            /\ sweeping' = [sweeping EXCEPT ![s] = sweeping[s] \ {i}]
            /\ \/ resolves' = [resolves EXCEPT ![i] = @ + 1] /\ failures' = failures
               \/ resolves' = resolves /\ Fail("publishes")
            /\ UNCHANGED <<fired, topic, marked, worker, incidents, inflight, lastAlert, dropped>>
    BY DEF NotifyResolved
  <1>2. SweepsOK /\ sweeping \in [Sweepers -> SUBSET Nat] /\ resolves \in [PossibleIds -> Nat]
        /\ PossibleIds' = PossibleIds
    BY DEF IncIInv, Shapes, PossibleIds
  <1>3. i \in Ids /\ incidents[i].status = "RESOLVED" /\ (i \in PossibleIds => resolves[i] = 0)
    BY <1>2 DEF SweepsOK
  <1>4. /\ resolves' \in [PossibleIds -> Nat]
        /\ \A k \in PossibleIds : k # i => resolves'[k] = resolves[k]
        /\ i \in PossibleIds => resolves'[i] \in {0, 1}
    BY <1>1, <1>2, <1>3
  <1>5. failures' \in [DOMAIN FailureBound -> Nat] /\ (failures'.queries = 0 => failures.queries = 0)
    <2>1. CASE failures' = failures
      BY <2>1 DEF IncIInv, Shapes
    <2>2. CASE Fail("publishes")
      BY <2>2, FailCounted DEF FailureBound
    <2>3. QED
      BY <1>1, <2>1, <2>2
  <1>6. Evolves(incidents, incidents') /\ Ids' = Ids
    BY <1>1, SameEvolve DEF Ids
  <1>7. TopicOK' /\ WorkersOK' /\ LookupsOK' /\ NoAlertLost' /\ OneIncidentPerService'
    BY <1>1, <1>5, <1>6, Elsewhere
  <1>8. AnalysesOK' /\ RowsOK'
    BY <1>1, <1>6, EvolvedAnalyses, SameRows
  <1>9. /\ sweeping' \in [Sweepers -> SUBSET Nat]
        /\ \A t \in Sweepers : sweeping'[t] \subseteq sweeping[t] /\ i \notin sweeping'[t]
    BY <1>1, <1>2 DEF SweepsOK
  <1>10. SweepsOK'
    <2>1. \A t \in Sweepers : \A k \in sweeping'[t] :
              /\ k \in Ids /\ incidents[k].status = "RESOLVED"
              /\ k \in PossibleIds => resolves'[k] = 0
      BY <1>2, <1>4, <1>9 DEF SweepsOK
    <2>2. \A t, u \in Sweepers : t # u => sweeping'[t] \cap sweeping'[u] = {}
      BY <1>2, <1>9 DEF SweepsOK
    <2>3. \A k \in PossibleIds : resolves'[k] # 0 =>
              resolves'[k] = 1 /\ k \in Ids /\ incidents[k].status = "RESOLVED"
      BY <1>2, <1>3, <1>4 DEF SweepsOK
    <2>4. QED
      BY <1>1, <1>2, <1>6, <2>1, <2>2, <2>3 DEF SweepsOK
  <1>11. Shapes'
    BY <1>1, <1>2, <1>4, <1>5, <1>9 DEF IncIInv, Shapes, FailureBound
  <1>12. QED
    BY <1>7, <1>8, <1>10, <1>11 DEF IncIInv

-----------------------------------------------------------------------------
(* Time and restarts *)

\* A message and a row as time passes.
OlderMessage(m) == [m EXCEPT !.age = @ + 1]

OlderRow(r) == [r EXCEPT !.age = Least(@ + 1, AgeCap), !.quiet = Least(@ + 1, QuietCap)]

LEMMA AgeingMessage ==
    ASSUME NEW m \in Message, m.age < MaxLag
    PROVE  OlderMessage(m) \in Message /\ OlderMessage(m).alert = m.alert
           /\ OlderMessage(m).age = m.age + 1
  <1>1. m.age \in 0..MaxLag /\ MaxLag \in Nat
    BY Caps DEF Message
  <1>2. m.age + 1 \in 0..MaxLag
    BY <1>1
  <1>3. QED
    BY <1>2 DEF OlderMessage, Message

LEMMA AgeingRow ==
    ASSUME NEW r \in Row
    PROVE  /\ OlderRow(r) \in Row /\ OlderRow(r).alerts = r.alerts
           /\ OlderRow(r).analyzed = r.analyzed /\ OlderRow(r).status = r.status
           /\ OlderRow(r).age = Least(r.age + 1, AgeCap)
           /\ OlderRow(r).quiet = Least(r.quiet + 1, QuietCap)
  <1> DEFINE a == Least(r.age + 1, AgeCap)
             q == Least(r.quiet + 1, QuietCap)
             s == OlderRow(r)
  <1>1. r.age \in 0..AgeCap /\ r.quiet \in 0..QuietCap
    BY DEF Row
  <1>2. a \in 0..AgeCap /\ q \in 0..QuietCap
    BY <1>1, Caps DEF Least
  <1>3. s = [r EXCEPT !.age = a, !.quiet = q]
    BY DEF OlderRow
  <1> HIDE DEF a, q, s
  <1>4. s.alerts = r.alerts /\ s.analyzed = r.analyzed /\ s.status = r.status
    BY <1>3 DEF Row
  <1>5. s.age = a /\ s.quiet = q
    BY <1>3 DEF Row
  <1>6. s \in Row
    BY <1>2, <1>3 DEF Row
  <1>7. QED
    BY <1>4, <1>5, <1>6 DEF a, q, s

\* Time passes: a message that waits and a row grow older together, until the
\* row is older than any message's window.
LEMMA TickKeeps == ASSUME IncIInv, Tick PROVE IncIInv'
  <1>1. /\ \A w \in Workers : \A k \in DOMAIN topic[w] : topic[w][k].age < MaxLag
        /\ topic' = [w \in Workers |-> [k \in DOMAIN topic[w] |-> OlderMessage(topic[w][k])]]
        /\ marked' = [w \in Workers |-> <<>>]
        /\ worker' = [w \in Workers |-> [worker[w] EXCEPT !.built =
                         IF worker[w].pc = "upsert" THEN Least(@ + 1, QuietCap) ELSE @]]
        /\ incidents' = [i \in Ids |-> OlderRow(incidents[i])]
        /\ lastAlert' = [i \in Ids |-> Least(lastAlert[i] + 1, QuietCap)]
        /\ UNCHANGED <<fired, inflight, sweeping, mq, resolves, dropped, failures>>
    BY DEF Tick, OlderMessage, OlderRow
  <1>2. /\ incidents \in Seq(Row) /\ lastAlert \in Seq(0..QuietCap)
        /\ Len(lastAlert) = Len(incidents) /\ DOMAIN lastAlert = Ids
        /\ \A i \in Ids : incidents[i] \in Row /\ lastAlert[i] \in 0..QuietCap
        /\ \A w \in Workers : topic[w] \in Seq(Message) /\ worker[w] \in Place /\ Routed(topic[w], w)
    BY Typed DEF IncIInv, Shapes, RowsOK
  <1>3. /\ \A w \in Workers :
              /\ topic'[w] \in Seq(Message) /\ DOMAIN topic'[w] = DOMAIN topic[w]
              /\ \A k \in DOMAIN topic[w] : /\ topic'[w][k].alert = topic[w][k].alert
                                            /\ topic'[w][k].age = topic[w][k].age + 1
    <2>1. SUFFICES ASSUME NEW w \in Workers
                   PROVE  /\ topic'[w] \in Seq(Message) /\ DOMAIN topic'[w] = DOMAIN topic[w]
                          /\ \A k \in DOMAIN topic[w] : /\ topic'[w][k].alert = topic[w][k].alert
                                                        /\ topic'[w][k].age = topic[w][k].age + 1
      OBVIOUS
    <2>2. topic'[w] = [k \in DOMAIN topic[w] |-> OlderMessage(topic[w][k])]
      BY <1>1
    <2>3. \A k \in DOMAIN topic[w] : topic[w][k] \in Message /\ topic[w][k].age < MaxLag
      BY <1>1, <1>2
    <2>4. \A k \in DOMAIN topic[w] :
              /\ OlderMessage(topic[w][k]) \in Message
              /\ OlderMessage(topic[w][k]).alert = topic[w][k].alert
              /\ OlderMessage(topic[w][k]).age = topic[w][k].age + 1
      BY <2>3, AgeingMessage
    <2>5. topic'[w] \in [DOMAIN topic[w] -> Message]
      BY <2>2, <2>4
    <2>6. topic'[w] \in Seq(Message) /\ DOMAIN topic'[w] = DOMAIN topic[w]
      BY <1>2, <2>5, SameLength
    <2>7. QED
      BY <2>2, <2>4, <2>6
  <1>4. \A w \in Workers :
            /\ Routed(topic'[w], w) /\ AlertsOf(topic'[w]) = AlertsOf(topic[w])
            /\ topic[w] # <<>> => /\ topic'[w] # <<>>
                                  /\ Head(topic'[w]).alert = Head(topic[w]).alert
                                  /\ Head(topic'[w]).age = Head(topic[w]).age + 1
                                  /\ Head(topic[w]).age \in 0..MaxLag
                                  /\ Head(topic[w]).age < MaxLag
    <2>1. SUFFICES ASSUME NEW w \in Workers
                   PROVE  /\ Routed(topic'[w], w) /\ AlertsOf(topic'[w]) = AlertsOf(topic[w])
                          /\ topic[w] # <<>> => /\ topic'[w] # <<>>
                                                /\ Head(topic'[w]).alert = Head(topic[w]).alert
                                                /\ Head(topic'[w]).age = Head(topic[w]).age + 1
                                                /\ Head(topic[w]).age \in 0..MaxLag
                                                /\ Head(topic[w]).age < MaxLag
      OBVIOUS
    <2>2. Routed(topic'[w], w)
      BY <1>2, <1>3 DEF Routed
    <2>3. AlertsOf(topic'[w]) = AlertsOf(topic[w])
      BY <1>3 DEF AlertsOf
    <2>4. ASSUME topic[w] # <<>>
          PROVE  /\ topic'[w] # <<>>
                 /\ Head(topic'[w]).alert = Head(topic[w]).alert
                 /\ Head(topic'[w]).age = Head(topic[w]).age + 1
                 /\ Head(topic[w]).age \in 0..MaxLag
                 /\ Head(topic[w]).age < MaxLag
      <3>1. topic[w] \in Seq(Message) /\ topic'[w] \in Seq(Message)
        BY <1>2, <1>3
      <3>2. Head(topic[w]) = topic[w][1] /\ 1 \in DOMAIN topic[w] /\ Head(topic[w]) \in Message
        BY <2>4, <3>1, Queues
      <3>3. topic'[w] # <<>>
        BY <1>3, <3>2
      <3>4. Head(topic'[w]) = topic'[w][1]
        BY <3>1, <3>3, Queues
      <3>5. QED
        BY <1>1, <1>3, <3>2, <3>3, <3>4 DEF Message
    <2>5. QED
      BY <2>2, <2>3, <2>4
  <1>5. \A w \in Workers : /\ worker'[w] \in Place /\ worker'[w].pc = worker[w].pc
                           /\ worker'[w].incident = worker[w].incident
    <2>1. SUFFICES ASSUME NEW w \in Workers
                   PROVE  /\ worker'[w] \in Place /\ worker'[w].pc = worker[w].pc
                          /\ worker'[w].incident = worker[w].incident
      OBVIOUS
    <2> DEFINE b == IF worker[w].pc = "upsert" THEN Least(worker[w].built + 1, QuietCap)
                    ELSE worker[w].built
    <2>2. worker[w] \in Place /\ worker'[w] = [worker[w] EXCEPT !.built = b]
      BY <1>1, <1>2
    <2>3. b \in 0..QuietCap
      BY <2>2, Caps DEF Place, Least
    <2> HIDE DEF b
    <2>4. QED
      BY <2>2, <2>3 DEF Place
  <1>6. \A i \in Ids : /\ incidents'[i] \in Row /\ incidents'[i].alerts = incidents[i].alerts
                       /\ incidents'[i].analyzed = incidents[i].analyzed
                       /\ incidents'[i].status = incidents[i].status
                       /\ incidents'[i].age = Least(incidents[i].age + 1, AgeCap)
                       /\ incidents'[i].quiet = Least(incidents[i].quiet + 1, QuietCap)
    BY <1>1, <1>2, AgeingRow
  <1>7. incidents' \in Seq(Row) /\ Ids' = Ids /\ Len(incidents') = Len(incidents)
    <2>1. incidents' \in [Ids -> Row]
      BY <1>1, <1>6
    <2>2. QED
      BY <1>2, <2>1, SameLength DEF Ids
  <1>8. lastAlert' \in Seq(0..QuietCap) /\ Len(lastAlert') = Len(lastAlert)
    <2>1. \A i \in Ids : Least(lastAlert[i] + 1, QuietCap) \in 0..QuietCap
      BY <1>2, Caps DEF Least
    <2> DEFINE ages == 0..QuietCap
    <2>2. lastAlert' \in [DOMAIN lastAlert -> ages] /\ lastAlert \in Seq(ages)
      BY <1>1, <1>2, <2>1
    <2> HIDE DEF ages
    <2>3. lastAlert' \in Seq(ages) /\ Len(lastAlert') = Len(lastAlert)
      BY <2>2, SameLength
    <2>4. QED
      BY <2>3 DEF ages
  <1>9. RowsOK'
    <2>1. RowsOK
      BY DEF IncIInv
    <2>2. SUFFICES ASSUME NEW i \in Ids
                   PROVE  /\ incidents'[i].alerts # {}
                          /\ incidents'[i].analyzed \subseteq incidents'[i].alerts
                          /\ incidents'[i].quiet <= lastAlert'[i]
      BY <1>2, <1>7, <1>8 DEF RowsOK
    <2>3. incidents[i].quiet \in 0..QuietCap /\ lastAlert[i] \in 0..QuietCap
          /\ incidents[i].quiet <= lastAlert[i]
      BY <1>2, <2>1 DEF Row, RowsOK
    <2>4. lastAlert'[i] = Least(lastAlert[i] + 1, QuietCap)
      BY <1>1
    <2>5. Least(incidents[i].quiet + 1, QuietCap) <= Least(lastAlert[i] + 1, QuietCap)
      BY <2>3, Caps DEF Least
    <2>6. QED
      BY <1>6, <2>1, <2>4, <2>5 DEF RowsOK
  <1>10. WorkersOK'
    BY <1>4, <1>5, <1>6, <1>7 DEF IncIInv, WorkersOK
  <1>11. TopicOK'
    <2>1. \A w \in Workers : marked'[w] = <<>> /\ Routed(<<>>, w)
      BY <1>1 DEF Routed
    <2>2. QED
      BY <1>4, <2>1 DEF TopicOK
  <1>12. AnalysesOK'
    BY <1>1, <1>6, <1>7 DEF IncIInv, AnalysesOK
  <1>13. SweepsOK'
    BY <1>1, <1>6, <1>7 DEF IncIInv, SweepsOK, PossibleIds
  <1>14. NoAlertLost'
    <2>1. WaitingAlerts' = UNION {AlertsOf(topic'[w]) : w \in Workers}
      BY DEF WaitingAlerts, AlertsOf
    <2>2. WaitingAlerts' = WaitingAlerts
      BY <1>4, <2>1, WaitingIs
    <2>3. LinkedAlerts' = LinkedAlerts
      BY <1>6, <1>7 DEF LinkedAlerts
    <2>4. QED
      BY <1>1, <2>2, <2>3 DEF IncIInv, NoAlertLost
  <1>15. LookupsOK'
    <2>1. SUFFICES ASSUME failures.queries = 0, NEW u \in Workers,
                          worker[u].pc = "upsert", worker[u].incident = 0,
                          NEW j \in Ids, incidents[j].status = "OPEN",
                          \E a \in incidents[j].alerts : a.service = Head(topic[u]).alert.service
                   PROVE  incidents'[j].age > Head(topic'[u]).age + Window
      <3>1. \A u \in Workers : worker[u].pc = "upsert" =>
                Head(topic'[u]).alert = Head(topic[u]).alert
        BY <1>4 DEF IncIInv, WorkersOK
      <3>2. SUFFICES ASSUME failures'.queries = 0, NEW u \in Workers,
                            worker'[u].pc = "upsert", worker'[u].incident = 0,
                            NEW j \in Ids', incidents'[j].status = "OPEN",
                            NEW a \in incidents'[j].alerts,
                            a.service = Head(topic'[u]).alert.service
                     PROVE  incidents'[j].age > Head(topic'[u]).age + Window
        BY DEF LookupsOK
      <3>3. /\ failures.queries = 0 /\ worker[u].pc = "upsert" /\ worker[u].incident = 0
            /\ j \in Ids /\ incidents[j].status = "OPEN" /\ a \in incidents[j].alerts
            /\ a.service = Head(topic[u]).alert.service
        BY <1>1, <1>5, <1>6, <1>7, <3>1, <3>2
      <3>4. QED
        BY <2>1, <3>3
    <2>2. incidents[j].age > Head(topic[u]).age + Window
      BY <2>1 DEF IncIInv, LookupsOK
    <2>3. /\ Head(topic'[u]).age = Head(topic[u]).age + 1
          /\ Head(topic[u]).age \in 0..MaxLag /\ Head(topic[u]).age < MaxLag
      BY <1>4, <2>1 DEF IncIInv, WorkersOK
    <2>4. incidents[j].age \in 0..AgeCap /\ incidents'[j].age = Least(incidents[j].age + 1, AgeCap)
      BY <1>2, <1>6 DEF Row
    <2>5. QED
      BY <2>2, <2>3, <2>4, Caps DEF Least
  <1>16. OneIncidentPerService'
    <2>1. SUFFICES ASSUME failures.queries = 0, NEW i \in Ids, NEW j \in Ids, i # j,
                          incidents[i].status = "OPEN", incidents[j].status = "OPEN",
                          incidents'[i].age < AgeCap, incidents'[j].age < AgeCap,
                          \E s \in Services :
                              \A a \in incidents[i].alerts \cup incidents[j].alerts : a.service = s
                   PROVE  \/ incidents'[i].age > incidents'[j].age + Window
                          \/ incidents'[j].age > incidents'[i].age + Window
      <3>1. SUFFICES ASSUME failures'.queries = 0, NEW i \in Ids', NEW j \in Ids', i # j,
                            incidents'[i].status = "OPEN", incidents'[j].status = "OPEN",
                            incidents'[i].age < AgeCap, incidents'[j].age < AgeCap,
                            NEW s \in Services,
                            \A a \in incidents'[i].alerts \cup incidents'[j].alerts : a.service = s
                     PROVE  \/ incidents'[i].age > incidents'[j].age + Window
                            \/ incidents'[j].age > incidents'[i].age + Window
        BY DEF OneIncidentPerService, AgeCap
      <3>2. /\ failures.queries = 0 /\ i \in Ids /\ j \in Ids
            /\ incidents[i].status = "OPEN" /\ incidents[j].status = "OPEN"
            /\ \A a \in incidents[i].alerts \cup incidents[j].alerts : a.service = s
        BY <1>1, <1>6, <1>7, <3>1
      <3>3. QED
        BY <2>1, <3>1, <3>2
    <2>2. /\ incidents[i].age \in 0..AgeCap /\ incidents[j].age \in 0..AgeCap
          /\ incidents'[i].age = Least(incidents[i].age + 1, AgeCap)
          /\ incidents'[j].age = Least(incidents[j].age + 1, AgeCap)
      BY <1>2, <1>6 DEF Row
    <2>3. /\ incidents[i].age < AgeCap /\ incidents[j].age < AgeCap
          /\ incidents'[i].age = incidents[i].age + 1 /\ incidents'[j].age = incidents[j].age + 1
      BY <2>1, <2>2, Caps DEF Least
    <2>4. \/ incidents[i].age > incidents[j].age + Window
          \/ incidents[j].age > incidents[i].age + Window
      BY <2>1, <2>3 DEF IncIInv, OneIncidentPerService
    <2>5. QED
      BY <2>2, <2>3, <2>4, Caps
  <1>17. Shapes'
    <2>1. topic' \in [Workers -> Seq(Message)] /\ worker' \in [Workers -> Place]
      BY <1>1, <1>3, <1>5
    <2>2. marked' \in [Workers -> Seq(Message)]
      BY <1>1
    <2>3. QED
      BY <1>1, <1>7, <1>8, <2>1, <2>2 DEF IncIInv, Shapes, PossibleIds, FailureBound
  <1>18. QED
    BY <1>9, <1>10, <1>11, <1>12, <1>13, <1>14, <1>15, <1>16, <1>17 DEF IncIInv

\* A restart: messages come back, and what is lost with the goroutines can
\* be done again or need not be.
LEMMA CrashKeeps == ASSUME IncIInv, Crash PROVE IncIInv'
  <1>1. PICK back \in SUBSET Workers :
            topic' = [w \in Workers |-> IF w \in back THEN marked[w] \o topic[w] ELSE topic[w]]
    BY DEF Crash
  <1>2. /\ Fail("crashes") /\ marked' = [w \in Workers |-> <<>>]
        /\ worker' = [w \in Workers |-> Free] /\ inflight' = {}
        /\ sweeping' = [s \in Sweepers |-> {}]
        /\ UNCHANGED <<fired, incidents, mq, resolves, lastAlert, dropped>>
    BY DEF Crash
  <1>3. \A w \in Workers : /\ topic'[w] \in Seq(Message) /\ Routed(topic'[w], w)
                           /\ AlertsOf(topic[w]) \subseteq AlertsOf(topic'[w])
    <2>1. SUFFICES ASSUME NEW w \in Workers
                   PROVE  /\ topic'[w] \in Seq(Message) /\ Routed(topic'[w], w)
                          /\ AlertsOf(topic[w]) \subseteq AlertsOf(topic'[w])
      OBVIOUS
    <2>2. topic[w] \in Seq(Message) /\ marked[w] \in Seq(Message)
          /\ Routed(topic[w], w) /\ Routed(marked[w], w)
      BY Typed
    <2>3. marked[w] \o topic[w] \in Seq(Message)
          /\ AlertsOf(topic[w]) \subseteq AlertsOf(marked[w] \o topic[w])
      BY <2>2, Queues
    <2>4. Routed(marked[w] \o topic[w], w)
      <3>1. \A p \in Seq(Message) : Routed(p, w) => Routed(p \o topic[w], w)
        BY <2>2, RoutedQueues
      <3>2. QED
        BY <2>2, <3>1
    <2>5. QED
      BY <1>1, <2>2, <2>3, <2>4
  <1>4. Free \in Place /\ Free.pc = "idle"
    BY Caps DEF Free, Place
  <1>5. failures' \in [DOMAIN FailureBound -> Nat] /\ (failures'.queries = 0 => failures.queries = 0)
    BY <1>2, FailCounted DEF FailureBound
  <1>6. Evolves(incidents, incidents') /\ Ids' = Ids
    BY <1>2, SameEvolve DEF Ids
  <1>7. TopicOK'
    <2>1. \A w \in Workers : marked'[w] = <<>> /\ Routed(<<>>, w)
      BY <1>2 DEF Routed
    <2>2. QED
      BY <1>3, <2>1 DEF TopicOK
  <1>8. WorkersOK' /\ LookupsOK'
    BY <1>2, <1>4 DEF WorkersOK, LookupsOK
  <1>9. RowsOK' /\ AnalysesOK' /\ OneIncidentPerService'
    BY <1>2, <1>5, <1>6, SameRows, EvolvedAnalyses, EvolvedPairs
  <1>10. SweepsOK'
    BY <1>2 DEF IncIInv, SweepsOK, PossibleIds, Ids
  <1>11. NoAlertLost'
    <2>1. WaitingAlerts' = UNION {AlertsOf(topic'[w]) : w \in Workers}
      BY DEF WaitingAlerts, AlertsOf
    <2>2. WaitingAlerts \subseteq WaitingAlerts'
      BY <1>3, <2>1, WaitingIs
    <2>3. QED
      BY <1>2, <1>6, <2>2, EvolvedLinks DEF IncIInv, NoAlertLost
  <1>12. Shapes'
    <2>1. topic' \in [Workers -> Seq(Message)]
      BY <1>1, <1>3
    <2>2. marked' \in [Workers -> Seq(Message)] /\ worker' \in [Workers -> Place]
          /\ sweeping' \in [Sweepers -> SUBSET Nat]
      BY <1>2, <1>4
    <2>3. QED
      BY <1>2, <1>5, <2>1, <2>2 DEF IncIInv, Shapes, PossibleIds, FailureBound
  <1>13. QED
    BY <1>7, <1>8, <1>9, <1>10, <1>11, <1>12 DEF IncIInv

-----------------------------------------------------------------------------
(* The theorems *)

LEMMA InitIncIInv == ASSUME IncInit PROVE IncIInv
  <1>1. Free \in Place /\ Free.pc = "idle"
    BY Caps DEF Free, Place
  <1>2. incidents \in Seq(Row) /\ lastAlert \in Seq(0..QuietCap) /\ Len(lastAlert) = Len(incidents)
        /\ Ids = {}
    BY DEF IncInit, Ids
  <1>3. topic \in [Workers -> Seq(Message)] /\ marked \in [Workers -> Seq(Message)]
        /\ worker \in [Workers -> Place]
    BY <1>1 DEF IncInit
  <1>4. Shapes
    BY <1>2, <1>3 DEF IncInit, Shapes
  <1>5. TopicOK
    BY DEF IncInit, TopicOK, Routed
  <1>6. WorkersOK /\ LookupsOK
    BY <1>1 DEF IncInit, WorkersOK, LookupsOK
  <1>7. RowsOK /\ AnalysesOK /\ NoAlertLost /\ OneIncidentPerService
    BY <1>2 DEF IncInit, RowsOK, AnalysesOK, NoAlertLost, OneIncidentPerService
  <1>8. SweepsOK
    BY DEF IncInit, SweepsOK
  <1>9. QED
    BY <1>4, <1>5, <1>6, <1>7, <1>8 DEF IncIInv

\* The queue is not part of the invariant.
LEMMA QueueKeeps ==
    ASSUME IncIInv, UNCHANGED <<fired, topic, marked, worker, incidents, inflight, sweeping, resolves,
                                lastAlert, dropped, failures>>
    PROVE  IncIInv'
  <1>1. Evolves(incidents, incidents') /\ Ids' = Ids
    BY SameEvolve DEF Ids
  <1>2. TopicOK' /\ WorkersOK' /\ LookupsOK' /\ NoAlertLost' /\ OneIncidentPerService'
    BY <1>1, Elsewhere
  <1>3. AnalysesOK' /\ SweepsOK' /\ RowsOK'
    BY <1>1, EvolvedAnalyses, EvolvedSweeps, SameRows
  <1>4. Shapes'
    BY DEF IncIInv, Shapes, PossibleIds, FailureBound
  <1>5. QED
    BY <1>2, <1>3, <1>4 DEF IncIInv

LEMMA NextIncIInv == ASSUME IncIInv, [IncNext]_incVars PROVE IncIInv'
  <1>1. ASSUME NEW a \in Alerts, Fire(a) PROVE IncIInv'
    BY <1>1, FireKeeps
  <1>2. ASSUME NEW w \in Workers, HandleStep(w) \/ UpsertFails(w) PROVE IncIInv'
    <2>1. CASE Lookup(w)
      BY <2>1, LookupKeeps
    <2>2. CASE Upsert(w)
      BY <2>2, OpenKeeps, JoinKeeps
    <2>3. CASE Notify(w)
      BY <2>3, NotifyKeeps
    <2>4. CASE Schedule(w)
      BY <2>4, ScheduleKeeps
    <2>5. CASE UpsertFails(w)
      BY <2>5, UpsertFailsKeeps
    <2>6. QED
      BY <1>2, <2>1, <2>2, <2>3, <2>4, <2>5 DEF HandleStep
  <1>3. ASSUME NEW n \in inflight, Analysis(n) PROVE IncIInv'
    BY <1>3, LoadKeeps, UpdateKeeps, AnalysisFailsKeeps DEF Analysis
  <1>4. ASSUME NEW s \in Sweepers, SweepStep(s) PROVE IncIInv'
    BY <1>4, ResolveKeeps, AnnounceKeeps DEF SweepStep
  <1>5. CASE UNCHANGED incVars
    BY <1>5, QueueKeeps DEF incVars
  <1>6. QED
    BY <1>1, <1>2, <1>3, <1>4, <1>5, TickKeeps, CrashKeeps DEF IncNext

\* The inductive invariant holds in every reachable state.
THEOREM IncidentsInvariant == IncSpec => []IncIInv
  <1>1. IncInit => IncIInv
    BY InitIncIInv
  <1>2. IncIInv /\ [IncNext]_incVars => IncIInv'
    BY NextIncIInv
  <1>3. QED
    BY <1>1, <1>2, PTL DEF IncSpec

LEMMA TypesHold == IncIInv => IncTypeOK
  <1>1. SUFFICES ASSUME IncIInv PROVE IncTypeOK
    OBVIOUS
  <1>2. \A w \in Workers : topic[w] \in Seq(Message) /\ worker[w] \in Place
    BY <1>1, Typed
  <1>3. \A w \in Workers :
            /\ worker[w].pc \in {"idle", "upsert", "notify", "schedule"}
            /\ worker[w].pc # "idle" => topic[w] # <<>>
            /\ worker[w].pc \in {"notify", "schedule"} => worker[w].incident \in Ids
    BY <1>1, <1>2 DEF Place, IncIInv, WorkersOK
  <1>4. \A w \in Workers : \A k \in DOMAIN topic[w] :
            topic[w][k].alert \in Alerts /\ topic[w][k].age \in 0..MaxLag
    <2>1. \A w \in Workers : \A k \in DOMAIN topic[w] : topic[w][k] \in Message
      BY <1>2
    <2>2. QED
      BY <2>1 DEF Message
  <1>5. \A i \in Ids :
            /\ incidents[i].status \in {"OPEN", "RESOLVED"}
            /\ incidents[i].count \in Nat
            /\ incidents[i].age \in 0..AgeCap /\ incidents[i].quiet \in 0..QuietCap
            /\ incidents[i].alerts \subseteq Alerts
            /\ incidents[i].analyzed \subseteq incidents[i].alerts
    <2>1. \A i \in Ids : incidents[i] \in Row /\ incidents[i].analyzed \subseteq incidents[i].alerts
      BY <1>1, Typed DEF IncIInv, RowsOK
    <2>2. QED
      BY <2>1 DEF Row
  <1>6. /\ fired \subseteq Alerts /\ dropped \subseteq Alerts
        /\ \A n \in inflight : n.incident \in Ids
        /\ \A s \in Sweepers : sweeping[s] \subseteq Ids
    BY <1>1 DEF IncIInv, Shapes, AnalysesOK, SweepsOK
  <1>7. QED
    BY <1>3, <1>4, <1>5, <1>6 DEF IncTypeOK

\* Types: in particular a worker that writes has a message to handle, and every
\* incident an analysis, a worker or a sweeper holds is in the table.
THEOREM IncidentsTypeCorrect == IncSpec => []IncTypeOK
  BY TypesHold, IncidentsInvariant, PTL

\* No alert that was published disappears, whatever crashes between the steps
\* of a handler: it waits in the topic, is linked to an incident, or was given
\* up on when a query failed.
THEOREM AlertsAreKept == IncSpec => []NoAlertLost
  BY IncidentsInvariant, PTL DEF IncIInv

\* While no query fails, alerts of one service within the window share an
\* incident: a worker that found no incident still finds none when it writes,
\* because only that worker handles the service.
THEOREM OneIncidentHolds == IncSpec => []OneIncidentPerService
  BY IncidentsInvariant, PTL DEF IncIInv

\* An incident is announced as resolved at most once, however many sweepers
\* run: the row is resolved for good, and announced by the sweeper that did it.
THEOREM AnnouncedOnce == IncSpec => []ResolvedOnce
  <1>1. IncIInv => ResolvedOnce
    BY DEF IncIInv, SweepsOK, ResolvedOnce
  <1>2. QED
    BY <1>1, IncidentsInvariant, PTL

\* An incident is resolved only after the quiet period since its last alert:
\* updated_at, which ResolveStale compares, is never older than that alert.
THEOREM ResolutionIsQuiet == IncSpec => ResolvedOnlyWhenQuiet
  <1> DEFINE Waits == \A i \in Ids : incidents[i].status = "OPEN" /\ incidents'[i].status = "RESOLVED"
                          => lastAlert[i] > Quiet
  <1>1. ASSUME IncIInv, [IncNext]_incVars PROVE [Waits]_incVars
    <2>1. /\ Len(incidents) \in Nat /\ Ids = 1..Len(incidents) /\ incidents \in Seq(Row)
          /\ \A i \in Ids : incidents[i] \in Row
      BY <1>1, Typed DEF IncIInv, Shapes
    <2>2. SUFFICES ASSUME NEW i \in Ids, incidents[i].status = "OPEN",
                          incidents'[i].status = "RESOLVED"
                   PROVE  lastAlert[i] > Quiet
      OBVIOUS
    <2>3. ASSUME NEW w \in Workers, Upsert(w) PROVE FALSE
      <3>1. worker[w].pc = "upsert"
        BY <2>3 DEF Upsert
      <3>2. worker[w].incident \in Ids \cup {0} /\ Head(topic[w]) \in Message
        BY <1>1, <3>1, AtUpsert
      <3>3. Head(topic[w]).alert \in Alerts
        BY <3>2 DEF Message
      <3>4. CASE worker[w].incident = 0
        <4> DEFINE row == NewIncident(Head(topic[w]), worker[w].built)
        <4>1. incidents' = Append(incidents, row)
          BY <2>3, <3>4 DEF Upsert
        <4> HIDE DEF row
        <4>2. incidents'[i] = incidents[i]
          BY <2>1, <4>1
        <4>3. QED
          BY <2>2, <4>2
      <3>5. CASE worker[w].incident # 0
        <4> DEFINE k == worker[w].incident
                   row == Joined(incidents[k], Head(topic[w]).alert)
        <4>1. incidents' = [incidents EXCEPT ![k] = row]
          BY <2>3, <3>5 DEF Upsert
        <4>2. k \in Ids /\ incidents[k] \in Row
          BY <2>1, <3>2, <3>5
        <4>3. row.status = incidents[k].status
          BY <3>3, <4>2, JoinedRow
        <4> HIDE DEF row, k
        <4>4. incidents'[i].status = incidents[i].status
          BY <2>1, <4>1, <4>2, <4>3
        <4>5. QED
          BY <2>2, <4>4
      <3>6. QED
        BY <3>4, <3>5
    <2>4. ASSUME NEW n \in inflight, UpdateCausalAnalysis(n) PROVE FALSE
      <3>1. incidents' = [incidents EXCEPT ![n.incident].analyzed = n.alerts, ![n.incident].quiet = 0]
        BY <2>4 DEF UpdateCausalAnalysis
      <3>2. incidents'[i].status = incidents[i].status
        BY <2>1, <3>1 DEF Row
      <3>3. QED
        BY <2>2, <3>2
    <2>5. ASSUME NEW s \in Sweepers, ResolveStale(s) PROVE lastAlert[i] > Quiet
      <3>1. i \in Stale
        BY <2>2, <2>5 DEF ResolveStale
      <3>2. incidents[i].quiet > Quiet /\ incidents[i].quiet <= lastAlert[i]
            /\ incidents[i].quiet \in 0..QuietCap /\ lastAlert[i] \in 0..QuietCap
        BY <1>1, <2>1, <3>1, Typed DEF Stale, IncIInv, RowsOK, Row
      <3>3. QED
        BY <3>2, Caps
    <2>6. ASSUME Tick PROVE FALSE
      <3>1. incidents'[i] = OlderRow(incidents[i])
        BY <2>6 DEF Tick, OlderRow
      <3>2. incidents'[i].status = incidents[i].status
        BY <2>1, <3>1, AgeingRow
      <3>3. QED
        BY <2>2, <3>2
    <2>7. incidents' # incidents
      BY <2>2
    <2>8. QED
      BY <1>1, <2>3, <2>4, <2>5, <2>6, <2>7
      DEF IncNext, incVars, Fire, HandleStep, Lookup, Notify, Schedule, UpsertFails, Analysis,
          LoadEvidence, AnalysisFails, SweepStep, NotifyResolved, Crash
  <1>2. QED
    BY <1>1, IncidentsInvariant, PTL DEF IncSpec, ResolvedOnlyWhenQuiet

-----------------------------------------------------------------------------
(* From an incident to the pager *)

Event == [incident: Nat, action: {"triggered", "resolved"}, tries: Nat]
NotifierRow == [pc: {"idle", "send", "stopped"}, event: Event \cup {Nothing},
                next: 1..(Len(Channels) + 1), failed: BOOLEAN]

PipeTypes ==
    /\ mq \in Seq(Event) /\ dlq \in Seq(Event)
    /\ notifier \in [Notifiers -> NotifierRow]
    /\ \A n \in Notifiers : notifier[n].pc = "send" <=> notifier[n].event # Nothing
    /\ \A i \in DOMAIN pager : pager[i] \in {"open", "closed"}

\* A notifier in mid-event will bring incident i to PagerDuty or dead-letter it.
Brings(row, i) ==
    /\ row.pc = "send" /\ row.event.incident = i
    /\ row.failed = TRUE \/ \E k \in DOMAIN Channels : Channels[k] = "pagerduty" /\ k >= row.next

Queued(i) == \E k \in DOMAIN mq : mq[k].incident = i
ToPublish(i) == \E w \in Workers : worker[w].pc = "notify" /\ worker[w].incident = i

\* An incident has been paged, or its event is on the way.
OnItsWay(i) ==
    \/ i \in DOMAIN pager \/ DeadLettered(i) \/ Queued(i) \/ ToPublish(i)
    \/ \E n \in Notifiers : Brings(notifier[n], i)

\* The inductive invariant.
PageIInv ==
    /\ IncIInv /\ PipeTypes
    /\ PagerConfigured /\ failures.publishes = 0 /\ failures.crashes = 0 => \A i \in Ids : OnItsWay(i)

LEMMA ChannelsAre == /\ Len(Channels) \in Nat /\ DOMAIN Channels = 1..Len(Channels)
                     /\ 1 \in 1..(Len(Channels) + 1)
  BY NotificationConstants

LEMMA NothingIsNone == Nothing \notin Event /\ Waiting \in NotifierRow /\ Waiting.pc = "idle" /\ Waiting.event = Nothing
  <1>1. Nothing.action = "none"
    BY DEF Nothing
  <1>2. Nothing \notin Event
    BY <1>1 DEF Event
  <1>3. QED
    BY <1>2, ChannelsAre DEF Waiting, NotifierRow

\* One replica moves on to row.
LEMMA NotifierMoves ==
    ASSUME PipeTypes, NEW n \in Notifiers, NEW row \in NotifierRow, row.pc = "send" <=> row.event # Nothing,
           notifier' = [notifier EXCEPT ![n] = row]
    PROVE  /\ notifier' \in [Notifiers -> NotifierRow] /\ notifier'[n] = row
           /\ \A m \in Notifiers : m # n => notifier'[m] = notifier[m]
           /\ \A m \in Notifiers : notifier'[m].pc = "send" <=> notifier'[m].event # Nothing
  <1>1. notifier \in [Notifiers -> NotifierRow]
    BY DEF PipeTypes
  <1>2. notifier' \in [Notifiers -> NotifierRow] /\ notifier'[n] = row
        /\ \A m \in Notifiers : m # n => notifier'[m] = notifier[m]
    BY <1>1
  <1>3. QED
    BY <1>2 DEF PipeTypes

\* What one replica does leaves every other incident on its way.
LEMMA OthersStay ==
    ASSUME NEW n \in Notifiers, NEW i, OnItsWay(i), ~ Brings(notifier[n], i),
           \A m \in Notifiers : m # n => notifier'[m] = notifier[m],
           UNCHANGED worker, DOMAIN pager \subseteq DOMAIN pager',
           DeadLettered(i) => DeadLettered(i)', Queued(i) => Queued(i)' \/ Brings(notifier'[n], i)
    PROVE  OnItsWay(i)'
  <1>1. ToPublish(i) => ToPublish(i)'
    BY DEF ToPublish
  <1>2. (\E m \in Notifiers : Brings(notifier[m], i)) => \E m \in Notifiers : Brings(notifier[m], i)'
    BY DEF Brings
  <1>3. Brings(notifier'[n], i) => \E m \in Notifiers : Brings(notifier[m], i)'
    BY DEF Brings
  <1>4. QED
    BY <1>1, <1>2, <1>3 DEF OnItsWay

LEMMA EventCounts ==
    ASSUME NEW e \in Event
    PROVE  [e EXCEPT !.tries = @ + 1] \in Event /\ [e EXCEPT !.tries = @ + 1].incident = e.incident
  BY DEF Event

\* The next message leaves the queue for a replica that will try every channel.
LEMMA ReceiveKeeps == ASSUME PageIInv, NEW n \in Notifiers, Receive(n) PROVE PageIInv'
  <1> DEFINE e == [Head(mq) EXCEPT !.tries = @ + 1]
             row == [Waiting EXCEPT !.pc = "send", !.event = e]
  <1>1. PipeTypes /\ mq \in Seq(Event) /\ mq # <<>> /\ notifier[n].pc = "idle"
    BY DEF PageIInv, PipeTypes, Receive
  <1>2. Head(mq) \in Event /\ Head(mq) = mq[1] /\ Tail(mq) \in Seq(Event)
    BY <1>1
  <1>3. e \in Event /\ e.incident = Head(mq).incident
    BY <1>2, EventCounts
  <1>4. row \in NotifierRow /\ row.pc = "send" /\ row.event = e /\ row.next = 1
    <2> HIDE DEF e
    <2>1. QED
      BY <1>3, ChannelsAre DEF Waiting, NotifierRow
  <1>5. notifier' = [notifier EXCEPT ![n] = row] /\ mq' = Tail(mq) /\ UNCHANGED <<dlq, pager>>
    BY DEF Receive
  <1>6. IncIInv' /\ UNCHANGED <<worker, incidents, failures>>
    BY QueueKeeps DEF PageIInv, Receive, OnlyQueue
  <1> HIDE DEF row, e
  <1>7. row.event # Nothing
    BY <1>3, <1>4, NothingIsNone
  <1>8. /\ notifier' \in [Notifiers -> NotifierRow] /\ notifier'[n] = row
        /\ \A m \in Notifiers : m # n => notifier'[m] = notifier[m]
        /\ \A m \in Notifiers : notifier'[m].pc = "send" <=> notifier'[m].event # Nothing
    BY <1>1, <1>4, <1>5, <1>7, NotifierMoves
  <1>9. PipeTypes'
    BY <1>1, <1>2, <1>5, <1>8 DEF PipeTypes
  <1>10. ASSUME PagerConfigured, NEW i, OnItsWay(i) PROVE OnItsWay(i)'
    <2>1. ~ Brings(notifier[n], i)
      BY <1>1 DEF Brings
    <2>2. Queued(i) => Queued(i)' \/ Brings(notifier'[n], i)
      <3>1. SUFFICES ASSUME NEW k \in DOMAIN mq, mq[k].incident = i
                     PROVE  Queued(i)' \/ Brings(notifier'[n], i)
        BY DEF Queued
      <3>2. CASE k = 1
        <4>1. \E j \in DOMAIN Channels : Channels[j] = "pagerduty" /\ j >= row.next
          BY <1>4, <1>10, ChannelsAre DEF PagerConfigured
        <4>2. QED
          BY <1>2, <1>3, <1>4, <1>8, <3>1, <3>2, <4>1 DEF Brings
      <3>3. CASE k # 1
        <4>1. k - 1 \in DOMAIN Tail(mq) /\ Tail(mq)[k - 1] = mq[k]
          BY <1>1, <3>1, <3>3
        <4>2. QED
          BY <1>5, <3>1, <4>1 DEF Queued
      <3>4. QED
        BY <3>2, <3>3
    <2>3. DeadLettered(i) => DeadLettered(i)'
      BY <1>5 DEF DeadLettered
    <2>4. QED
      BY <1>5, <1>6, <1>8, <1>10, <2>1, <2>2, <2>3, OthersStay
  <1>11. QED
    BY <1>6, <1>9, <1>10 DEF PageIInv, Ids

LEMMA PagerGrows ==
    ASSUME NEW e, \A i \in DOMAIN pager : pager[i] \in {"open", "closed"}
    PROVE  /\ DOMAIN PagerAfter(e) = DOMAIN pager \cup {e.incident}
           /\ \A i \in DOMAIN PagerAfter(e) : PagerAfter(e)[i] \in {"open", "closed"}
  BY DEF PagerAfter

\* A channel takes the event or fails: PagerDuty has the incident, comes later, or the
\* failure is remembered.
LEMMA SendKeeps == ASSUME PageIInv, NEW n \in Notifiers, Send(n) \/ SendFails(n) PROVE PageIInv'
  <1> DEFINE s == notifier[n]
  <1>1. PipeTypes /\ s \in NotifierRow /\ s.pc = "send" /\ s.next <= Len(Channels)
    BY DEF PageIInv, PipeTypes, Send, SendFails
  <1>2. UNCHANGED incVars /\ UNCHANGED dlq
    BY DEF Send, SendFails
  <1>3. IncIInv' /\ UNCHANGED <<worker, incidents, failures, mq>>
    BY <1>2, QueueKeeps DEF PageIInv, incVars
  <1>4. \E f \in BOOLEAN :
           /\ notifier' = [notifier EXCEPT ![n] = [s EXCEPT !.next = @ + 1, !.failed = f]]
           /\ s.failed = TRUE => f = TRUE
           /\ f = TRUE \/ (Send(n) /\ f = s.failed)
    <2>1. CASE Send(n)
      <3>1. notifier' = [notifier EXCEPT ![n] = [s EXCEPT !.next = @ + 1, !.failed = s.failed]]
        BY <1>1, <2>1 DEF Send, NotifierRow, PipeTypes
      <3>2. QED
        BY <1>1, <2>1, <3>1 DEF NotifierRow
    <2>2. CASE SendFails(n)
      <3>1. notifier' = [notifier EXCEPT ![n] = [s EXCEPT !.next = @ + 1, !.failed = TRUE]]
        BY <1>1, <2>2 DEF SendFails, NotifierRow, PipeTypes
      <3>2. QED
        BY <3>1
    <2>3. QED
      BY <2>1, <2>2
  <1>5. PICK f \in BOOLEAN :
           /\ notifier' = [notifier EXCEPT ![n] = [s EXCEPT !.next = @ + 1, !.failed = f]]
           /\ s.failed = TRUE => f = TRUE
           /\ f = TRUE \/ (Send(n) /\ f = s.failed)
    BY <1>4
  <1> DEFINE t == [s EXCEPT !.next = @ + 1, !.failed = f]
  <1>6. /\ t \in NotifierRow /\ t.pc = "send" /\ t.event = s.event /\ t.next = s.next + 1 /\ t.failed = f
        /\ s.event # Nothing
    <2>1. s.next \in 1..(Len(Channels) + 1) /\ s.next + 1 \in 1..(Len(Channels) + 1)
      BY <1>1, ChannelsAre DEF NotifierRow
    <2>2. s.event # Nothing
      BY <1>1 DEF PipeTypes
    <2> HIDE DEF s
    <2>3. t \in NotifierRow
      BY <1>1, <2>1 DEF NotifierRow
    <2>4. t.pc = "send" /\ t.event = s.event /\ t.next = s.next + 1 /\ t.failed = f
      BY <1>1 DEF NotifierRow
    <2>5. QED
      BY <2>2, <2>3, <2>4
  <1> HIDE DEF t
  <1>7. notifier' = [notifier EXCEPT ![n] = t]
    BY <1>5 DEF t
  <1>8. /\ notifier' \in [Notifiers -> NotifierRow] /\ notifier'[n] = t
        /\ \A m \in Notifiers : m # n => notifier'[m] = notifier[m]
        /\ \A m \in Notifiers : notifier'[m].pc = "send" <=> notifier'[m].event # Nothing
    BY <1>1, <1>6, <1>7, NotifierMoves
  <1>9. /\ DOMAIN pager \subseteq DOMAIN pager'
        /\ \A i \in DOMAIN pager' : pager'[i] \in {"open", "closed"}
        /\ Send(n) /\ Channels[s.next] = "pagerduty" => s.event.incident \in DOMAIN pager'
    <2>1. \A i \in DOMAIN pager : pager[i] \in {"open", "closed"}
      BY <1>1 DEF PipeTypes
    <2>2. /\ DOMAIN PagerAfter(s.event) = DOMAIN pager \cup {s.event.incident}
          /\ \A i \in DOMAIN PagerAfter(s.event) : PagerAfter(s.event)[i] \in {"open", "closed"}
      BY <2>1, PagerGrows
    <2>3. pager' \in {pager, PagerAfter(s.event)}
          /\ (Send(n) /\ Channels[s.next] = "pagerduty" => pager' = PagerAfter(s.event))
      BY DEF Send, SendFails
    <2>4. QED
      BY <2>1, <2>2, <2>3
  <1>10. PipeTypes'
    BY <1>1, <1>2, <1>3, <1>8, <1>9 DEF PipeTypes
  <1>11. ASSUME NEW i, OnItsWay(i) PROVE OnItsWay(i)'
    <2>1. CASE Brings(s, i)
      <3>1. CASE f = TRUE
        BY <1>6, <1>8, <2>1, <3>1 DEF Brings, OnItsWay
      <3>2. CASE f # TRUE
        <4>1. Send(n) /\ s.failed # TRUE
          BY <1>5, <3>2
        <4>2. PICK k \in DOMAIN Channels : Channels[k] = "pagerduty" /\ k >= s.next
          BY <2>1, <4>1 DEF Brings
        <4>3. CASE k = s.next
          <5>1. i \in DOMAIN pager'
            BY <1>9, <2>1, <4>1, <4>2, <4>3 DEF Brings
          <5>2. QED
            BY <5>1 DEF OnItsWay
        <4>4. CASE k # s.next
          <5>1. k >= s.next + 1
            BY <1>1, <4>2, <4>4, ChannelsAre DEF NotifierRow
          <5>2. Brings(t, i)
            BY <1>6, <2>1, <4>2, <5>1 DEF Brings
          <5>3. \E m \in Notifiers : Brings(notifier[m], i)'
            BY <1>8, <5>2 DEF Brings
          <5>4. QED
            BY <5>3 DEF OnItsWay
        <4>5. QED
          BY <4>3, <4>4
      <3>3. QED
        BY <3>1, <3>2
    <2>2. CASE ~ Brings(s, i)
      <3>1. (DeadLettered(i) => DeadLettered(i)') /\ (Queued(i) => Queued(i)')
        BY <1>2, <1>3 DEF DeadLettered, Queued
      <3>2. QED
        BY <1>3, <1>8, <1>9, <1>11, <2>2, <3>1, OthersStay
    <2>3. QED
      BY <2>1, <2>2
  <1>12. QED
    BY <1>3, <1>10, <1>11 DEF PageIInv, Ids

\* Handle has returned: every channel was tried, so the event was for PagerDuty too, or
\* is dead-lettered.
LEMMA SettleKeeps == ASSUME PageIInv, NEW n \in Notifiers, Settle(n) PROVE PageIInv'
  <1> DEFINE s == notifier[n]
  <1>1. PipeTypes /\ s \in NotifierRow /\ s.pc = "send" /\ s.next > Len(Channels) /\ dlq \in Seq(Event)
    BY DEF PageIInv, PipeTypes, Settle
  <1>2. s.event \in Event
    BY <1>1 DEF PipeTypes, NotifierRow
  <1>3. IncIInv' /\ UNCHANGED <<worker, incidents, failures, mq, pager>>
    BY QueueKeeps DEF PageIInv, incVars, Settle
  <1>4. notifier' = [notifier EXCEPT ![n] = Waiting]
    BY DEF Settle
  <1>5. /\ notifier' \in [Notifiers -> NotifierRow] /\ notifier'[n] = Waiting
        /\ \A m \in Notifiers : m # n => notifier'[m] = notifier[m]
        /\ \A m \in Notifiers : notifier'[m].pc = "send" <=> notifier'[m].event # Nothing
    BY <1>1, <1>4, NothingIsNone, NotifierMoves
  <1>6. dlq' = IF s.failed THEN Append(dlq, s.event) ELSE dlq
    BY DEF Settle, Settled
  <1>7. /\ dlq' \in Seq(Event)
        /\ \A k \in DOMAIN dlq : k \in DOMAIN dlq' /\ dlq'[k] = dlq[k]
        /\ s.failed = TRUE => Len(dlq) + 1 \in DOMAIN dlq' /\ dlq'[Len(dlq) + 1] = s.event
    BY <1>1, <1>2, <1>6
  <1>8. PipeTypes'
    BY <1>1, <1>3, <1>5, <1>7 DEF PipeTypes
  <1>9. ASSUME NEW i, OnItsWay(i) PROVE OnItsWay(i)'
    <2>1. DeadLettered(i) => DeadLettered(i)'
      BY <1>7 DEF DeadLettered
    <2>2. CASE Brings(s, i)
      <3>1. ~ \E k \in DOMAIN Channels : k >= s.next
        BY <1>1, ChannelsAre DEF NotifierRow
      <3>2. s.failed = TRUE /\ s.event.incident = i
        BY <2>2, <3>1 DEF Brings
      <3>3. DeadLettered(i)'
        BY <1>7, <3>2 DEF DeadLettered
      <3>4. QED
        BY <3>3 DEF OnItsWay
    <2>3. CASE ~ Brings(s, i)
      <3>1. Queued(i) => Queued(i)'
        BY <1>3 DEF Queued
      <3>2. QED
        BY <1>3, <1>5, <1>9, <2>1, <2>3, <3>1, OthersStay
    <2>4. QED
      BY <2>2, <2>3
  <1>10. QED
    BY <1>3, <1>8, <1>9 DEF PageIInv, Ids

\* A replica restarts, or loses its AMQP channel while it waits: its event, if any, is
\* queued again.
LEMMA RestartKeeps == ASSUME PageIInv, NEW n \in Notifiers, Restart(n) \/ ChannelClosed(n) PROVE PageIInv'
  <1> DEFINE s == notifier[n]
             closed == [Waiting EXCEPT !.pc = "stopped"]
  <1>1. PipeTypes /\ s \in NotifierRow /\ mq \in Seq(Event) /\ (s.pc = "send" => s.event \in Event)
    BY DEF PageIInv, PipeTypes, NotifierRow
  <1>2. IncIInv' /\ UNCHANGED <<worker, incidents, failures, pager, dlq>>
    <2>1. CASE Restart(n)
      BY <2>1, QueueKeeps DEF PageIInv, Restart, OnlyQueue
    <2>2. CASE ChannelClosed(n)
      BY <2>2, QueueKeeps DEF PageIInv, ChannelClosed, incVars
    <2>3. QED
      BY <2>1, <2>2
  <1>3. closed \in NotifierRow /\ closed.pc = "stopped" /\ closed.event = Nothing
    BY ChannelsAre DEF Waiting, NotifierRow
  <1>4. \E row \in {Waiting, closed} : notifier' = [notifier EXCEPT ![n] = row]
    BY DEF Restart, ChannelClosed
  <1>5. PICK row \in {Waiting, closed} : notifier' = [notifier EXCEPT ![n] = row]
    BY <1>4
  <1> HIDE DEF closed
  <1>6. row \in NotifierRow /\ row.pc # "send" /\ row.event = Nothing
    BY <1>3, <1>5, NothingIsNone
  <1>7. /\ notifier' \in [Notifiers -> NotifierRow] /\ notifier'[n] = row
        /\ \A m \in Notifiers : m # n => notifier'[m] = notifier[m]
        /\ \A m \in Notifiers : notifier'[m].pc = "send" <=> notifier'[m].event # Nothing
    BY <1>1, <1>5, <1>6, NotifierMoves
  <1>8. /\ mq' \in Seq(Event) /\ \A i : Queued(i) => Queued(i)'
        /\ s.pc = "send" => \E k \in DOMAIN mq' : mq'[k].incident = s.event.incident
    <2>1. CASE Restart(n) /\ s.pc = "send"
      <3>1. mq' = <<s.event>> \o mq
        BY <2>1 DEF Restart, Requeue
      <3>2. /\ mq' \in Seq(Event) /\ 1 \in DOMAIN mq' /\ mq'[1] = s.event
            /\ \A k \in DOMAIN mq : k + 1 \in DOMAIN mq' /\ mq'[k + 1] = mq[k]
        BY <1>1, <2>1, <3>1
      <3>3. QED
        BY <3>2 DEF Queued
    <2>2. CASE Restart(n) /\ s.pc # "send"
      BY <1>1, <2>2 DEF Restart, Queued
    <2>3. CASE ChannelClosed(n)
      BY <1>1, <2>3 DEF ChannelClosed, incVars, Queued
    <2>4. QED
      BY <2>1, <2>2, <2>3
  <1>9. PipeTypes'
    BY <1>1, <1>2, <1>7, <1>8 DEF PipeTypes
  <1>10. ASSUME NEW i, OnItsWay(i) PROVE OnItsWay(i)'
    <2>1. CASE Brings(s, i)
      <3>1. Queued(i)'
        BY <1>8, <2>1 DEF Brings, Queued
      <3>2. QED
        BY <3>1 DEF OnItsWay
    <2>2. CASE ~ Brings(s, i)
      <3>1. (DeadLettered(i) => DeadLettered(i)') /\ (Queued(i) => Queued(i)')
        BY <1>2, <1>8 DEF DeadLettered
      <3>2. QED
        BY <1>2, <1>7, <1>10, <2>2, <3>1, OthersStay
    <2>3. QED
      BY <2>1, <2>2
  <1>11. QED
    BY <1>2, <1>9, <1>10 DEF PageIInv, Ids

\* What the correlator does to the queue and to the table.
LEMMA CorrelatorKeeps == ASSUME PageIInv, IncNext, UNCHANGED notifVars PROVE PageIInv'
  <1>1. IncIInv /\ IncIInv' /\ PipeTypes /\ mq \in Seq(Event) /\ worker \in [Workers -> Place]
    BY NextIncIInv DEF PageIInv, PipeTypes, IncIInv, Shapes
  <1>2. UNCHANGED <<notifier, dlq, pager>>
    BY DEF notifVars
  <1> DEFINE Good == /\ mq' \in Seq(Event)
                     /\ failures'.publishes = 0 /\ failures'.crashes = 0 =>
                            /\ failures.publishes = 0 /\ failures.crashes = 0
                            /\ \A i : Queued(i) => Queued(i)'
                            /\ \A i : ToPublish(i) => ToPublish(i)' \/ Queued(i)'
                            /\ \A i \in Ids' : i \in Ids \/ ToPublish(i)'
  <1>3. ASSUME UNCHANGED <<worker, incidents, mq>>, failures'.publishes = failures.publishes,
               failures'.crashes = failures.crashes
        PROVE  Good
    BY <1>1, <1>3 DEF Queued, ToPublish, Ids
  <1>4. failures \in [DOMAIN FailureBound -> Nat]
    BY <1>1 DEF IncIInv, Shapes
  <1>5. DOMAIN FailureBound = {"crashes", "publishes", "queries", "analyses"}
    BY DEF FailureBound
  <1>6. /\ \A kind \in {"queries", "analyses"} :
               Fail(kind) => failures'.publishes = failures.publishes /\ failures'.crashes = failures.crashes
        /\ Fail("publishes") => failures'.publishes # 0
        /\ Fail("crashes") => failures'.crashes # 0
    BY <1>4, <1>5 DEF Fail
  <1>7. ASSUME NEW a \in Alerts, Fire(a) PROVE Good
    BY <1>3, <1>7 DEF Fire
  <1>8. ASSUME NEW n \in inflight, Analysis(n) PROVE Good
    <2>1. CASE LoadEvidence(n)
      BY <1>3, <2>1 DEF LoadEvidence
    <2>2. CASE AnalysisFails(n)
      BY <1>3, <1>6, <2>2 DEF AnalysisFails
    <2>3. CASE UpdateCausalAnalysis(n)
      <3>1. Ids' = Ids /\ UNCHANGED <<worker, mq, failures>>
        BY <2>3 DEF UpdateCausalAnalysis, Ids
      <3>2. QED
        BY <1>1, <3>1 DEF Queued, ToPublish
    <2>4. QED
      BY <1>8, <2>1, <2>2, <2>3 DEF Analysis
  <1>9. ASSUME NEW w \in Workers, Lookup(w) \/ UpsertFails(w) \/ Schedule(w) PROVE Good
    <2>1. UNCHANGED <<incidents, mq>> /\ worker[w].pc # "notify"
      BY <1>9 DEF Lookup, UpsertFails, Schedule
    <2>2. failures'.publishes = failures.publishes /\ failures'.crashes = failures.crashes
      BY <1>6, <1>9 DEF Lookup, UpsertFails, Schedule
    <2>3. \A u \in Workers : u # w => worker'[u] = worker[u]
      BY <1>1, <1>9 DEF Lookup, UpsertFails, Schedule, Mark
    <2>4. \A i : ToPublish(i) => ToPublish(i)'
      BY <2>1, <2>3 DEF ToPublish
    <2>5. QED
      BY <1>1, <2>1, <2>2, <2>4 DEF Queued, Ids
  <1>10. ASSUME NEW w \in Workers, Upsert(w) PROVE Good
    <2>1. UNCHANGED <<mq, failures>> /\ worker[w].pc = "upsert"
      BY <1>10 DEF Upsert
    <2>2. /\ worker'[w].pc = "notify"
          /\ worker[w].incident = 0 => worker'[w].incident = Len(incidents) + 1
          /\ \A u \in Workers : u # w => worker'[u] = worker[u]
      BY <1>1, <1>10 DEF Upsert, Place
    <2>3. \A i \in Ids' : i \in Ids \/ (worker[w].incident = 0 /\ i = Len(incidents) + 1)
      <3>1. incidents \in Seq(Row)
        BY <1>1 DEF IncIInv, Shapes
      <3>2. CASE worker[w].incident = 0
        <4>1. incidents' = Append(incidents, NewIncident(Head(topic[w]), worker[w].built))
          BY <1>10, <3>2 DEF Upsert
        <4>2. QED
          BY <3>1, <3>2, <4>1 DEF Ids
      <3>3. CASE worker[w].incident # 0
        BY <1>10, <3>3 DEF Upsert, Ids
      <3>4. QED
        BY <3>2, <3>3
    <2>4. \A i \in Ids' : i \in Ids \/ ToPublish(i)'
      BY <2>2, <2>3 DEF ToPublish
    <2>5. \A i : ToPublish(i) => ToPublish(i)'
      BY <2>1, <2>2 DEF ToPublish
    <2>6. QED
      BY <1>1, <2>1, <2>4, <2>5 DEF Queued
  <1>11. ASSUME NEW w \in Workers, Notify(w) PROVE Good
    <2> DEFINE e == [incident |-> worker[w].incident, action |-> "triggered", tries |-> 0]
    <2>1. UNCHANGED incidents /\ worker[w].pc = "notify" /\ \A u \in Workers : u # w => worker'[u] = worker[u]
      BY <1>1, <1>11 DEF Notify
    <2>2. CASE Fail("publishes") /\ UNCHANGED mq
      BY <1>1, <1>6, <2>2
    <2>3. CASE mq' = Append(mq, e) /\ UNCHANGED failures
      <3>1. e \in Event /\ e.incident = worker[w].incident
        BY <1>1 DEF Event, Place
      <3> HIDE DEF e
      <3>2. /\ mq' \in Seq(Event) /\ Len(mq) + 1 \in DOMAIN mq' /\ mq'[Len(mq) + 1] = e
            /\ \A k \in DOMAIN mq : k \in DOMAIN mq' /\ mq'[k] = mq[k]
        BY <1>1, <2>3, <3>1
      <3>3. \A i : Queued(i) => Queued(i)'
        BY <3>2 DEF Queued
      <3>4. \A i : ToPublish(i) => ToPublish(i)' \/ Queued(i)'
        BY <2>1, <3>1, <3>2 DEF ToPublish, Queued
      <3>5. QED
        BY <2>1, <2>3, <3>2, <3>3, <3>4 DEF Ids
    <2>4. QED
      BY <1>11, <2>2, <2>3 DEF Notify
  <1>12. ASSUME NEW s \in Sweepers, SweepStep(s) PROVE Good
    <2>1. CASE ResolveStale(s)
      <3>1. Ids' = Ids /\ UNCHANGED <<worker, mq, failures>>
        BY <2>1 DEF ResolveStale, Ids
      <3>2. QED
        BY <1>1, <3>1 DEF Queued, ToPublish
    <2>2. CASE NotifyResolved(s)
      <3>1. UNCHANGED <<worker, incidents>>
        BY <2>2 DEF NotifyResolved
      <3>2. PICK i \in sweeping[s] :
               \/ mq' = Append(mq, [incident |-> i, action |-> "resolved", tries |-> 0]) /\ UNCHANGED failures
               \/ Fail("publishes") /\ UNCHANGED mq
        BY <2>2 DEF NotifyResolved
      <3> DEFINE e == [incident |-> i, action |-> "resolved", tries |-> 0]
      <3>3. e \in Event
        <4>1. i \in Nat
          BY <1>1, <3>2 DEF IncIInv, Shapes
        <4>2. QED
          BY <4>1 DEF Event
      <3> HIDE DEF e
      <3>4. CASE mq' = Append(mq, e) /\ UNCHANGED failures
        <4>1. mq' \in Seq(Event) /\ \A k \in DOMAIN mq : k \in DOMAIN mq' /\ mq'[k] = mq[k]
          BY <1>1, <3>3, <3>4
        <4>2. QED
          BY <3>1, <3>4, <4>1 DEF Queued, ToPublish, Ids
      <3>5. CASE Fail("publishes") /\ UNCHANGED mq
        BY <1>1, <1>6, <3>5
      <3>6. QED
        BY <3>2, <3>4, <3>5 DEF e
    <2>3. QED
      BY <1>12, <2>1, <2>2 DEF SweepStep
  <1>13. ASSUME Tick PROVE Good
    <2>1. Ids' = Ids /\ UNCHANGED <<mq, failures>>
      BY <1>13 DEF Tick, Ids
    <2>2. \A u \in Workers : worker'[u].pc = worker[u].pc /\ worker'[u].incident = worker[u].incident
      BY <1>1, <1>13 DEF Tick, Place
    <2>3. QED
      BY <1>1, <2>1, <2>2 DEF Queued, ToPublish
  <1>14. ASSUME Crash PROVE Good
    BY <1>1, <1>6, <1>14 DEF Crash
  <1>15. Good
    BY <1>7, <1>8, <1>9, <1>10, <1>11, <1>12, <1>13, <1>14 DEF IncNext, HandleStep
  <1>16. PipeTypes'
    BY <1>1, <1>2, <1>15 DEF PipeTypes
  <1>17. ASSUME PagerConfigured, failures'.publishes = 0, failures'.crashes = 0, NEW i \in Ids' PROVE OnItsWay(i)'
    <2>1. failures.publishes = 0 /\ failures.crashes = 0 /\ (i \in Ids \/ ToPublish(i)')
      BY <1>15, <1>17
    <2>2. i \in Ids => OnItsWay(i)
      BY <1>17, <2>1 DEF PageIInv
    <2>3. /\ Queued(i) => Queued(i)'
          /\ ToPublish(i) => ToPublish(i)' \/ Queued(i)'
      BY <1>15, <1>17
    <2>4. DeadLettered(i) => DeadLettered(i)'
      BY <1>2 DEF DeadLettered
    <2>5. (\E n \in Notifiers : Brings(notifier[n], i)) => \E n \in Notifiers : Brings(notifier[n], i)'
      BY <1>2 DEF Brings
    <2>6. i \in DOMAIN pager => i \in DOMAIN pager'
      BY <1>2
    <2>7. QED
      BY <2>1, <2>2, <2>3, <2>4, <2>5, <2>6 DEF OnItsWay
  <1>18. QED
    BY <1>1, <1>16, <1>17 DEF PageIInv

LEMMA NextPageIInv == ASSUME PageIInv, [NotifNext]_pipeVars PROVE PageIInv'
  <1>1. CASE UNCHANGED pipeVars
    <2>1. UNCHANGED <<incVars, notifier, dlq, pager, mq, worker, incidents, failures>>
      BY <1>1 DEF pipeVars, notifVars, incVars
    <2>2. IncIInv'
      BY <2>1, QueueKeeps DEF PageIInv, incVars
    <2>3. PipeTypes'
      BY <2>1 DEF PageIInv, PipeTypes
    <2>4. \A i : OnItsWay(i) => OnItsWay(i)'
      BY <2>1 DEF OnItsWay, DeadLettered, Queued, ToPublish, Brings
    <2>5. QED
      BY <2>1, <2>2, <2>3, <2>4 DEF PageIInv, Ids
  <1>2. QED
    BY <1>1, CorrelatorKeeps, ReceiveKeeps, SendKeeps, SettleKeeps, RestartKeeps DEF NotifNext, NotifierStep

LEMMA InitPageIInv == ASSUME NotifInit PROVE PageIInv
  <1>1. IncIInv /\ Ids = {} /\ mq = <<>>
    BY InitIncIInv DEF NotifInit, IncInit, Ids
  <1>2. PipeTypes
    BY <1>1, NothingIsNone DEF NotifInit, PipeTypes
  <1>3. QED
    BY <1>1, <1>2 DEF PageIInv

LEMMA SpecPageIInv == NotifSpec => []PageIInv
  BY InitPageIInv, NextPageIInv, PTL DEF NotifSpec

LEMMA PipeTypesHold == PageIInv => NotifTypeOK
  <1>1. SUFFICES ASSUME PageIInv PROVE NotifTypeOK
    OBVIOUS
  <1>2. IncTypeOK
    BY <1>1, TypesHold DEF PageIInv
  <1>3. \A n \in Notifiers : notifier[n] \in NotifierRow
    BY <1>1 DEF PageIInv, PipeTypes
  <1>4. QED
    BY <1>1, <1>2, <1>3 DEF PageIInv, PipeTypes, NotifTypeOK, NotifierRow

\* Types: a replica has an event exactly while it sends, and is at one of the channels.
THEOREM PipelineTypeCorrect == NotifSpec => []NotifTypeOK
  BY PipeTypesHold, SpecPageIInv, PTL

\* Nobody is left unpaged, however many replicas, channels, failed requests, restarts
\* and closed AMQP channels there are: an incident has reached PagerDuty, its event is
\* in the dead-letter queue, or something is still under way.
THEOREM EveryIncidentIsPaged == NotifSpec => []IncidentsArePaged
  <1>1. PageIInv => IncidentsArePaged
    <2>1. SUFFICES ASSUME PageIInv, PagerConfigured, Settling, failures.publishes = 0, failures.crashes = 0,
                          NEW i \in Ids
                   PROVE  i \in DOMAIN pager \/ DeadLettered(i)
      BY DEF IncidentsArePaged
    <2>2. OnItsWay(i)
      BY <2>1 DEF PageIInv
    <2>3. ~ Queued(i) /\ ~ ToPublish(i) /\ ~ \E n \in Notifiers : Brings(notifier[n], i)
      BY <2>1 DEF Settling, Queued, ToPublish, Brings
    <2>4. QED
      BY <2>2, <2>3 DEF OnItsWay
  <1>2. QED
    BY <1>1, SpecPageIInv, PTL

=============================================================================
