------------------------------ MODULE LogIntake ------------------------------
(***************************************************************************)
(* How log entries reach the "logs" topic: log-service (internal/handler/  *)
(* log_handler.go, cmd/main.go) answers once an entry is in its queue and  *)
(* publishes from workers; the gateway's migration intake (ingestproxy)    *)
(* publishes, counts and answers, and its OTLP bridge (logbridge) counts,  *)
(* publishes and answers.                                                  *)
(*                                                                         *)
(* A client sends a batch and, when it is refused, sends it again, every   *)
(* entry under a new id: an entry is its place in the batch and the        *)
(* attempt it came with.  log-service stops in an orderly way, by a signal *)
(* that gives up waiting for requests, or by dying.                        *)
(***************************************************************************)
EXTENDS Integers, Sequences, FiniteSets, SequencesExt

CONSTANTS
    Queued,         \* client batches sent to log-service
    Direct,         \* client batches sent to the gateway's intakes
    BatchLen,       \* entries in each
    QueueCap,       \* capacity of logQueue
    LogWorkers,     \* workers of log-service
    FlushSize,      \* batchSize
    MaxTries,       \* bound: attempts of each client
    MaxLogFaults    \* bound: failed publishes, uncounted usage, forced stops and crashes

ASSUME LogConstants ==
    /\ IsFiniteSet(Queued) /\ IsFiniteSet(Direct) /\ IsFiniteSet(LogWorkers)
    /\ Queued \cap Direct = {}
    /\ {BatchLen, QueueCap, FlushSize} \subseteq Nat \ {0}
    /\ MaxTries \in [Queued \cup Direct -> Nat \ {0}] /\ MaxLogFaults \in Nat

VARIABLES
    client,     \* each batch: how far its request is, its attempt, the next entry
    logQueue,   \* the channel
    batch,      \* each worker: what it has taken and not flushed
    server,     \* log-service: up, draining, closed, down
    logTopic,   \* entries in Kafka
    dropped,    \* history: entries whose publish failed or that a dying process held
    usage,      \* Redis: entries counted
    miscount,   \* history: entries Redis did not take; entries counted and then not accepted
    logFaults

logVars == <<client, logQueue, batch, server, logTopic, dropped, usage, miscount, logFaults>>

Batches == Queued \cup Direct
NewClient == [pc |-> "idle", try |-> 1, next |-> 1]
EntryOf(b, i) == [of |-> b, i |-> i, try |-> client[b].try]
Entries(b) == {EntryOf(b, i) : i \in 1..BatchLen}
LogFault == logFaults < MaxLogFaults /\ logFaults' = logFaults + 1
Goes(b, pc) == client' = [client EXCEPT ![b].pc = pc]

-----------------------------------------------------------------------------
(* IngestLog *)

\* The body is read and valid; requests are taken until the shutdown begins.
Receive(b) ==
    /\ b \in Queued /\ server = "up" /\ client[b].pc = "idle"
    /\ Goes(b, "enqueue")
    /\ UNCHANGED <<logQueue, batch, server, logTopic, dropped, usage, miscount, logFaults>>

\* Faulty variant: the queue takes whatever comes.
EnqueueUnbounded(b) ==
    /\ client[b].pc = "enqueue" /\ server \in {"up", "draining"}
    /\ logQueue' = Append(logQueue, EntryOf(b, client[b].next))
    /\ client' = [client EXCEPT ![b].next = @ + 1,
                      ![b].pc = IF client[b].next = BatchLen THEN "meter" ELSE @]
    /\ UNCHANGED <<batch, server, logTopic, dropped, usage, miscount, logFaults>>

\* Entry by entry, without waiting; a full queue refuses the request and keeps the
\* entries that were already taken.
Enqueue(b) ==
    /\ client[b].pc = "enqueue" /\ server \in {"up", "draining"}
    /\ IF Len(logQueue) < QueueCap
       THEN /\ logQueue' = Append(logQueue, EntryOf(b, client[b].next))
            /\ client' = [client EXCEPT ![b].next = @ + 1,
                              ![b].pc = IF client[b].next = BatchLen THEN "meter" ELSE @]
       ELSE Goes(b, "refused") /\ UNCHANGED logQueue
    /\ UNCHANGED <<batch, server, logTopic, dropped, usage, miscount, logFaults>>

\* Record; an error of Redis is logged.
Counted(b) ==
    \/ usage' = usage + BatchLen /\ UNCHANGED <<miscount, logFaults>>
    \/ LogFault /\ miscount' = [miscount EXCEPT !.missed = @ + BatchLen] /\ UNCHANGED usage

MeterBatch(b) ==
    /\ client[b].pc = "meter" /\ server # "down"
    /\ Goes(b, "answer")
    /\ Counted(b)
    /\ UNCHANGED <<logQueue, batch, server, logTopic, dropped>>

\* 201.
Accept(b) ==
    /\ client[b].pc = "answer" /\ (b \in Queued => server # "down")
    /\ Goes(b, "acked")
    /\ UNCHANGED <<logQueue, batch, server, logTopic, dropped, usage, miscount, logFaults>>

\* The client was refused, or lost its connection, and sends the batch again.
Retry(b) ==
    /\ client[b].pc = "refused" /\ client[b].try < MaxTries[b]
    /\ client' = [client EXCEPT ![b] = [NewClient EXCEPT !.try = client[b].try + 1]]
    /\ UNCHANGED <<logQueue, batch, server, logTopic, dropped, usage, miscount, logFaults>>

-----------------------------------------------------------------------------
(* The workers *)

Take(w) ==
    /\ server # "down" /\ logQueue # <<>> /\ Len(batch[w]) < FlushSize
    /\ batch' = [batch EXCEPT ![w] = Append(@, Head(logQueue))]
    /\ logQueue' = Tail(logQueue)
    /\ UNCHANGED <<client, server, logTopic, dropped, usage, miscount, logFaults>>

\* PublishBatch: every entry arrives, or the call fails and any of them may have.
PublishBatch(entries) ==
    \/ logTopic' = logTopic \cup entries /\ UNCHANGED logFaults
    \/ LogFault /\ \E arrived \in SUBSET entries : logTopic' = logTopic \cup arrived

\* At batchSize, at a tick, or because the queue was closed.  A failed publish is
\* logged and forgotten.
flushBatch(w) ==
    /\ server # "down" /\ batch[w] # <<>>
    /\ batch' = [batch EXCEPT ![w] = <<>>]
    /\ PublishBatch(ToSet(batch[w]))
    /\ dropped' = dropped \cup (ToSet(batch[w]) \ logTopic')
    /\ UNCHANGED <<client, logQueue, server, usage, miscount>>

-----------------------------------------------------------------------------
(* The gateway's intake: publish, count, answer *)

\* publishLogs: an error refuses the request.
publishLogs(b) ==
    /\ PublishBatch(Entries(b))
    /\ Goes(b, IF logFaults' = logFaults THEN "count" ELSE "refused")

\* The handlers, once the key is resolved and the body decoded.
DatadogLogs(b) ==
    /\ b \in Direct /\ client[b].pc = "idle"
    /\ publishLogs(b)
    /\ UNCHANGED <<logQueue, batch, server, dropped, usage, miscount>>

\* The metric events of a request go first, and when they fail its logs are not
\* looked at.
SplunkHEC(b) ==
    /\ b \in Direct /\ client[b].pc = "idle"
    /\ \/ publishLogs(b)
       \/ LogFault /\ Goes(b, "refused") /\ UNCHANGED logTopic
    /\ UNCHANGED <<logQueue, batch, server, dropped, usage, miscount>>

\* An OTLP export is counted ...
emitLogs(b) ==
    /\ b \in Direct /\ client[b].pc = "idle"
    /\ Goes(b, "publish")
    /\ Counted(b)
    /\ UNCHANGED <<logQueue, batch, server, logTopic, dropped>>

\* ... before the bridge publishes it.
BridgePublish(b) ==
    /\ client[b].pc = "publish"
    /\ PublishBatch(Entries(b))
    /\ IF logFaults' = logFaults THEN Goes(b, "answer") /\ UNCHANGED miscount
       ELSE /\ Goes(b, "refused")
            /\ miscount' = [miscount EXCEPT !.refused = @ + BatchLen]
    /\ UNCHANGED <<logQueue, batch, server, dropped, usage>>

CountDirect(b) ==
    /\ client[b].pc = "count"
    /\ Goes(b, "answer")
    /\ Counted(b)
    /\ UNCHANGED <<logQueue, batch, server, logTopic, dropped>>

-----------------------------------------------------------------------------
(* log-service stops *)

InRequest(b) == b \in Queued /\ client[b].pc \in {"enqueue", "meter", "answer"}
Busy == \E b \in Batches : InRequest(b)

\* The process ends: the clients of requests in progress see their connection close.
CutOff ==
    /\ client' = [b \in Batches |-> IF InRequest(b) THEN [client[b] EXCEPT !.pc = "refused"] ELSE client[b]]
    /\ miscount' = [miscount EXCEPT !.refused = @ + BatchLen *
                        Cardinality({b \in Queued : client[b].pc = "answer"})]
    /\ server' = "down"

\* srv.Shutdown stops accepting ...
BeginShutdown ==
    /\ server = "up"
    /\ server' = "draining"
    /\ UNCHANGED <<client, logQueue, batch, logTopic, dropped, usage, miscount, logFaults>>

\* ... waits for the requests, or gives up after its timeout, and the queue is closed.
CloseQueue ==
    /\ server = "draining"
    /\ IF Busy THEN LogFault ELSE UNCHANGED logFaults
    /\ server' = "closed"
    /\ UNCHANGED <<client, logQueue, batch, logTopic, dropped, usage, miscount>>

\* Faulty variant: the workers stop with the batch they have.
ExitEarly ==
    /\ server = "closed" /\ logQueue = <<>>
    /\ CutOff
    /\ batch' = [w \in LogWorkers |-> <<>>]
    /\ UNCHANGED <<logQueue, logTopic, dropped, usage, logFaults>>

\* Close waits for the workers, which drain the queue and flush.
Exit ==
    /\ server = "closed" /\ logQueue = <<>> /\ \A w \in LogWorkers : batch[w] = <<>>
    /\ CutOff
    /\ UNCHANGED <<logQueue, batch, logTopic, dropped, usage, logFaults>>

\* The process dies, by itself or because a request that outlived the shutdown
\* sends on the closed queue; it starts again with nothing.
Die ==
    /\ server # "down"
    /\ \/ LogFault
       \/ server = "closed" /\ (\E b \in Queued : client[b].pc = "enqueue") /\ UNCHANGED logFaults
    /\ dropped' = dropped \cup ToSet(logQueue) \cup UNION {ToSet(batch[w]) : w \in LogWorkers}
    /\ logQueue' = <<>> /\ batch' = [w \in LogWorkers |-> <<>>]
    /\ CutOff
    /\ UNCHANGED <<logTopic, usage>>

StartServer ==
    /\ server = "down"
    /\ server' = "up"
    /\ UNCHANGED <<client, logQueue, batch, logTopic, dropped, usage, miscount, logFaults>>

-----------------------------------------------------------------------------

LogInit ==
    /\ client = [b \in Batches |-> NewClient]
    /\ logQueue = <<>> /\ batch = [w \in LogWorkers |-> <<>>]
    /\ server = "up"
    /\ logTopic = {} /\ dropped = {}
    /\ usage = 0 /\ miscount = [missed |-> 0, refused |-> 0] /\ logFaults = 0

LogNext ==
    \/ \E b \in Batches : Receive(b) \/ Enqueue(b) \/ MeterBatch(b) \/ Accept(b) \/ Retry(b)
                          \/ DatadogLogs(b) \/ SplunkHEC(b) \/ CountDirect(b)
                          \/ emitLogs(b) \/ BridgePublish(b)
    \/ \E w \in LogWorkers : Take(w) \/ flushBatch(w)
    \/ BeginShutdown \/ CloseQueue \/ Exit \/ Die \/ StartServer

LogSpec == LogInit /\ [][LogNext]_logVars

-----------------------------------------------------------------------------
(* Properties *)

AllEntries == [of : Batches, i : 1..BatchLen, try : Nat]
LogTypeOK ==
    /\ client \in [Batches -> [pc : {"idle", "enqueue", "meter", "count", "publish", "answer", "acked", "refused"},
                               try : Nat, next : 1..(BatchLen + 1)]]
    /\ Len(logQueue) <= QueueCap /\ ToSet(logQueue) \subseteq AllEntries
    /\ \A w \in LogWorkers : Len(batch[w]) <= FlushSize /\ ToSet(batch[w]) \subseteq AllEntries
    /\ server \in {"up", "draining", "closed", "down"}
    /\ logTopic \subseteq AllEntries /\ dropped \subseteq AllEntries

Underway == ToSet(logQueue) \cup UNION {ToSet(batch[w]) : w \in LogWorkers}

\* No entry that a client was told is accepted disappears: it is in the queue, in
\* a worker's batch or in the topic, or a publish failed or the process died with
\* it.  An orderly shutdown in the middle of requests loses none.
AckedAccountedFor ==
    \A b \in Batches : client[b].pc = "acked" => Entries(b) \subseteq Underway \cup logTopic \cup dropped

\* The usage counter is what clients were told is accepted, but for what Redis did
\* not take, for answers a dying process did not give, and for OTLP exports, counted
\* first, whose publish failed: the entries that a refused batch left in the queue or
\* in the topic are not billed, nor is a batch that the client repeats billed twice.
BilledOnceAccepted ==
    usage + miscount.missed - miscount.refused
        = BatchLen * Cardinality({b \in Batches : client[b].pc \in {"publish", "answer", "acked"}})

\* The client's 202, the bill and the topic agree: what was acknowledged is there or
\* known to be lost, and is what was counted.
EntriesAccountedFor == AckedAccountedFor /\ BilledOnceAccepted
=============================================================================
