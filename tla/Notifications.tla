--------------------------- MODULE Notifications ---------------------------
(***************************************************************************)
(* From an incident to the pager: the events the correlator publishes, the *)
(* RabbitMQ queue with its dead-letter queue (shared/rabbitmq) and the     *)
(* worker of notification-service (worker/notification_worker.go), which   *)
(* hands each event to every configured channel.                           *)
(*                                                                         *)
(* A notifier is one replica of notification-service: one AMQP consumer    *)
(* with a prefetch of one.  Of the channels only PagerDuty keeps state the *)
(* properties look at: an alert per dedup key, which is the incident id.   *)
(* Opsgenie's alias works the same way.                                    *)
(***************************************************************************)
EXTENDS Incidents

CONSTANTS
    Notifiers,          \* replicas of notification-service
    Channels,           \* the configured channels, in the order Handle tries them
    MaxChannelFails,    \* bound: channel requests that fail
    MaxNotifierCrashes, \* bound: restarts of a replica
    MaxDisconnects      \* bound: AMQP channels that are closed

ASSUME NotificationConstants ==
    /\ Channels \in Seq({"slack", "email", "pagerduty", "opsgenie", "webhook"})
    /\ MaxChannelFails \in Nat /\ MaxNotifierCrashes \in Nat /\ MaxDisconnects \in Nat

VARIABLES
    notifier,  \* each replica: idle, handling an event, or no longer consuming
    dlq,       \* notifications.dlq
    pager,     \* PagerDuty's alerts: incident |-> open or closed
    mishaps    \* how many failures of each kind have happened

notifVars == <<notifier, dlq, pager, mishaps>>
pipeVars == <<incVars, notifVars>>

MishapBound == [channels |-> MaxChannelFails, restarts |-> MaxNotifierCrashes,
                disconnects |-> MaxDisconnects]

Mishap(kind) ==
    /\ mishaps[kind] < MishapBound[kind]
    /\ mishaps' = [mishaps EXCEPT ![kind] = @ + 1]

Nothing == [incident |-> 0, action |-> "none", tries |-> 0]
Waiting == [pc |-> "idle", event |-> Nothing, next |-> 1, failed |-> FALSE]

\* The queue is the one variable of the incident side a notifier changes.
OnlyQueue ==
    UNCHANGED <<fired, topic, marked, worker, incidents, inflight, sweeping,
                resolves, lastAlert, dropped, failures>>

-----------------------------------------------------------------------------
(* The consumer *)

\* External: an unacknowledged event goes back to the head of the queue.
Requeue(e) == <<e>> \o mq

\* Consumer.Start takes the next message; Handle begins.
Receive(n) ==
    /\ notifier[n].pc = "idle"
    /\ mq # <<>>
    /\ mq' = Tail(mq)
    /\ notifier' = [notifier EXCEPT ![n] =
           [Waiting EXCEPT !.pc = "send", !.event = [Head(mq) EXCEPT !.tries = @ + 1]]]
    /\ OnlyQueue
    /\ UNCHANGED <<dlq, pager, mishaps>>

\* sendPagerDuty: trigger or resolve under the incident's dedup key.
PagerAfter(e) ==
    [i \in DOMAIN pager \cup {e.incident} |->
        IF i # e.incident THEN pager[i] ELSE IF e.action = "resolved" THEN "closed" ELSE "open"]

\* The next channel takes the event.
Send(n) ==
    LET s == notifier[n] IN
    /\ s.pc = "send" /\ s.next <= Len(Channels)
    /\ pager' = IF Channels[s.next] = "pagerduty" THEN PagerAfter(s.event) ELSE pager
    /\ notifier' = [notifier EXCEPT ![n].next = @ + 1]
    /\ UNCHANGED <<incVars, dlq, mishaps>>

\* The request fails, before or after it took effect; Handle goes on to the next
\* channel and remembers the error.
SendFails(n) ==
    LET s == notifier[n] IN
    /\ s.pc = "send" /\ s.next <= Len(Channels)
    /\ Mishap("channels")
    /\ pager' \in {pager, IF Channels[s.next] = "pagerduty" THEN PagerAfter(s.event) ELSE pager}
    /\ notifier' = [notifier EXCEPT ![n].next = @ + 1, ![n].failed = TRUE]
    /\ UNCHANGED <<incVars, dlq>>

\* Faulty variant: the event is acknowledged whatever Handle returned.
SettledAlways(e, failed) == dlq

\* Ack, or Nack without requeue, which dead-letters the event at once.
Settled(e, failed) == IF failed THEN Append(dlq, e) ELSE dlq

\* Handle has returned.
Settle(n) ==
    LET s == notifier[n] IN
    /\ s.pc = "send" /\ s.next > Len(Channels)
    /\ dlq' = Settled(s.event, s.failed)
    /\ notifier' = [notifier EXCEPT ![n] = Waiting]
    /\ UNCHANGED <<incVars, pager, mishaps>>

\* The replica restarts: its unacknowledged event goes back to the queue.
Restart(n) ==
    /\ Mishap("restarts")
    /\ mq' = IF notifier[n].pc = "send" THEN Requeue(notifier[n].event) ELSE mq
    /\ notifier' = [notifier EXCEPT ![n] = Waiting]
    /\ OnlyQueue
    /\ UNCHANGED <<dlq, pager>>

\* The broker closes the AMQP channel: Start returns an error, which main logs;
\* nothing starts the consumer again while the process lives.
ChannelClosed(n) ==
    /\ notifier[n].pc = "idle"
    /\ Mishap("disconnects")
    /\ notifier' = [notifier EXCEPT ![n] = [Waiting EXCEPT !.pc = "stopped"]]
    /\ UNCHANGED <<incVars, dlq, pager>>

NotifInit ==
    /\ IncInit
    /\ notifier = [n \in Notifiers |-> Waiting]
    /\ dlq = <<>>
    /\ pager = [i \in {} |-> "open"]
    /\ mishaps = [kind \in DOMAIN MishapBound |-> 0]

NotifierStep(n) == Receive(n) \/ Send(n) \/ Settle(n)

NotifNext ==
    \/ IncNext /\ UNCHANGED notifVars
    \/ \E n \in Notifiers :
        NotifierStep(n) \/ SendFails(n) \/ Restart(n) \/ ChannelClosed(n)

NotifSpec == NotifInit /\ [][NotifNext]_pipeVars

-----------------------------------------------------------------------------
(* Properties *)

NotifTypeOK ==
    /\ IncTypeOK
    /\ \A n \in Notifiers :
        /\ notifier[n].pc \in {"idle", "send", "stopped"}
        /\ notifier[n].next \in 1..(Len(Channels) + 1)
        /\ notifier[n].pc = "send" <=> notifier[n].event # Nothing
    /\ \A i \in DOMAIN pager : pager[i] \in {"open", "closed"}

\* Nothing is under way that could still change what the pager shows.
Settling ==
    /\ mq = <<>>
    /\ \A n \in Notifiers : notifier[n].pc # "send"
    /\ \A w \in Workers : worker[w].pc = "idle"
    /\ \A s \in Sweepers : sweeping[s] = {}

DeadLettered(i) == \E k \in DOMAIN dlq : dlq[k].incident = i

PagerConfigured == \E k \in DOMAIN Channels : Channels[k] = "pagerduty"

\* Nobody is left unpaged: once everything has settled, an incident has reached
\* PagerDuty, if it is configured, unless the correlator could not publish the event
\* or restarted before it could, or the event is in the dead-letter queue.
IncidentsArePaged ==
    PagerConfigured /\ Settling /\ failures.publishes = 0 /\ failures.crashes = 0 =>
        \A i \in Ids : i \in DOMAIN pager \/ DeadLettered(i)

=============================================================================
