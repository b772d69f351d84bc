------------------------------- MODULE Billing -------------------------------
(***************************************************************************)
(* Subscriptions of one tenant (gateway-service billing/handler.go and     *)
(* billing.go, TenantStore of auth/tenants.go): Stripe's events and what   *)
(* the webhook makes of them.                                              *)
(*                                                                         *)
(* Stripe is external: it sends an event until a delivery succeeds, in any *)
(* order, may send one again, and may deliver two at a time.  An event is  *)
(* applied statement by statement, each of which can fail; the delivery is *)
(* then answered 500 and the whole event comes again.  Each checkout makes *)
(* a subscription of its own; a subscription keeps the plan of its         *)
(* checkout, which its metadata carries.                                   *)
(***************************************************************************)
EXTENDS Naturals, Sequences, FiniteSets

CONSTANTS
    Subs,          \* subscriptions, each from one checkout
    SubPlan,       \* the plan of each
    Deliveries,    \* deliveries that may be applied at the same time
    MaxEvents,     \* bound: events
    MaxBillFaults  \* bound: failed statements and events delivered again

ASSUME BillConstants ==
    /\ IsFiniteSet(Subs) /\ IsFiniteSet(Deliveries)
    /\ "none" \notin Subs      \* no subscription: the column is NULL
    /\ SubPlan \in [Subs -> {"standard", "premium"}]
    /\ MaxEvents \in Nat /\ MaxBillFaults \in Nat

VARIABLES
    stripe,      \* external: the state of each subscription
    current,     \* external: the subscription of the last checkout
    outbox,      \* external: events not delivered successfully yet
    tenant,      \* the tenants row: plan, status, subscription
    applying,    \* each delivery: its event and the statements left to run
    crossed,     \* history: a statement ran after one of a newer event, or for a subscription
                 \* that is not the tenant's last
    newest,      \* history: the newest event that ran a statement
    events, billFaults

billVars == <<stripe, current, outbox, tenant, applying, crossed, newest, events, billFaults>>
stripeVars == <<stripe, current, events>>

NoSub == "none"
NoDelivery == [n |-> 0, type |-> "none", sub |-> NoSub, status |-> "none", todo |-> <<>>]
BillFault == billFaults < MaxBillFaults /\ billFaults' = billFaults + 1

-----------------------------------------------------------------------------
(* Stripe *)

Event(n, type, s, status) == [n |-> n, type |-> type, sub |-> s, status |-> status]

\* One change of a subscription and the events it sends, types in order.
Send(s, status, types) ==
    /\ events + Len(types) <= MaxEvents
    /\ stripe' = [stripe EXCEPT ![s] = status]
    /\ outbox' = outbox \cup {Event(events + i, types[i], s, status) : i \in 1..Len(types)}
    /\ events' = events + Len(types)
    /\ UNCHANGED <<tenant, applying, crossed, newest, billFaults>>

CompleteCheckout(s) ==
    /\ stripe[s] = "none"
    /\ Send(s, "active", <<"checkout.session.completed">>)
    /\ current' = s

ChargeFails(s) ==
    /\ stripe[s] = "active"
    /\ Send(s, "past_due", <<"invoice.payment_failed", "customer.subscription.updated">>)
    /\ UNCHANGED current

ChargeSucceeds(s) ==
    /\ stripe[s] \in {"past_due", "unpaid"}
    /\ Send(s, "active", <<"invoice.paid", "customer.subscription.updated">>)
    /\ UNCHANGED current

RetriesExhausted(s) ==
    /\ stripe[s] = "past_due"
    /\ Send(s, "unpaid", <<"customer.subscription.updated">>)
    /\ UNCHANGED current

CancelSubscription(s) ==
    /\ stripe[s] \in {"active", "past_due", "unpaid"}
    /\ Send(s, "canceled", <<"customer.subscription.deleted">>)
    /\ UNCHANGED current

-----------------------------------------------------------------------------
(* The webhook *)

statusForSubscription(status) ==
    CASE status = "past_due" -> "past_due"
      [] status \in {"unpaid", "incomplete_expired", "canceled"} -> "suspended"
      [] OTHER -> "active"

\* The statements an event runs, in order.
Statements(e) ==
    CASE e.type = "checkout.session.completed" -> <<"ids", "plan", "status">>
      [] e.type \in {"customer.subscription.updated", "customer.subscription.deleted"} -> <<"plan", "status">>
      [] OTHER -> <<"status">>

\* What each leaves in the row.
NewPlan(e) == IF e.type = "customer.subscription.deleted" THEN "free" ELSE SubPlan[e.sub]
NewStatus(e) ==
    CASE e.type = "customer.subscription.updated" -> statusForSubscription(e.status)
      [] e.type = "invoice.payment_failed" -> "past_due"
      [] OTHER -> "active"

\* An invoice carries no tenant: it is found by the customer a checkout recorded.
Resolvable(e) == e.type \in {"invoice.payment_failed", "invoice.paid"} => tenant.sub # NoSub

\* Webhook: the signature holds, and applyEvent begins.
Deliver(d, e) ==
    /\ applying[d] = NoDelivery /\ e \in outbox
    /\ \A o \in Deliveries : applying[o].n # e.n
    /\ Resolvable(e)
    /\ applying' = [applying EXCEPT ![d] = [n |-> e.n, type |-> e.type, sub |-> e.sub,
                                            status |-> e.status, todo |-> Statements(e)]]
    /\ UNCHANGED <<stripeVars, outbox, tenant, crossed, newest, billFaults>>

\* SetStripeIDs, UpdatePlan or SetStatus; whoever writes last wins.
RunStatement(d) ==
    LET e == applying[d] IN
    /\ e.todo # <<>>
    /\ tenant' = CASE Head(e.todo) = "ids" -> [tenant EXCEPT !.sub = e.sub]
                   [] Head(e.todo) = "plan" -> [tenant EXCEPT !.plan = NewPlan(e)]
                   [] Head(e.todo) = "status" -> [tenant EXCEPT !.status = NewStatus(e)]
    /\ applying' = [applying EXCEPT ![d].todo = Tail(@)]
    /\ crossed' = (crossed \/ e.n < newest \/ e.sub # current)
    /\ newest' = IF e.n > newest THEN e.n ELSE newest
    /\ UNCHANGED <<stripeVars, outbox, billFaults>>

\* Faulty variant: the event counts as received when a statement fails.
StatementFailsQuietly(d) ==
    /\ applying[d].todo # <<>> /\ BillFault
    /\ outbox' = {e \in outbox : e.n # applying[d].n}
    /\ applying' = [applying EXCEPT ![d] = NoDelivery]
    /\ UNCHANGED <<stripeVars, tenant, crossed, newest>>

\* A statement fails: 500, and Stripe keeps the event.
StatementFails(d) ==
    /\ applying[d].todo # <<>> /\ BillFault
    /\ applying' = [applying EXCEPT ![d] = NoDelivery]
    /\ UNCHANGED <<stripeVars, outbox, tenant, crossed, newest>>

\* 200: Stripe drops the event, or misses the answer and keeps it.
Answered(d) ==
    /\ applying[d] # NoDelivery /\ applying[d].todo = <<>>
    /\ \/ outbox' = {e \in outbox : e.n # applying[d].n} /\ UNCHANGED billFaults
       \/ BillFault /\ UNCHANGED outbox
    /\ applying' = [applying EXCEPT ![d] = NoDelivery]
    /\ UNCHANGED <<stripeVars, tenant, crossed, newest>>

-----------------------------------------------------------------------------

BillInit ==
    /\ stripe = [s \in Subs |-> "none"]
    /\ current = NoSub
    /\ outbox = {}
    /\ tenant = [plan |-> "free", status |-> "active", sub |-> NoSub]
    /\ applying = [d \in Deliveries |-> NoDelivery]
    /\ crossed = FALSE /\ newest = 0
    /\ events = 0 /\ billFaults = 0

BillNext ==
    \/ \E s \in Subs : CompleteCheckout(s) \/ ChargeFails(s) \/ ChargeSucceeds(s)
                       \/ RetriesExhausted(s) \/ CancelSubscription(s)
    \/ \E d \in Deliveries :
          \/ \E e \in outbox : Deliver(d, e)
          \/ RunStatement(d) \/ StatementFails(d) \/ Answered(d)

BillSpec == BillInit /\ [][BillNext]_billVars

-----------------------------------------------------------------------------
(* Properties *)

BillTypeOK ==
    /\ stripe \in [Subs -> {"none", "active", "past_due", "unpaid", "canceled"}]
    /\ current \in Subs \cup {NoSub}
    /\ tenant \in [plan : {"free", "standard", "premium"},
                   status : {"active", "past_due", "suspended"}, sub : Subs \cup {NoSub}]
    /\ Cardinality(outbox) <= events /\ newest \in 0..events /\ crossed \in BOOLEAN

\* Every event has been delivered and applied: the tenant has the plan and the
\* status of its subscription, through failed statements, partial events, retries
\* and events that came twice, unless events overtook each other or one of them was
\* about an earlier subscription of the same tenant.
Expected ==
    IF current = NoSub \/ stripe[current] = "canceled"
    THEN <<"free", "active">>
    ELSE <<SubPlan[current], statusForSubscription(stripe[current])>>
RowFollowsStripe ==
    outbox = {} /\ ~ crossed => <<tenant.plan, tenant.status>> = Expected

=============================================================================
