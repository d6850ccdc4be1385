---------------------------- MODULE StripeWebhook ----------------------------
(***************************************************************************)
(* BillingController against Stripe: a user's requests open checkout       *)
(* sessions for a Stripe customer, which ensureCustomer makes first; paid  *)
(* sessions and one Stripe subscription produce events, Stripe delivers    *)
(* each until it is answered 200, and every delivery runs handleWebhook,   *)
(* one action per database query.  The guard against repeated events is    *)
(* the select and the insert of markEventProcessed, which come before the  *)
(* event is applied.                                                       *)
(*                                                                         *)
(* What addTopup and setPlan do to the balance row is the subject of       *)
(* module BillingService; here a topup is one write and one ledger row,    *)
(* and a plan change that reaches the balance is one query.                *)
(***************************************************************************)
EXTENDS Integers, Sequences, FiniteSets

CONSTANTS
    Deliveries,   \* invocations of the handler that may run at once
    PaidPlan,     \* the plan of the Stripe subscription
    DefaultPlan,  \* DEFAULT_PLAN
    Requests,     \* calls of createCheckout or createTopup that may run at once
    MaxCustomers, \* bound on the Stripe customers made for the user
    InOrder,      \* Stripe waits for the answer to the previous event
    Overlap,      \* one event may be delivered again while it is handled
    MaxEvents,    \* bound on the events sent
    MaxFailures   \* bound on failed queries and lost answers

ASSUME WebhookAssumption ==
    /\ PaidPlan # DefaultPlan
    /\ InOrder \in BOOLEAN /\ Overlap \in BOOLEAN
    /\ MaxEvents \in Nat \ {0} /\ MaxFailures \in Nat /\ MaxCustomers \in Nat

VARIABLES
    page,       \* the await at which each request stands, and its customer
    created,    \* how many Stripe customers there are
    stripe,     \* the state of the subscription at Stripe
    payer,      \* its customer
    sent,       \* the events Stripe has produced, in order; the id is the index
    acked,      \* ids answered 200
    processed,  \* ids in billing_events
    credited,   \* id -> how often its credits were added
    row,        \* the subscriptions row
    pc,         \* the query each delivery awaits
    job,        \* what each delivery knows: the id, and what it has read
    failures

shop == <<page, created, payer>>
vars == <<shop, stripe, sent, acked, processed, credited, row, pc, job, failures>>

Ids == 1 .. MaxEvents
Customers == 1 .. MaxCustomers
None == 0   \* no customer: NULL in the column

StripeStates == {"none", "incomplete", "active", "trialing", "past_due", "unpaid",
                 "canceled", "incomplete_expired"}

Plans == {PaidPlan, DefaultPlan}
Statuses == {"active", "trialing", "past_due", "canceled", "incomplete"}
Columns == [plan : Plans, status : Statuses,
            customer : {None} \cup Customers, subscription : BOOLEAN]

Event == [type : {"payment", "session", "payment_failed"}, customer : Customers]
         \cup [type : {"subscription"}, status : StripeStates, customer : Customers]
         \cup [type : {"deleted"}, status : {"canceled"}, customer : Customers]

Pcs == {"idle", "lookup", "check", "mark", "credit", "creditLedger",
        "setCustomer", "getPlan", "readRow", "writeRow", "balance"}

NewRow == [plan |-> DefaultPlan, status |-> "active",
           customer |-> None, subscription |-> FALSE]

Init ==
    /\ page = [r \in Requests |-> [pc |-> "idle", customer |-> None]]
    /\ created = 0
    /\ stripe = "none" /\ payer = None
    /\ sent = << >>
    /\ acked = {} /\ processed = {}
    /\ credited = [e \in Ids |-> 0]
    /\ row = NewRow
    /\ pc = [d \in Deliveries |-> "idle"]
    /\ job = [d \in Deliveries |->
                [id |-> 1, known |-> TRUE, plan |-> DefaultPlan, read |-> NewRow]]
    /\ failures = 0

-----------------------------------------------------------------------------
(* createCheckout and createTopup: ensureCustomer, then a session.         *)

Turn(r, pc2, customer) == page' = [page EXCEPT ![r] = [pc |-> pc2, customer |-> customer]]

(* getOrCreateSubscription: a customer that is stored is used.  The user   *)
(* may have left an earlier session unpaid.                                *)
Ensure(r) ==
    /\ page[r].pc \in {"idle", "opened"}
    /\ IF row.customer # None THEN Turn(r, "opened", row.customer)
       ELSE Turn(r, "create", None)
    /\ UNCHANGED <<created, row, failures>>

CreateCustomer(r) ==
    /\ page[r].pc = "create"
    /\ created < MaxCustomers
    /\ created' = created + 1
    /\ Turn(r, "store", created')
    /\ UNCHANGED <<row, failures>>

(* setStripeCustomerId.  The session that is made next changes nothing.    *)
StoreCustomer(r) ==
    /\ page[r].pc = "store"
    /\ row' = [row EXCEPT !.customer = page[r].customer]
    /\ Turn(r, "opened", page[r].customer)
    /\ UNCHANGED <<created, failures>>

(* Stripe or the database fails, maybe after the customer was made.        *)
PageFails(r) ==
    /\ page[r].pc \in {"create", "store"}
    /\ failures < MaxFailures
    /\ failures' = failures + 1
    /\ created' \in created .. IF page[r].pc = "create" /\ created < MaxCustomers
                               THEN created + 1 ELSE created
    /\ Turn(r, "idle", None)
    /\ UNCHANGED row

Shops(r) ==
    /\ Ensure(r) \/ CreateCustomer(r) \/ StoreCustomer(r) \/ PageFails(r)
    /\ UNCHANGED <<stripe, payer, sent, acked, processed, credited, pc, job>>

-----------------------------------------------------------------------------
(* Stripe.                                                                 *)

Emit(events) ==
    /\ Len(sent) + Len(events) <= MaxEvents
    /\ sent' = sent \o events

Paid(r) == page[r].pc = "opened" /\ Turn(r, "idle", None)

(* A bought pack: checkout.session.completed with mode payment. *)
Pay(r) ==
    /\ Paid(r)
    /\ Emit(<<[type |-> "payment", customer |-> page[r].customer]>>)
    /\ UNCHANGED <<stripe, payer>>

Session(c) == [type |-> "session", customer |-> c]
PaymentFailed(c) == [type |-> "payment_failed", customer |-> c]
Subscription(status, c) == [type |-> "subscription", status |-> status, customer |-> c]
Deleted(c) == [type |-> "deleted", status |-> "canceled", customer |-> c]

(* The moves of a subscription and the events each of them produces.       *)
Moves(c) ==
    {<<"none", "active", <<Session(c), Subscription("active", c)>> >>,
     <<"none", "incomplete", <<Subscription("incomplete", c), PaymentFailed(c)>> >>,
     <<"incomplete", "active", <<Session(c), Subscription("active", c)>> >>,
     <<"incomplete", "incomplete_expired", <<Subscription("incomplete_expired", c)>> >>,
     <<"active", "past_due", <<Subscription("past_due", c), PaymentFailed(c)>> >>,
     <<"past_due", "unpaid", <<Subscription("unpaid", c)>> >>,
     <<"past_due", "active", <<Subscription("active", c)>> >>,
     <<"past_due", "canceled", <<Deleted(c)>> >>,
     <<"active", "canceled", <<Deleted(c)>> >>}

Moving(c) ==
    \E m \in Moves(c) : /\ stripe = m[1]
                        /\ stripe' = m[2]
                        /\ Emit(m[3])

(* A session for a plan is paid: the subscription belongs to its customer. *)
Subscribe(r) ==
    /\ stripe = "none"
    /\ Paid(r)
    /\ payer' = page[r].customer
    /\ Moving(payer')

SubscriptionMoves ==
    /\ stripe # "none"
    /\ Moving(payer)
    /\ UNCHANGED <<page, payer>>

StripeActs ==
    /\ \/ \E r \in Requests : Pay(r) \/ Subscribe(r)
       \/ SubscriptionMoves
    /\ UNCHANGED <<created, acked, processed, credited, row, pc, job, failures>>

-----------------------------------------------------------------------------
(* The handler.                                                            *)

EventOf(d) == sent[job[d].id]

Goto(d, q) == pc' = [pc EXCEPT ![d] = q]

(* Mutant of NeedsLookup: a payment is looked up by customer as well. *)
AlwaysByCustomer(event) == event.type \in {"payment", "payment_failed"}

(* Stripe's events that carry no userId of ours are found by customer. *)
NeedsLookup(event) == event.type = "payment_failed"

(* A signed event arrives. *)
Arrive(d, e) ==
    /\ pc[d] = "idle"
    /\ e \in 1 .. Len(sent)
    /\ InOrder => \A f \in 1 .. e - 1 : f \in acked
    /\ ~Overlap => \A c \in Deliveries : pc[c] # "idle" => job[c].id # e
    /\ job' = [job EXCEPT ![d] = [id |-> e, known |-> TRUE,
                                  plan |-> DefaultPlan, read |-> NewRow]]
    /\ Goto(d, IF NeedsLookup(sent[e]) THEN "lookup" ELSE "check")
    /\ UNCHANGED <<shop, stripe, sent, acked, processed, credited, row>>

Deliver(d, e) ==
    /\ e \notin acked
    /\ Arrive(d, e)
    /\ UNCHANGED failures

(* The 200 was lost on the way, or Stripe repeats the event anyway. *)
Redeliver(d, e) ==
    /\ e \in acked
    /\ failures < MaxFailures
    /\ Arrive(d, e)
    /\ failures' = failures + 1

(* findUserIdByStripeCustomer. *)
Lookup(d) ==
    /\ pc[d] = "lookup"
    /\ job' = [job EXCEPT ![d].known = (row.customer = EventOf(d).customer)]
    /\ Goto(d, "check")
    /\ UNCHANGED <<shop, stripe, sent, acked, processed, credited, row, failures>>

(* 200: Stripe will not send the event again. *)
Answer(d) ==
    /\ acked' = acked \cup {job[d].id}
    /\ Goto(d, "idle")

(* Mutant of Repeated: an event seen before is not answered 200. *)
RepeatedRefused(d) ==
    /\ pc[d] = "check"
    /\ job[d].id \in processed
    /\ Goto(d, "idle")
    /\ UNCHANGED <<shop, stripe, sent, acked, processed, credited, row, job, failures>>

(* markEventProcessed, the SELECT: an event seen before is answered at once. *)
Repeated(d) ==
    /\ pc[d] = "check"
    /\ job[d].id \in processed
    /\ Answer(d)
    /\ UNCHANGED <<shop, stripe, sent, processed, credited, row, job, failures>>

(* Mutant of Fresh: the answer of the SELECT is not looked at. *)
FreshUnchecked(d) ==
    /\ pc[d] = "check"
    /\ Goto(d, "mark")
    /\ UNCHANGED <<shop, stripe, sent, acked, processed, credited, row, job, failures>>

Fresh(d) ==
    /\ pc[d] = "check"
    /\ job[d].id \notin processed
    /\ Goto(d, "mark")
    /\ UNCHANGED <<shop, stripe, sent, acked, processed, credited, row, job, failures>>

(* Mutant of WantedPlan: a failed payment takes the plan away at once. *)
PlanTakenAway(d) ==
    IF EventOf(d).type = "subscription" THEN PaidPlan ELSE DefaultPlan

(* The plan setPlan is called with: a deleted subscription falls back, a   *)
(* failed payment keeps what getPlanId said.                               *)
WantedPlan(d) ==
    CASE EventOf(d).type = "subscription" -> PaidPlan
      [] EventOf(d).type = "deleted" -> DefaultPlan
      [] OTHER -> job[d].plan

FirstQuery(event) ==
    CASE event.type = "payment" -> "credit"
      [] event.type = "session" -> "setCustomer"
      [] event.type = "payment_failed" -> "getPlan"
      [] OTHER -> "readRow"

(* markEventProcessed, the INSERT ... ON CONFLICT DO NOTHING: true whoever *)
(* inserted.  An event of no known user is done.                           *)
Mark(d) ==
    /\ pc[d] = "mark"
    /\ processed' = processed \cup {job[d].id}
    /\ IF job[d].known
       THEN Goto(d, FirstQuery(EventOf(d))) /\ UNCHANGED acked
       ELSE Answer(d)
    /\ UNCHANGED <<shop, stripe, sent, credited, row, job, failures>>

(* addTopup: the UPDATE of the balance, then the ledger row. *)
Credit(d) ==
    /\ pc[d] = "credit"
    /\ credited' = [credited EXCEPT ![job[d].id] = @ + 1]
    /\ Goto(d, "creditLedger")
    /\ UNCHANGED <<shop, stripe, sent, acked, processed, row, job, failures>>

CreditLedger(d) ==
    /\ pc[d] = "creditLedger"
    /\ Answer(d)
    /\ UNCHANGED <<shop, stripe, sent, processed, credited, row, job, failures>>

SetCustomer(d) ==
    /\ pc[d] = "setCustomer"
    /\ row' = [row EXCEPT !.customer = EventOf(d).customer]
    /\ Answer(d)
    /\ UNCHANGED <<shop, stripe, sent, processed, credited, job, failures>>

(* getPlanId: an unpaid or canceled subscription counts as the default. *)
PlanOf(r) == IF r.status \in {"canceled", "incomplete"} THEN DefaultPlan ELSE r.plan

GetPlan(d) ==
    /\ pc[d] = "getPlan"
    /\ job' = [job EXCEPT ![d].plan = PlanOf(row)]
    /\ Goto(d, "readRow")
    /\ UNCHANGED <<shop, stripe, sent, acked, processed, credited, row, failures>>

ReadRow(d) ==
    /\ pc[d] = "readRow"
    /\ job' = [job EXCEPT ![d].read = row]
    /\ Goto(d, "writeRow")
    /\ UNCHANGED <<shop, stripe, sent, acked, processed, credited, row, failures>>

MapStatus(status) ==
    CASE status \in {"active", "trialing"} -> status
      [] status \in {"past_due", "unpaid"} -> "past_due"
      [] status \in {"canceled", "incomplete_expired"} -> "canceled"
      [] OTHER -> "incomplete"

WantedStatus(event) ==
    IF event.type = "payment_failed" THEN "past_due" ELSE MapStatus(event.status)

(* setPlan writes every column; one the caller gave as null keeps the      *)
(* value read, so a deleted subscription keeps its subscription id.        *)
WrittenRow(d) ==
    LET named == EventOf(d).type = "subscription"
    IN  [plan         |-> WantedPlan(d),
         status       |-> WantedStatus(EventOf(d)),
         customer     |-> IF named THEN EventOf(d).customer ELSE job[d].read.customer,
         subscription |-> named \/ job[d].read.subscription]

WriteRow(d) ==
    /\ pc[d] = "writeRow"
    /\ row' = WrittenRow(d)
    /\ IF WantedPlan(d) # job[d].read.plan
       THEN Goto(d, "balance") /\ UNCHANGED acked
       ELSE Answer(d)
    /\ UNCHANGED <<shop, stripe, sent, processed, credited, job, failures>>

(* applyPlanChangeToBalance. *)
ChangeBalance(d) ==
    /\ pc[d] = "balance"
    /\ Answer(d)
    /\ UNCHANGED <<shop, stripe, sent, processed, credited, row, job, failures>>

Handle(d) ==
    \/ Lookup(d) \/ Repeated(d) \/ Fresh(d) \/ Mark(d)
    \/ Credit(d) \/ CreditLedger(d) \/ SetCustomer(d)
    \/ GetPlan(d) \/ ReadRow(d) \/ WriteRow(d) \/ ChangeBalance(d)

(* A query throws: the handler answers 500. *)
QueryFails(d) ==
    /\ pc[d] # "idle"
    /\ failures < MaxFailures
    /\ failures' = failures + 1
    /\ Goto(d, "idle")
    /\ UNCHANGED <<shop, stripe, sent, acked, processed, credited, row, job>>

Next ==
    \/ \E r \in Requests : Shops(r)
    \/ StripeActs
    \/ \E d \in Deliveries : \/ \E e \in Ids : Deliver(d, e) \/ Redeliver(d, e)
                             \/ Handle(d)
                             \/ QueryFails(d)

(* Stripe delivers again as long as an event is not answered 200, and a    *)
(* query returns or throws.                                                *)
Fairness ==
    /\ \A d \in Deliveries : WF_vars(Handle(d))
    /\ \A e \in Ids : SF_vars(\E d \in Deliveries : Deliver(d, e))

Spec == Init /\ [][Next]_vars /\ Fairness

-----------------------------------------------------------------------------
(* Properties.                                                             *)

Job == [id : Ids, known : BOOLEAN, plan : Plans, read : Columns]

(* The row of subscriptions, what each delivery holds of it and the sets   *)
(* of events have their types: whatever webhook arrives, only a plan and a *)
(* status of ours is stored.                                               *)
TypeOK ==
    /\ page \in [Requests -> [pc : {"idle", "create", "store", "opened"},
                             customer : {None} \cup Customers]]
    /\ created \in 0 .. MaxCustomers /\ payer \in {None} \cup Customers
    /\ stripe \in StripeStates
    /\ sent \in Seq(Event)
    /\ acked \subseteq Ids /\ processed \subseteq Ids
    /\ credited \in [Ids -> Nat]
    /\ row \in Columns
    /\ pc \in [Deliveries -> Pcs]
    /\ job \in [Deliveries -> Job]
    /\ failures \in Nat

(* A bought pack is credited at most once, however often Stripe sends the  *)
(* event and whichever query of an earlier delivery failed.                *)
CreditedAtMostOnce == \A e \in Ids : credited[e] <= 1

(* A payment Stripe was told is handled has been credited: nothing the     *)
(* user paid for is lost.                                                  *)
AnsweredPaymentCredited ==
    \A e \in 1 .. Len(sent) :
        sent[e].type = "payment" /\ e \in acked => credited[e] >= 1

AllAcked == acked = 1 .. Len(sent)

AllAnswered == AllAcked /\ \A d \in Deliveries : pc[d] = "idle"

Running == {"active", "trialing", "past_due", "unpaid"}

(* Once everything Stripe said has been heard, the user is on the paid     *)
(* plan exactly while Stripe has not ended the subscription; unpaid        *)
(* invoices alone do not take the plan away.                               *)
PlanFollowsStripe ==
    AllAnswered =>
        PlanOf(row) = IF stripe \in Running THEN PaidPlan
                      ELSE DefaultPlan

(* A canceled subscription gives no access to the paid plan, once          *)
(* everything Stripe said has been heard.                                  *)
CanceledFallsBack ==
    AllAnswered /\ stripe = "canceled" => PlanOf(row) = DefaultPlan

(* A failed payment is noticed: once everything Stripe said has been heard *)
(* a subscription that is past due at Stripe is not shown as active.       *)
FailedPaymentNoticed ==
    AllAnswered /\ stripe = "past_due" => row.status = "past_due"

(* The user has one customer at Stripe, as controller.ts:387 has it: one   *)
(* is made "at the first payment" and remembered.                          *)
OneCustomer == created <= 1

(* The portal, which createPortal opens for the customer that is stored,   *)
(* is the one of the customer who pays.                                    *)
PortalOfPayer == AllAnswered /\ stripe \in Running => row.customer = payer

(* Every event is answered in the end: again and again none is left.       *)
EveryEventAnswered == []<>AllAcked

AllCredited ==
    \A e \in 1 .. Len(sent) : sent[e].type = "payment" => credited[e] = 1

(* Every payment is credited in the end. *)
EveryPaymentCredited == []<>AllCredited

=============================================================================
