---------------------------- MODULE WebhookProofs ----------------------------
(***************************************************************************)
(* The types of the webhook, and that markEventProcessed is enough to      *)
(* credit a payment at most once, whatever fails and however often Stripe  *)
(* repeats itself, provided that Stripe does not send an event again while *)
(* it is still being handled; and that the plan follows the subscription   *)
(* where events come in order and no query fails.                          *)
(***************************************************************************)
EXTENDS MCWebhook, TLAPS

(* An event that is handled was sent, a session that is open is one of a   *)
(* customer, and so is a subscription.                                     *)
TypeInv ==
    /\ TypeOK
    /\ \A d \in Deliveries : pc[d] # "idle" => job[d].id \in 1 .. Len(sent)
    /\ \A r \in Requests : page[r].pc \in {"store", "opened"} => page[r].customer \in Customers
    /\ stripe # "none" => payer \in Customers

Pages == [pc : {"idle", "create", "store", "opened"}, customer : {None} \cup Customers]

LEMMA TypeInit == Init => TypeInv
<1> SUFFICES ASSUME Init PROVE TypeInv
  OBVIOUS
<1>1. /\ 1 \in Ids /\ NewRow \in Columns /\ created \in 0 .. MaxCustomers
      /\ sent = << >> /\ stripe = "none" /\ row \in Columns
  BY WebhookAssumption DEF Init, Ids, NewRow, Columns, Plans, Statuses
<1>2. page \in [Requests -> Pages] /\ \A r \in Requests : page[r].pc = "idle"
  BY DEF Init, Pages
<1>3. job \in [Deliveries -> Job]
  BY <1>1 DEF Init, Job, Plans
<1>4. pc \in [Deliveries -> Pcs] /\ \A d \in Deliveries : pc[d] = "idle"
  BY DEF Init, Pcs
<1>5. credited \in [Ids -> Nat] /\ payer = None /\ acked = {} /\ processed = {} /\ failures = 0
  BY DEF Init
<1>6. sent \in Seq(Event)
  BY <1>1
<1> QED
  BY <1>1, <1>2, <1>3, <1>4, <1>5, <1>6 DEF TypeInv, TypeOK, StripeStates, Pages

LEMMA PlanOfType ==
    ASSUME NEW r \in Columns PROVE PlanOf(r) \in Plans
  BY DEF PlanOf, Plans, Columns

LEMMA EventOfType ==
    ASSUME TypeInv, NEW d \in Deliveries, pc[d] # "idle" PROVE EventOf(d) \in Event
<1>1. job[d].id \in 1 .. Len(sent) /\ sent \in Seq(Event)
  BY DEF TypeInv, TypeOK
<1> QED
  BY <1>1 DEF EventOf

LEMMA WrittenRowType ==
    ASSUME TypeInv, NEW d \in Deliveries, pc[d] # "idle" PROVE WrittenRow(d) \in Columns
<1>1. WantedPlan(d) \in Plans
  BY DEF WantedPlan, TypeInv, TypeOK, Job, Plans
<1>2. WantedStatus(EventOf(d)) \in Statuses
  BY DEF WantedStatus, MapStatus, Statuses
<1>3. job[d].read.customer \in {None} \cup Customers /\ job[d].read.subscription \in BOOLEAN
  BY DEF TypeInv, TypeOK, Job, Columns
<1>4. EventOf(d).customer \in Customers
  BY EventOfType DEF Event
<1> QED
  BY <1>1, <1>2, <1>3, <1>4 DEF WrittenRow, Columns

(* What Stripe sends leaves what was sent before. *)
LEMMA Sending ==
    ASSUME TypeInv, NEW events \in Seq(Event), Emit(events)
    PROVE  sent' \in Seq(Event) /\ Len(sent) \in Nat /\ 1 .. Len(sent) \subseteq 1 .. Len(sent')
  BY DEF TypeInv, TypeOK, Emit

LEMMA MovesType ==
    ASSUME NEW c \in Customers, NEW m \in Moves(c)
    PROVE  /\ m[2] \in StripeStates /\ m[2] # "none"
           /\ m[3] \in Seq(Event)
<1>1. /\ Session(c) \in Event /\ PaymentFailed(c) \in Event /\ Deleted(c) \in Event
      /\ \A status \in StripeStates : Subscription(status, c) \in Event
  BY DEF Session, PaymentFailed, Deleted, Subscription, Event, StripeStates
<1> HIDE DEF Session, PaymentFailed, Deleted, Subscription, Event
<1>2. \A e, f \in Event : <<e>> \in Seq(Event) /\ <<e, f>> \in Seq(Event)
  OBVIOUS
<1>3. /\ m[2] \in StripeStates /\ m[2] # "none"
      /\ \/ \E e \in Event : m[3] = <<e>>
         \/ \E e, f \in Event : m[3] = <<e, f>>
  BY <1>1 DEF Moves, StripeStates
<1> QED
  BY <1>2, <1>3

(* A request that moves on has a customer once it knows one. *)
LEMMA TurnType ==
    ASSUME TypeInv, NEW r \in Requests, NEW q \in {"idle", "create", "store", "opened"},
           NEW c \in {None} \cup Customers, q \in {"store", "opened"} => c \in Customers,
           Turn(r, q, c)
    PROVE  /\ page' \in [Requests -> Pages]
           /\ \A p \in Requests :
                page'[p].pc \in {"store", "opened"} => page'[p].customer \in Customers
<1> DEFINE next == [pc |-> q, customer |-> c]
<1>1. next \in Pages /\ next.pc = q /\ next.customer = c
  BY DEF Pages
<1>2. page' = [page EXCEPT ![r] = next] /\ page \in [Requests -> Pages]
  BY DEF Turn, TypeInv, TypeOK, Pages
<1> HIDE DEF next
<1>3. page' \in [Requests -> Pages] /\ page'[r] = next
      /\ \A p \in Requests \ {r} : page'[p] = page[p]
  BY <1>1, <1>2
<1> QED
  BY <1>1, <1>3 DEF TypeInv

LEMMA TypeStep == TypeInv /\ [Next]_vars => TypeInv'
<1> SUFFICES ASSUME TypeInv, [Next]_vars PROVE TypeInv'
  OBVIOUS
<1>1. ASSUME NEW r \in Requests, Shops(r) PROVE TypeInv'
  <2>1. UNCHANGED <<stripe, payer, sent, acked, processed, credited, pc, job>>
    BY <1>1 DEF Shops
  <2>2. row \in Columns /\ page \in [Requests -> Pages] /\ created \in 0 .. MaxCustomers
        /\ created \in Nat /\ failures \in Nat
    BY WebhookAssumption DEF TypeInv, TypeOK, Pages
  <2>4. /\ page' \in [Requests -> Pages]
        /\ \A q \in Requests :
             page'[q].pc \in {"store", "opened"} => page'[q].customer \in Customers
        /\ row' \in Columns /\ created' \in 0 .. MaxCustomers /\ failures' \in Nat
    <3>1. CASE Ensure(r)
      <4>1. /\ UNCHANGED <<created, row, failures>>
            /\ \/ row.customer # None /\ Turn(r, "opened", row.customer)
               \/ Turn(r, "create", None)
        BY <3>1 DEF Ensure
      <4>2. row.customer \in {None} \cup Customers
        BY <2>2 DEF Columns
      <4> QED
        BY <2>2, <4>1, <4>2, TurnType
    <3>2. CASE CreateCustomer(r)
      <4>1. created' = created + 1 /\ created' \in Customers /\ created' \in 0 .. MaxCustomers
        BY <2>2, <3>2, WebhookAssumption DEF CreateCustomer, Customers
      <4>2. Turn(r, "store", created') /\ UNCHANGED <<row, failures>>
        BY <3>2 DEF CreateCustomer
      <4> DEFINE new == created + 1
      <4>3. Turn(r, "store", new) /\ new \in Customers
        BY <4>1, <4>2 DEF Turn
      <4> HIDE DEF new
      <4> QED
        BY <2>2, <4>1, <4>2, <4>3, TurnType
    <3>3. CASE StoreCustomer(r)
      <4>1. page[r].customer \in Customers
        BY <3>3 DEF StoreCustomer, TypeInv
      <4>2. Turn(r, "opened", page[r].customer) /\ UNCHANGED <<created, failures>>
        BY <3>3 DEF StoreCustomer
      <4>3. row' \in Columns
        BY <2>2, <3>3, <4>1 DEF StoreCustomer, Columns
      <4> QED
        BY <2>2, <4>1, <4>2, <4>3, TurnType
    <3>4. CASE PageFails(r)
      <4>1. created' \in 0 .. MaxCustomers /\ failures' = failures + 1 /\ row' = row
        BY <2>2, <3>4, WebhookAssumption DEF PageFails
      <4>2. Turn(r, "idle", None)
        BY <3>4 DEF PageFails
      <4> QED
        BY <2>2, <4>1, <4>2, TurnType
    <3> QED
      BY <1>1, <3>1, <3>2, <3>3, <3>4 DEF Shops
  <2> QED
    BY <2>1, <2>4 DEF TypeInv, TypeOK, Pages, Customers
<1>2. CASE StripeActs
  <2>1. UNCHANGED <<created, acked, processed, credited, row, pc, job, failures>>
    BY <1>2 DEF StripeActs
  <2>2. ASSUME NEW r \in Requests, Paid(r)
        PROVE  /\ page[r].customer \in Customers
               /\ page' \in [Requests -> Pages]
               /\ \A q \in Requests :
                    page'[q].pc \in {"store", "opened"} => page'[q].customer \in Customers
    <3>1. page[r].customer \in Customers /\ Turn(r, "idle", None)
      BY <2>2 DEF Paid, TypeInv
    <3> QED
      BY <3>1, TurnType
  <2>3. ASSUME NEW c \in Customers, Moving(c)
        PROVE  /\ stripe' \in StripeStates
               /\ sent' \in Seq(Event) /\ 1 .. Len(sent) \subseteq 1 .. Len(sent')
    BY <2>3, MovesType, Sending DEF Moving
  <2>4. /\ page' \in [Requests -> Pages]
        /\ \A q \in Requests :
             page'[q].pc \in {"store", "opened"} => page'[q].customer \in Customers
        /\ stripe' \in StripeStates /\ payer' \in {None} \cup Customers
        /\ stripe' # "none" => payer' \in Customers
        /\ sent' \in Seq(Event) /\ 1 .. Len(sent) \subseteq 1 .. Len(sent')
    <3>1. ASSUME NEW r \in Requests, Pay(r)
          PROVE  sent' \in Seq(Event) /\ 1 .. Len(sent) \subseteq 1 .. Len(sent')
      <4> DEFINE paid == [type |-> "payment", customer |-> page[r].customer]
      <4>1. paid \in Event
        BY <2>2, <3>1 DEF Pay, Event
      <4>2. <<paid>> \in Seq(Event) /\ Emit(<<paid>>)
        BY <3>1, <4>1 DEF Pay
      <4> QED
        BY <4>2, Sending
    <3>2. ASSUME NEW r \in Requests, Subscribe(r)
          PROVE  /\ Paid(r) /\ payer' = page[r].customer /\ payer' \in Customers
                 /\ stripe' \in StripeStates
                 /\ sent' \in Seq(Event) /\ 1 .. Len(sent) \subseteq 1 .. Len(sent')
      <4> DEFINE c == page[r].customer
      <4>1. Paid(r) /\ payer' = c /\ c \in Customers /\ Moving(c)
        BY <2>2, <3>2 DEF Subscribe, Moving
      <4> HIDE DEF c
      <4>2. stripe' \in StripeStates /\ sent' \in Seq(Event) /\ 1 .. Len(sent) \subseteq 1 .. Len(sent')
        BY <2>3, <4>1
      <4> QED
        BY <4>1, <4>2 DEF c
    <3>3. CASE SubscriptionMoves
      <4>1. payer \in Customers /\ Moving(payer) /\ UNCHANGED <<page, payer>>
        BY <3>3 DEF SubscriptionMoves, TypeInv
      <4> QED
        BY <2>3, <4>1 DEF TypeInv, TypeOK, Pages
    <3>4. CASE \E r \in Requests : Pay(r)
      <4>1. PICK r \in Requests : Pay(r)
        BY <3>4
      <4>2. Paid(r) /\ UNCHANGED <<stripe, payer>>
        BY <4>1 DEF Pay
      <4> QED
        BY <2>2, <3>1, <4>1, <4>2 DEF TypeInv, TypeOK
    <3>5. CASE \E r \in Requests : Subscribe(r)
      BY <2>2, <3>2, <3>5
    <3> QED
      BY <1>2, <3>3, <3>4, <3>5 DEF StripeActs
  <2> QED
    BY <2>1, <2>4 DEF TypeInv, TypeOK, Pages
<1>3. ASSUME NEW d \in Deliveries, NEW e \in Ids, Arrive(d, e), failures' \in Nat PROVE TypeInv'
  <2> DEFINE new == [id |-> e, known |-> TRUE, plan |-> DefaultPlan, read |-> NewRow]
  <2> DEFINE q == IF NeedsLookup(sent[e]) THEN "lookup" ELSE "check"
  <2>1. new \in Job /\ new.id = e /\ q \in Pcs
    BY DEF Job, Plans, Columns, NewRow, Statuses, Pcs
  <2>2. /\ job' = [job EXCEPT ![d] = new] /\ pc' = [pc EXCEPT ![d] = q]
        /\ e \in 1 .. Len(sent)
        /\ UNCHANGED <<shop, stripe, sent, acked, processed, credited, row>>
    BY <1>3 DEF Arrive, Goto
  <2> HIDE DEF new, q
  <2>3. /\ job' \in [Deliveries -> Job] /\ pc' \in [Deliveries -> Pcs] /\ job'[d] = new
        /\ \A c \in Deliveries \ {d} : job'[c] = job[c] /\ pc'[c] = pc[c]
    BY <2>1, <2>2 DEF TypeInv, TypeOK
  <2> QED
    BY <1>3, <2>1, <2>2, <2>3 DEF TypeInv, TypeOK, shop
<1>4. ASSUME NEW d \in Deliveries, pc[d] # "idle",
             NEW q \in Pcs, Goto(d, q), NEW j \in Job, job' = [job EXCEPT ![d] = j],
             j.id = job[d].id, UNCHANGED <<shop, stripe, sent>>,
             acked' \in {acked, acked \cup {job[d].id}},
             processed' \in {processed, processed \cup {job[d].id}},
             credited' \in [Ids -> Nat], row' \in Columns, failures' \in Nat
      PROVE  TypeInv'
  <2>1. /\ job' \in [Deliveries -> Job] /\ pc' \in [Deliveries -> Pcs] /\ job'[d].id = job[d].id
        /\ \A c \in Deliveries \ {d} : job'[c] = job[c] /\ pc'[c] = pc[c]
    BY <1>4 DEF TypeInv, TypeOK, Goto
  <2>2. job[d].id \in Ids
    BY DEF TypeInv, TypeOK, Job
  <2> QED
    BY <1>4, <2>1, <2>2 DEF TypeInv, TypeOK, shop
<1>5. ASSUME NEW d \in Deliveries, Handle(d) \/ QueryFails(d) PROVE TypeInv'
  <2>1. /\ job[d] \in Job /\ job = [job EXCEPT ![d] = job[d]]
        /\ row \in Columns /\ failures \in Nat /\ failures + 1 \in Nat
        /\ credited \in [Ids -> Nat] /\ job[d].id \in Ids
    BY DEF TypeInv, TypeOK, Job
  <2>2. CASE Lookup(d)
    <3> DEFINE j == [job[d] EXCEPT !.known = row.customer = EventOf(d).customer]
    <3>1. j \in Job /\ j.id = job[d].id /\ job' = [job EXCEPT ![d] = j]
      BY <2>1, <2>2 DEF Lookup, Job
    <3>2. pc[d] # "idle" /\ Goto(d, "check") /\ "check" \in Pcs
          /\ UNCHANGED <<shop, stripe, sent, acked, processed, credited, row, failures>>
      BY <2>2 DEF Lookup, Pcs
    <3> HIDE DEF j
    <3> QED
      BY <1>4, <2>1, <3>1, <3>2
  <2>3. CASE GetPlan(d)
    <3> DEFINE j == [job[d] EXCEPT !.plan = PlanOf(row)]
    <3>1. j \in Job /\ j.id = job[d].id /\ job' = [job EXCEPT ![d] = j]
      BY <2>1, <2>3, PlanOfType DEF GetPlan, Job
    <3>2. pc[d] # "idle" /\ Goto(d, "readRow") /\ "readRow" \in Pcs
          /\ UNCHANGED <<shop, stripe, sent, acked, processed, credited, row, failures>>
      BY <2>3 DEF GetPlan, Pcs
    <3> HIDE DEF j
    <3> QED
      BY <1>4, <2>1, <3>1, <3>2
  <2>4. CASE ReadRow(d)
    <3> DEFINE j == [job[d] EXCEPT !.read = row]
    <3>1. j \in Job /\ j.id = job[d].id /\ job' = [job EXCEPT ![d] = j]
      BY <2>1, <2>4 DEF ReadRow, Job
    <3>2. pc[d] # "idle" /\ Goto(d, "writeRow") /\ "writeRow" \in Pcs
          /\ UNCHANGED <<shop, stripe, sent, acked, processed, credited, row, failures>>
      BY <2>4 DEF ReadRow, Pcs
    <3> HIDE DEF j
    <3> QED
      BY <1>4, <2>1, <3>1, <3>2
  <2>5. ASSUME pc[d] # "idle", NEW q \in Pcs, Goto(d, q), UNCHANGED <<shop, stripe, sent, job>>,
               acked' \in {acked, acked \cup {job[d].id}},
               processed' \in {processed, processed \cup {job[d].id}},
               credited' \in [Ids -> Nat], row' \in Columns, failures' \in Nat
        PROVE  TypeInv'
    BY <1>4, <2>1, <2>5
  <2>6. CASE Repeated(d) \/ CreditLedger(d) \/ ChangeBalance(d)
    <3>1. pc[d] # "idle" /\ Goto(d, "idle") /\ "idle" \in Pcs /\ acked' = acked \cup {job[d].id}
          /\ UNCHANGED <<shop, stripe, sent, processed, credited, row, job, failures>>
      BY <2>6 DEF Repeated, CreditLedger, ChangeBalance, Answer, Pcs
    <3> QED
      BY <2>1, <2>5, <3>1
  <2>7. CASE Fresh(d)
    <3>1. pc[d] # "idle" /\ Goto(d, "mark") /\ "mark" \in Pcs
          /\ UNCHANGED <<shop, stripe, sent, acked, processed, credited, row, job, failures>>
      BY <2>7 DEF Fresh, Pcs
    <3> QED
      BY <2>1, <2>5, <3>1
  <2>8. CASE Mark(d)
    <3>1. pc[d] # "idle" /\ processed' = processed \cup {job[d].id}
          /\ UNCHANGED <<shop, stripe, sent, credited, row, job, failures>>
      BY <2>8 DEF Mark
    <3>2. CASE job[d].known
      <4>1. Goto(d, FirstQuery(EventOf(d))) /\ acked' = acked /\ FirstQuery(EventOf(d)) \in Pcs
        BY <2>8, <3>2 DEF Mark, FirstQuery, Pcs
      <4> QED
        BY <2>1, <2>5, <3>1, <4>1
    <3>3. CASE ~job[d].known
      <4>1. Goto(d, "idle") /\ "idle" \in Pcs /\ acked' = acked \cup {job[d].id}
        BY <2>8, <3>3 DEF Mark, Answer, Pcs
      <4> QED
        BY <2>1, <2>5, <3>1, <4>1
    <3> QED
      BY <3>2, <3>3
  <2>9. CASE Credit(d)
    <3>1. pc[d] # "idle" /\ Goto(d, "creditLedger") /\ "creditLedger" \in Pcs
          /\ credited' = [credited EXCEPT ![job[d].id] = @ + 1]
          /\ UNCHANGED <<shop, stripe, sent, acked, processed, row, job, failures>>
      BY <2>9 DEF Credit, Pcs
    <3>2. credited' \in [Ids -> Nat]
      BY <2>1, <3>1
    <3> QED
      BY <2>1, <2>5, <3>1, <3>2
  <2>10. CASE SetCustomer(d)
    <3>1. pc[d] # "idle" /\ Goto(d, "idle") /\ "idle" \in Pcs /\ acked' = acked \cup {job[d].id}
          /\ row' = [row EXCEPT !.customer = EventOf(d).customer]
          /\ UNCHANGED <<shop, stripe, sent, processed, credited, job, failures>>
      BY <2>10 DEF SetCustomer, Answer, Pcs
    <3>2. EventOf(d).customer \in Customers
      BY <3>1, EventOfType DEF Event
    <3>3. row' \in Columns
      BY <2>1, <3>1, <3>2 DEF Columns
    <3> QED
      BY <2>1, <2>5, <3>1, <3>3
  <2>11. CASE WriteRow(d)
    <3>1. pc[d] # "idle" /\ row' \in Columns
          /\ UNCHANGED <<shop, stripe, sent, processed, credited, job, failures>>
      BY <2>11, WrittenRowType DEF WriteRow
    <3>2. \/ Goto(d, "balance") /\ acked' = acked
          \/ Goto(d, "idle") /\ acked' = acked \cup {job[d].id}
      BY <2>11 DEF WriteRow, Answer
    <3>3. "balance" \in Pcs /\ "idle" \in Pcs
      BY DEF Pcs
    <3> QED
      BY <2>1, <2>5, <3>1, <3>2, <3>3
  <2>12. CASE QueryFails(d)
    <3>1. pc[d] # "idle" /\ Goto(d, "idle") /\ "idle" \in Pcs /\ failures' = failures + 1
          /\ UNCHANGED <<shop, stripe, sent, acked, processed, credited, row, job>>
      BY <2>12 DEF QueryFails, Pcs
    <3> QED
      BY <2>1, <2>5, <3>1
  <2> QED
    BY <1>5, <2>2, <2>3, <2>4, <2>6, <2>7, <2>8, <2>9, <2>10, <2>11, <2>12 DEF Handle
<1>6. ASSUME NEW d \in Deliveries, NEW e \in Ids, Deliver(d, e) \/ Redeliver(d, e) PROVE TypeInv'
  <2>1. Arrive(d, e) /\ failures' \in Nat
    BY <1>6 DEF Deliver, Redeliver, TypeInv, TypeOK
  <2> QED
    BY <1>3, <2>1
<1>7. CASE UNCHANGED vars
  BY <1>7 DEF vars, shop, TypeInv, TypeOK
<1> QED
  BY <1>1, <1>2, <1>5, <1>6, <1>7 DEF Next

(* Whatever requests and events come in which order, and whatever fails,   *)
(* only a plan, a status and a customer of ours is stored, and every       *)
(* delivery handles an event that Stripe has sent.                         *)
THEOREM WebhookTypeCorrect == Spec => []TypeInv
  BY TypeInit, TypeStep, PTL DEF Spec

-----------------------------------------------------------------------------
(* One event is handled by one delivery at a time. *)
OneHandler ==
    \A c, d \in Deliveries :
        pc[c] # "idle" /\ pc[d] # "idle" /\ job[c].id = job[d].id => c = d

(* Only marked events are credited, only unmarked ones are about to be     *)
(* marked, and a delivery about to credit an event is the first to do so.  *)
OnceInv ==
    /\ OneHandler
    /\ \A d \in Deliveries : pc[d] = "mark" => job[d].id \notin processed
    /\ \A e \in Ids : e \notin processed => credited[e] = 0
    /\ \A d \in Deliveries : pc[d] = "credit" => /\ job[d].id \in processed
                                                 /\ credited[job[d].id] = 0
    /\ \A e \in Ids : credited[e] <= 1

LEMMA OnceInit == Init => OnceInv
  BY WebhookAssumption DEF Init, OnceInv, OneHandler, Ids

LEMMA OnceStep ==
    ASSUME ~Overlap, TypeInv, OnceInv, [Next]_vars
    PROVE  OnceInv'
<1> USE DEF OnceInv, OneHandler
<1>0. /\ credited \in [Ids -> Nat] /\ pc \in [Deliveries -> Pcs]
      /\ job \in [Deliveries -> Job] /\ \A d \in Deliveries : job[d].id \in Ids
  BY DEF TypeInv, TypeOK, Job
<1>1. CASE UNCHANGED vars
  BY <1>1 DEF vars
<1>2. CASE StripeActs \/ \E r \in Requests : Shops(r)
  BY <1>2 DEF StripeActs, Shops
<1>3. ASSUME NEW d \in Deliveries, NEW e \in Ids, Arrive(d, e) PROVE OnceInv'
  <2> DEFINE new == [id |-> e, known |-> TRUE, plan |-> DefaultPlan, read |-> NewRow]
  <2> DEFINE q == IF NeedsLookup(sent[e]) THEN "lookup" ELSE "check"
  <2>1. /\ job' = [job EXCEPT ![d] = new] /\ new.id = e
        /\ pc' = [pc EXCEPT ![d] = q]
        /\ q \in {"lookup", "check"}
        /\ \A c \in Deliveries : pc[c] # "idle" => job[c].id # e
        /\ UNCHANGED <<processed, credited>>
    BY <1>3 DEF Arrive, Goto
  <2> HIDE DEF new, q
  <2>2. \A c \in Deliveries \ {d} : job'[c] = job[c] /\ pc'[c] = pc[c]
    BY <1>0, <2>1
  <2>3. job'[d].id = e /\ pc'[d] \in {"lookup", "check"}
    BY <1>0, <2>1
  <2> QED
    BY <2>1, <2>2, <2>3
<1>4. ASSUME NEW d \in Deliveries, Lookup(d) \/ GetPlan(d) \/ ReadRow(d) PROVE OnceInv'
  <2>1. /\ UNCHANGED <<processed, credited>>
        /\ pc[d] \in {"lookup", "getPlan", "readRow"}
        /\ \E q \in {"check", "readRow", "writeRow"} : pc' = [pc EXCEPT ![d] = q]
    BY <1>4 DEF Lookup, GetPlan, ReadRow, Goto
  <2>2. \A c \in Deliveries : job'[c].id = job[c].id
    BY <1>0, <1>4 DEF Lookup, GetPlan, ReadRow, Job
  <2>3. \A c \in Deliveries : pc'[c] \in {"idle", "mark", "credit"} <=> pc'[c] = pc[c] /\ pc[c] \in {"idle", "mark", "credit"}
    BY <1>0, <2>1
  <2>4. \A c \in Deliveries : pc[c] = "idle" <=> pc'[c] = "idle"
    BY <1>0, <2>1
  <2> QED
    BY <2>1, <2>2, <2>3, <2>4
<1>5. ASSUME NEW d \in Deliveries, Repeated(d) \/ CreditLedger(d) \/ ChangeBalance(d)
      PROVE  OnceInv'
  BY <1>0, <1>5 DEF Repeated, CreditLedger, ChangeBalance, Answer, Goto, Pcs
<1>6. ASSUME NEW d \in Deliveries, Fresh(d) PROVE OnceInv'
  BY <1>0, <1>6 DEF Fresh, Goto, Pcs
<1>7. ASSUME NEW d \in Deliveries, Mark(d) PROVE OnceInv'
  BY <1>0, <1>7 DEF Mark, Answer, Goto, Pcs, FirstQuery
<1>8. ASSUME NEW d \in Deliveries, Credit(d) PROVE OnceInv'
  BY <1>0, <1>8 DEF Credit, Goto, Pcs
<1>9. ASSUME NEW d \in Deliveries, SetCustomer(d) PROVE OnceInv'
  BY <1>0, <1>9 DEF SetCustomer, Answer, Goto, Pcs
<1>10. ASSUME NEW d \in Deliveries, WriteRow(d) PROVE OnceInv'
  BY <1>0, <1>10 DEF WriteRow, Answer, Goto, Pcs
<1>11. ASSUME NEW d \in Deliveries, QueryFails(d) PROVE OnceInv'
  BY <1>0, <1>11 DEF QueryFails, Goto, Pcs
<1> QED
  BY <1>1, <1>2, <1>3, <1>4, <1>5, <1>6, <1>7, <1>8, <1>9, <1>10, <1>11
     DEF Next, Handle, Deliver, Redeliver

(* A payment is credited at most once for any number of events, deliveries *)
(* and failures, in any order, as long as deliveries of one event do not   *)
(* overlap.                                                                *)
THEOREM PaymentCreditedOnce ==
    ASSUME ~Overlap PROVE Spec => []CreditedAtMostOnce
<1>1. OnceInv => CreditedAtMostOnce
  BY DEF OnceInv, CreditedAtMostOnce
<1>2. TypeInv /\ OnceInv /\ [Next]_vars => OnceInv'
  BY OnceStep
<1> QED
  BY <1>1, <1>2, OnceInit, WebhookTypeCorrect, PTL DEF Spec

-----------------------------------------------------------------------------
(* Where Stripe waits for the answer to an event before it sends the next  *)
(* and no query fails, the plan follows the subscription.                  *)

(* The events a plan is read from. *)
Speaks(k) == sent[k].type \in {"subscription", "deleted"}

(* What the first n events say of the subscription: the last that speaks. *)
Told(n, status) ==
    \/ \E k \in 1 .. n : /\ Speaks(k) /\ status = sent[k].status
                         /\ \A j \in k + 1 .. n : ~Speaks(j)
    \/ status = "none" /\ \A j \in 1 .. n : ~Speaks(j)

Granted(status) == IF status \in Running THEN PaidPlan ELSE DefaultPlan

Shows(status) ==
    /\ PlanOf(row) = Granted(status)
    /\ status = "past_due" => row.status = "past_due"

(* The row shows what the first n events say. *)
Heard(n) == \E status \in StripeStates : Told(n, status) /\ Shows(status)

Marked == {"credit", "creditLedger", "setCustomer", "getPlan", "readRow", "writeRow"}

(* Where a delivery stands with an event of which type, and that a failed  *)
(* payment writes back the plan the row shows.                             *)
Stage(d, type) ==
    /\ pc[d] = "lookup" => type = "payment_failed"
    /\ pc[d] \in {"check", "mark"} => job[d].known \/ type = "payment_failed"
    /\ pc[d] \in {"credit", "creditLedger"} => type = "payment"
    /\ pc[d] = "setCustomer" => type = "session"
    /\ pc[d] = "getPlan" => type = "payment_failed"
    /\ pc[d] \in {"readRow", "writeRow"} =>
         \/ type \in {"subscription", "deleted"}
         \/ type = "payment_failed" /\ job[d].plan = PlanOf(row)

(* A delivery handles the event after the n that are answered. *)
Handling(d, n) ==
    /\ job[d].id = n + 1
    /\ Stage(d, EventOf(d).type)
    /\ pc[d] \in {"lookup", "check", "mark"} => processed = 1 .. n /\ Heard(n)
    /\ pc[d] \in Marked => processed = 1 .. n + 1 /\ Heard(n)
    /\ pc[d] = "balance" => processed = 1 .. n + 1 /\ Heard(n + 1)

UpTo(n) ==
    /\ acked = 1 .. n
    /\ (\A d \in Deliveries : pc[d] = "idle") => processed = 1 .. n /\ Heard(n)
    /\ \A d \in Deliveries : pc[d] # "idle" => Handling(d, n)

OneAtATime == \A c, d \in Deliveries : pc[c] # "idle" /\ pc[d] # "idle" => c = d

OrderInv ==
    /\ Told(Len(sent), stripe)
    /\ OneAtATime
    /\ \E n \in 0 .. Len(sent) : UpTo(n)

(* An event is delivered when those before it are answered and no delivery *)
(* runs.                                                                   *)
DeliverNext(d, e) ==
    /\ Deliver(d, e)
    /\ \A f \in 1 .. e - 1 : f \in acked
    /\ \A c \in Deliveries : pc[c] = "idle"

InOrderNext ==
    \/ \E r \in Requests : Shops(r)
    \/ StripeActs
    \/ \E d \in Deliveries : (\E e \in Ids : DeliverNext(d, e)) \/ Handle(d)

LEMMA OrderInit == Init => OrderInv
<1> SUFFICES ASSUME Init PROVE OrderInv
  OBVIOUS
<1>1. /\ sent = << >> /\ stripe = "none" /\ acked = {} /\ processed = {} /\ row = NewRow
      /\ \A d \in Deliveries : pc[d] = "idle"
  BY DEF Init
<1>2. Told(0, "none") /\ Len(sent) = 0 /\ 1 .. 0 = {}
  BY <1>1 DEF Told
<1>3. Shows("none") /\ "none" \in StripeStates
  BY <1>1 DEF Shows, NewRow, PlanOf, Granted, Running, StripeStates
<1>4. UpTo(0)
  BY <1>1, <1>2, <1>3 DEF UpTo, Heard
<1> QED
  BY <1>1, <1>2, <1>4 DEF OrderInv, OneAtATime

(* What the first events say does not change when more are sent. *)
LEMMA ToldStays ==
    ASSUME TypeInv, NEW events \in Seq(Event), Emit(events), NEW n \in 0 .. Len(sent), NEW s
    PROVE  Told(n, s)' <=> Told(n, s)
<1>1. \A k \in 1 .. n : sent'[k] = sent[k]
  BY DEF TypeInv, TypeOK, Emit
<1>2. \A k \in 1 .. n : Speaks(k)' <=> Speaks(k)
  BY <1>1 DEF Speaks
<1>3. \A k \in 1 .. n : k + 1 .. n \subseteq 1 .. n
  OBVIOUS
<1> QED
  BY <1>1, <1>2, <1>3 DEF Told

LEMMA ToldOnce ==
    ASSUME NEW n \in Nat, NEW s, NEW t, Told(n, s), Told(n, t) PROVE s = t
<1>1. \A j, k \in 1 .. n : j = k \/ j \in k + 1 .. n \/ k \in j + 1 .. n
  OBVIOUS
<1> QED
  BY <1>1 DEF Told

(* An event that says nothing of the subscription changes nothing. *)
LEMMA ToldSilent ==
    ASSUME NEW n \in Nat, ~Speaks(n + 1), NEW s, Told(n, s) PROVE Told(n + 1, s)
<1>1. \A k \in 1 .. n : \A j \in k + 1 .. n + 1 : j \in k + 1 .. n \/ j = n + 1
  OBVIOUS
<1>2. \A j \in 1 .. n + 1 : j \in 1 .. n \/ j = n + 1
  OBVIOUS
<1>3. 1 .. n \subseteq 1 .. n + 1
  OBVIOUS
<1> QED
  BY <1>1, <1>2, <1>3 DEF Told

LEMMA ToldLast ==
    ASSUME NEW n \in Nat, Speaks(n + 1) PROVE Told(n + 1, sent[n + 1].status)
<1>1. n + 1 \in 1 .. n + 1 /\ n + 1 + 1 .. n + 1 = {}
  OBVIOUS
<1> QED
  BY <1>1 DEF Told

LEMMA HeardSilent ==
    ASSUME NEW n \in Nat, ~Speaks(n + 1), Heard(n) PROVE Heard(n + 1)
  BY ToldSilent DEF Heard

(* Each move of the subscription is said by the last of its events that    *)
(* speaks.                                                                 *)
LEMMA MovesSaid ==
    ASSUME NEW c, NEW m \in Moves(c)
    PROVE  \/ \E e : /\ m[3] = <<e>> /\ e.type \in {"subscription", "deleted"}
                     /\ e.status = m[2]
           \/ \E e, f : /\ m[3] = <<e, f>>
                        /\ f.type \in {"subscription", "deleted"} /\ f.status = m[2]
           \/ \E e, f : /\ m[3] = <<e, f>> /\ f.type = "payment_failed"
                        /\ e.type \in {"subscription", "deleted"} /\ e.status = m[2]
<1> DEFINE says(e) == e.type \in {"subscription", "deleted"}
<1>1. \A status : says(Subscription(status, c)) /\ Subscription(status, c).status = status
  BY DEF Subscription
<1>2. says(Deleted(c)) /\ Deleted(c).status = "canceled"
  BY DEF Deleted
<1>3. PaymentFailed(c).type = "payment_failed"
  BY DEF PaymentFailed
<1> HIDE DEF says
<1>4. \/ \E e : m[3] = <<e>> /\ says(e) /\ e.status = m[2]
      \/ \E e, f : m[3] = <<e, f>> /\ says(f) /\ f.status = m[2]
      \/ \E e, f : m[3] = <<e, f>> /\ f.type = "payment_failed" /\ says(e) /\ e.status = m[2]
  BY <1>1, <1>2, <1>3 DEF Moves
<1> QED
  BY <1>4 DEF says

LEMMA MovingSaid ==
    ASSUME TypeInv, NEW c \in Customers, Moving(c)
    PROVE  Told(Len(sent), stripe)'
<1>1. PICK m \in Moves(c) : stripe' = m[2] /\ Emit(m[3])
  BY DEF Moving
<1>2. m[3] \in Seq(Event) /\ sent \in Seq(Event) /\ sent' = sent \o m[3] /\ Len(sent) \in Nat
  BY <1>1, MovesType DEF Emit, TypeInv, TypeOK
<1>3. CASE \E e : m[3] = <<e>> /\ e.type \in {"subscription", "deleted"} /\ e.status = m[2]
  <2>1. PICK e : m[3] = <<e>> /\ e.type \in {"subscription", "deleted"} /\ e.status = m[2]
    BY <1>3
  <2> DEFINE k == Len(sent) + 1
  <2>2. Len(sent') = k /\ sent'[k] = e /\ k \in 1 .. Len(sent') /\ k + 1 .. Len(sent') = {}
    BY <1>2, <2>1
  <2> HIDE DEF k
  <2> QED
    BY <1>1, <2>1, <2>2 DEF Told, Speaks
<1>4. CASE \E e, f : /\ m[3] = <<e, f>>
                     /\ f.type \in {"subscription", "deleted"} /\ f.status = m[2]
  <2>1. PICK e, f : /\ m[3] = <<e, f>>
                    /\ f.type \in {"subscription", "deleted"} /\ f.status = m[2]
    BY <1>4
  <2> DEFINE k == Len(sent) + 2
  <2>2. Len(sent') = k /\ sent'[k] = f /\ k \in 1 .. Len(sent') /\ k + 1 .. Len(sent') = {}
    BY <1>2, <2>1
  <2> HIDE DEF k
  <2> QED
    BY <1>1, <2>1, <2>2 DEF Told, Speaks
<1>5. CASE \E e, f : /\ m[3] = <<e, f>> /\ f.type = "payment_failed"
                     /\ e.type \in {"subscription", "deleted"} /\ e.status = m[2]
  <2>1. PICK e, f : /\ m[3] = <<e, f>> /\ f.type = "payment_failed"
                    /\ e.type \in {"subscription", "deleted"} /\ e.status = m[2]
    BY <1>5
  <2> DEFINE k == Len(sent) + 1
  <2>2. /\ Len(sent') = k + 1 /\ sent'[k] = e /\ sent'[k + 1] = f
        /\ k \in 1 .. Len(sent') /\ k + 1 .. Len(sent') = {k + 1}
    BY <1>2, <2>1
  <2> HIDE DEF k
  <2> QED
    BY <1>1, <2>1, <2>2 DEF Told, Speaks
<1> QED
  BY <1>1, <1>3, <1>4, <1>5, MovesSaid

(* What is sent and what the page does leave a delivery where it stands.   *)
LEMMA Aside ==
    ASSUME TypeInv, NEW n \in 0 .. Len(sent), UpTo(n), OneAtATime,
           NEW events \in Seq(Event), Emit(events) \/ sent' = sent,
           row' \in Columns, row'.plan = row.plan, row'.status = row.status,
           UNCHANGED <<acked, processed, pc, job>>
    PROVE  OneAtATime' /\ UpTo(n)' /\ n \in 0 .. Len(sent')
<1>1. PlanOf(row') = PlanOf(row)
  BY DEF PlanOf
<1>2. \A s : Shows(s)' <=> Shows(s)
  BY <1>1 DEF Shows
<1>3. \A m \in 0 .. Len(sent) : \A s : Told(m, s)' <=> Told(m, s)
  BY ToldStays DEF Told, Speaks
<1>4. \A m \in 0 .. Len(sent) : Heard(m)' <=> Heard(m)
  BY <1>2, <1>3 DEF Heard
<1>5. \A k \in 1 .. Len(sent) : sent'[k] = sent[k]
  BY DEF TypeInv, TypeOK, Emit
<1>6. /\ Len(sent) \in Nat /\ Len(sent') \in Nat /\ Len(sent) <= Len(sent')
  BY DEF TypeInv, TypeOK, Emit
<1>7. ASSUME NEW d \in Deliveries, pc[d] # "idle" PROVE Handling(d, n)'
  <2>1. job[d].id \in 1 .. Len(sent) /\ job[d].id = n + 1
    BY <1>7 DEF TypeInv, UpTo, Handling
  <2>2. EventOf(d)' = EventOf(d)
    BY <1>5, <2>1 DEF EventOf
  <2>3. Stage(d, EventOf(d).type)'
    BY <1>1, <1>7, <2>2 DEF UpTo, Handling, Stage
  <2> QED
    BY <1>4, <1>7, <2>1, <2>3 DEF UpTo, Handling
<1> QED
  BY <1>4, <1>6, <1>7 DEF UpTo, OneAtATime

LEMMA StripeInOrder == ASSUME TypeInv, OrderInv, StripeActs PROVE OrderInv'
<1>1. PICK n \in 0 .. Len(sent) : UpTo(n)
  BY DEF OrderInv
<1>2. UNCHANGED <<row, acked, processed, pc, job>> /\ row \in Columns /\ OneAtATime
  BY DEF StripeActs, TypeInv, TypeOK, OrderInv
<1>3. ASSUME NEW c \in Customers, Moving(c) PROVE OrderInv'
  <2>1. PICK m \in Moves(c) : Emit(m[3])
    BY <1>3 DEF Moving
  <2>2. m[3] \in Seq(Event)
    BY MovesType
  <2>3. OneAtATime' /\ UpTo(n)' /\ n \in 0 .. Len(sent')
    BY <1>1, <1>2, <2>1, <2>2, Aside
  <2> QED
    BY <1>3, <2>3, MovingSaid DEF OrderInv
<1>4. ASSUME NEW r \in Requests, Pay(r) PROVE OrderInv'
  <2> DEFINE paid == [type |-> "payment", customer |-> page[r].customer]
  <2>1. page[r].customer \in Customers /\ Emit(<<paid>>) /\ stripe' = stripe
    BY <1>4 DEF Pay, Paid, TypeInv
  <2>2. paid \in Event /\ <<paid>> \in Seq(Event) /\ paid.type = "payment"
    BY <2>1 DEF Event
  <2> HIDE DEF paid
  <2>3. OneAtATime' /\ UpTo(n)' /\ n \in 0 .. Len(sent')
    BY <1>1, <1>2, <2>1, <2>2, Aside
  <2>4. PICK k \in Nat : k = Len(sent)
    BY DEF TypeInv, TypeOK
  <2>5. Told(k, stripe) /\ k \in 0 .. Len(sent) /\ k + 1 \in Nat
    BY <2>4 DEF OrderInv
  <2>6. Len(sent') = k + 1 /\ sent'[k + 1] = paid
    BY <2>1, <2>2, <2>4 DEF Emit, TypeInv, TypeOK
  <2>7. Told(k, stripe)'
    <3>1. \A s : Told(k, s)' <=> Told(k, s)
      BY <2>1, <2>2, <2>5, ToldStays
    <3>2. PICK s : s = stripe
      OBVIOUS
    <3>3. Told(k, s)'
      BY <2>5, <3>1, <3>2
    <3> QED
      BY <2>1, <3>2, <3>3 DEF Told
  <2>8. ~Speaks(k + 1)'
    BY <2>2, <2>6 DEF Speaks
  <2>9. \A j \in 1 .. k + 1 : j \in 1 .. k \/ j = k + 1
    OBVIOUS
  <2>10. \A i \in 1 .. k : /\ i \in 1 .. k + 1
                           /\ \A j \in i + 1 .. k + 1 : j \in i + 1 .. k \/ j = k + 1
    OBVIOUS
  <2>11. Told(Len(sent), stripe)'
    BY <2>6, <2>7, <2>8, <2>9, <2>10 DEF Told
  <2> QED
    BY <2>3, <2>11 DEF OrderInv
<1>5. ASSUME NEW r \in Requests, Subscribe(r) PROVE OrderInv'
  <2> DEFINE c == page[r].customer
  <2>1. c \in Customers /\ Moving(c)
    BY <1>5 DEF Subscribe, Moving, Paid, TypeInv
  <2> HIDE DEF c
  <2> QED
    BY <1>3, <2>1
<1>6. CASE SubscriptionMoves
  <2>1. payer \in Customers /\ Moving(payer)
    BY <1>6 DEF SubscriptionMoves, TypeInv
  <2> QED
    BY <1>3, <2>1
<1> QED
  BY <1>4, <1>5, <1>6 DEF StripeActs

LEMMA PageInOrder ==
    ASSUME TypeInv, TypeInv', OrderInv, NEW r \in Requests, Shops(r) PROVE OrderInv'
<1>1. PICK n \in 0 .. Len(sent) : UpTo(n)
  BY DEF OrderInv
<1>2. UNCHANGED <<stripe, sent, acked, processed, pc, job>> /\ OneAtATime
  BY DEF Shops, OrderInv
<1>3. row \in Columns /\ row' \in Columns
  BY DEF TypeInv, TypeOK
<1>4. row'.plan = row.plan /\ row'.status = row.status
  BY <1>3 DEF Shops, Ensure, CreateCustomer, StoreCustomer, PageFails, Columns
<1>5. << >> \in Seq(Event)
  OBVIOUS
<1>6. OneAtATime' /\ UpTo(n)' /\ n \in 0 .. Len(sent')
  BY <1>1, <1>2, <1>3, <1>4, <1>5, Aside
<1>7. Told(Len(sent), stripe)'
  BY <1>2 DEF OrderInv, Told, Speaks
<1> QED
  BY <1>6, <1>7 DEF OrderInv

LEMMA DeliverInOrder ==
    ASSUME TypeInv, OrderInv, NEW d \in Deliveries, NEW e \in Ids, DeliverNext(d, e)
    PROVE  OrderInv'
<1>1. PICK n \in 0 .. Len(sent) : UpTo(n)
  BY DEF OrderInv
<1>2. /\ acked = 1 .. n /\ processed = 1 .. n /\ Heard(n)
      /\ Len(sent) \in Nat /\ n \in Nat
  BY <1>1 DEF UpTo, DeliverNext, TypeInv, TypeOK
<1>3. e \in 1 .. Len(sent) /\ e \notin acked /\ 1 .. e - 1 \subseteq acked
  BY DEF DeliverNext, Deliver, Arrive
<1>4. e = n + 1
  <2>1. ~(e <= n)
    BY <1>2, <1>3
  <2>2. ~(n < e - 1)
    <3>1. ASSUME n < e - 1 PROVE n + 1 \in 1 .. n
      <4>1. n + 1 \in 1 .. e - 1
        BY <1>2, <1>3, <3>1
      <4> QED
        BY <1>2, <1>3, <4>1
    <3> QED
      BY <1>2, <3>1
  <2> QED
    BY <1>2, <1>3, <2>1, <2>2
<1> DEFINE new == [id |-> e, known |-> TRUE, plan |-> DefaultPlan, read |-> NewRow]
<1> DEFINE q == IF NeedsLookup(sent[e]) THEN "lookup" ELSE "check"
<1>5. /\ job' = [job EXCEPT ![d] = new] /\ pc' = [pc EXCEPT ![d] = q]
      /\ new.id = e /\ new.known
      /\ UNCHANGED <<stripe, sent, acked, processed, row>>
      /\ \A c \in Deliveries : pc[c] = "idle"
  BY DEF DeliverNext, Deliver, Arrive, Goto
<1>6. q \in {"lookup", "check"} /\ (q = "lookup" => sent[e].type = "payment_failed")
  BY DEF NeedsLookup
<1> HIDE DEF new, q
<1>7. job'[d] = new /\ pc'[d] = q /\ \A c \in Deliveries \ {d} : pc'[c] = "idle"
  BY <1>5 DEF TypeInv, TypeOK
<1>8. EventOf(d)' = sent[e]
  BY <1>5, <1>7 DEF EventOf
<1>9. Heard(n)'
  BY <1>2, <1>5 DEF Heard, Told, Speaks, Shows, PlanOf
<1>10. Handling(d, n)'
  BY <1>2, <1>4, <1>5, <1>6, <1>7, <1>8, <1>9 DEF Handling, Stage, Marked
<1>11. UpTo(n)' /\ OneAtATime'
  BY <1>2, <1>5, <1>6, <1>7, <1>10 DEF UpTo, OneAtATime
<1>12. Told(Len(sent), stripe)'
  BY <1>5 DEF OrderInv, Told, Speaks
<1> QED
  BY <1>1, <1>5, <1>11, <1>12 DEF OrderInv

(* The delivery d runs, alone, and handles the event after the first n.    *)
Active(d, n) ==
    /\ n \in Nat /\ n + 1 \in 1 .. Len(sent) /\ Len(sent) \in Nat
    /\ acked = 1 .. n
    /\ Handling(d, n)
    /\ pc[d] # "idle"
    /\ \A c \in Deliveries \ {d} : pc[c] = "idle"
    /\ EventOf(d) = sent[n + 1] /\ EventOf(d) \in Event

LEMMA OneActive ==
    ASSUME TypeInv, OrderInv, NEW d \in Deliveries, pc[d] # "idle"
    PROVE  \E n : Active(d, n)
<1>1. PICK n \in 0 .. Len(sent) : UpTo(n)
  BY DEF OrderInv
<1>2. acked = 1 .. n /\ Handling(d, n) /\ job[d].id = n + 1
  BY <1>1 DEF UpTo, Handling
<1>3. job[d].id \in 1 .. Len(sent) /\ Len(sent) \in Nat
  BY DEF TypeInv, TypeOK
<1>4. \A c \in Deliveries \ {d} : pc[c] = "idle"
  BY DEF OrderInv, OneAtATime
<1> QED
  BY <1>1, <1>2, <1>3, <1>4, EventOfType DEF Active, EventOf

(* A delivery that goes on. *)
LEMMA Going ==
    ASSUME TypeInv, OrderInv, NEW d \in Deliveries, NEW n, Active(d, n),
           NEW q \in Pcs \ {"idle"}, Goto(d, q), UNCHANGED <<stripe, sent, acked>>,
           Handling(d, n)'
    PROVE  OrderInv'
<1>1. pc'[d] = q /\ \A c \in Deliveries \ {d} : pc'[c] = "idle"
  BY DEF Goto, Active, TypeInv, TypeOK
<1>2. UpTo(n)' /\ OneAtATime'
  BY <1>1 DEF UpTo, OneAtATime, Active
<1>3. n \in 0 .. Len(sent)'
  BY DEF Active
<1>4. Told(Len(sent), stripe)'
  BY DEF OrderInv, Told, Speaks
<1> QED
  BY <1>2, <1>3, <1>4 DEF OrderInv

(* A delivery that ends with the answer. *)
LEMMA Answered ==
    ASSUME TypeInv, OrderInv, NEW d \in Deliveries, NEW n, Active(d, n),
           Answer(d), UNCHANGED <<stripe, sent>>, processed' = 1 .. n + 1, Heard(n + 1)'
    PROVE  OrderInv'
<1>1. \A c \in Deliveries : pc'[c] = "idle"
  BY DEF Answer, Goto, Active, TypeInv, TypeOK
<1>2. acked' = 1 .. n + 1
  <2>1. job[d].id = n + 1
    BY DEF Active, Handling
  <2>2. 1 .. n + 1 = (1 .. n) \cup {n + 1}
    BY DEF Active
  <2> QED
    BY <2>1, <2>2 DEF Answer, Active
<1>3. UpTo(n + 1)' /\ OneAtATime'
  BY <1>1, <1>2 DEF UpTo, OneAtATime
<1>4. n + 1 \in 0 .. Len(sent)'
  BY DEF Active
<1>5. Told(Len(sent), stripe)'
  BY DEF OrderInv, Told, Speaks
<1> QED
  BY <1>3, <1>4, <1>5 DEF OrderInv

(* What the row shows stays while its plan and its status do. *)
LEMMA HeardStays ==
    ASSUME UNCHANGED sent, row'.plan = row.plan, row'.status = row.status, NEW m, Heard(m)
    PROVE  Heard(m)'
<1>1. PlanOf(row') = PlanOf(row)
  BY DEF PlanOf
<1> QED
  BY <1>1 DEF Heard, Told, Speaks, Shows

LEMMA StatusSaid ==
    ASSUME NEW e \in Event, e.type \in {"subscription", "deleted"}
    PROVE  e.status \in StripeStates /\ (e.type = "deleted" => e.status = "canceled")
<1>1. CASE e \in [type : {"subscription"}, status : StripeStates, customer : Customers]
  BY <1>1
<1>2. CASE e \in [type : {"deleted"}, status : {"canceled"}, customer : Customers]
  BY <1>2 DEF StripeStates
<1>3. CASE e \in [type : {"payment", "session", "payment_failed"}, customer : Customers]
  BY <1>3
<1> QED
  BY <1>1, <1>2, <1>3 DEF Event

LEMMA HandleInOrder ==
    ASSUME TypeInv, OrderInv, NEW d \in Deliveries, Handle(d) PROVE OrderInv'
<1>1. pc[d] # "idle"
  BY DEF Handle, Lookup, Repeated, Fresh, Mark, Credit, CreditLedger, SetCustomer,
         GetPlan, ReadRow, WriteRow, ChangeBalance
<1>2. PICK n : Active(d, n)
  BY <1>1, OneActive
<1> DEFINE type == EventOf(d).type
<1>3. /\ n \in Nat /\ n + 1 \notin 1 .. n
      /\ job[d].id = n + 1 /\ Stage(d, type) /\ Handling(d, n)
      /\ sent[n + 1] = EventOf(d) /\ EventOf(d) \in Event /\ job[d] \in Job
  BY <1>2 DEF Active, Handling, TypeInv, TypeOK
<1>4. type \in {"payment", "session", "payment_failed"} => ~Speaks(n + 1)
  BY <1>3 DEF Speaks
<1>5. (1 .. n) \cup {n + 1} = 1 .. n + 1
  BY <1>3
<1>6. pc \in [Deliveries -> Pcs] /\ job \in [Deliveries -> Job] /\ row \in Columns
  BY DEF TypeInv, TypeOK
<1>7. CASE Lookup(d)
  <2>1. /\ pc[d] = "lookup" /\ Goto(d, "check") /\ "check" \in Pcs \ {"idle"}
        /\ UNCHANGED <<stripe, sent, acked, processed, row>>
    BY <1>7 DEF Lookup, Pcs
  <2>2. pc'[d] = "check" /\ job'[d].id = job[d].id
    BY <1>6, <1>7, <2>1 DEF Goto, Lookup, Job
  <2>3. EventOf(d)' = EventOf(d)
    BY <2>1, <2>2 DEF EventOf
  <2>4. type = "payment_failed" /\ processed = 1 .. n /\ Heard(n)
    BY <1>3, <2>1 DEF Stage, Handling
  <2>5. Heard(n)'
    BY <2>1, <2>4, HeardStays
  <2>6. Handling(d, n)'
    BY <1>3, <2>1, <2>2, <2>3, <2>4, <2>5 DEF Handling, Stage, Marked
  <2> QED
    BY <1>2, <2>1, <2>6, Going
<1>8. CASE Repeated(d)
  <2>1. processed = 1 .. n
    BY <1>3, <1>8 DEF Repeated, Handling
  <2> QED
    BY <1>3, <1>8, <2>1 DEF Repeated
<1>9. CASE Fresh(d)
  <2>1. /\ pc[d] = "check" /\ Goto(d, "mark") /\ "mark" \in Pcs \ {"idle"}
        /\ UNCHANGED <<stripe, sent, acked, processed, row, job>>
    BY <1>9 DEF Fresh, Pcs
  <2>2. pc'[d] = "mark" /\ EventOf(d)' = EventOf(d)
    BY <1>6, <2>1 DEF Goto, EventOf
  <2>3. processed = 1 .. n /\ Heard(n) /\ (job[d].known \/ type = "payment_failed")
    BY <1>3, <2>1 DEF Handling, Stage
  <2>4. Heard(n)'
    BY <2>1, <2>3, HeardStays
  <2>5. Handling(d, n)'
    BY <1>3, <2>1, <2>2, <2>3, <2>4 DEF Handling, Stage, Marked
  <2> QED
    BY <1>2, <2>1, <2>5, Going
<1>10. CASE Mark(d)
  <2>1. /\ pc[d] = "mark" /\ processed' = 1 .. n + 1
        /\ processed = 1 .. n /\ Heard(n) /\ (job[d].known \/ type = "payment_failed")
        /\ UNCHANGED <<stripe, sent, row, job>>
    BY <1>3, <1>5, <1>10 DEF Mark, Handling, Stage
  <2>2. Heard(n)'
    BY <2>1, HeardStays
  <2>3. CASE job[d].known
    <3> DEFINE q == FirstQuery(EventOf(d))
    <3>1. Goto(d, q) /\ acked' = acked
      BY <1>10, <2>3 DEF Mark
    <3>2. /\ q \in Marked
          /\ type = "payment" => q = "credit"
          /\ type = "session" => q = "setCustomer"
          /\ type = "payment_failed" => q = "getPlan"
          /\ type \in {"subscription", "deleted"} => q = "readRow"
          /\ type \in {"payment", "session", "payment_failed", "subscription", "deleted"}
      BY <1>3 DEF FirstQuery, Marked, Event
    <3>3. Marked \subseteq Pcs \ {"idle"}
      BY DEF Marked, Pcs
    <3> HIDE DEF q
    <3>4. pc'[d] = q /\ EventOf(d)' = EventOf(d)
      BY <1>6, <2>1, <3>1 DEF Goto, EventOf
    <3>5. Stage(d, type)'
      BY <2>1, <3>2, <3>4 DEF Stage, Marked
    <3>6. Handling(d, n)'
      BY <1>3, <2>1, <2>2, <3>2, <3>4, <3>5 DEF Handling, Marked
    <3> QED
      BY <1>2, <2>1, <3>1, <3>2, <3>3, <3>6, Going
  <2>4. CASE ~job[d].known
    <3>1. Answer(d) /\ type = "payment_failed"
      BY <1>10, <2>1, <2>4 DEF Mark
    <3>2. Heard(n + 1)
      BY <1>3, <1>4, <2>1, <3>1, HeardSilent
    <3>3. Heard(n + 1)'
      BY <2>1, <3>2, HeardStays
    <3> QED
      BY <1>2, <2>1, <3>1, <3>3, Answered
  <2> QED
    BY <2>3, <2>4
<1>11. CASE Credit(d)
  <2>1. /\ pc[d] = "credit" /\ Goto(d, "creditLedger") /\ "creditLedger" \in Pcs \ {"idle"}
        /\ UNCHANGED <<stripe, sent, acked, processed, row, job>>
    BY <1>11 DEF Credit, Pcs
  <2>2. pc'[d] = "creditLedger" /\ EventOf(d)' = EventOf(d)
    BY <1>6, <2>1 DEF Goto, EventOf
  <2>3. processed = 1 .. n + 1 /\ Heard(n) /\ type = "payment"
    BY <1>3, <2>1 DEF Handling, Stage, Marked
  <2>4. Heard(n)'
    BY <2>1, <2>3, HeardStays
  <2>5. Handling(d, n)'
    BY <1>3, <2>1, <2>2, <2>3, <2>4 DEF Handling, Stage, Marked
  <2> QED
    BY <1>2, <2>1, <2>5, Going
<1>12. CASE CreditLedger(d) \/ SetCustomer(d) \/ ChangeBalance(d)
  <2>1. /\ pc[d] \in {"creditLedger", "setCustomer", "balance"} /\ Answer(d)
        /\ UNCHANGED <<stripe, sent, processed>>
        /\ row'.plan = row.plan /\ row'.status = row.status
    BY <1>6, <1>12 DEF CreditLedger, SetCustomer, ChangeBalance, Columns
  <2>2. processed = 1 .. n + 1 /\ Heard(n + 1)
    <3>1. CASE pc[d] = "balance"
      BY <1>3, <3>1 DEF Handling
    <3>2. CASE pc[d] \in {"creditLedger", "setCustomer"}
      BY <1>3, <1>4, <3>2, HeardSilent DEF Handling, Stage, Marked
    <3> QED
      BY <2>1, <3>1, <3>2
  <2>3. Heard(n + 1)'
    BY <2>1, <2>2, HeardStays
  <2> QED
    BY <1>2, <2>1, <2>2, <2>3, Answered
<1>13. CASE GetPlan(d)
  <2>1. /\ pc[d] = "getPlan" /\ Goto(d, "readRow") /\ "readRow" \in Pcs \ {"idle"}
        /\ UNCHANGED <<stripe, sent, acked, processed, row>>
    BY <1>13 DEF GetPlan, Pcs
  <2>2. pc'[d] = "readRow" /\ job'[d].id = job[d].id /\ job'[d].plan = PlanOf(row)
    BY <1>6, <1>13, <2>1 DEF Goto, GetPlan, Job
  <2>3. EventOf(d)' = EventOf(d) /\ PlanOf(row') = PlanOf(row)
    BY <2>1, <2>2 DEF EventOf
  <2>4. type = "payment_failed" /\ processed = 1 .. n + 1 /\ Heard(n)
    BY <1>3, <2>1 DEF Stage, Handling, Marked
  <2>5. Heard(n)'
    BY <2>1, <2>4, HeardStays
  <2>6. Stage(d, type)'
    BY <2>2, <2>3, <2>4 DEF Stage
  <2>7. Handling(d, n)'
    BY <1>3, <2>1, <2>2, <2>3, <2>4, <2>5, <2>6 DEF Handling, Marked
  <2> QED
    BY <1>2, <2>1, <2>7, Going
<1>14. CASE ReadRow(d)
  <2>1. /\ pc[d] = "readRow" /\ Goto(d, "writeRow") /\ "writeRow" \in Pcs \ {"idle"}
        /\ UNCHANGED <<stripe, sent, acked, processed, row>>
    BY <1>14 DEF ReadRow, Pcs
  <2>2. /\ pc'[d] = "writeRow" /\ job'[d].id = job[d].id /\ job'[d].plan = job[d].plan
    BY <1>6, <1>14, <2>1 DEF Goto, ReadRow, Job
  <2>3. EventOf(d)' = EventOf(d) /\ PlanOf(row') = PlanOf(row)
    BY <2>1, <2>2 DEF EventOf
  <2>4. processed = 1 .. n + 1 /\ Heard(n)
    BY <1>3, <2>1 DEF Handling, Marked
  <2>5. \/ type \in {"subscription", "deleted"}
        \/ type = "payment_failed" /\ job[d].plan = PlanOf(row)
    BY <1>3, <2>1 DEF Stage
  <2>6. Heard(n)'
    BY <2>1, <2>4, HeardStays
  <2>7. Stage(d, type)'
    BY <2>2, <2>3, <2>5 DEF Stage
  <2>8. Handling(d, n)'
    BY <1>3, <2>1, <2>2, <2>3, <2>4, <2>6, <2>7 DEF Handling, Marked
  <2> QED
    BY <1>2, <2>1, <2>8, Going
<1>15. CASE WriteRow(d)
  <2>1. /\ pc[d] = "writeRow" /\ row' = WrittenRow(d)
        /\ UNCHANGED <<stripe, sent, processed, job>>
    BY <1>15 DEF WriteRow
  <2>2. processed = 1 .. n + 1 /\ Heard(n)
    BY <1>3, <2>1 DEF Handling, Marked
  <2>3. \/ type \in {"subscription", "deleted"}
        \/ type = "payment_failed" /\ job[d].plan = PlanOf(row)
    BY <1>3, <2>1 DEF Stage
  <2>4. row'.plan = WantedPlan(d) /\ row'.status = WantedStatus(EventOf(d))
    BY <2>1 DEF WrittenRow
  <2>5. Heard(n + 1)'
    <3>1. CASE type \in {"subscription", "deleted"}
      <4> DEFINE status == EventOf(d).status
      <4>1. status \in StripeStates /\ (type = "deleted" => status = "canceled")
        BY <1>3, <3>1, StatusSaid
      <4>2. Told(n + 1, status)
        BY <1>3, <3>1, ToldLast DEF Speaks
      <4>3. row'.plan = (IF type = "deleted" THEN DefaultPlan ELSE PaidPlan)
            /\ row'.status = MapStatus(status)
        BY <2>4, <3>1 DEF WantedPlan, WantedStatus
      <4> HIDE DEF status
      <4>4. PlanOf(row') = Granted(status)
        BY <4>1, <4>3 DEF PlanOf, Granted, Running, MapStatus, StripeStates
      <4>5. status = "past_due" => row'.status = "past_due"
        BY <4>3 DEF MapStatus
      <4>6. PICK s : s = status
        OBVIOUS
      <4>7. Told(n + 1, s)' /\ Shows(s)'
        BY <2>1, <4>2, <4>4, <4>5, <4>6 DEF Told, Speaks, Shows
      <4> QED
        BY <4>1, <4>6, <4>7 DEF Heard
    <3>2. CASE type = "payment_failed"
      <4>1. PICK s \in StripeStates : Told(n, s) /\ Shows(s)
        BY <2>2 DEF Heard
      <4>2. Told(n + 1, s)
        BY <1>3, <1>4, <3>2, <4>1, ToldSilent
      <4>3. row'.plan = PlanOf(row) /\ row'.status = "past_due"
        BY <2>4, <2>3, <3>2 DEF WantedPlan, WantedStatus
      <4>4. PlanOf(row') = PlanOf(row)
        BY <4>3 DEF PlanOf
      <4>5. Told(n + 1, s)' /\ Shows(s)'
        BY <2>1, <4>1, <4>2, <4>3, <4>4 DEF Told, Speaks, Shows
      <4> QED
        BY <4>5 DEF Heard
    <3> QED
      BY <2>3, <3>1, <3>2
  <2>6. CASE WantedPlan(d) # job[d].read.plan
    <3>1. Goto(d, "balance") /\ acked' = acked /\ "balance" \in Pcs \ {"idle"}
      BY <1>15, <2>6 DEF WriteRow, Pcs
    <3>2. pc'[d] = "balance" /\ job'[d].id = n + 1
      BY <1>3, <1>6, <2>1, <3>1 DEF Goto
    <3>3. Handling(d, n)'
      BY <2>1, <2>2, <2>5, <3>2 DEF Handling, Stage, Marked
    <3> QED
      BY <1>2, <2>1, <3>1, <3>3, Going
  <2>7. CASE WantedPlan(d) = job[d].read.plan
    <3>1. Answer(d)
      BY <1>15, <2>7 DEF WriteRow
    <3> QED
      BY <1>2, <2>1, <2>2, <2>5, <3>1, Answered
  <2> QED
    BY <2>6, <2>7
<1> QED
  BY <1>7, <1>8, <1>9, <1>10, <1>11, <1>12, <1>13, <1>14, <1>15 DEF Handle

LEMMA OrderStep == TypeInv /\ OrderInv /\ InOrderNext => OrderInv'
<1> SUFFICES ASSUME TypeInv, OrderInv, InOrderNext PROVE OrderInv'
  OBVIOUS
<1>1. TypeInv'
  BY TypeStep DEF InOrderNext, DeliverNext, Next
<1> QED
  BY <1>1, PageInOrder, StripeInOrder, DeliverInOrder, HandleInOrder DEF InOrderNext

LEMMA OrderStutter == OrderInv /\ UNCHANGED vars => OrderInv'
<1> SUFFICES ASSUME OrderInv, UNCHANGED vars PROVE OrderInv'
  OBVIOUS
<1>1. UNCHANGED <<sent, stripe, acked, processed, row, pc, job>>
  BY DEF vars
<1>2. \A n : Heard(n)' <=> Heard(n)
  BY <1>1 DEF Heard, Told, Speaks, Shows, PlanOf
<1>3. \A n, d : Handling(d, n)' <=> Handling(d, n)
  BY <1>1, <1>2 DEF Handling, Stage, EventOf, PlanOf
<1>4. \A n : UpTo(n)' <=> UpTo(n)
  BY <1>1, <1>2, <1>3 DEF UpTo
<1>5. Told(Len(sent), stripe)' /\ OneAtATime'
  BY <1>1 DEF OrderInv, OneAtATime, Told, Speaks
<1> QED
  BY <1>1, <1>4, <1>5 DEF OrderInv

LEMMA OrderImplies ==
    TypeInv /\ OrderInv => PlanFollowsStripe /\ FailedPaymentNoticed
<1> SUFFICES ASSUME TypeInv, OrderInv, AllAnswered
             PROVE  /\ PlanOf(row) = Granted(stripe)
                    /\ stripe = "past_due" => row.status = "past_due"
  BY DEF PlanFollowsStripe, FailedPaymentNoticed, Granted
<1>1. PICK n \in 0 .. Len(sent) : UpTo(n)
  BY DEF OrderInv
<1>2. n \in Nat /\ Len(sent) \in Nat /\ 1 .. n = 1 .. Len(sent) /\ Heard(n)
  BY <1>1 DEF UpTo, AllAnswered, AllAcked, TypeInv, TypeOK
<1>3. n = Len(sent)
  <2>1. n < Len(sent) => Len(sent) \in 1 .. Len(sent) /\ Len(sent) \notin 1 .. n
    BY <1>2
  <2> QED
    BY <1>1, <1>2, <2>1
<1>4. PICK status \in StripeStates : Told(n, status) /\ Shows(status)
  BY <1>2 DEF Heard
<1>5. status = stripe
  BY <1>2, <1>3, <1>4, ToldOnce DEF OrderInv
<1> QED
  BY <1>4, <1>5 DEF Shows

LEMMA InOrderOnly ==
    ASSUME InOrder, ~Overlap, MaxFailures = 0, TypeInv, OrderInv, [Next]_vars
    PROVE  InOrderNext \/ UNCHANGED vars
<1>1. failures \in Nat
  BY DEF TypeInv, TypeOK
<1>2. ASSUME NEW d \in Deliveries, NEW e \in Ids, Deliver(d, e) PROVE DeliverNext(d, e)
  <2>1. /\ e \notin acked /\ e \in 1 .. Len(sent)
        /\ \A f \in 1 .. e - 1 : f \in acked
        /\ \A c \in Deliveries : pc[c] # "idle" => job[c].id # e
    BY <1>2 DEF Deliver, Arrive
  <2>2. ASSUME NEW c \in Deliveries, pc[c] # "idle" PROVE FALSE
    <3>1. PICK n : Active(c, n)
      BY <2>2, OneActive
    <3>2. /\ n \in Nat /\ Len(sent) \in Nat /\ acked = 1 .. n /\ job[c].id = n + 1
      BY <3>1 DEF Active, Handling
    <3>3. n + 1 # e /\ e \notin 1 .. n /\ e \in Nat /\ e >= 1
      BY <2>1, <2>2, <3>2
    <3>4. n + 1 \in 1 .. e - 1
      BY <3>2, <3>3
    <3>5. n + 1 \in acked
      BY <2>1, <3>4
    <3> QED
      BY <3>2, <3>5
  <2> QED
    BY <1>2, <2>1, <2>2 DEF DeliverNext
<1>3. \A d \in Deliveries, e \in Ids : ~Redeliver(d, e)
  BY <1>1 DEF Redeliver
<1>4. \A d \in Deliveries : ~QueryFails(d)
  BY <1>1 DEF QueryFails
<1> QED
  BY <1>2, <1>3, <1>4 DEF Next, InOrderNext

(* Where Stripe waits for each answer and no query fails, for any number   *)
(* of deliveries, pages, customers and events: once all has been heard the *)
(* user is on the paid plan exactly while the subscription runs, and a     *)
(* payment that failed shows.                                              *)
THEOREM PlanFollowsInOrder ==
    ASSUME InOrder, ~Overlap, MaxFailures = 0
    PROVE  Spec => [](PlanFollowsStripe /\ FailedPaymentNoticed)
<1>1. TypeInv /\ OrderInv /\ [Next]_vars => OrderInv'
  BY InOrderOnly, OrderStep, OrderStutter
<1> QED
  BY <1>1, OrderInit, OrderImplies, WebhookTypeCorrect, PTL DEF Spec

-----------------------------------------------------------------------------
(* The same in the two worlds that are checked together. *)

LEMMA OrderlyHandles ==
    ASSUME NEW d \in Deliveries PROVE Orderly!Handle(d) <=> Handle(d)
<1>1. Orderly!Lookup(d) <=> Lookup(d)
  BY DEF Orderly!Lookup, Lookup, Orderly!Goto, Goto, Orderly!EventOf, EventOf, Orderly!shop, shop
<1>2. Orderly!Mark(d) <=> Mark(d)
  BY DEF Orderly!Mark, Mark, Orderly!Goto, Goto, Orderly!EventOf, EventOf, Orderly!shop, shop,
         Orderly!Answer, Answer, Orderly!FirstQuery, FirstQuery
<1>3. Orderly!WriteRow(d) <=> WriteRow(d)
  BY DEF Orderly!WriteRow, WriteRow, Orderly!Goto, Goto, Orderly!EventOf, EventOf, Orderly!shop,
         shop, Orderly!Answer, Answer, Orderly!WrittenRow, WrittenRow, Orderly!WantedPlan,
         WantedPlan, Orderly!WantedStatus, WantedStatus, Orderly!MapStatus, MapStatus
<1>4. /\ Orderly!Repeated(d) <=> Repeated(d)
      /\ Orderly!Fresh(d) <=> Fresh(d)
      /\ Orderly!Credit(d) <=> Credit(d)
      /\ Orderly!CreditLedger(d) <=> CreditLedger(d)
      /\ Orderly!ReadRow(d) <=> ReadRow(d)
      /\ Orderly!ChangeBalance(d) <=> ChangeBalance(d)
  BY DEF Orderly!Repeated, Repeated, Orderly!Fresh, Fresh, Orderly!Credit, Credit,
         Orderly!CreditLedger, CreditLedger, Orderly!ReadRow, ReadRow,
         Orderly!ChangeBalance, ChangeBalance, Orderly!Goto, Goto, Orderly!Answer, Answer,
         Orderly!shop, shop
<1>5. /\ Orderly!SetCustomer(d) <=> SetCustomer(d)
      /\ Orderly!GetPlan(d) <=> GetPlan(d)
  BY DEF Orderly!SetCustomer, SetCustomer, Orderly!GetPlan, GetPlan, Orderly!PlanOf, PlanOf,
         Orderly!EventOf, EventOf, Orderly!Goto, Goto, Orderly!Answer, Answer, Orderly!shop, shop
<1> QED
  BY <1>1, <1>2, <1>3, <1>4, <1>5 DEF Orderly!Handle, Handle

LEMMA OrderlyPages ==
    ASSUME NEW r \in Requests, failures \in Nat, Orderly!Shops(r) PROVE Shops(r)
<1>1. ~Orderly!PageFails(r)
  BY DEF Orderly!PageFails
<1>2. /\ Orderly!Ensure(r) <=> Ensure(r)
      /\ Orderly!CreateCustomer(r) <=> CreateCustomer(r)
      /\ Orderly!StoreCustomer(r) <=> StoreCustomer(r)
  BY DEF Orderly!Ensure, Ensure, Orderly!CreateCustomer, CreateCustomer,
         Orderly!StoreCustomer, StoreCustomer, Orderly!Turn, Turn, Orderly!None, None
<1> QED
  BY <1>1, <1>2 DEF Orderly!Shops, Shops

LEMMA OrderlyStripe == Orderly!StripeActs <=> StripeActs
<1>1. \A c : Orderly!Moving(c) <=> Moving(c)
  BY DEF Orderly!Moving, Moving, Orderly!Moves, Moves, Orderly!Emit, Emit,
         Orderly!Session, Session, Orderly!PaymentFailed, PaymentFailed,
         Orderly!Subscription, Subscription, Orderly!Deleted, Deleted
<1>2. \A r \in Requests : Orderly!Paid(r) <=> Paid(r)
  BY DEF Orderly!Paid, Paid, Orderly!Turn, Turn, Orderly!None, None
<1>3. \A r \in Requests : Orderly!Pay(r) <=> Pay(r)
  BY <1>2 DEF Orderly!Pay, Pay, Orderly!Emit, Emit
<1>4. \A r \in Requests : Orderly!Subscribe(r) <=> Subscribe(r)
  BY <1>1, <1>2 DEF Orderly!Subscribe, Subscribe, Moving, Orderly!Moving
<1>5. Orderly!SubscriptionMoves <=> SubscriptionMoves
  BY <1>1 DEF Orderly!SubscriptionMoves, SubscriptionMoves
<1> QED
  BY <1>3, <1>4, <1>5 DEF Orderly!StripeActs, StripeActs

LEMMA OrderlyDelivers ==
    ASSUME NEW d \in Deliveries, NEW e \in Ids, Orderly!Deliver(d, e)
    PROVE  /\ Deliver(d, e)
           /\ pc[d] = "idle"
           /\ \A f \in 1 .. e - 1 : f \in acked
  BY DEF Orderly!Deliver, Deliver, Orderly!Arrive, Arrive, Orderly!Goto, Goto,
         Orderly!NeedsLookup, NeedsLookup, Orderly!NewRow, NewRow, Orderly!None, None,
         Orderly!shop, shop

(* In the orderly world only First delivers, so no other delivery runs. *)
LEMMA WaitingInOrder ==
    ASSUME TypeInv, Waiting PROVE InOrderNext
<1>1. failures \in Nat /\ pc \in [Deliveries -> Pcs]
  BY DEF TypeInv, TypeOK
<1>2. Orderly!Next /\ \A d \in Deliveries \ {First} : pc'[d] = "idle"
  BY DEF Waiting
<1>3. \A d \in Deliveries, e \in Ids : ~Orderly!Redeliver(d, e)
  BY <1>1 DEF Orderly!Redeliver
<1>4. \A d \in Deliveries : ~Orderly!QueryFails(d)
  BY <1>1 DEF Orderly!QueryFails
<1>5. ASSUME NEW d \in Deliveries, NEW e \in Ids, Orderly!Deliver(d, e)
      PROVE  DeliverNext(d, e)
  <2>1. Deliver(d, e) /\ pc[d] = "idle" /\ \A f \in 1 .. e - 1 : f \in acked
    BY <1>5, OrderlyDelivers
  <2>2. \E q \in {"lookup", "check"} : pc' = [pc EXCEPT ![d] = q]
    BY <2>1 DEF Deliver, Arrive, Goto
  <2>3. d = First /\ \A c \in Deliveries \ {d} : pc[c] = "idle"
    BY <1>1, <1>2, <2>2
  <2> QED
    BY <2>1, <2>3 DEF DeliverNext
<1>6. Orderly!Ids = Ids
  BY DEF Orderly!Ids, Ids
<1>7. CASE \E r \in Requests : Orderly!Shops(r)
  BY <1>1, <1>7, OrderlyPages DEF InOrderNext
<1>8. CASE Orderly!StripeActs
  BY <1>8, OrderlyStripe DEF InOrderNext
<1>9. CASE \E d \in Deliveries : \E e \in Ids : Orderly!Deliver(d, e)
  BY <1>5, <1>9 DEF InOrderNext
<1>10. CASE \E d \in Deliveries : Orderly!Handle(d)
  BY <1>10, OrderlyHandles DEF InOrderNext
<1> QED
  BY <1>2, <1>3, <1>4, <1>6, <1>7, <1>8, <1>9, <1>10 DEF Orderly!Next

(* In the world of ordered deliveries, next to that of retries, the plan   *)
(* is the one Stripe's subscription is for, and a payment that failed      *)
(* shows, for any number of events, pages and customers.                   *)
THEOREM PlanFollows == MCSpec => [](OrderlyPlanFollows /\ OrderlyFailureNoticed)
<1> DEFINE IInv == TypeInv /\ (world = "orderly" => OrderInv)
<1>1. MCInit => IInv
  BY TypeInit, OrderInit DEF MCInit
<1>2. IInv /\ [MCNext]_<<vars, world>> => IInv'
  <2> SUFFICES ASSUME IInv, [MCNext]_<<vars, world>> PROVE IInv'
    OBVIOUS
  <2>1. CASE Retrying /\ UNCHANGED world
    BY <2>1, TypeStep DEF Retrying
  <2>2. CASE Waiting /\ UNCHANGED world
    <3>1. InOrderNext /\ OrderInv
      BY <2>2, WaitingInOrder DEF Waiting
    <3>2. Next
      BY <3>1 DEF InOrderNext, DeliverNext, Next
    <3> QED
      BY <3>1, <3>2, TypeStep, OrderStep
  <2>3. CASE UNCHANGED <<vars, world>>
    BY <2>3, TypeStep, OrderStutter
  <2> QED
    BY <2>1, <2>2, <2>3 DEF MCNext
<1>3. IInv => OrderlyPlanFollows /\ OrderlyFailureNoticed
  BY OrderImplies DEF OrderlyPlanFollows, OrderlyFailureNoticed
<1> QED
  BY <1>1, <1>2, <1>3, PTL DEF MCSpec

=============================================================================
