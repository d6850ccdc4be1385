------------------------------ MODULE MCWebhook ------------------------------
(* Two instances of StripeWebhook in one graph, told apart by world: one   *)
(* in which queries fail and events are repeated in any order, and one of  *)
(* more events, in order and without failures, with checkouts that overlap.*)
EXTENDS StripeWebhook

CONSTANT
    MaxRetried,   \* the bound on events where they are repeated
    First,        \* the delivery used where events come in order
    Shopper       \* the request used where events are repeated

VARIABLE world

Orderly == INSTANCE StripeWebhook WITH InOrder <- TRUE, MaxFailures <- 0

MCInit == Init /\ world \in {"retries", "orderly"}

Retrying ==
    /\ world = "retries"
    /\ Next
    /\ Len(sent') <= MaxRetried
    /\ \A r \in Requests \ {Shopper} : page'[r].pc = "idle"

Waiting ==
    /\ world = "orderly"
    /\ Orderly!Next
    /\ \A d \in Deliveries \ {First} : pc'[d] = "idle"

MCNext == (Retrying \/ Waiting) /\ UNCHANGED world

(* In order at most one event can be delivered, and stays so until it is:  *)
(* weak fairness, which is less than Stripe gives, is enough.              *)
MCFairness ==
    /\ \A d \in Deliveries : WF_vars(Handle(d))
    /\ \A e \in 1 .. MaxRetried :
          SF_vars(\E d \in Deliveries : world = "retries" /\ Deliver(d, e))
    /\ WF_vars(\E e \in Ids : world = "orderly" /\ Orderly!Deliver(First, e))

MCSpec == MCInit /\ [][MCNext]_<<vars, world>> /\ MCFairness

(* Where events come in order and no query fails, the plan is the one that *)
(* Stripe's subscription is for.                                           *)
OrderlyPlanFollows == world = "orderly" => PlanFollowsStripe

(* There a failed payment is noticed.                                      *)
OrderlyFailureNoticed == world = "orderly" => FailedPaymentNoticed

(* There every payment is credited in the end, although the customer it    *)
(* was made for may have been replaced by that of another checkout.        *)
OrderlyPaymentsCredited == []<>(world = "orderly" => AllCredited)

=============================================================================
