------------------------------ MODULE MCBilling ------------------------------
(* Small instances of BillingService for TLC: a free plan without rollover *)
(* and a paid plan whose unused credits roll over for two months.          *)
EXTENDS BillingService

MCPlans == {"free", "pro"}
MCMonthlyCredits == [p \in MCPlans |-> IF p = "free" THEN 2 ELSE 4]
MCRolloverMonths == [p \in MCPlans |-> IF p = "free" THEN 0 ELSE 2]

Charge1 == [kind |-> "charge", amount |-> 1]
Charge3 == [kind |-> "charge", amount |-> 3]
Topup2  == [kind |-> "topup", amount |-> 2]
ToPro   == [kind |-> "setPlan", plan |-> "pro", status |-> "active"]
ToFree  == [kind |-> "setPlan", plan |-> "free", status |-> "canceled"]
ToUnpaid == [kind |-> "setPlan", plan |-> "pro", status |-> "incomplete"]
Look    == [kind |-> "view"]

PlanTasks == {Charge3, Topup2, ToPro, ToFree, ToUnpaid}
RaceTasks == {Charge3, Topup2, ToPro, Look}
PackTasks == {Charge1, Topup2}
RenewTasks == {ToPro, Look}
UnpaidTasks == {ToUnpaid}

=============================================================================
