------------------------------ MODULE CreditRow ------------------------------
(***************************************************************************)
(* The credit_balances row of one user and the pure arithmetic that        *)
(* BillingService does on a row it has read: how a spend is split over the *)
(* three buckets, how a refund, a bought pack, a plan change and a new     *)
(* month rewrite it.  Nothing here touches the database; the steps that    *)
(* read and write the row are the actions of module BillingService.        *)
(*                                                                         *)
(* Time is counted in calendar months.  Every timestamp the code stores is *)
(* the first instant of a UTC month (startOfMonth, addMonths), so the test *)
(* stored <= now of the code is the test stored <= month of now here.      *)
(***************************************************************************)
EXTENDS Integers

CONSTANTS
    Plans,           \* the plan identifiers of shared/types/billing.ts
    DefaultPlan,     \* DEFAULT_PLAN, the plan everyone falls back to
    MonthlyCredits,  \* plan -> credits granted every month
    RolloverMonths   \* plan -> months unused credits stay valid, 0 = none

ASSUME PlanAssumption ==
    /\ DefaultPlan \in Plans
    /\ MonthlyCredits \in [Plans -> Nat]
    /\ RolloverMonths \in [Plans -> Nat]

(* The value of rolloverExpiresAt when the column is NULL. *)
NoExpiry == -1

(* A row of credit_balances; periodStart is always periodEnd - 1. *)
Row == [monthlyAllowance : Nat,
        monthlyUsed      : Nat,
        rolloverCredits  : Nat,
        rolloverExpires  : Nat \cup {NoExpiry},
        topupCredits     : Nat,
        periodEnd        : Nat]

AtLeast0(n) == IF n < 0 THEN 0 ELSE n

Least(m, n) == IF m < n THEN m ELSE n

(* The unspent part of this month's allowance, 0 when a plan change left   *)
(* less allowance than was already used.                                   *)
MonthlyRemaining(row) == AtLeast0(row.monthlyAllowance - row.monthlyUsed)

AvailableFrom(row) ==
    MonthlyRemaining(row) + row.rolloverCredits + row.topupCredits

(* Mutant of AllocateSpend: bought credits are spent first. *)
SpendBoughtFirst(row, cost) ==
    LET fromTopup    == Least(row.topupCredits, AtLeast0(cost))
        afterTopup   == AtLeast0(cost) - fromTopup
        fromMonthly  == Least(MonthlyRemaining(row), afterTopup)
        fromRollover == Least(row.rolloverCredits, afterTopup - fromMonthly)
    IN  [fromMonthly  |-> fromMonthly,
         fromRollover |-> fromRollover,
         fromTopup    |-> fromTopup,
         shortfall    |-> afterTopup - fromMonthly - fromRollover]

(* allocateSpend: this month's allowance first, then rollover, then bought *)
(* credits; shortfall is what no bucket could cover.                       *)
AllocateSpend(row, cost) ==
    LET fromMonthly  == Least(MonthlyRemaining(row), AtLeast0(cost))
        afterMonthly == AtLeast0(cost) - fromMonthly
        fromRollover == Least(AtLeast0(row.rolloverCredits), afterMonthly)
        afterRoll    == afterMonthly - fromRollover
        fromTopup    == Least(AtLeast0(row.topupCredits), afterRoll)
    IN  [fromMonthly  |-> fromMonthly,
         fromRollover |-> fromRollover,
         fromTopup    |-> fromTopup,
         shortfall    |-> afterRoll - fromTopup]

(* The row the first getBalance of a user inserts. *)
NewRow(plan, at) ==
    [monthlyAllowance |-> MonthlyCredits[plan],
     monthlyUsed      |-> 0,
     rolloverCredits  |-> 0,
     rolloverExpires  |-> NoExpiry,
     topupCredits     |-> 0,
     periodEnd        |-> at + 1]

RolloverExpired(row, at) ==
    row.rolloverExpires # NoExpiry /\ row.rolloverExpires <= at

RolloverEnabled(plan) == RolloverMonths[plan] > 0

(* rollPeriod: the columns its UPDATE sets, computed from the row that was *)
(* read.  All kept rollover gets the new expiry date, however old it is.   *)
RolledRow(row, plan, at) ==
    LET kept == IF RolloverExpired(row, at) THEN 0 ELSE row.rolloverCredits
    IN  [row EXCEPT
            !.monthlyAllowance = MonthlyCredits[plan],
            !.monthlyUsed      = 0,
            !.rolloverCredits  = IF RolloverEnabled(plan)
                                 THEN kept + MonthlyRemaining(row) ELSE 0,
            !.rolloverExpires  = IF RolloverEnabled(plan)
                                 THEN at + RolloverMonths[plan] ELSE NoExpiry,
            !.periodEnd        = at + 1]

(* Mutant of ChargedRow: the sign of the bought bucket is wrong. *)
ChargedRowWrongSign(row, cost) ==
    LET split == AllocateSpend(row, cost)
    IN  [row EXCEPT
            !.monthlyUsed     = @ + split.fromMonthly,
            !.rolloverCredits = @ - split.fromRollover,
            !.topupCredits    = @ + split.fromTopup]

(* charge: the columns it writes, from the row it read. *)
ChargedRow(row, cost) ==
    LET split == AllocateSpend(row, cost)
    IN  [row EXCEPT
            !.monthlyUsed     = @ + split.fromMonthly,
            !.rolloverCredits = @ - split.fromRollover,
            !.topupCredits    = @ - split.fromTopup]

(* Mutant of RefundedRow: everything goes back into the month's allowance. *)
RefundedRowUncapped(row, amount) == [row EXCEPT !.monthlyUsed = @ - amount]

(* refund: first back into the month's allowance as far as anything was    *)
(* used there, the rest as bought credits.                                 *)
RefundedRow(row, amount) ==
    LET toMonthly == Least(row.monthlyUsed, amount)
    IN  [row EXCEPT
            !.monthlyUsed  = @ - toMonthly,
            !.topupCredits = @ + (amount - toMonthly)]

ToppedUpRow(row, credits) == [row EXCEPT !.topupCredits = @ + credits]

=============================================================================
