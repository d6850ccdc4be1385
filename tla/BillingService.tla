--------------------------- MODULE BillingService ---------------------------
(***************************************************************************)
(* BillingService over D1: the subscription row, the credit balance row    *)
(* and the ledger of one user, and the concurrent requests that read and   *)
(* rewrite them.  No query of the service runs in a transaction, so every  *)
(* await of a query is a point where other requests may run.  One action   *)
(* is one query with the code that follows it up to the next query.        *)
(*                                                                         *)
(* A session runs one task after another:                                  *)
(*   job      charge for work, do the work, refund it if the work failed   *)
(*            (creditGuard.ts, the DEPLOY message, startCodeGeneration);   *)
(*   topup    addTopup, for a bought pack;                                 *)
(*   setPlan  setPlan, for a Stripe subscription event;                    *)
(*   view     getBalance alone (getSummary, canAfford).                    *)
(* Rows of different users never meet, so one user is enough.              *)
(***************************************************************************)
EXTENDS CreditRow, Sequences, FiniteSetsExt

CONSTANTS
    Sessions,     \* requests that can be in flight at the same time
    Tasks,        \* the tasks that requests ask for
    MaxTasks,     \* bound on the tasks started
    MaxMonth,     \* bound on the calendar
    MaxFailures,  \* bound on the queries that fail
    NoRow         \* no row of credit_balances for this user yet

Statuses == {"active", "trialing", "past_due", "canceled", "incomplete"}

Task == [kind : {"charge", "topup"}, amount : Nat \ {0}]
        \cup [kind : {"setPlan"}, plan : Plans, status : Statuses]
        \cup [kind : {"view"}]

ASSUME BillingAssumption ==
    /\ NoRow \notin Row
    /\ Tasks \subseteq Task
    /\ MaxTasks \in Nat /\ MaxMonth \in Nat /\ MaxFailures \in Nat

VARIABLES
    month,     \* the calendar month new Date() falls in
    sub,       \* the subscriptions row: planId and status
    bal,       \* the credit_balances row, or NoRow
    ledger,    \* the credit_ledger rows, oldest first
    pc,        \* the query each session awaits
    task,      \* the task each session runs
    seen,      \* what its getBalance has learnt: plan, now and the row
    charged,   \* what chargeCredits told the session it had charged
    paidIn,    \* history: credits ever written into the bought bucket
    started,   \* tasks started so far
    failures   \* queries that have failed so far

vars == <<month, sub, bal, ledger, pc, task, seen, charged, paidIn, started,
          failures>>

db == <<sub, bal, ledger>>
counters == <<month, paidIn, started, failures>>
clocks == <<month, started, failures>>

Kinds == {"grant", "spend", "refund", "topup", "rollover", "expire"}

Entry == [kind : Kinds, amount : Int, after : Int, at : Nat, by : Sessions]

(* The queries a session can be waiting for. *)
Queries == {"subRead", "subWrite", "getPlan", "select", "insert",
            "insertLedger", "reselect", "roll", "rollLedger", "rollGrant",
            "expire", "sync", "act", "actLedger"}

Pcs == Queries \cup {"idle", "working"}

Init ==
    /\ month = 0
    /\ sub = [plan |-> DefaultPlan, status |-> "active"]
    /\ bal = NoRow
    /\ ledger = << >>
    /\ pc = [s \in Sessions |-> "idle"]
    /\ task = [s \in Sessions |-> [kind |-> "view"]]
    /\ seen = [s \in Sessions |->
                 [plan |-> DefaultPlan, at |-> 0, row |-> NewRow(DefaultPlan, 0)]]
    /\ charged = [s \in Sessions |-> 0]
    /\ paidIn = 0
    /\ started = 0
    /\ failures = 0

-----------------------------------------------------------------------------
(* Building blocks.                                                        *)

Goto(s, q) == pc' = [pc EXCEPT ![s] = q]

(* writeLedger. *)
Log(s, kind, amount, after) ==
    ledger' = Append(ledger, [kind |-> kind, amount |-> amount,
                              after |-> after, at |-> month, by |-> s])

SeesRow(s, row) == seen' = [seen EXCEPT ![s].row = row]

(* getPlanId: a canceled or incomplete subscription counts as the default. *)
PlanOf(row) == IF row.status \in {"canceled", "incomplete"}
               THEN DefaultPlan ELSE row.plan

(* What getBalance does next with the row its SELECT returned.  The branch *)
(* "expire", which clears an expired rollover inside a running period and  *)
(* logs it, has no actions: ExpireBranchDead says that no request gets     *)
(* there, because rollPeriod always comes first.                           *)
AfterSelect(row, plan, at) ==
    IF row = NoRow THEN "insert"
    ELSE IF row.periodEnd <= at THEN "roll"
    ELSE IF row.rolloverCredits > 0 /\ RolloverExpired(row, at) THEN "expire"
    ELSE IF row.monthlyAllowance # MonthlyCredits[plan] THEN "sync"
    ELSE "act"

-----------------------------------------------------------------------------
(* Requests.                                                               *)

(* A request arrives.  Everything but setPlan starts with getBalance. *)
Begin(s) ==
    /\ pc[s] = "idle"
    /\ started < MaxTasks
    /\ \E t \in Tasks :
          /\ task' = [task EXCEPT ![s] = t]
          /\ Goto(s, IF t.kind = "setPlan" THEN "subRead" ELSE "getPlan")
    /\ started' = started + 1
    /\ charged' = [charged EXCEPT ![s] = 0]
    /\ UNCHANGED <<month, paidIn, db, seen, failures>>

(* setPlan: SELECT of the subscription, to know the previous plan.  It is  *)
(* kept in seen, which getBalance overwrites.                              *)
SubRead(s) ==
    /\ pc[s] = "subRead"
    /\ seen' = [seen EXCEPT ![s].plan = sub.plan]
    /\ Goto(s, "subWrite")
    /\ UNCHANGED <<db, task, charged, counters>>

(* setPlan: UPDATE of the subscription; the balance is touched only when   *)
(* the plan differs from the previous one.                                 *)
SubWrite(s) ==
    /\ pc[s] = "subWrite"
    /\ sub' = [plan |-> task[s].plan, status |-> task[s].status]
    /\ Goto(s, IF task[s].plan # seen[s].plan THEN "getPlan" ELSE "idle")
    /\ UNCHANGED <<bal, ledger, task, seen, charged, counters>>

-----------------------------------------------------------------------------
(* getBalance.                                                             *)

(* getPlanId, then the clock is read. *)
GetPlan(s) ==
    /\ pc[s] = "getPlan"
    /\ seen' = [seen EXCEPT ![s].plan = PlanOf(sub), ![s].at = month]
    /\ Goto(s, "select")
    /\ UNCHANGED <<db, task, charged, counters>>

(* SELECT of the balance row, and the choice of what to do with it. *)
Select(s) ==
    /\ pc[s] = "select"
    /\ IF bal = NoRow THEN UNCHANGED seen ELSE SeesRow(s, bal)
    /\ Goto(s, AfterSelect(bal, seen[s].plan, seen[s].at))
    /\ UNCHANGED <<db, task, charged, counters>>

(* INSERT ... ON CONFLICT DO NOTHING of the first row. *)
Insert(s) ==
    /\ pc[s] = "insert"
    /\ bal' = IF bal = NoRow THEN NewRow(seen[s].plan, seen[s].at) ELSE bal
    /\ Goto(s, "insertLedger")
    /\ UNCHANGED <<sub, ledger, task, seen, charged, counters>>

(* The first grant is logged whether or not this INSERT won. *)
InsertLedger(s) ==
    /\ pc[s] = "insertLedger"
    /\ Log(s, "grant", MonthlyCredits[seen[s].plan], MonthlyCredits[seen[s].plan])
    /\ Goto(s, "reselect")
    /\ UNCHANGED <<sub, bal, task, seen, charged, counters>>

(* The row that won is read back and returned without further checks. *)
Reselect(s) ==
    /\ pc[s] = "reselect"
    /\ SeesRow(s, bal)
    /\ Goto(s, "act")
    /\ UNCHANGED <<db, task, charged, counters>>

(* rollPeriod: UPDATE.  It reads the clock again, at some moment between   *)
(* the two queries.  topup_credits is not among the columns written.       *)
Roll(s) ==
    /\ pc[s] = "roll"
    /\ \E at \in seen[s].at .. month :
          LET new == RolledRow(seen[s].row, seen[s].plan, at)
          IN  /\ bal' = [new EXCEPT !.topupCredits = bal.topupCredits]
              /\ seen' = [seen EXCEPT ![s].at = at]
    /\ Goto(s, IF RolloverEnabled(seen[s].plan) /\ MonthlyRemaining(seen[s].row) > 0
               THEN "rollLedger" ELSE "rollGrant")
    /\ UNCHANGED <<sub, ledger, task, charged, counters>>

(* The row rollPeriod returns, seen still holding the row it started from. *)
RowAfterRoll(s) == RolledRow(seen[s].row, seen[s].plan, seen[s].at)

RollLedger(s) ==
    /\ pc[s] = "rollLedger"
    /\ Log(s, "rollover", MonthlyRemaining(seen[s].row), AvailableFrom(RowAfterRoll(s)))
    /\ Goto(s, "rollGrant")
    /\ UNCHANGED <<sub, bal, task, seen, charged, counters>>

RollGrant(s) ==
    /\ pc[s] = "rollGrant"
    /\ Log(s, "grant", MonthlyCredits[seen[s].plan], AvailableFrom(RowAfterRoll(s)))
    /\ SeesRow(s, RowAfterRoll(s))
    /\ Goto(s, "act")
    /\ UNCHANGED <<sub, bal, task, charged, counters>>

(* Mutant of Sync: a new plan starts with nothing used. *)
SyncResetsUse(s) ==
    /\ pc[s] = "sync"
    /\ bal' = [bal EXCEPT !.monthlyAllowance = MonthlyCredits[seen[s].plan],
                          !.monthlyUsed = 0]
    /\ SeesRow(s, [seen[s].row EXCEPT !.monthlyAllowance = MonthlyCredits[seen[s].plan],
                                      !.monthlyUsed = 0])
    /\ Goto(s, "act")
    /\ UNCHANGED <<sub, ledger, task, charged, counters>>

(* UPDATE of the allowance alone.  Nothing is logged. *)
Sync(s) ==
    /\ pc[s] = "sync"
    /\ bal' = [bal EXCEPT !.monthlyAllowance = MonthlyCredits[seen[s].plan]]
    /\ SeesRow(s, [seen[s].row EXCEPT !.monthlyAllowance = MonthlyCredits[seen[s].plan]])
    /\ Goto(s, "act")
    /\ UNCHANGED <<sub, ledger, task, charged, counters>>

-----------------------------------------------------------------------------
(* What the caller of getBalance does with the row it got.  All writes are *)
(* absolute: new column values computed from the row seen.                 *)

(* charge: too few credits, InsufficientCreditsError, the job is refused. *)
ChargeRefused(s) ==
    /\ pc[s] = "act" /\ task[s].kind = "charge"
    /\ AvailableFrom(seen[s].row) < task[s].amount
    /\ Goto(s, "idle")
    /\ UNCHANGED <<db, task, seen, charged, counters>>

Charge(s) ==
    LET new == ChargedRow(seen[s].row, task[s].amount)
    IN  /\ pc[s] = "act" /\ task[s].kind = "charge"
        /\ AvailableFrom(seen[s].row) >= task[s].amount
        /\ bal' = [bal EXCEPT !.monthlyUsed     = new.monthlyUsed,
                              !.rolloverCredits = new.rolloverCredits,
                              !.topupCredits    = new.topupCredits]
        /\ Goto(s, "actLedger")
        /\ UNCHANGED <<sub, ledger, task, seen, charged, counters>>

(* Mutant of ChargeLedger: the balance before the spend is logged. *)
ChargeLedgerBefore(s) ==
    /\ pc[s] = "actLedger" /\ task[s].kind = "charge"
    /\ Log(s, "spend", -task[s].amount, AvailableFrom(seen[s].row))
    /\ charged' = [charged EXCEPT ![s] = task[s].amount]
    /\ Goto(s, "working")
    /\ UNCHANGED <<sub, bal, task, seen, counters>>

(* chargeCredits returns charged = cost and the work starts. *)
ChargeLedger(s) ==
    /\ pc[s] = "actLedger" /\ task[s].kind = "charge"
    /\ Log(s, "spend", -task[s].amount, AvailableFrom(seen[s].row) - task[s].amount)
    /\ charged' = [charged EXCEPT ![s] = task[s].amount]
    /\ Goto(s, "working")
    /\ UNCHANGED <<sub, bal, task, seen, counters>>

WorkDone(s) ==
    /\ pc[s] = "working"
    /\ Goto(s, "idle")
    /\ UNCHANGED <<db, task, seen, charged, counters>>

(* Mutant of WorkFailed: the price is refunded even when the charge had    *)
(* failed and the work was let through for free.                           *)
WorkFailedRefundsPrice(s) ==
    /\ pc[s] = "working"
    /\ task' = [task EXCEPT ![s] = [kind |-> "refund", amount |-> task[s].amount]]
    /\ Goto(s, "getPlan")
    /\ UNCHANGED <<db, seen, charged, counters>>

(* The work failed: refund what was charged, nothing when nothing was. *)
WorkFailed(s) ==
    /\ pc[s] = "working"
    /\ IF charged[s] = 0
       THEN Goto(s, "idle") /\ UNCHANGED task
       ELSE /\ task' = [task EXCEPT ![s] = [kind |-> "refund", amount |-> charged[s]]]
            /\ Goto(s, "getPlan")
    /\ UNCHANGED <<db, seen, charged, counters>>

Refund(s) ==
    LET new == RefundedRow(seen[s].row, task[s].amount)
    IN  /\ pc[s] = "act" /\ task[s].kind = "refund"
        /\ bal' = [bal EXCEPT !.monthlyUsed  = new.monthlyUsed,
                              !.topupCredits = new.topupCredits]
        /\ paidIn' = paidIn + (new.topupCredits - seen[s].row.topupCredits)
        /\ Goto(s, "actLedger")
        /\ UNCHANGED <<sub, ledger, task, seen, charged, clocks>>

AddTopup(s) ==
    /\ pc[s] = "act" /\ task[s].kind = "topup"
    /\ bal' = [bal EXCEPT !.topupCredits =
                   ToppedUpRow(seen[s].row, task[s].amount).topupCredits]
    /\ paidIn' = paidIn + task[s].amount
    /\ Goto(s, "actLedger")
    /\ UNCHANGED <<sub, ledger, task, seen, charged, clocks>>

(* refund and addTopup log the available credits they saw plus the amount. *)
CreditLedger(s) ==
    /\ pc[s] = "actLedger" /\ task[s].kind \in {"refund", "topup"}
    /\ Log(s, task[s].kind, task[s].amount, AvailableFrom(seen[s].row) + task[s].amount)
    /\ Goto(s, "idle")
    /\ UNCHANGED <<sub, bal, task, seen, charged, counters>>

(* applyPlanChangeToBalance.  getBalance has normally synchronised the     *)
(* allowance already; it has not when the new subscription is unpaid.      *)
PlanUnchanged(s) ==
    /\ pc[s] = "act" /\ task[s].kind = "setPlan"
    /\ seen[s].row.monthlyAllowance = MonthlyCredits[task[s].plan]
    /\ Goto(s, "idle")
    /\ UNCHANGED <<db, task, seen, charged, counters>>

ApplyPlanChange(s) ==
    /\ pc[s] = "act" /\ task[s].kind = "setPlan"
    /\ seen[s].row.monthlyAllowance # MonthlyCredits[task[s].plan]
    /\ bal' = [bal EXCEPT !.monthlyAllowance = MonthlyCredits[task[s].plan]]
    /\ Goto(s, "actLedger")
    /\ UNCHANGED <<sub, ledger, task, seen, charged, counters>>

PlanLedger(s) ==
    LET delta == MonthlyCredits[task[s].plan] - seen[s].row.monthlyAllowance
        new == [seen[s].row EXCEPT !.monthlyAllowance = MonthlyCredits[task[s].plan]]
    IN  /\ pc[s] = "actLedger" /\ task[s].kind = "setPlan"
        /\ Log(s, IF delta > 0 THEN "grant" ELSE "expire", delta, AvailableFrom(new))
        /\ Goto(s, "idle")
        /\ UNCHANGED <<sub, bal, task, seen, charged, counters>>

(* getSummary and canAfford only look. *)
View(s) ==
    /\ pc[s] = "act" /\ task[s].kind = "view"
    /\ Goto(s, "idle")
    /\ UNCHANGED <<db, task, seen, charged, counters>>

-----------------------------------------------------------------------------
(* The environment.                                                        *)

(* A query throws and the call ends where it is.  chargeCredits then lets  *)
(* the work start without a charge; refundCredits and the others give up.  *)
QueryFails(s) ==
    /\ pc[s] \in Queries
    /\ failures < MaxFailures
    /\ failures' = failures + 1
    /\ Goto(s, IF task[s].kind = "charge" THEN "working" ELSE "idle")
    /\ UNCHANGED <<month, paidIn, db, task, seen, charged, started>>

NextMonth ==
    /\ month < MaxMonth
    /\ month' = month + 1
    /\ UNCHANGED <<paidIn, db, pc, task, seen, charged, started, failures>>

GetBalance(s) ==
    \/ GetPlan(s) \/ Select(s) \/ Insert(s) \/ InsertLedger(s) \/ Reselect(s)
    \/ Roll(s) \/ RollLedger(s) \/ RollGrant(s) \/ Sync(s)

Act(s) ==
    \/ ChargeRefused(s) \/ Charge(s) \/ ChargeLedger(s)
    \/ WorkDone(s) \/ WorkFailed(s)
    \/ Refund(s) \/ AddTopup(s) \/ CreditLedger(s)
    \/ PlanUnchanged(s) \/ ApplyPlanChange(s) \/ PlanLedger(s)
    \/ View(s)

Step(s) == SubRead(s) \/ SubWrite(s) \/ GetBalance(s) \/ Act(s)

Next ==
    \/ \E s \in Sessions : Begin(s) \/ Step(s) \/ QueryFails(s)
    \/ NextMonth

(* A query always returns or throws, and work always ends: each session    *)
(* keeps going once it has begun.                                          *)
Fairness == \A s \in Sessions : WF_vars(Step(s))

Spec == Init /\ [][Next]_vars /\ Fairness

-----------------------------------------------------------------------------
(* Properties.                                                             *)

Running == [kind : {"refund"}, amount : Nat \ {0}] \cup Task

(* Every row and every copy of it a request holds has its type; in         *)
(* particular no interleaving of absolute writes drives a bucket of        *)
(* credit_balances below zero.                                             *)
TypeOK ==
    /\ month \in Nat
    /\ sub \in [plan : Plans, status : Statuses]
    /\ bal \in Row \cup {NoRow}
    /\ ledger \in Seq(Entry)
    /\ pc \in [Sessions -> Pcs]
    /\ task \in [Sessions -> Running]
    /\ seen \in [Sessions -> [plan : Plans, at : Nat, row : Row]]
    /\ charged \in [Sessions -> Nat]
    /\ paidIn \in Nat
    /\ started \in Nat
    /\ failures \in Nat

Quiet == \A s \in Sessions : pc[s] = "idle"

HasRow == bal # NoRow

(* What the requests rely on from one query to the next: a request past    *)
(* its SELECT has a row to write, and only setPlan reads the subscription  *)
(* for the previous plan.                                                  *)
RowExpected == {"insertLedger", "reselect", "roll", "rollLedger", "rollGrant",
                "expire", "sync", "act", "actLedger"}

QueriesInOrder ==
    \A s \in Sessions :
        /\ pc[s] \in RowExpected => HasRow
        /\ pc[s] \in {"subRead", "subWrite"} => task[s].kind = "setPlan"

(* Rollover outlives the period it is stored with. *)
ExpiryAfterPeriod(row) ==
    row.rolloverExpires = NoExpiry \/ row.rolloverExpires >= row.periodEnd

(* The inductive invariant: the same facts hold of the row in the table    *)
(* and of every copy a request may still write back.                       *)
BillingInv ==
    /\ TypeOK
    /\ QueriesInOrder
    /\ HasRow => bal.topupCredits <= paidIn /\ ExpiryAfterPeriod(bal)
    /\ \A s \in Sessions : /\ seen[s].row.topupCredits <= paidIn
                           /\ ExpiryAfterPeriod(seen[s].row)
                           /\ pc[s] # "expire"

(* The bought bucket never holds more than was ever bought or returned     *)
(* into it: racing absolute writes of charge, refund and addTopup may lose *)
(* credits but never bring bought credits into being.                      *)
BoughtCreditsBacked == HasRow => bal.topupCredits <= paidIn

(* The ledger rows of a session that take credits for a job or return them. *)
JobRow(i, s) == ledger[i].by = s /\ ledger[i].kind \in {"spend", "refund"}

(* Row j took amount, and up to row n the session neither spent again nor  *)
(* got a refund.                                                           *)
TookLast(j, s, amount, n) ==
    /\ JobRow(j, s) /\ ledger[j].kind = "spend" /\ ledger[j].amount = -amount
    /\ \A k \in j + 1 .. n : ~JobRow(k, s)

(* Across failed queries and racing requests, a refund row returns what    *)
(* the last charge of its session took, and returns it once: what          *)
(* chargeCredits let through for free is not refunded.                     *)
RefundWithinCharge ==
    \A i \in DOMAIN ledger : ledger[i].kind = "refund" =>
        \E j \in 1 .. i - 1 : TookLast(j, ledger[i].by, ledger[i].amount, i - 1)

(* The balance_after of the newest ledger row is what the user really has, *)
(* whenever no request is under way.                                       *)
LedgerTracksBalance ==
    Quiet /\ ledger # << >>
        => HasRow /\ ledger[Len(ledger)].after = AvailableFrom(bal)

LogsBalance ==
    LET new == ledger'[Len(ledger')]
        row == seen[new.by].row
    IN  /\ ledger' # ledger
        /\ \/ new.kind \in {"spend", "topup"}
           \/ new.kind = "refund" /\ row.monthlyUsed <= row.monthlyAllowance
        => HasRow /\ new.after = AvailableFrom(bal)

(* A charge, a top-up or a refund that runs alone leaves a ledger row with *)
(* the available credits the balance really has, across the end of a       *)
(* period and plan changes before it.  Excepted is a refund to a row with  *)
(* more use than allowance, which logs credits that do not become          *)
(* available.                                                              *)
ChangesLogged == [][LogsBalance]_vars

(* getBalance never hands out a row whose period is over or whose rollover *)
(* has expired at the time it looked at the clock.                         *)
CurrentPeriodOffered ==
    \A s \in Sessions : pc[s] = "act" =>
        /\ seen[s].row.periodEnd > seen[s].at
        /\ seen[s].row.rolloverCredits > 0
             => ~RolloverExpired(seen[s].row, seen[s].at)

(* The branch of getBalance that clears expired rollover inside a running  *)
(* period is dead code under every interleaving: an expiry date is never   *)
(* earlier than the end of the period stored with it.                      *)
ExpireBranchDead == \A s \in Sessions : pc[s] # "expire"

SpendsBoughtLast ==
    HasRow /\ bal'.topupCredits < bal.topupCredits
      => MonthlyRemaining(bal') = 0 /\ bal'.rolloverCredits = 0

(* Bought credits go last: a step that lowers them leaves nothing in the   *)
(* month's allowance and nothing in the rollover.                          *)
BoughtSpentLast == [][SpendsBoughtLast]_vars

SwitchMintsNothing ==
    \A s \in Sessions :
        /\ HasRow /\ pc[s] # "idle" /\ task[s].kind = "setPlan"
        /\ bal'.periodEnd = bal.periodEnd
        => /\ bal'.monthlyUsed >= bal.monthlyUsed
           /\ bal'.rolloverCredits <= bal.rolloverCredits
           /\ bal'.topupCredits <= bal.topupCredits

(* Switching plans back and forth produces no credits: setPlan forgets no  *)
(* use of the current period and adds to neither of the other buckets.     *)
PlanSwitchMintsNothing == [][SwitchMintsNothing]_vars

(* Rollover is valid for RolloverMonths: it is never more than what was    *)
(* carried over within that many months.                                   *)
RolloverIsRecent ==
    LET Amount(i) == ledger[i].amount
        recent == {i \in DOMAIN ledger : /\ ledger[i].kind = "rollover"
                                         /\ month < ledger[i].at
                                              + RolloverMonths[sub.plan]}
    IN  Quiet /\ HasRow /\ bal.periodEnd > month
          => bal.rolloverCredits <= MapThenSumSet(Amount, recent)

(* An unpaid or canceled subscription gives no more than the default       *)
(* plan's monthly allowance.                                               *)
UnpaidGivesDefault ==
    Quiet /\ HasRow /\ sub.status \in {"canceled", "incomplete"}
      => bal.monthlyAllowance <= MonthlyCredits[DefaultPlan]

(* Every request that has begun is answered. *)
RequestsFinish == \A s \in Sessions : pc[s] # "idle" ~> pc[s] = "idle"

=============================================================================
