---------------------------- MODULE BillingProofs ----------------------------
(***************************************************************************)
(* Theorems about BillingService for every set of sessions, tasks and      *)
(* plans.  The first part is about the arithmetic of CreditRow; the second *)
(* finds an inductive invariant for the interleaved requests; the last     *)
(* part is about requests that run one at a time.                          *)
(***************************************************************************)
EXTENDS MCBillingWorlds, TLAPS

-----------------------------------------------------------------------------
(* The arithmetic of a row.                                                *)

LEMMA RemainingType ==
    ASSUME NEW row \in Row
    PROVE  MonthlyRemaining(row) \in Nat /\ AvailableFrom(row) \in Nat
  BY DEF Row, MonthlyRemaining, AvailableFrom, AtLeast0

(* allocateSpend splits the cost without losing or inventing a credit, and *)
(* takes from no bucket more than it holds.                                *)
THEOREM AllocateSpendSplits ==
    ASSUME NEW row \in Row, NEW cost \in Nat
    PROVE  LET a == AllocateSpend(row, cost)
           IN  /\ a.fromMonthly \in 0 .. MonthlyRemaining(row)
               /\ a.fromRollover \in 0 .. row.rolloverCredits
               /\ a.fromTopup \in 0 .. row.topupCredits
               /\ a.shortfall \in Nat
               /\ a.fromMonthly + a.fromRollover + a.fromTopup + a.shortfall = cost
  BY RemainingType DEF Row, AllocateSpend, AtLeast0, Least

(* allocateSpend goes through the buckets in the documented order: a later *)
(* bucket is touched only when every earlier one is used up, and something *)
(* is left uncovered only when all three are.                              *)
THEOREM AllocateSpendOrder ==
    ASSUME NEW row \in Row, NEW cost \in Nat
    PROVE  LET a == AllocateSpend(row, cost)
           IN  /\ a.fromRollover + a.fromTopup > 0
                    => a.fromMonthly = MonthlyRemaining(row)
               /\ a.fromTopup > 0 => a.fromRollover = row.rolloverCredits
               /\ a.shortfall > 0 <=> AvailableFrom(row) < cost
  BY RemainingType DEF Row, AllocateSpend, AtLeast0, Least, AvailableFrom

LEMMA ChargedRowType ==
    ASSUME NEW row \in Row, NEW cost \in Nat
    PROVE  LET a == AllocateSpend(row, cost)
               new == ChargedRow(row, cost)
           IN  /\ new \in Row
               /\ new.monthlyAllowance = row.monthlyAllowance
               /\ new.monthlyUsed = row.monthlyUsed + a.fromMonthly
               /\ new.rolloverCredits = row.rolloverCredits - a.fromRollover
               /\ new.topupCredits = row.topupCredits - a.fromTopup
               /\ new.topupCredits <= row.topupCredits
               /\ new.rolloverExpires = row.rolloverExpires
               /\ new.periodEnd = row.periodEnd
<1> DEFINE a        == AllocateSpend(row, cost)
           used     == row.monthlyUsed + a.fromMonthly
           rollover == row.rolloverCredits - a.fromRollover
           topup    == row.topupCredits - a.fromTopup
<1>1. used \in Nat /\ rollover \in Nat /\ topup \in Nat /\ topup <= row.topupCredits
  BY AllocateSpendSplits, RemainingType DEF Row
<1>2. ChargedRow(row, cost) =
         [row EXCEPT !.monthlyUsed     = used,
                     !.rolloverCredits = rollover,
                     !.topupCredits    = topup]
  BY DEF ChargedRow
<1> HIDE DEF used, rollover, topup
<1>3. /\ ChargedRow(row, cost) \in Row
      /\ ChargedRow(row, cost).monthlyAllowance = row.monthlyAllowance
      /\ ChargedRow(row, cost).monthlyUsed = used
      /\ ChargedRow(row, cost).rolloverCredits = rollover
      /\ ChargedRow(row, cost).topupCredits = topup
      /\ ChargedRow(row, cost).rolloverExpires = row.rolloverExpires
      /\ ChargedRow(row, cost).periodEnd = row.periodEnd
  BY <1>1, <1>2 DEF Row
<1> QED
  BY <1>1, <1>3 DEF used, rollover, topup

(* A charge the balance covers lowers what is available by exactly its     *)
(* cost: the balance_after that charge logs, available - cost, is true of  *)
(* the row it computed.                                                    *)
THEOREM ChargeTakesCost ==
    ASSUME NEW row \in Row, NEW cost \in Nat, AvailableFrom(row) >= cost
    PROVE  /\ ChargedRow(row, cost) \in Row
           /\ AvailableFrom(ChargedRow(row, cost)) = AvailableFrom(row) - cost
<1> DEFINE a == AllocateSpend(row, cost)
           new == ChargedRow(row, cost)
<1>1. /\ a.fromMonthly \in 0 .. MonthlyRemaining(row)
      /\ a.fromRollover \in 0 .. row.rolloverCredits
      /\ a.fromTopup \in 0 .. row.topupCredits
      /\ a.shortfall \in Nat
      /\ a.fromMonthly + a.fromRollover + a.fromTopup + a.shortfall = cost
  BY AllocateSpendSplits
<1>2. a.shortfall = 0
  BY <1>1, AllocateSpendOrder, RemainingType
<1>4. /\ new \in Row
      /\ new.monthlyAllowance = row.monthlyAllowance
      /\ new.monthlyUsed = row.monthlyUsed + a.fromMonthly
      /\ new.rolloverCredits = row.rolloverCredits - a.fromRollover
      /\ new.topupCredits = row.topupCredits - a.fromTopup
  BY ChargedRowType
<1> HIDE DEF a, new
<1>5. MonthlyRemaining(new) = MonthlyRemaining(row) - a.fromMonthly
  BY <1>1, <1>4 DEF Row, MonthlyRemaining, AtLeast0
<1>6. AvailableFrom(new) = AvailableFrom(row) - cost
  BY <1>1, <1>2, <1>4, <1>5, RemainingType DEF AvailableFrom, Row
<1> QED
  BY <1>4, <1>6 DEF new

(* A refund gives back exactly its amount as long as the month's use is    *)
(* within the allowance.  Without that, as after a downgrade, part of the  *)
(* refund goes into the overdrawn month and cannot be spent.               *)
THEOREM RefundGivesAmount ==
    ASSUME NEW row \in Row, NEW amount \in Nat,
           row.monthlyUsed <= row.monthlyAllowance
    PROVE  AvailableFrom(RefundedRow(row, amount)) = AvailableFrom(row) + amount
  BY DEF Row, RefundedRow, AtLeast0, Least, AvailableFrom, MonthlyRemaining

LEMMA RefundedRowType ==
    ASSUME NEW row \in Row, NEW amount \in Nat
    PROVE  LET new == RefundedRow(row, amount)
           IN  /\ new \in Row
               /\ new.topupCredits >= row.topupCredits
               /\ new.rolloverExpires = row.rolloverExpires
               /\ new.periodEnd = row.periodEnd
<1> DEFINE toMonthly == Least(row.monthlyUsed, amount)
           used      == row.monthlyUsed - toMonthly
           topup     == row.topupCredits + (amount - toMonthly)
<1>1. used \in Nat /\ topup \in Nat /\ topup >= row.topupCredits
  BY DEF Row, Least
<1>2. RefundedRow(row, amount) =
         [row EXCEPT !.monthlyUsed = used, !.topupCredits = topup]
  BY DEF RefundedRow
<1> HIDE DEF used, topup
<1> QED
  BY <1>1, <1>2 DEF Row

LEMMA NewRowType ==
    ASSUME NEW plan \in Plans, NEW at \in Nat
    PROVE  /\ NewRow(plan, at) \in Row
           /\ NewRow(plan, at).topupCredits = 0
           /\ NewRow(plan, at).rolloverExpires = NoExpiry
  BY PlanAssumption DEF Row, NewRow

LEMMA RolledRowType ==
    ASSUME NEW row \in Row, NEW plan \in Plans, NEW at \in Nat
    PROVE  LET new == RolledRow(row, plan, at)
           IN  /\ new \in Row
               /\ new.topupCredits = row.topupCredits
               /\ \/ new.rolloverExpires = NoExpiry
                  \/ new.rolloverExpires >= new.periodEnd
<1> DEFINE allowance == MonthlyCredits[plan]
           kept      == IF RolloverExpired(row, at) THEN 0 ELSE row.rolloverCredits
           rollover  == IF RolloverEnabled(plan) THEN kept + MonthlyRemaining(row) ELSE 0
           expires   == IF RolloverEnabled(plan) THEN at + RolloverMonths[plan]
                        ELSE NoExpiry
           end       == at + 1
<1>1. /\ allowance \in Nat /\ rollover \in Nat
      /\ expires \in Nat \cup {NoExpiry}
      /\ expires = NoExpiry \/ expires >= end
      /\ end \in Nat
  BY PlanAssumption, RemainingType DEF Row, RolloverEnabled
<1>2. RolledRow(row, plan, at) =
         [row EXCEPT !.monthlyAllowance = allowance, !.monthlyUsed = 0,
                     !.rolloverCredits = rollover, !.rolloverExpires = expires,
                     !.periodEnd = end]
  BY DEF RolledRow
<1> HIDE DEF allowance, rollover, expires, end
<1>3. RolledRow(row, plan, at) =
         [monthlyAllowance |-> allowance, monthlyUsed |-> 0,
          rolloverCredits |-> rollover, rolloverExpires |-> expires,
          topupCredits |-> row.topupCredits, periodEnd |-> end]
  BY <1>2 DEF Row
<1>4. row.topupCredits \in Nat
  BY DEF Row
<1>5. RolledRow(row, plan, at) \in Row
  BY <1>1, <1>3, <1>4 DEF Row
<1>6. /\ RolledRow(row, plan, at).topupCredits = row.topupCredits
      /\ RolledRow(row, plan, at).rolloverExpires = expires
      /\ RolledRow(row, plan, at).periodEnd = end
  BY <1>3
<1> QED
  BY <1>1, <1>5, <1>6

-----------------------------------------------------------------------------
(* The inductive invariant.                                                *)

LEMMA TaskFields ==
    ASSUME NEW t \in Running
    PROVE  /\ t.kind \in {"charge", "topup", "refund"} => t.amount \in Nat \ {0}
           /\ t.kind = "setPlan" => t.plan \in Plans /\ t.status \in Statuses
  BY DEF Running, Task

LEMMA InitInv == Init => BillingInv
  BY PlanAssumption, BillingAssumption, NewRowType
     DEF Init, BillingInv, TypeOK, QueriesInOrder, HasRow, RowExpected, Pcs,
         Queries, Statuses, Running, Task, ExpiryAfterPeriod

(* A copy of the row that a request may hold, or the row itself. *)
GoodCopy(row, paid) ==
    row \in Row /\ row.topupCredits <= paid /\ ExpiryAfterPeriod(row)

LEMMA CopiesGood ==
    ASSUME BillingInv, NEW s \in Sessions
    PROVE  /\ GoodCopy(seen[s].row, paidIn)
           /\ seen[s].plan \in Plans /\ seen[s].at \in Nat
           /\ HasRow => GoodCopy(bal, paidIn)
           /\ paidIn \in Nat /\ month \in Nat
           /\ pc[s] \in RowExpected => HasRow
  BY DEF BillingInv, TypeOK, QueriesInOrder, HasRow, GoodCopy

LEMMA LogType ==
    ASSUME BillingInv, NEW s \in Sessions, NEW kind \in Kinds,
           NEW amount \in Int, NEW after \in Int, Log(s, kind, amount, after)
    PROVE  ledger' \in Seq(Entry)
<1> DEFINE e == [kind |-> kind, amount |-> amount, after |-> after,
                 at |-> month, by |-> s]
<1>1. e \in Entry
  BY DEF Entry, BillingInv, TypeOK
<1>2. ledger \in Seq(Entry) /\ ledger' = Append(ledger, e)
  BY DEF BillingInv, TypeOK, Log
<1> HIDE DEF e
<1> QED
  BY <1>1, <1>2

(* What a step of session s past its SELECT of the subscription has to     *)
(* establish: where it goes, the row it leaves, its own copy, the rest.    *)
Moves(s) ==
    \E q \in Pcs \ {"expire", "subRead", "subWrite"} :
        Goto(s, q) /\ (q \in RowExpected => bal' # NoRow)

RowGood == bal' = bal \/ GoodCopy(bal', paidIn')

SeenGood(s) ==
    /\ seen' \in [Sessions -> [plan : Plans, at : Nat, row : Row]]
    /\ GoodCopy(seen'[s].row, paidIn')
    /\ \A r \in Sessions \ {s} : seen'[r] = seen[r]

RestGood(s) ==
    /\ ledger' \in Seq(Entry)
    /\ task' \in [Sessions -> Running]
    /\ \A r \in Sessions \ {s} : task'[r] = task[r]
    /\ charged' \in [Sessions -> Nat]
    /\ paidIn' \in Nat /\ paidIn <= paidIn'
    /\ UNCHANGED <<month, sub, started, failures>>

LEMMA Combine ==
    ASSUME BillingInv, NEW s \in Sessions,
           Moves(s), RowGood, SeenGood(s), RestGood(s)
    PROVE  BillingInv'
<1>1. PICK q \in Pcs \ {"expire", "subRead", "subWrite"} :
         Goto(s, q) /\ (q \in RowExpected => bal' # NoRow)
  BY DEF Moves
<1>2. TypeOK'
  BY <1>1 DEF BillingInv, TypeOK, Goto, GoodCopy, RowGood, SeenGood, RestGood
<1>3. HasRow => HasRow'
  BY BillingAssumption DEF HasRow, GoodCopy, RowGood
<1>4. QueriesInOrder'
  BY <1>1, <1>3
     DEF BillingInv, TypeOK, QueriesInOrder, Goto, HasRow, RestGood
<1>5. HasRow' => bal'.topupCredits <= paidIn' /\ ExpiryAfterPeriod(bal')
  BY CopiesGood DEF GoodCopy, HasRow, Row, RowGood, RestGood
<1>6. ASSUME NEW r \in Sessions
      PROVE  /\ seen'[r].row.topupCredits <= paidIn'
             /\ ExpiryAfterPeriod(seen'[r].row)
             /\ pc'[r] # "expire"
  <2>1. CASE r = s
    BY <2>1, <1>1 DEF GoodCopy, Goto, BillingInv, TypeOK, SeenGood
  <2>2. CASE r # s
    <3>1. GoodCopy(seen[r].row, paidIn) /\ seen'[r] = seen[r] /\ pc'[r] = pc[r]
      BY <2>2, <1>1, CopiesGood DEF Goto, BillingInv, TypeOK, SeenGood
    <3>2. seen[r].row.topupCredits \in Nat /\ paidIn \in Nat
      BY <3>1, CopiesGood DEF GoodCopy, Row
    <3> QED
      BY <3>1, <3>2 DEF GoodCopy, BillingInv, RestGood
  <2> QED
    BY <2>1, <2>2
<1> QED
  BY <1>2, <1>4, <1>5, <1>6 DEF BillingInv, ExpiryAfterPeriod

(* The parts a step leaves alone are good already. *)
LEMMA Unchanged ==
    ASSUME BillingInv, NEW s \in Sessions
    PROVE  /\ UNCHANGED bal => RowGood
           /\ UNCHANGED <<seen, paidIn>> => SeenGood(s)
           /\ (UNCHANGED <<sub, task, charged, counters>> /\ ledger' \in Seq(Entry))
                => RestGood(s)
           /\ ledger \in Seq(Entry)
  BY CopiesGood DEF RowGood, SeenGood, RestGood, BillingInv, TypeOK, counters

LEMMA SeesGoodRow ==
    ASSUME BillingInv, NEW s \in Sessions, NEW row, GoodCopy(row, paidIn),
           SeesRow(s, row), paidIn' = paidIn
    PROVE  SeenGood(s)
  BY DEF SeenGood, SeesRow, GoodCopy, BillingInv, TypeOK

(* One lemma per query. *)

LEMMA GetPlanInv ==
    ASSUME BillingInv, NEW s \in Sessions, GetPlan(s) PROVE BillingInv'
<1>1. PlanOf(sub) \in Plans
  BY PlanAssumption DEF PlanOf, BillingInv, TypeOK
<1>2. SeenGood(s)
  <2>1. GoodCopy(seen[s].row, paidIn) /\ month \in Nat
    BY CopiesGood
  <2>2. seen' = [seen EXCEPT ![s].plan = PlanOf(sub), ![s].at = month]
        /\ paidIn' = paidIn
    BY DEF GetPlan, counters
  <2> QED
    BY <1>1, <2>1, <2>2 DEF SeenGood, BillingInv, TypeOK
<1>3. Moves(s)
  BY DEF GetPlan, Moves, Pcs, Queries, RowExpected
<1> QED
  BY <1>2, <1>3, Unchanged, Combine DEF GetPlan, db

LEMMA SelectInv ==
    ASSUME BillingInv, NEW s \in Sessions, Select(s) PROVE BillingInv'
<1> DEFINE q == AfterSelect(bal, seen[s].plan, seen[s].at)
<1>1. SeenGood(s)
  <2>1. CASE bal = NoRow
    BY <2>1, Unchanged DEF Select, counters
  <2>2. CASE bal # NoRow
    BY <2>2, CopiesGood, SeesGoodRow DEF Select, HasRow, counters
  <2> QED
    BY <2>1, <2>2
<1>2. q # "expire"
  <2>1. CASE bal = NoRow
    BY <2>1 DEF AfterSelect
  <2>2. CASE bal # NoRow
    <3>1. GoodCopy(bal, paidIn) /\ seen[s].at \in Nat
      BY <2>2, CopiesGood DEF HasRow
    <3>2. /\ bal.periodEnd \in Nat
          /\ bal.rolloverExpires = NoExpiry \/ bal.rolloverExpires >= bal.periodEnd
          /\ bal.rolloverExpires \in Int
      BY <3>1 DEF GoodCopy, Row, ExpiryAfterPeriod, NoExpiry
    <3>3. ~(bal.periodEnd <= seen[s].at) => ~RolloverExpired(bal, seen[s].at)
      BY <3>1, <3>2 DEF RolloverExpired
    <3> QED
      BY <3>3, <2>2 DEF AfterSelect
  <2> QED
    BY <2>1, <2>2
<1>3. q \in {"insert", "roll", "sync", "act"} /\ (q # "insert" => bal # NoRow)
  BY <1>2 DEF AfterSelect
<1>4. Goto(s, q) /\ UNCHANGED <<db, task, charged, counters>>
  BY DEF Select
<1> HIDE DEF q
<1>5. Moves(s)
  BY <1>3, <1>4 DEF Moves, Pcs, Queries, RowExpected, db
<1> QED
  BY <1>1, <1>4, <1>5, Unchanged, Combine DEF db

LEMMA InsertInv ==
    ASSUME BillingInv, NEW s \in Sessions, Insert(s) PROVE BillingInv'
<1>1. GoodCopy(NewRow(seen[s].plan, seen[s].at), paidIn)
  BY CopiesGood, NewRowType DEF GoodCopy, ExpiryAfterPeriod
<1>2. RowGood
  BY <1>1 DEF Insert, RowGood, counters
<1>3. bal' # NoRow
  BY <1>1, BillingAssumption DEF Insert, GoodCopy
<1>4. Moves(s)
  BY <1>3 DEF Insert, Moves, Pcs, Queries, RowExpected
<1> QED
  BY <1>2, <1>4, Unchanged, Combine DEF Insert, counters

LEMMA InsertLedgerInv ==
    ASSUME BillingInv, NEW s \in Sessions, InsertLedger(s) PROVE BillingInv'
<1>1. MonthlyCredits[seen[s].plan] \in Int
  BY PlanAssumption, CopiesGood
<1>2. ledger' \in Seq(Entry)
  BY <1>1, LogType DEF InsertLedger, Kinds
<1>3. Moves(s)
  BY CopiesGood DEF InsertLedger, Moves, Pcs, Queries, RowExpected, HasRow
<1> QED
  BY <1>2, <1>3, Unchanged, Combine DEF InsertLedger, counters

LEMMA ReselectInv ==
    ASSUME BillingInv, NEW s \in Sessions, Reselect(s) PROVE BillingInv'
<1>1. GoodCopy(bal, paidIn) /\ bal # NoRow
  BY CopiesGood DEF Reselect, RowExpected, HasRow
<1>2. SeenGood(s)
  BY <1>1, SeesGoodRow DEF Reselect, counters
<1>3. Moves(s)
  BY <1>1 DEF Reselect, Moves, Pcs, Queries, RowExpected, db
<1> QED
  BY <1>2, <1>3, Unchanged, Combine DEF Reselect, db

LEMMA RollInv ==
    ASSUME BillingInv, NEW s \in Sessions, Roll(s) PROVE BillingInv'
<1>1. PICK at \in seen[s].at .. month :
         /\ bal' = [RolledRow(seen[s].row, seen[s].plan, at)
                      EXCEPT !.topupCredits = bal.topupCredits]
         /\ seen' = [seen EXCEPT ![s].at = at]
  BY DEF Roll
<1>2. at \in Nat /\ paidIn' = paidIn
  BY CopiesGood DEF Roll, counters
<1>3. bal # NoRow /\ GoodCopy(bal, paidIn)
  BY CopiesGood DEF Roll, RowExpected, HasRow
<1>4. bal' \in Row /\ bal'.topupCredits = bal.topupCredits /\ ExpiryAfterPeriod(bal')
  <2> DEFINE new == RolledRow(seen[s].row, seen[s].plan, at)
  <2>1. new \in Row /\ ExpiryAfterPeriod(new)
    BY <1>2, CopiesGood, RolledRowType DEF GoodCopy, ExpiryAfterPeriod
  <2>2. bal' = [new EXCEPT !.topupCredits = bal.topupCredits]
    BY <1>1
  <2> HIDE DEF new
  <2>3. bal.topupCredits \in Nat
    BY <1>3 DEF GoodCopy, Row
  <2> QED
    BY <2>1, <2>2, <2>3 DEF Row, ExpiryAfterPeriod
<1>5. RowGood /\ bal' # NoRow
  BY <1>2, <1>3, <1>4, BillingAssumption DEF GoodCopy, RowGood
<1>6. SeenGood(s)
  BY <1>1, <1>2, CopiesGood DEF SeenGood, BillingInv, TypeOK
<1>7. Moves(s)
  BY <1>5 DEF Roll, Moves, Pcs, Queries, RowExpected
<1> QED
  BY <1>5, <1>6, <1>7, Unchanged, Combine DEF Roll, counters

LEMMA RowAfterRollGood ==
    ASSUME BillingInv, NEW s \in Sessions
    PROVE  /\ GoodCopy(RowAfterRoll(s), paidIn)
           /\ AvailableFrom(RowAfterRoll(s)) \in Int
           /\ MonthlyRemaining(seen[s].row) \in Int
<1> DEFINE new == RowAfterRoll(s)
<1>1. GoodCopy(seen[s].row, paidIn) /\ seen[s].plan \in Plans /\ seen[s].at \in Nat
  BY CopiesGood
<1>2. /\ new \in Row
      /\ new.topupCredits = seen[s].row.topupCredits
      /\ new.rolloverExpires = NoExpiry \/ new.rolloverExpires >= new.periodEnd
  BY <1>1, RolledRowType DEF RowAfterRoll, GoodCopy
<1> HIDE DEF new
<1>3. GoodCopy(new, paidIn)
  BY <1>1, <1>2 DEF GoodCopy, ExpiryAfterPeriod
<1>4. AvailableFrom(new) \in Int /\ MonthlyRemaining(seen[s].row) \in Int
  BY <1>1, <1>2, RemainingType DEF GoodCopy
<1> QED
  BY <1>3, <1>4 DEF new

LEMMA RollLedgerInv ==
    ASSUME BillingInv, NEW s \in Sessions, RollLedger(s) PROVE BillingInv'
<1>1. ledger' \in Seq(Entry)
  BY RowAfterRollGood, LogType DEF RollLedger, Kinds
<1>2. Moves(s)
  BY CopiesGood DEF RollLedger, Moves, Pcs, Queries, RowExpected, HasRow
<1> QED
  BY <1>1, <1>2, Unchanged, Combine DEF RollLedger, counters

LEMMA RollGrantInv ==
    ASSUME BillingInv, NEW s \in Sessions, RollGrant(s) PROVE BillingInv'
<1>1. MonthlyCredits[seen[s].plan] \in Int
  BY PlanAssumption, CopiesGood
<1>2. ledger' \in Seq(Entry)
  BY <1>1, RowAfterRollGood, LogType DEF RollGrant, Kinds
<1>3. SeenGood(s)
  BY RowAfterRollGood, SeesGoodRow DEF RollGrant, counters
<1>4. Moves(s)
  BY CopiesGood DEF RollGrant, Moves, Pcs, Queries, RowExpected, HasRow
<1> QED
  BY <1>2, <1>3, <1>4, Unchanged, Combine DEF RollGrant, counters

LEMMA SyncInv ==
    ASSUME BillingInv, NEW s \in Sessions, Sync(s) PROVE BillingInv'
<1> DEFINE allowance == MonthlyCredits[seen[s].plan]
<1>1. allowance \in Nat
  BY PlanAssumption, CopiesGood
<1>2. bal # NoRow /\ GoodCopy(bal, paidIn) /\ GoodCopy(seen[s].row, paidIn)
  BY CopiesGood DEF Sync, RowExpected, HasRow
<1>3. /\ bal' = [bal EXCEPT !.monthlyAllowance = allowance]
      /\ SeesRow(s, [seen[s].row EXCEPT !.monthlyAllowance = allowance])
      /\ paidIn' = paidIn
  BY DEF Sync, counters
<1> HIDE DEF allowance
<1>4. GoodCopy(bal', paidIn) /\ bal' # NoRow
  BY <1>1, <1>2, <1>3, BillingAssumption DEF GoodCopy, Row, ExpiryAfterPeriod
<1>5. GoodCopy([seen[s].row EXCEPT !.monthlyAllowance = allowance], paidIn)
  BY <1>1, <1>2 DEF GoodCopy, Row, ExpiryAfterPeriod
<1>6. SeenGood(s)
  BY <1>3, <1>5, SeesGoodRow
<1>7. Moves(s)
  BY <1>4 DEF Sync, Moves, Pcs, Queries, RowExpected
<1>8. RowGood
  BY <1>3, <1>4 DEF RowGood
<1> QED
  BY <1>6, <1>7, <1>8, Unchanged, Combine DEF Sync, counters

(* The kind of a task says which of the other fields it has. *)
LEMMA TaskKinds ==
    ASSUME BillingInv, NEW s \in Sessions
    PROVE  /\ task[s] \in Running
           /\ task[s].kind \in {"charge", "topup", "refund"}
                => task[s].amount \in Nat \ {0}
           /\ task[s].kind = "setPlan"
                => task[s].plan \in Plans /\ task[s].status \in Statuses
  BY TaskFields DEF BillingInv, TypeOK

LEMMA ChargeInv ==
    ASSUME BillingInv, NEW s \in Sessions, Charge(s) PROVE BillingInv'
<1> DEFINE new == ChargedRow(seen[s].row, task[s].amount)
<1>1. bal # NoRow /\ GoodCopy(bal, paidIn) /\ GoodCopy(seen[s].row, paidIn)
  BY CopiesGood DEF Charge, RowExpected, HasRow
<1>2. new \in Row /\ new.topupCredits <= seen[s].row.topupCredits
  BY <1>1, TaskKinds, ChargedRowType DEF Charge, GoodCopy
<1>3. /\ bal' = [bal EXCEPT !.monthlyUsed     = new.monthlyUsed,
                            !.rolloverCredits = new.rolloverCredits,
                            !.topupCredits    = new.topupCredits]
      /\ paidIn' = paidIn
  BY DEF Charge, counters
<1> HIDE DEF new
<1>4. new.topupCredits <= paidIn
  BY <1>1, <1>2, CopiesGood DEF GoodCopy, Row
<1>5. GoodCopy(bal', paidIn) /\ bal' # NoRow
  BY <1>1, <1>2, <1>3, <1>4, BillingAssumption DEF GoodCopy, Row, ExpiryAfterPeriod
<1>6. Moves(s)
  BY <1>5 DEF Charge, Moves, Pcs, Queries, RowExpected
<1>7. RowGood
  BY <1>3, <1>5 DEF RowGood
<1> QED
  BY <1>6, <1>7, Unchanged, Combine DEF Charge, counters

LEMMA ChargeLedgerInv ==
    ASSUME BillingInv, NEW s \in Sessions, ChargeLedger(s) PROVE BillingInv'
<1>1. task[s].amount \in Nat /\ AvailableFrom(seen[s].row) \in Nat
  BY TaskKinds, CopiesGood, RemainingType DEF ChargeLedger, GoodCopy
<1>2. ledger' \in Seq(Entry)
  <2>1. -task[s].amount \in Int /\ AvailableFrom(seen[s].row) - task[s].amount \in Int
    BY <1>1
  <2> QED
    BY <2>1, LogType DEF ChargeLedger, Kinds
<1>3. RestGood(s)
  BY <1>1, <1>2, CopiesGood DEF ChargeLedger, RestGood, counters, BillingInv, TypeOK
<1>4. Moves(s)
  BY DEF ChargeLedger, Moves, Pcs, RowExpected
<1> QED
  BY <1>3, <1>4, Unchanged, Combine DEF ChargeLedger, counters

LEMMA WorkFailedInv ==
    ASSUME BillingInv, NEW s \in Sessions, WorkFailed(s) PROVE BillingInv'
<1>1. Moves(s)
  BY DEF WorkFailed, Moves, Pcs, Queries, RowExpected
<1>2. task' \in [Sessions -> Running] /\ \A r \in Sessions \ {s} : task'[r] = task[r]
  <2>1. CASE charged[s] = 0
    BY <2>1 DEF WorkFailed, BillingInv, TypeOK
  <2>2. CASE charged[s] # 0
    <3>1. [kind |-> "refund", amount |-> charged[s]] \in Running
      BY <2>2 DEF Running, BillingInv, TypeOK
    <3>2. task' = [task EXCEPT ![s] = [kind |-> "refund", amount |-> charged[s]]]
      BY <2>2 DEF WorkFailed
    <3> QED
      BY <3>1, <3>2, TaskKinds DEF BillingInv, TypeOK
  <2> QED
    BY <2>1, <2>2
<1>3. RestGood(s)
  BY <1>2, CopiesGood DEF WorkFailed, RestGood, db, counters, BillingInv, TypeOK
<1> QED
  BY <1>1, <1>3, Unchanged, Combine DEF WorkFailed, db, counters

LEMMA RefundInv ==
    ASSUME BillingInv, NEW s \in Sessions, Refund(s) PROVE BillingInv'
<1> DEFINE new == RefundedRow(seen[s].row, task[s].amount)
           paid == paidIn + (new.topupCredits - seen[s].row.topupCredits)
<1>1. bal # NoRow /\ GoodCopy(bal, paidIn) /\ GoodCopy(seen[s].row, paidIn)
  BY CopiesGood DEF Refund, RowExpected, HasRow
<1>2. new \in Row /\ new.topupCredits >= seen[s].row.topupCredits
  BY <1>1, TaskKinds, RefundedRowType DEF Refund, GoodCopy
<1>3. /\ bal' = [bal EXCEPT !.monthlyUsed  = new.monthlyUsed,
                            !.topupCredits = new.topupCredits]
      /\ paidIn' = paid
  BY DEF Refund
<1> HIDE DEF new
<1>4. paid \in Nat /\ paidIn <= paid /\ new.topupCredits <= paid
  BY <1>1, <1>2, CopiesGood DEF GoodCopy, Row
<1>5. GoodCopy(bal', paidIn') /\ bal' # NoRow
  BY <1>1, <1>2, <1>3, <1>4, BillingAssumption DEF GoodCopy, Row, ExpiryAfterPeriod
<1>6. SeenGood(s)
  <2>1. GoodCopy(seen[s].row, paidIn')
    BY <1>1, <1>3, <1>4, CopiesGood DEF GoodCopy, Row
  <2> QED
    BY <2>1 DEF Refund, SeenGood, BillingInv, TypeOK
<1>7. RestGood(s)
  BY <1>3, <1>4 DEF Refund, RestGood, clocks, BillingInv, TypeOK
<1>8. Moves(s)
  BY <1>5 DEF Refund, Moves, Pcs, Queries, RowExpected
<1> QED
  BY <1>5, <1>6, <1>7, <1>8, Combine DEF RowGood

LEMMA AddTopupInv ==
    ASSUME BillingInv, NEW s \in Sessions, AddTopup(s) PROVE BillingInv'
<1> DEFINE topup == seen[s].row.topupCredits + task[s].amount
<1>1. bal # NoRow /\ GoodCopy(bal, paidIn) /\ GoodCopy(seen[s].row, paidIn)
  BY CopiesGood DEF AddTopup, RowExpected, HasRow
<1>2. topup \in Nat /\ topup <= paidIn + task[s].amount /\ task[s].amount \in Nat
  BY <1>1, TaskKinds, CopiesGood DEF AddTopup, GoodCopy, Row
<1>3. bal' = [bal EXCEPT !.topupCredits = topup] /\ paidIn' = paidIn + task[s].amount
  <2>1. ToppedUpRow(seen[s].row, task[s].amount).topupCredits = topup
    BY <1>1 DEF ToppedUpRow, GoodCopy, Row
  <2> QED
    BY <2>1 DEF AddTopup
<1> HIDE DEF topup
<1>4. GoodCopy(bal', paidIn') /\ bal' # NoRow
  BY <1>1, <1>2, <1>3, BillingAssumption DEF GoodCopy, Row, ExpiryAfterPeriod
<1>5. SeenGood(s)
  <2>1. GoodCopy(seen[s].row, paidIn')
    BY <1>1, <1>2, <1>3, CopiesGood DEF GoodCopy, Row
  <2> QED
    BY <2>1 DEF AddTopup, SeenGood, BillingInv, TypeOK
<1>6. RestGood(s)
  BY <1>2, <1>3, CopiesGood DEF AddTopup, RestGood, clocks, BillingInv, TypeOK
<1>7. Moves(s)
  BY <1>4 DEF AddTopup, Moves, Pcs, Queries, RowExpected
<1> QED
  BY <1>4, <1>5, <1>6, <1>7, Combine DEF RowGood

LEMMA CreditLedgerInv ==
    ASSUME BillingInv, NEW s \in Sessions, CreditLedger(s) PROVE BillingInv'
<1>1. task[s].amount \in Nat /\ AvailableFrom(seen[s].row) \in Nat
  BY TaskKinds, CopiesGood, RemainingType DEF CreditLedger, GoodCopy
<1>2. ledger' \in Seq(Entry)
  <2>1. task[s].amount \in Int /\ AvailableFrom(seen[s].row) + task[s].amount \in Int
    BY <1>1
  <2> QED
    BY <2>1, LogType DEF CreditLedger, Kinds
<1>3. Moves(s)
  BY DEF CreditLedger, Moves, Pcs, RowExpected
<1> QED
  BY <1>2, <1>3, Unchanged, Combine DEF CreditLedger, counters

LEMMA ApplyPlanChangeInv ==
    ASSUME BillingInv, NEW s \in Sessions, ApplyPlanChange(s) PROVE BillingInv'
<1> DEFINE allowance == MonthlyCredits[task[s].plan]
<1>1. allowance \in Nat
  BY PlanAssumption, TaskKinds DEF ApplyPlanChange
<1>2. bal # NoRow /\ GoodCopy(bal, paidIn)
  BY CopiesGood DEF ApplyPlanChange, RowExpected, HasRow
<1>3. bal' = [bal EXCEPT !.monthlyAllowance = allowance] /\ paidIn' = paidIn
  BY DEF ApplyPlanChange, counters
<1> HIDE DEF allowance
<1>4. GoodCopy(bal', paidIn') /\ bal' # NoRow
  BY <1>1, <1>2, <1>3, BillingAssumption DEF GoodCopy, Row, ExpiryAfterPeriod
<1>5. Moves(s)
  BY <1>4 DEF ApplyPlanChange, Moves, Pcs, Queries, RowExpected
<1> QED
  BY <1>4, <1>5, Unchanged, Combine DEF ApplyPlanChange, RowGood, counters

LEMMA PlanLedgerInv ==
    ASSUME BillingInv, NEW s \in Sessions, PlanLedger(s) PROVE BillingInv'
<1> DEFINE allowance == MonthlyCredits[task[s].plan]
           row == seen[s].row
           new == [row EXCEPT !.monthlyAllowance = allowance]
<1>1. allowance \in Nat /\ row \in Row
  BY PlanAssumption, TaskKinds, CopiesGood DEF PlanLedger, GoodCopy
<1>2. AvailableFrom(new) \in Int /\ allowance - row.monthlyAllowance \in Int
  <2> HIDE DEF allowance, row
  <2>1. new \in Row
    BY <1>1 DEF Row
  <2>2. row.monthlyAllowance \in Nat
    BY <1>1 DEF Row
  <2> QED
    BY <1>1, <2>1, <2>2, RemainingType
<1>3. ledger' \in Seq(Entry)
  <2> DEFINE kind == IF allowance - row.monthlyAllowance > 0 THEN "grant" ELSE "expire"
  <2>1. kind \in Kinds
    BY DEF Kinds
  <2>2. Log(s, kind, allowance - row.monthlyAllowance, AvailableFrom(new))
    BY DEF PlanLedger
  <2> HIDE DEF kind, allowance, row, new
  <2> QED
    BY <1>2, <2>1, <2>2, LogType
<1>4. Moves(s)
  BY DEF PlanLedger, Moves, Pcs, RowExpected
<1> QED
  BY <1>3, <1>4, Unchanged, Combine DEF PlanLedger, counters

(* These only end the request. *)
LEMMA EndInv ==
    ASSUME BillingInv, NEW s \in Sessions,
           ChargeRefused(s) \/ WorkDone(s) \/ PlanUnchanged(s) \/ View(s)
    PROVE  BillingInv'
<1>1. Goto(s, "idle") /\ UNCHANGED <<db, task, seen, charged, counters>>
  BY DEF ChargeRefused, WorkDone, PlanUnchanged, View
<1>2. Moves(s)
  BY <1>1 DEF Moves, Pcs, RowExpected
<1> QED
  BY <1>1, <1>2, Unchanged, Combine DEF db, counters

(* The steps of the service without the bounds of a configuration. *)
Begins(s) ==
    /\ pc[s] = "idle"
    /\ \E t \in Task :
          /\ task' = [task EXCEPT ![s] = t]
          /\ Goto(s, IF t.kind = "setPlan" THEN "subRead" ELSE "getPlan")
    /\ started' = started + 1
    /\ charged' = [charged EXCEPT ![s] = 0]
    /\ UNCHANGED <<month, paidIn, db, seen, failures>>

Fails(s) ==
    /\ pc[s] \in Queries
    /\ failures' = failures + 1
    /\ Goto(s, IF task[s].kind = "charge" THEN "working" ELSE "idle")
    /\ UNCHANGED <<month, paidIn, db, task, seen, charged, started>>

MonthEnds ==
    /\ month' = month + 1
    /\ UNCHANGED <<paidIn, db, pc, task, seen, charged, started, failures>>

Unbounded ==
    \/ \E s \in Sessions : Begins(s) \/ Step(s) \/ Fails(s)
    \/ MonthEnds

LEMMA NextIsUnbounded == Next => Unbounded
  BY BillingAssumption DEF Next, Unbounded, Begin, Begins, QueryFails, Fails, NextMonth, MonthEnds

LEMMA UnboundedInv == BillingInv /\ [Unbounded]_vars => BillingInv'
<1> SUFFICES ASSUME BillingInv, [Unbounded]_vars PROVE BillingInv'
  OBVIOUS
<1>1. CASE UNCHANGED vars
  BY <1>1 DEF vars, BillingInv, TypeOK, QueriesInOrder, HasRow, RowExpected,
         Pcs, Queries, Goto, db, counters, ExpiryAfterPeriod
<1>2. ASSUME NEW s \in Sessions, Begins(s) PROVE BillingInv'
  BY <1>2 DEF Begins, Running, BillingInv, TypeOK, QueriesInOrder, HasRow, RowExpected,
         Pcs, Queries, Goto, db, counters
<1>3. ASSUME NEW s \in Sessions, SubRead(s) PROVE BillingInv'
  BY <1>3 DEF SubRead, BillingInv, TypeOK, QueriesInOrder, HasRow, RowExpected,
         Pcs, Queries, Goto, db, counters
<1>4. ASSUME NEW s \in Sessions, SubWrite(s) PROVE BillingInv'
  BY <1>4, TaskFields DEF SubWrite, BillingInv, TypeOK, QueriesInOrder, HasRow, RowExpected,
         Pcs, Queries, Goto, db, counters
<1>5. ASSUME NEW s \in Sessions, GetBalance(s) PROVE BillingInv'
  BY <1>5, GetPlanInv, SelectInv, InsertInv, InsertLedgerInv, ReselectInv,
     RollInv, RollLedgerInv, RollGrantInv, SyncInv DEF GetBalance
<1>6. ASSUME NEW s \in Sessions, Act(s) PROVE BillingInv'
  BY <1>6, EndInv, ChargeInv, ChargeLedgerInv, WorkFailedInv, RefundInv,
     AddTopupInv, CreditLedgerInv, ApplyPlanChangeInv, PlanLedgerInv DEF Act
<1>7. ASSUME NEW s \in Sessions, Fails(s) PROVE BillingInv'
  BY <1>7 DEF Fails, BillingInv, TypeOK, QueriesInOrder, HasRow, RowExpected,
         Pcs, Queries, Goto, db, counters
<1>8. CASE MonthEnds
  BY <1>8 DEF MonthEnds, BillingInv, TypeOK, QueriesInOrder, HasRow, RowExpected,
         Pcs, Queries, Goto, db, counters
<1> QED
  BY <1>1, <1>2, <1>3, <1>4, <1>5, <1>6, <1>7, <1>8 DEF Unbounded, Step

LEMMA StepInv == BillingInv /\ [Next]_vars => BillingInv'
  BY NextIsUnbounded, UnboundedInv

(* In every run of the service, with any number of concurrent requests,    *)
(* any plans, failed queries and months going by, the balance row and      *)
(* every copy of it stay well formed: no bucket goes negative.             *)
THEOREM BillingTypeCorrect == Spec => []TypeOK
<1>1. BillingInv => TypeOK
  BY DEF BillingInv
<1> QED
  BY <1>1, InitInv, StepInv, PTL DEF Spec

(* Lost updates never create bought credits: the bought bucket stays       *)
(* within what addTopup and refund ever put into it.                       *)
THEOREM BoughtCreditsAreBacked == Spec => []BoughtCreditsBacked
<1>1. BillingInv => BoughtCreditsBacked
  BY DEF BillingInv, BoughtCreditsBacked
<1> QED
  BY <1>1, InitInv, StepInv, PTL DEF Spec

(* The expiry branch of getBalance is never entered. *)
THEOREM ExpireBranchIsDead == Spec => []ExpireBranchDead
<1>1. BillingInv => ExpireBranchDead
  BY DEF BillingInv, ExpireBranchDead
<1> QED
  BY <1>1, InitInv, StepInv, PTL DEF Spec

-----------------------------------------------------------------------------
(* Refunds.                                                                *)

Took(s, amount) == \E j \in 1 .. Len(ledger) : TookLast(j, s, amount, Len(ledger))

(* What a session that works for a charge, or is about to refund it, knows *)
(* of the ledger; a charge is reported only once it is logged.             *)
Accounted(s) ==
    /\ pc[s] = "working" /\ charged[s] # 0 => Took(s, charged[s])
    /\ pc[s] # "idle" /\ task[s].kind = "refund" => Took(s, task[s].amount)
    /\ pc[s] \notin {"idle", "working"} /\ task[s].kind = "charge" => charged[s] = 0

RefundAccounts == RefundWithinCharge /\ \A s \in Sessions : Accounted(s)

LEMMA RefundInit == Init => RefundAccounts
  BY DEF Init, RefundAccounts, RefundWithinCharge, Accounted

(* A new row of the ledger leaves the old ones. *)
LEMMA LogIs ==
    ASSUME BillingInv, NEW s \in Sessions, NEW kind, NEW amount, NEW after,
           Log(s, kind, amount, after)
    PROVE  /\ Len(ledger) \in Nat /\ Len(ledger') = Len(ledger) + 1
           /\ DOMAIN ledger' = 1 .. Len(ledger) + 1 /\ DOMAIN ledger = 1 .. Len(ledger)
           /\ \A i \in 1 .. Len(ledger) : ledger'[i] = ledger[i]
           /\ ledger'[Len(ledger) + 1].kind = kind
           /\ ledger'[Len(ledger) + 1].by = s
           /\ ledger'[Len(ledger) + 1].amount = amount
<1> DEFINE e == [kind |-> kind, amount |-> amount, after |-> after,
                 at |-> month, by |-> s]
<1>1. ledger \in Seq(Entry) /\ ledger' = Append(ledger, e)
  BY DEF BillingInv, TypeOK, Log
<1>2. e.kind = kind /\ e.by = s /\ e.amount = amount
  OBVIOUS
<1> HIDE DEF e
<1> QED
  BY <1>1, <1>2

(* What was known of the rows up to n stays known. *)
LEMMA TookLastKept ==
    ASSUME BillingInv, NEW n \in 0 .. Len(ledger), NEW r, NEW amount, NEW j \in 1 .. n,
           \A i \in 1 .. Len(ledger) : ledger'[i] = ledger[i]
    PROVE  TookLast(j, r, amount, n) <=> TookLast(j, r, amount, n)'
<1>1. Len(ledger) \in Nat
  BY DEF BillingInv, TypeOK
<1>2. \A k \in 1 .. n : JobRow(k, r) <=> JobRow(k, r)'
  BY <1>1 DEF JobRow
<1>3. j + 1 .. n \subseteq 1 .. n
  BY <1>1
<1> QED
  BY <1>1, <1>2, <1>3 DEF TookLast

(* Rows of other kinds, and of other sessions, change nothing. *)
LEMMA TookKept ==
    ASSUME BillingInv, NEW s \in Sessions, NEW kind, NEW amount, NEW after,
           Log(s, kind, amount, after), NEW r, NEW owed,
           r # s \/ kind \notin {"spend", "refund"}, Took(r, owed)
    PROVE  Took(r, owed)'
<1>0. PICK n \in Nat : n = Len(ledger)
  BY LogIs
<1>1. PICK j \in 1 .. n : TookLast(j, r, owed, n)
  BY <1>0 DEF Took
<1>2. n \in 0 .. n /\ Len(ledger') = n + 1
  BY <1>0, LogIs
<1>3. \A i \in 1 .. n : ledger'[i] = ledger[i]
  BY <1>0, LogIs
<1>4. TookLast(j, r, owed, n)'
  BY <1>0, <1>1, <1>2, <1>3, TookLastKept
<1>5. ~JobRow(n + 1, r)'
  <2>1. ledger'[n + 1].kind = kind /\ ledger'[n + 1].by = s
    BY <1>0, LogIs
  <2> QED
    BY <2>1 DEF JobRow
<1>6. ASSUME NEW k \in j + 1 .. n + 1 PROVE ~JobRow(k, r)'
  <2>2. k \in j + 1 .. n => ~JobRow(k, r)'
    <3>1. k \in j + 1 .. n => k \in 1 .. n
      BY <1>2
    <3>2. k \in j + 1 .. n => ~JobRow(k, r)
      BY <1>1 DEF TookLast
    <3> QED
      BY <1>3, <3>1, <3>2 DEF JobRow
  <2>3. k \in j + 1 .. n \/ k = n + 1
    BY <1>2
  <2> QED
    BY <1>5, <2>2, <2>3
<1>7. TookLast(j, r, owed, n + 1)'
  BY <1>4, <1>6 DEF TookLast
<1> QED
  BY <1>2, <1>7 DEF Took

LEMMA RefundsKept ==
    ASSUME BillingInv, RefundWithinCharge, NEW s \in Sessions,
           NEW kind, NEW amount, NEW after, Log(s, kind, amount, after),
           kind = "refund" => Took(s, amount)
    PROVE  RefundWithinCharge'
<1>0. PICK n \in Nat : n = Len(ledger)
  BY LogIs
<1>1. /\ DOMAIN ledger' = 1 .. n + 1 /\ DOMAIN ledger = 1 .. n
      /\ \A i \in 1 .. n : ledger'[i] = ledger[i]
      /\ ledger'[n + 1].kind = kind /\ ledger'[n + 1].by = s
      /\ ledger'[n + 1].amount = amount
  BY <1>0, LogIs
<1>2. ASSUME NEW m \in 0 .. n, NEW r, NEW owed, NEW j \in 1 .. m, TookLast(j, r, owed, m)
      PROVE  TookLast(j, r, owed, m)'
  BY <1>0, <1>1, <1>2, TookLastKept
<1>3. kind = "refund" => \E j \in 1 .. n : TookLast(j, s, amount, n)
  BY <1>0 DEF Took
<1>4. ASSUME NEW i \in 1 .. n + 1, ledger'[i].kind = "refund"
      PROVE  (\E j \in 1 .. i - 1 : TookLast(j, ledger[i].by, ledger[i].amount, i - 1))'
  <2>1. CASE i = n + 1
    <3>1. PICK j \in 1 .. n : TookLast(j, s, amount, n)
      BY <1>1, <1>3, <1>4, <2>1
    <3>2. n \in 0 .. n /\ i - 1 = n
      BY <1>1, <2>1
    <3>3. TookLast(j, s, amount, n)'
      BY <1>2, <3>1, <3>2
    <3> QED
      BY <1>1, <2>1, <3>2, <3>3
  <2>2. CASE i # n + 1
    <3>1. i \in 1 .. n /\ i - 1 \in 0 .. n /\ ledger'[i] = ledger[i]
      BY <1>1, <2>2
    <3>2. PICK j \in 1 .. i - 1 : TookLast(j, ledger[i].by, ledger[i].amount, i - 1)
      BY <1>1, <1>4, <3>1 DEF RefundWithinCharge
    <3>3. TookLast(j, ledger[i].by, ledger[i].amount, i - 1)'
      BY <1>2, <3>1, <3>2
    <3> QED
      BY <3>1, <3>3
  <2> QED
    BY <2>1, <2>2
<1> QED
  BY <1>1, <1>4 DEF RefundWithinCharge

(* The sessions whose turn it is not. *)
LEMMA OthersAccounted ==
    ASSUME BillingInv, RefundAccounts, NEW s \in Sessions, NEW r \in Sessions \ {s},
           pc'[r] = pc[r], task'[r] = task[r], charged'[r] = charged[r],
           UNCHANGED ledger \/ \E kind, amount, after : Log(s, kind, amount, after)
    PROVE  Accounted(r)'
<1>1. \A owed : Took(r, owed) => Took(r, owed)'
  <2>1. CASE UNCHANGED ledger
    BY <2>1 DEF Took, TookLast, JobRow
  <2>2. CASE \E kind, amount, after : Log(s, kind, amount, after)
    BY <2>2, TookKept
  <2> QED
    BY <2>1, <2>2
<1> QED
  BY <1>1 DEF RefundAccounts, Accounted

(* A step of a request that neither logs for a job nor begins or ends work. *)
LEMMA PlainStep ==
    ASSUME BillingInv, RefundAccounts, NEW s \in Sessions, NEW q,
           pc[s] \notin {"idle", "working"}, Goto(s, q), q # "working",
           UNCHANGED <<task, charged>>,
           \/ UNCHANGED ledger
           \/ \E kind, amount, after :
                 Log(s, kind, amount, after) /\ kind \notin {"spend", "refund"}
    PROVE  RefundAccounts'
<1>1. RefundWithinCharge'
  <2>1. CASE UNCHANGED ledger
    BY <2>1 DEF RefundAccounts, RefundWithinCharge, TookLast, JobRow
  <2>2. CASE ~UNCHANGED ledger
    BY <2>2, RefundsKept DEF RefundAccounts
  <2> QED
    BY <2>1, <2>2
<1>2. \A owed : Took(s, owed) => Took(s, owed)'
  <2>1. CASE UNCHANGED ledger
    BY <2>1 DEF Took, TookLast, JobRow
  <2>2. CASE ~UNCHANGED ledger
    BY <2>2, TookKept
  <2> QED
    BY <2>1, <2>2
<1>3. pc'[s] = q /\ \A r \in Sessions \ {s} : pc'[r] = pc[r]
  BY DEF Goto, BillingInv, TypeOK
<1>4. Accounted(s)'
  BY <1>2, <1>3 DEF RefundAccounts, Accounted
<1>5. ASSUME NEW r \in Sessions \ {s} PROVE Accounted(r)'
  BY <1>3, OthersAccounted
<1> QED
  BY <1>1, <1>4, <1>5 DEF RefundAccounts

LEMMA BeginRefund == ASSUME BillingInv, RefundAccounts, NEW s \in Sessions, Begin(s) PROVE RefundAccounts'
<1>1. /\ pc'[s] \in {"subRead", "getPlan"} /\ task'[s] \in Task /\ charged'[s] = 0
      /\ UNCHANGED ledger
      /\ \A r \in Sessions \ {s} :
            pc'[r] = pc[r] /\ task'[r] = task[r] /\ charged'[r] = charged[r]
  BY BillingAssumption DEF Begin, Goto, db, BillingInv, TypeOK
<1>2. task'[s].kind # "refund"
  BY <1>1 DEF Task
<1>3. RefundWithinCharge'
  BY <1>1 DEF RefundAccounts, RefundWithinCharge, TookLast, JobRow
<1>4. Accounted(s)'
  BY <1>1, <1>2 DEF Accounted
<1>5. ASSUME NEW r \in Sessions \ {s} PROVE Accounted(r)'
  BY <1>1, OthersAccounted
<1> QED
  BY <1>3, <1>4, <1>5 DEF RefundAccounts

(* Failed queries and the end of the work: nothing is owed that was not. *)
LEMMA EndRefund ==
    ASSUME BillingInv, RefundAccounts, NEW s \in Sessions,
           WorkDone(s) \/ WorkFailed(s) \/ QueryFails(s)
    PROVE  RefundAccounts'
<1>1. /\ UNCHANGED <<ledger, charged>>
      /\ \A r \in Sessions \ {s} : pc'[r] = pc[r] /\ task'[r] = task[r]
  BY DEF WorkDone, WorkFailed, QueryFails, Goto, db, BillingInv, TypeOK
<1>2. RefundWithinCharge'
  BY <1>1 DEF RefundAccounts, RefundWithinCharge, TookLast, JobRow
<1>3. ASSUME NEW r \in Sessions \ {s} PROVE Accounted(r)'
  BY <1>1, <1>3, OthersAccounted
<1>4. \A owed : Took(s, owed) => Took(s, owed)'
  BY <1>1 DEF Took, TookLast, JobRow
<1>5. CASE WorkDone(s)
  <2>1. pc'[s] = "idle"
    BY <1>5 DEF WorkDone, Goto, BillingInv, TypeOK
  <2>2. Accounted(s)'
    BY <2>1 DEF Accounted
  <2> QED
    BY <1>2, <1>3, <2>2 DEF RefundAccounts
<1>6. CASE WorkFailed(s)
  <2>1. CASE charged[s] = 0
    <3>1. pc'[s] = "idle"
      BY <1>6, <2>1 DEF WorkFailed, Goto, BillingInv, TypeOK
    <3>2. Accounted(s)'
      BY <3>1 DEF Accounted
    <3> QED
      BY <1>2, <1>3, <3>2 DEF RefundAccounts
  <2>2. CASE charged[s] # 0
    <3>1. /\ pc[s] = "working" /\ pc'[s] = "getPlan"
          /\ task'[s] = [kind |-> "refund", amount |-> charged[s]]
      BY <1>6, <2>2 DEF WorkFailed, Goto, BillingInv, TypeOK
    <3>2. (Took(s, charged[s]))'
      <4>1. PICK c : c = charged[s] /\ Took(s, c)
        BY <2>2, <3>1 DEF RefundAccounts, Accounted
      <4>2. (Took(s, c))' /\ c = charged'[s]
        BY <1>1, <1>4, <4>1
      <4> QED
        BY <4>2
    <3>3. Accounted(s)'
      <4>1. task'[s].kind = "refund" /\ task'[s].amount = charged[s]
        BY <3>1
      <4>2. (Took(s, task[s].amount))'
        BY <3>2, <4>1, <1>1
      <4> QED
        BY <3>1, <4>1, <4>2 DEF Accounted
    <3> QED
      BY <1>2, <1>3, <3>3 DEF RefundAccounts
  <2> QED
    BY <2>1, <2>2
<1>7. CASE QueryFails(s)
  <2>1. /\ pc[s] \notin {"idle", "working"} /\ task' = task
        /\ pc'[s] = IF task[s].kind = "charge" THEN "working" ELSE "idle"
    BY <1>7 DEF QueryFails, Queries, Goto, BillingInv, TypeOK
  <2>2. Accounted(s)'
    BY <1>1, <2>1 DEF RefundAccounts, Accounted
  <2> QED
    BY <1>2, <1>3, <2>2 DEF RefundAccounts
<1> QED
  BY <1>5, <1>6, <1>7

(* The charge is logged before it is reported. *)
LEMMA ChargeLedgerRefund ==
    ASSUME BillingInv, RefundAccounts, NEW s \in Sessions, ChargeLedger(s) PROVE RefundAccounts'
<1>0. PICK n : n = Len(ledger)
  OBVIOUS
<1>1. PICK after : Log(s, "spend", -task[s].amount, after)
  BY DEF ChargeLedger
<1>2. /\ n \in Nat /\ Len(ledger') = n + 1
      /\ ledger'[n + 1].kind = "spend" /\ ledger'[n + 1].by = s
      /\ ledger'[n + 1].amount = -task[s].amount
  BY <1>0, <1>1, LogIs
<1>3. RefundWithinCharge'
  BY <1>1, RefundsKept DEF RefundAccounts
<1>4. TookLast(n + 1, s, task[s].amount, n + 1)'
  <2>1. task' = task /\ n + 2 .. n + 1 = {} /\ (n + 1) + 1 = n + 2
    BY <1>2 DEF ChargeLedger
  <2> QED
    BY <1>2, <2>1 DEF TookLast, JobRow
<1>5. /\ pc'[s] = "working" /\ charged'[s] = task[s].amount /\ task' = task
      /\ task[s].kind = "charge"
      /\ \A r \in Sessions \ {s} : pc'[r] = pc[r] /\ charged'[r] = charged[r]
  BY DEF ChargeLedger, Goto, BillingInv, TypeOK
<1>6. Took(s, charged[s])'
  <2>1. n + 1 \in 1 .. Len(ledger')
    BY <1>2
  <2> QED
    BY <1>2, <1>4, <1>5, <2>1 DEF Took
<1>7. Accounted(s)'
  BY <1>5, <1>6 DEF Accounted
<1>8. ASSUME NEW r \in Sessions \ {s} PROVE Accounted(r)'
  BY <1>1, <1>5, OthersAccounted
<1> QED
  BY <1>3, <1>7, <1>8 DEF RefundAccounts

LEMMA CreditLedgerRefund ==
    ASSUME BillingInv, RefundAccounts, NEW s \in Sessions, CreditLedger(s) PROVE RefundAccounts'
<1>1. PICK after : Log(s, task[s].kind, task[s].amount, after)
  BY DEF CreditLedger
<1>2. pc[s] = "actLedger" /\ task[s].kind = "refund" => Took(s, task[s].amount)
  BY DEF RefundAccounts, Accounted
<1>3. RefundWithinCharge'
  BY <1>1, <1>2, RefundsKept DEF RefundAccounts, CreditLedger
<1>4. /\ pc'[s] = "idle" /\ UNCHANGED <<task, charged>>
      /\ \A r \in Sessions \ {s} : pc'[r] = pc[r]
  BY DEF CreditLedger, Goto, BillingInv, TypeOK
<1>5. Accounted(s)'
  BY <1>4 DEF Accounted
<1>6. ASSUME NEW r \in Sessions \ {s} PROVE Accounted(r)'
  BY <1>1, <1>4, OthersAccounted
<1> QED
  BY <1>3, <1>5, <1>6 DEF RefundAccounts

LEMMA PlainSteps ==
    ASSUME BillingInv, RefundAccounts, NEW s \in Sessions,
           \/ SubRead(s) \/ SubWrite(s) \/ GetBalance(s)
           \/ ChargeRefused(s) \/ Charge(s) \/ Refund(s) \/ AddTopup(s)
           \/ PlanUnchanged(s) \/ ApplyPlanChange(s) \/ PlanLedger(s) \/ View(s)
    PROVE  RefundAccounts'
<1>1. CASE SubRead(s) \/ SubWrite(s)
  BY <1>1, PlainStep DEF SubRead, SubWrite, db
<1>2. CASE GetPlan(s) \/ Select(s) \/ Insert(s) \/ Reselect(s) \/ Roll(s) \/ Sync(s)
  <2>1. UNCHANGED <<ledger, task, charged>> /\ pc[s] \notin {"idle", "working"}
    BY <1>2 DEF GetPlan, Select, Insert, Reselect, Roll, Sync, db
  <2>2. \E q : Goto(s, q) /\ q # "working"
    BY <1>2 DEF GetPlan, Select, Insert, Reselect, Roll, Sync, AfterSelect
  <2> QED
    BY <2>1, <2>2, PlainStep
<1>3. CASE InsertLedger(s) \/ RollLedger(s) \/ RollGrant(s)
  <2>1. UNCHANGED <<task, charged>> /\ pc[s] \notin {"idle", "working"}
    BY <1>3 DEF InsertLedger, RollLedger, RollGrant
  <2>2. \E q : Goto(s, q) /\ q # "working"
    BY <1>3 DEF InsertLedger, RollLedger, RollGrant
  <2>3. \E kind, amount, after :
           Log(s, kind, amount, after) /\ kind \notin {"spend", "refund"}
    BY <1>3 DEF InsertLedger, RollLedger, RollGrant
  <2> QED
    BY <2>1, <2>2, <2>3, PlainStep
<1>4. CASE ChargeRefused(s) \/ Charge(s) \/ Refund(s) \/ AddTopup(s)
           \/ PlanUnchanged(s) \/ ApplyPlanChange(s) \/ View(s)
  <2>1. UNCHANGED <<ledger, task, charged>> /\ pc[s] \notin {"idle", "working"}
    BY <1>4 DEF ChargeRefused, Charge, Refund, AddTopup, PlanUnchanged, ApplyPlanChange, View, db
  <2>2. \E q : Goto(s, q) /\ q # "working"
    BY <1>4 DEF ChargeRefused, Charge, Refund, AddTopup, PlanUnchanged, ApplyPlanChange, View
  <2> QED
    BY <2>1, <2>2, PlainStep
<1>5. CASE PlanLedger(s)
  <2>1. UNCHANGED <<task, charged>> /\ pc[s] \notin {"idle", "working"} /\ Goto(s, "idle")
    BY <1>5 DEF PlanLedger
  <2>2. \E kind, amount, after :
           Log(s, kind, amount, after) /\ kind \notin {"spend", "refund"}
    BY <1>5 DEF PlanLedger
  <2> QED
    BY <2>1, <2>2, PlainStep
<1> QED
  BY <1>1, <1>2, <1>3, <1>4, <1>5 DEF GetBalance

LEMMA RefundStep == BillingInv /\ RefundAccounts /\ [Next]_vars => RefundAccounts'
<1> SUFFICES ASSUME BillingInv, RefundAccounts, [Next]_vars PROVE RefundAccounts'
  OBVIOUS
<1>1. CASE UNCHANGED vars \/ NextMonth
  <2>1. UNCHANGED <<ledger, pc, task, charged>>
    BY <1>1 DEF vars, NextMonth, db
  <2> QED
    BY <2>1 DEF RefundAccounts, RefundWithinCharge, Accounted, Took, TookLast, JobRow
<1> QED
  BY <1>1, BeginRefund, EndRefund, ChargeLedgerRefund, CreditLedgerRefund, PlainSteps
     DEF Next, Step, Act

(* Whatever fails and whoever races, a refund returns what the session's   *)
(* last charge took, and no charge is returned twice.                      *)
THEOREM RefundsReturnCharges == Spec => []RefundWithinCharge
<1>1. RefundAccounts => RefundWithinCharge
  BY DEF RefundAccounts
<1> QED
  BY <1>1, InitInv, StepInv, RefundInit, RefundStep, PTL DEF Spec

-----------------------------------------------------------------------------
(* One request at a time.                                                  *)

OneRequest == \A r, s \in Sessions : pc[r] # "idle" /\ pc[s] # "idle" => r = s

(* What the newest ledger row of a charge, a top-up or a refund will say   *)
(* is what is left.                                                        *)
Settled(s) ==
    LET row == seen[s].row
    IN  /\ task[s].kind = "charge" =>
             AvailableFrom(bal) = AvailableFrom(row) - task[s].amount
        /\ \/ task[s].kind = "topup"
           \/ task[s].kind = "refund" /\ row.monthlyUsed <= row.monthlyAllowance
           => AvailableFrom(bal) = AvailableFrom(row) + task[s].amount

(* The copy a request holds is the row in the table. *)
FreshCopy(s) ==
    /\ pc[s] \in {"roll", "sync", "act"} => bal = seen[s].row
    /\ pc[s] \in {"rollLedger", "rollGrant"} => bal = RowAfterRoll(s)
    /\ pc[s] = "roll" => seen[s].row.periodEnd <= seen[s].at
    /\ pc[s] = "actLedger" => Settled(s)

AloneInv == \A s \in Sessions : FreshCopy(s)

LEMMA AloneInit == Init => AloneInv
  BY DEF Init, AloneInv, FreshCopy

(* A step that leaves the session before its SELECT, or past its writes,   *)
(* holds no copy.                                                          *)
Empty == {"idle", "working", "subRead", "subWrite", "getPlan", "select", "insert",
          "insertLedger", "reselect"}

LEMMA EmptyIsFresh ==
    ASSUME BillingInv, NEW s \in Sessions, NEW q \in Empty, Goto(s, q) PROVE FreshCopy(s)'
<1>1. pc'[s] = q
  BY DEF Goto, BillingInv, TypeOK
<1> QED
  BY <1>1 DEF Empty, FreshCopy

LEMMA SelectFresh ==
    ASSUME BillingInv, NEW s \in Sessions, Select(s) PROVE FreshCopy(s)'
<1> DEFINE q == AfterSelect(bal, seen[s].plan, seen[s].at)
<1>1. pc'[s] = q
  BY DEF Select, Goto, BillingInv, TypeOK
<1>2. CASE bal = NoRow
  BY <1>1, <1>2 DEF AfterSelect, FreshCopy
<1>3. CASE bal # NoRow
  <2>1. bal' = bal /\ seen'[s].row = bal /\ seen'[s].at = seen[s].at
    BY <1>3 DEF Select, SeesRow, db, BillingInv, TypeOK
  <2>2. q \in {"roll", "expire", "sync", "act"} /\ (q = "roll" => bal.periodEnd <= seen[s].at)
    BY <1>3 DEF AfterSelect
  <2> QED
    BY <1>1, <2>1, <2>2 DEF FreshCopy
<1> QED
  BY <1>2, <1>3

LEMMA RollFresh ==
    ASSUME BillingInv, NEW s \in Sessions, FreshCopy(s), Roll(s)
    PROVE  FreshCopy(s)' /\ bal'.periodEnd > bal.periodEnd
<1>1. PICK at \in seen[s].at .. month :
         /\ bal' = [RolledRow(seen[s].row, seen[s].plan, at)
                      EXCEPT !.topupCredits = bal.topupCredits]
         /\ seen' = [seen EXCEPT ![s].at = at]
  BY DEF Roll
<1> DEFINE row == seen[s].row
           plan == seen[s].plan
           new == RolledRow(row, plan, at)
<1>2. /\ row \in Row /\ plan \in Plans /\ at \in Nat /\ bal = row
      /\ seen[s].at \in Nat /\ row.periodEnd \in Nat /\ row.periodEnd <= seen[s].at
  BY <1>1, CopiesGood DEF Roll, FreshCopy, GoodCopy, Row
<1>3. new \in Row /\ new.topupCredits = row.topupCredits
  BY <1>2, RolledRowType
<1>4. new.periodEnd = at + 1
  <2>1. row.periodEnd \in Nat /\ row \in Row
    BY <1>2
  <2> HIDE DEF row, plan
  <2> QED
    BY <2>1 DEF RolledRow, Row
<1>5. bal' = new
  <2>1. bal' = [new EXCEPT !.topupCredits = row.topupCredits]
    BY <1>1, <1>2
  <2> HIDE DEF new, row
  <2> QED
    BY <1>3, <2>1 DEF Row
<1>6. seen'[s].row = row /\ seen'[s].plan = plan /\ seen'[s].at = at
  BY <1>1 DEF BillingInv, TypeOK
<1>7. RowAfterRoll(s)' = new
  BY <1>6 DEF RowAfterRoll
<1>8. pc'[s] \in {"rollLedger", "rollGrant"}
  BY DEF Roll, Goto, BillingInv, TypeOK
<1> QED
  BY <1>1, <1>2, <1>4, <1>5, <1>7, <1>8 DEF FreshCopy

LEMMA RolledFresh ==
    ASSUME BillingInv, NEW s \in Sessions, FreshCopy(s), RollLedger(s) \/ RollGrant(s)
    PROVE  FreshCopy(s)'
<1>1. CASE RollLedger(s)
  <2>1. pc'[s] = "rollGrant" /\ bal' = bal /\ seen' = seen /\ bal = RowAfterRoll(s)
    BY <1>1 DEF RollLedger, Goto, BillingInv, TypeOK, FreshCopy
  <2> QED
    BY <2>1 DEF FreshCopy, RowAfterRoll
<1>2. CASE RollGrant(s)
  <2>1. pc'[s] = "act" /\ bal' = bal /\ bal = RowAfterRoll(s) /\ seen'[s].row = RowAfterRoll(s)
    BY <1>2 DEF RollGrant, Goto, SeesRow, BillingInv, TypeOK, FreshCopy
  <2> QED
    BY <2>1 DEF FreshCopy
<1> QED
  BY <1>1, <1>2

LEMMA ReadFresh ==
    ASSUME BillingInv, NEW s \in Sessions, FreshCopy(s), Reselect(s) \/ Sync(s)
    PROVE  FreshCopy(s)'
<1>1. pc'[s] = "act"
  BY DEF Reselect, Sync, Goto, BillingInv, TypeOK
<1>2. bal' = seen'[s].row
  BY DEF Reselect, Sync, SeesRow, BillingInv, TypeOK, FreshCopy, db
<1> QED
  BY <1>1, <1>2 DEF FreshCopy

(* The row a charge, a refund and a top-up leave when the copy is the row. *)
LEMMA ChargeWrites ==
    ASSUME BillingInv, NEW s \in Sessions, FreshCopy(s), Charge(s)
    PROVE  /\ bal' = ChargedRow(bal, task[s].amount)
           /\ bal \in Row /\ bal = seen[s].row /\ task[s].amount \in Nat
<1> DEFINE new == ChargedRow(bal, task[s].amount)
<1>1. bal = seen[s].row /\ bal \in Row /\ task[s].amount \in Nat
  BY CopiesGood, TaskKinds DEF Charge, FreshCopy, GoodCopy
<1>2. /\ new \in Row
      /\ new.monthlyAllowance = bal.monthlyAllowance
      /\ new.rolloverExpires = bal.rolloverExpires
      /\ new.periodEnd = bal.periodEnd
  BY <1>1, ChargedRowType
<1>3. bal' = [bal EXCEPT !.monthlyUsed     = new.monthlyUsed,
                         !.rolloverCredits = new.rolloverCredits,
                         !.topupCredits    = new.topupCredits]
  BY <1>1 DEF Charge
<1> HIDE DEF new
<1>4. bal' = new
  BY <1>1, <1>2, <1>3 DEF Row
<1> QED
  BY <1>1, <1>4 DEF new

LEMMA RefundWrites ==
    ASSUME BillingInv, NEW s \in Sessions, FreshCopy(s), Refund(s)
    PROVE  /\ bal' = RefundedRow(bal, task[s].amount)
           /\ bal \in Row /\ bal = seen[s].row /\ task[s].amount \in Nat
<1> DEFINE new == RefundedRow(bal, task[s].amount)
<1>1. bal = seen[s].row /\ bal \in Row /\ task[s].amount \in Nat
  BY CopiesGood, TaskKinds DEF Refund, FreshCopy, GoodCopy
<1>2. /\ new \in Row
      /\ new.monthlyAllowance = bal.monthlyAllowance
      /\ new.rolloverCredits = bal.rolloverCredits
      /\ new.rolloverExpires = bal.rolloverExpires
      /\ new.periodEnd = bal.periodEnd
  BY <1>1, RefundedRowType DEF RefundedRow, Row
<1>3. bal' = [bal EXCEPT !.monthlyUsed  = new.monthlyUsed,
                         !.topupCredits = new.topupCredits]
  BY <1>1 DEF Refund
<1> HIDE DEF new
<1>4. bal' = new
  BY <1>1, <1>2, <1>3 DEF Row
<1> QED
  BY <1>1, <1>4 DEF new

LEMMA TopupWrites ==
    ASSUME BillingInv, NEW s \in Sessions, FreshCopy(s), AddTopup(s)
    PROVE  /\ AvailableFrom(bal') = AvailableFrom(bal) + task[s].amount
           /\ bal'.topupCredits >= bal.topupCredits /\ bal'.topupCredits \in Nat
           /\ bal = seen[s].row
<1> DEFINE topup == bal.topupCredits + task[s].amount
<1>1. bal = seen[s].row /\ bal \in Row /\ task[s].amount \in Nat
  BY CopiesGood, TaskKinds DEF AddTopup, FreshCopy, GoodCopy
<1>2. ToppedUpRow(bal, task[s].amount).topupCredits = topup
  BY <1>1 DEF ToppedUpRow, Row
<1>3. bal' = [bal EXCEPT !.topupCredits = topup]
  BY <1>1, <1>2 DEF AddTopup
<1> QED
  BY <1>1, <1>3, RemainingType DEF AvailableFrom, MonthlyRemaining, Row

LEMMA WriteFresh ==
    ASSUME BillingInv, NEW s \in Sessions, FreshCopy(s),
           Charge(s) \/ Refund(s) \/ AddTopup(s) \/ ApplyPlanChange(s)
    PROVE  FreshCopy(s)'
<1>1. pc'[s] = "actLedger" /\ task' = task /\ seen' = seen
  BY DEF Charge, Refund, AddTopup, ApplyPlanChange, Goto, BillingInv, TypeOK
<1> SUFFICES Settled(s)'
  BY <1>1 DEF FreshCopy
<1>2. CASE Charge(s)
  <2>1. AvailableFrom(bal') = AvailableFrom(seen[s].row) - task[s].amount
    BY <1>2, ChargeWrites, ChargeTakesCost DEF Charge
  <2>2. task[s].kind = "charge"
    BY <1>2 DEF Charge
  <2> QED
    BY <1>1, <2>1, <2>2 DEF Settled
<1>3. CASE Refund(s)
  <2>1. seen[s].row.monthlyUsed <= seen[s].row.monthlyAllowance =>
          AvailableFrom(bal') = AvailableFrom(seen[s].row) + task[s].amount
    BY <1>3, RefundWrites, RefundGivesAmount
  <2>2. task[s].kind = "refund"
    BY <1>3 DEF Refund
  <2> QED
    BY <1>1, <2>1, <2>2 DEF Settled
<1>4. CASE AddTopup(s)
  <2>1. AvailableFrom(bal') = AvailableFrom(seen[s].row) + task[s].amount
    BY <1>4, TopupWrites
  <2>2. task[s].kind = "topup"
    BY <1>4 DEF AddTopup
  <2> QED
    BY <1>1, <2>1, <2>2 DEF Settled
<1>5. CASE ApplyPlanChange(s)
  <2>1. task[s].kind = "setPlan"
    BY <1>5 DEF ApplyPlanChange
  <2> QED
    BY <1>1, <2>1 DEF Settled
<1> QED
  BY <1>2, <1>3, <1>4, <1>5

LEMMA StepFresh ==
    ASSUME BillingInv, NEW s \in Sessions, FreshCopy(s), Begins(s) \/ Step(s) \/ Fails(s)
    PROVE  FreshCopy(s)'
<1>1. CASE Begins(s) \/ Fails(s) \/ SubRead(s) \/ SubWrite(s) \/ GetPlan(s) \/ Insert(s)
            \/ InsertLedger(s) \/ ChargeRefused(s) \/ ChargeLedger(s) \/ WorkDone(s)
            \/ WorkFailed(s) \/ CreditLedger(s) \/ PlanUnchanged(s) \/ PlanLedger(s) \/ View(s)
  <2>1. \E q \in Empty : Goto(s, q)
    BY <1>1 DEF Begins, Fails, SubRead, SubWrite, GetPlan, Insert, InsertLedger, ChargeRefused,
                ChargeLedger, WorkDone, WorkFailed, CreditLedger, PlanUnchanged, PlanLedger,
                View, Empty
  <2> QED
    BY <2>1, EmptyIsFresh
<1> QED
  BY <1>1, SelectFresh, RollFresh, RolledFresh, ReadFresh, WriteFresh
     DEF Step, GetBalance, Act

LEMMA AloneStep ==
    ASSUME BillingInv, AloneInv, OneRequest, [Unbounded]_vars PROVE AloneInv'
<1>1. CASE UNCHANGED vars \/ MonthEnds
  BY <1>1 DEF vars, MonthEnds, db, AloneInv, FreshCopy, Settled, RowAfterRoll
<1>2. ASSUME NEW s \in Sessions, Begins(s) \/ Step(s) \/ Fails(s) PROVE AloneInv'
  <2>1. FreshCopy(s)'
    BY <1>2, StepFresh DEF AloneInv
  <2>2. ASSUME NEW r \in Sessions, r # s PROVE FreshCopy(r)'
    <3>1. CASE pc[s] = "idle"
      <4>1. Begins(s)
        BY <1>2, <3>1 DEF Step, SubRead, SubWrite, GetBalance, GetPlan, Select, Insert,
           InsertLedger, Reselect, Roll, RollLedger, RollGrant, Sync, Act, ChargeRefused, Charge,
           ChargeLedger, WorkDone, WorkFailed, Refund, AddTopup, CreditLedger, PlanUnchanged,
           ApplyPlanChange, PlanLedger, View, Fails, Queries
      <4>2. /\ pc'[r] = pc[r] /\ task'[r] = task[r] /\ UNCHANGED <<bal, seen>>
        BY <2>2, <4>1 DEF Begins, Goto, db, BillingInv, TypeOK
      <4> QED
        BY <4>2 DEF AloneInv, FreshCopy, Settled, RowAfterRoll
    <3>2. CASE pc[s] # "idle"
      <4>1. pc[r] = "idle"
        BY <2>2, <3>2 DEF OneRequest
      <4>2. \E q : Goto(s, q)
        BY <1>2 DEF Begins, Fails, Step, SubRead, SubWrite, GetBalance, GetPlan, Select, Insert,
           InsertLedger, Reselect, Roll, RollLedger, RollGrant, Sync, Act, ChargeRefused, Charge,
           ChargeLedger, WorkDone, WorkFailed, Refund, AddTopup, CreditLedger, PlanUnchanged,
           ApplyPlanChange, PlanLedger, View
      <4>3. pc'[r] = "idle"
        BY <2>2, <4>1, <4>2 DEF Goto, BillingInv, TypeOK
      <4> QED
        BY <4>3 DEF FreshCopy
    <3> QED
      BY <3>1, <3>2
  <2> QED
    BY <2>1, <2>2 DEF AloneInv
<1> QED
  BY <1>1, <1>2 DEF Unbounded

(* The queries that write the row, and what they leave of it. *)
LEMMA RowWriters ==
    ASSUME BillingInv, NEW s \in Sessions, FreshCopy(s), Begins(s) \/ Step(s) \/ Fails(s),
           HasRow, bal' # bal
    PROVE  /\ pc[s] # "idle"
           /\ \/ Roll(s) /\ bal'.periodEnd # bal.periodEnd /\ bal'.topupCredits = bal.topupCredits
              \/ /\ Sync(s) \/ ApplyPlanChange(s)
                 /\ bal'.monthlyUsed = bal.monthlyUsed
                 /\ bal'.rolloverCredits = bal.rolloverCredits
                 /\ bal'.topupCredits = bal.topupCredits
              \/ Charge(s) \/ Refund(s) \/ AddTopup(s)
<1>1. bal \in Row
  BY CopiesGood DEF GoodCopy
<1>2. ~Insert(s)
  BY DEF Insert, HasRow
<1>3. \/ Roll(s) \/ Sync(s) \/ ApplyPlanChange(s) \/ Charge(s) \/ Refund(s) \/ AddTopup(s)
  BY <1>2 DEF Begins, Fails, Step, SubRead, SubWrite, GetBalance, GetPlan, Select,
     InsertLedger, Reselect, RollLedger, RollGrant, Act, ChargeRefused,
     ChargeLedger, WorkDone, WorkFailed, CreditLedger, PlanUnchanged,
     PlanLedger, View, db
<1>4. pc[s] # "idle"
  BY <1>3 DEF Roll, Sync, ApplyPlanChange, Charge, Refund, AddTopup
<1>5. CASE Sync(s) \/ ApplyPlanChange(s)
  <2>1. \E a : bal' = [bal EXCEPT !.monthlyAllowance = a]
    BY <1>5 DEF Sync, ApplyPlanChange
  <2> QED
    BY <1>1, <1>4, <1>5, <2>1 DEF Row
<1>6. CASE Roll(s)
  <2>1. bal'.periodEnd > bal.periodEnd /\ bal.periodEnd \in Nat
    BY <1>1, <1>6, RollFresh DEF Row
  <2>2. PICK at \in seen[s].at .. month :
          bal' = [RolledRow(seen[s].row, seen[s].plan, at) EXCEPT !.topupCredits = bal.topupCredits]
    BY <1>6 DEF Roll
  <2>3. RolledRow(seen[s].row, seen[s].plan, at) \in Row
    BY CopiesGood, RolledRowType DEF GoodCopy
  <2>4. bal'.topupCredits = bal.topupCredits
    BY <2>2, <2>3 DEF Row
  <2>5. bal'.periodEnd # bal.periodEnd
    BY <2>1
  <2> QED
    BY <1>4, <1>6, <2>4, <2>5
<1> QED
  BY <1>3, <1>4, <1>5, <1>6

LEMMA BoughtLast ==
    ASSUME BillingInv, AloneInv, [Unbounded]_vars PROVE SpendsBoughtLast
<1> SUFFICES ASSUME HasRow, bal'.topupCredits < bal.topupCredits
             PROVE  MonthlyRemaining(bal') = 0 /\ bal'.rolloverCredits = 0
  BY DEF SpendsBoughtLast
<1>1. bal \in Row /\ bal.topupCredits \in Nat
  BY CopiesGood DEF GoodCopy, Row, BillingInv, TypeOK, HasRow
<1>2. bal' # bal
  BY <1>1
<1>3. PICK s \in Sessions : Begins(s) \/ Step(s) \/ Fails(s)
  BY <1>2 DEF Unbounded, MonthEnds, vars, db
<1>4. FreshCopy(s)
  BY DEF AloneInv
<1>5. ~(bal'.topupCredits = bal.topupCredits)
  BY <1>1
<1>6. Charge(s) \/ Refund(s) \/ AddTopup(s)
  BY <1>2, <1>3, <1>4, <1>5, RowWriters
<1>7. ~AddTopup(s)
  <2>1. AddTopup(s) => bal'.topupCredits >= bal.topupCredits /\ bal'.topupCredits \in Nat
    BY <1>4, TopupWrites
  <2> QED
    BY <1>1, <2>1
<1>8. ~Refund(s)
  <2>1. ASSUME Refund(s) PROVE bal'.topupCredits >= bal.topupCredits /\ bal'.topupCredits \in Nat
    <3>1. bal' = RefundedRow(bal, task[s].amount) /\ bal \in Row /\ task[s].amount \in Nat
      BY <1>4, <2>1, RefundWrites
    <3>2. bal' \in Row
      BY <3>1, RefundedRowType
    <3> QED
      BY <3>1, <3>2, RefundedRowType DEF Row
  <2> QED
    BY <1>1, <2>1
<1>9. CASE Charge(s)
  <2> DEFINE cost == task[s].amount
             a == AllocateSpend(bal, cost)
  <2>1. bal' = ChargedRow(bal, cost) /\ cost \in Nat
    BY <1>4, <1>9, ChargeWrites
  <2>2. /\ bal'.monthlyAllowance = bal.monthlyAllowance
        /\ bal'.monthlyUsed = bal.monthlyUsed + a.fromMonthly
        /\ bal'.rolloverCredits = bal.rolloverCredits - a.fromRollover
        /\ bal'.topupCredits = bal.topupCredits - a.fromTopup
    BY <1>1, <2>1, ChargedRowType
  <2>3. /\ a.fromRollover + a.fromTopup > 0 => a.fromMonthly = MonthlyRemaining(bal)
        /\ a.fromTopup > 0 => a.fromRollover = bal.rolloverCredits
        /\ a.fromRollover \in Nat /\ a.fromTopup \in Nat
    BY <1>1, <2>1, AllocateSpendOrder, AllocateSpendSplits DEF Row
  <2> HIDE DEF a, cost
  <2>4. a.fromTopup > 0
    BY <1>1, <2>2, <2>3
  <2>5. a.fromMonthly = MonthlyRemaining(bal) /\ a.fromRollover = bal.rolloverCredits
    BY <2>3, <2>4
  <2> QED
    BY <1>1, <2>2, <2>5 DEF MonthlyRemaining, AtLeast0, Row
<1> QED
  BY <1>6, <1>7, <1>8, <1>9

LEMMA SwitchMints ==
    ASSUME BillingInv, AloneInv, OneRequest, [Unbounded]_vars PROVE SwitchMintsNothing
<1> SUFFICES ASSUME NEW r \in Sessions, HasRow, pc[r] # "idle", task[r].kind = "setPlan",
                    bal'.periodEnd = bal.periodEnd
             PROVE  /\ bal'.monthlyUsed >= bal.monthlyUsed
                    /\ bal'.rolloverCredits <= bal.rolloverCredits
                    /\ bal'.topupCredits <= bal.topupCredits
  BY DEF SwitchMintsNothing
<1>1. /\ bal.monthlyUsed \in Nat /\ bal.rolloverCredits \in Nat /\ bal.topupCredits \in Nat
  BY CopiesGood DEF GoodCopy, Row
<1>2. CASE bal' = bal
  BY <1>1, <1>2
<1>3. CASE bal' # bal
  <2>1. PICK s \in Sessions : Begins(s) \/ Step(s) \/ Fails(s)
    BY <1>3 DEF Unbounded, MonthEnds, vars, db
  <2>2. FreshCopy(s)
    BY DEF AloneInv
  <2>3. pc[s] # "idle"
    BY <1>3, <2>1, <2>2, RowWriters
  <2>4. s = r
    BY <2>3 DEF OneRequest
  <2>5. ~Charge(s) /\ ~Refund(s) /\ ~AddTopup(s)
    BY <2>4 DEF Charge, Refund, AddTopup
  <2>6. /\ bal'.monthlyUsed = bal.monthlyUsed
        /\ bal'.rolloverCredits = bal.rolloverCredits
        /\ bal'.topupCredits = bal.topupCredits
    BY <1>3, <2>1, <2>2, <2>5, RowWriters
  <2> QED
    BY <1>1, <2>6
<1> QED
  BY <1>2, <1>3

LEMMA LogLast ==
    ASSUME BillingInv, NEW s \in Sessions, NEW kind, NEW amount, NEW after,
           Log(s, kind, amount, after)
    PROVE  LET new == ledger'[Len(ledger')]
           IN  new.kind = kind /\ new.after = after /\ new.by = s
<1> DEFINE e == [kind |-> kind, amount |-> amount, after |-> after, at |-> month, by |-> s]
<1>1. ledger \in Seq(Entry) /\ ledger' = Append(ledger, e)
  BY DEF BillingInv, TypeOK, Log
<1>2. e.kind = kind /\ e.after = after /\ e.by = s
  OBVIOUS
<1> HIDE DEF e
<1>3. ledger'[Len(ledger')] = e
  BY <1>1
<1> QED
  BY <1>2, <1>3

LEMMA LogsTrue ==
    ASSUME BillingInv, AloneInv, [Unbounded]_vars PROVE LogsBalance
<1> DEFINE new == ledger'[Len(ledger')]
           row == seen[new.by].row
<1> SUFFICES ASSUME ledger' # ledger,
                    \/ new.kind \in {"spend", "topup"}
                    \/ new.kind = "refund" /\ row.monthlyUsed <= row.monthlyAllowance
             PROVE  HasRow /\ new.after = AvailableFrom(bal)
  BY DEF LogsBalance
<1>1. PICK s \in Sessions : Begins(s) \/ Step(s) \/ Fails(s)
  BY DEF Unbounded, MonthEnds, vars, db
<1>2. FreshCopy(s)
  BY DEF AloneInv
<1>3. \/ InsertLedger(s) \/ RollLedger(s) \/ RollGrant(s) \/ ChargeLedger(s)
      \/ CreditLedger(s) \/ PlanLedger(s)
  BY <1>1 DEF Begins, Fails, Step, SubRead, SubWrite, GetBalance, GetPlan, Select, Insert,
     Reselect, Roll, Sync, Act, ChargeRefused, Charge, WorkDone, WorkFailed, Refund, AddTopup,
     PlanUnchanged, ApplyPlanChange, View, db
<1>4. CASE InsertLedger(s) \/ RollLedger(s) \/ RollGrant(s) \/ PlanLedger(s)
  <2>1. \E kind \in {"grant", "rollover", "expire"} : \E amount, after : Log(s, kind, amount, after)
    BY <1>4 DEF InsertLedger, RollLedger, RollGrant, PlanLedger
  <2>2. new.kind \in {"grant", "rollover", "expire"}
    BY <2>1, LogLast
  <2> QED
    BY <2>2
<1>5. CASE ChargeLedger(s)
  <2>1. /\ pc[s] = "actLedger" /\ task[s].kind = "charge"
        /\ Log(s, "spend", -task[s].amount, AvailableFrom(seen[s].row) - task[s].amount)
    BY <1>5 DEF ChargeLedger
  <2>2. HasRow /\ AvailableFrom(bal) = AvailableFrom(seen[s].row) - task[s].amount
    BY <1>2, <2>1, CopiesGood DEF FreshCopy, Settled, RowExpected
  <2>3. new.after = AvailableFrom(seen[s].row) - task[s].amount
    BY <2>1, LogLast
  <2> QED
    BY <2>2, <2>3
<1>6. CASE CreditLedger(s)
  <2>1. /\ pc[s] = "actLedger" /\ task[s].kind \in {"refund", "topup"}
        /\ Log(s, task[s].kind, task[s].amount, AvailableFrom(seen[s].row) + task[s].amount)
    BY <1>6 DEF CreditLedger
  <2>2. /\ new.kind = task[s].kind /\ new.by = s
        /\ new.after = AvailableFrom(seen[s].row) + task[s].amount
    BY <2>1, LogLast
  <2>3. HasRow /\ AvailableFrom(bal) = AvailableFrom(seen[s].row) + task[s].amount
    <3> HIDE DEF new
    <3>1. Settled(s) /\ HasRow
      BY <1>2, <2>1, CopiesGood DEF FreshCopy, RowExpected
    <3> QED
      BY <2>1, <2>2, <3>1 DEF Settled
  <2> QED
    BY <2>2, <2>3
<1> QED
  BY <1>3, <1>4, <1>5, <1>6

LEMMA AloneSteps ==
    BillingInv /\ AloneInv /\ OneRequest /\ [Unbounded]_vars
      => SpendsBoughtLast /\ SwitchMintsNothing /\ LogsBalance
  BY BoughtLast, SwitchMints, LogsTrue

(* Requests that run one at a time, whichever of their queries fail and    *)
(* however many months go by between them: bought credits are spent last,  *)
(* a change of plan produces no credits, and the balance a charge, a       *)
(* top-up or a refund logs is what is left.                                *)
THEOREM AloneAccounts ==
    Spec /\ []OneRequest => BoughtSpentLast /\ PlanSwitchMintsNothing /\ ChangesLogged
<1>1. BillingInv /\ AloneInv /\ OneRequest /\ [Next]_vars => AloneInv'
  BY AloneStep, NextIsUnbounded
<1>2. BillingInv /\ AloneInv /\ OneRequest /\ [Next]_vars => [SpendsBoughtLast]_vars
  BY AloneSteps, NextIsUnbounded
<1>3. BillingInv /\ AloneInv /\ OneRequest /\ [Next]_vars => [SwitchMintsNothing]_vars
  BY AloneSteps, NextIsUnbounded
<1>4. BillingInv /\ AloneInv /\ OneRequest /\ [Next]_vars => [LogsBalance]_vars
  BY AloneSteps, NextIsUnbounded
<1> QED
  BY <1>1, <1>2, <1>3, <1>4, InitInv, StepInv, AloneInit, PTL
     DEF Spec, BoughtSpentLast, PlanSwitchMintsNothing, ChangesLogged

-----------------------------------------------------------------------------
(* The same in the two worlds that are checked together.                   *)

LEMMA SingleReads ==
    ASSUME NEW s \in Sessions
    PROVE  /\ Single!SubRead(s) => SubRead(s)
           /\ Single!SubWrite(s) => SubWrite(s)
           /\ Single!GetPlan(s) => GetPlan(s)
           /\ Single!Select(s) => Select(s)
           /\ Single!Insert(s) => Insert(s)
           /\ Single!InsertLedger(s) => InsertLedger(s)
           /\ Single!Reselect(s) => Reselect(s)
<1> USE DEF Single!Goto, Goto, Single!db, db, Single!counters, counters, Single!SeesRow, SeesRow
<1>1. Single!SubRead(s) => SubRead(s)
  BY DEF Single!SubRead, SubRead
<1>2. Single!SubWrite(s) => SubWrite(s)
  BY DEF Single!SubWrite, SubWrite
<1>3. Single!GetPlan(s) => GetPlan(s)
  BY DEF Single!GetPlan, GetPlan, Single!PlanOf, PlanOf
<1>4. Single!Select(s) => Select(s)
  BY DEF Single!Select, Select, Single!AfterSelect, AfterSelect, Single!RolloverExpired,
         RolloverExpired, Single!NoExpiry, NoExpiry
<1>5. Single!Insert(s) => Insert(s)
  BY DEF Single!Insert, Insert, Single!NewRow, NewRow, Single!NoExpiry, NoExpiry
<1>6. Single!InsertLedger(s) => InsertLedger(s)
  BY DEF Single!InsertLedger, InsertLedger, Single!Log, Log
<1>7. Single!Reselect(s) => Reselect(s)
  BY DEF Single!Reselect, Reselect
<1> QED
  BY <1>1, <1>2, <1>3, <1>4, <1>5, <1>6, <1>7

LEMMA SingleRow ==
    ASSUME NEW row, NEW plan, NEW at, NEW amount
    PROVE  /\ Single!RolledRow(row, plan, at) = RolledRow(row, plan, at)
           /\ Single!RolloverEnabled(plan) = RolloverEnabled(plan)
           /\ Single!MonthlyRemaining(row) = MonthlyRemaining(row)
           /\ Single!AvailableFrom(row) = AvailableFrom(row)
           /\ Single!ChargedRow(row, amount) = ChargedRow(row, amount)
           /\ Single!RefundedRow(row, amount) = RefundedRow(row, amount)
           /\ Single!ToppedUpRow(row, amount) = ToppedUpRow(row, amount)
  BY DEF Single!RolledRow, RolledRow, Single!RolloverEnabled, RolloverEnabled,
         Single!MonthlyRemaining, MonthlyRemaining, Single!AvailableFrom, AvailableFrom,
         Single!ChargedRow, ChargedRow, Single!RefundedRow, RefundedRow, Single!ToppedUpRow,
         ToppedUpRow, Single!AllocateSpend, AllocateSpend, Single!AtLeast0, AtLeast0,
         Single!Least, Least, Single!RolloverExpired, RolloverExpired, Single!NoExpiry, NoExpiry

LEMMA SingleRolls ==
    ASSUME NEW s \in Sessions
    PROVE  /\ Single!Roll(s) => Roll(s)
           /\ Single!RollLedger(s) => RollLedger(s)
           /\ Single!RollGrant(s) => RollGrant(s)
           /\ Single!Sync(s) => Sync(s)
<1> USE DEF Single!Goto, Goto, Single!db, db, Single!counters, counters, Single!SeesRow, SeesRow
<1>1. Single!Roll(s) => Roll(s)
  <2> SUFFICES ASSUME Single!Roll(s) PROVE Roll(s)
    OBVIOUS
  <2>1. PICK at \in seen[s].at .. month :
           /\ bal' = [Single!RolledRow(seen[s].row, seen[s].plan, at)
                        EXCEPT !.topupCredits = bal.topupCredits]
           /\ seen' = [seen EXCEPT ![s].at = at]
    BY DEF Single!Roll
  <2>2. bal' = [RolledRow(seen[s].row, seen[s].plan, at)
                  EXCEPT !.topupCredits = bal.topupCredits]
    BY <2>1, SingleRow
  <2> QED
    BY <2>1, <2>2, SingleRow DEF Single!Roll, Roll
<1>2. Single!RowAfterRoll(s) = RowAfterRoll(s)
  BY SingleRow DEF Single!RowAfterRoll, RowAfterRoll
<1>3. Single!RollLedger(s) => RollLedger(s)
  BY <1>2, SingleRow DEF Single!RollLedger, RollLedger, Single!Log, Log
<1>4. Single!RollGrant(s) => RollGrant(s)
  BY <1>2, SingleRow DEF Single!RollGrant, RollGrant, Single!Log, Log
<1>5. Single!Sync(s) => Sync(s)
  BY DEF Single!Sync, Sync
<1> QED
  BY <1>1, <1>3, <1>4, <1>5

LEMMA SingleActs ==
    ASSUME NEW s \in Sessions, Single!Act(s) PROVE Act(s)
<1> USE DEF Single!Goto, Goto, Single!db, db, Single!counters, counters, Single!clocks, clocks,
            Single!Log, Log
<1>1. Single!ChargeRefused(s) => ChargeRefused(s)
  BY SingleRow DEF Single!ChargeRefused, ChargeRefused
<1>2. Single!Charge(s) => Charge(s)
  BY SingleRow DEF Single!Charge, Charge
<1>3. Single!ChargeLedger(s) => ChargeLedger(s)
  BY SingleRow DEF Single!ChargeLedger, ChargeLedger
<1>4. Single!WorkDone(s) => WorkDone(s)
  BY DEF Single!WorkDone, WorkDone
<1>5. Single!WorkFailed(s) => WorkFailed(s)
  BY DEF Single!WorkFailed, WorkFailed
<1>6. Single!Refund(s) => Refund(s)
  BY SingleRow DEF Single!Refund, Refund
<1>7. Single!AddTopup(s) => AddTopup(s)
  BY SingleRow DEF Single!AddTopup, AddTopup
<1>8. Single!CreditLedger(s) => CreditLedger(s)
  BY SingleRow DEF Single!CreditLedger, CreditLedger
<1>9. Single!PlanUnchanged(s) => PlanUnchanged(s)
  BY DEF Single!PlanUnchanged, PlanUnchanged
<1>10. Single!ApplyPlanChange(s) => ApplyPlanChange(s)
  BY DEF Single!ApplyPlanChange, ApplyPlanChange
<1>11. Single!PlanLedger(s) => PlanLedger(s)
  BY SingleRow DEF Single!PlanLedger, PlanLedger
<1>12. Single!View(s) => View(s)
  BY DEF Single!View, View
<1> QED
  BY <1>1, <1>2, <1>3, <1>4, <1>5, <1>6, <1>7, <1>8, <1>9, <1>10, <1>11, <1>12
     DEF Single!Act, Act

LEMMA SingleIsUnbounded ==
    ASSUME MCPlans \subseteq Plans, Single!Next PROVE Unbounded
<1>1. PlanTasks \subseteq Task
  BY DEF PlanTasks, Charge3, Topup2, ToPro, ToFree, ToUnpaid, Task, Statuses, MCPlans
<1>2. ASSUME NEW s \in Sessions, Single!Begin(s) PROVE Begins(s)
  BY <1>1, <1>2 DEF Single!Begin, Begins, Single!Goto, Goto, Single!db, db
<1>3. ASSUME NEW s \in Sessions, Single!QueryFails(s) PROVE Fails(s)
  BY <1>3 DEF Single!QueryFails, Fails, Single!Queries, Queries, Single!Goto, Goto, Single!db, db
<1>4. Single!NextMonth => MonthEnds
  BY DEF Single!NextMonth, MonthEnds, Single!db, db
<1>5. ASSUME NEW s \in Sessions, Single!Step(s) PROVE Step(s)
  <2>1. Single!GetBalance(s) => GetBalance(s)
    BY SingleReads, SingleRolls DEF Single!GetBalance, GetBalance
  <2> QED
    BY <1>5, <2>1, SingleReads, SingleActs DEF Single!Step, Step
<1> QED
  BY <1>2, <1>3, <1>4, <1>5 DEF Single!Next, Unbounded

LEMMA AloneInTheWorlds ==
    ASSUME MCPlans \subseteq Plans
    PROVE  MCSpec => /\ BoughtSpentLastAlone
                     /\ PlanSwitchMintsNothingAlone
                     /\ ChangesLoggedAlone
<1> DEFINE Waits == \A s \in Sessions \ {First} : pc[s] = "idle"
           IInv == BillingInv /\ (world = "alone" => AloneInv /\ Waits)
           MCStep == [MCNext]_<<vars, world>>
<1>1. MCInit => IInv
  BY InitInv, AloneInit DEF MCInit, Init
<1>2. Waits => OneRequest
  BY DEF OneRequest
<1>3. MCStep => [Unbounded]_vars /\ (world' = "alone" => world = "alone")
  BY NextIsUnbounded, SingleIsUnbounded DEF MCNext, Alone
<1>4. MCStep /\ world = "alone" => Waits' \/ UNCHANGED vars
  BY DEF MCNext, Alone
<1>5. IInv /\ MCStep => IInv'
  <2> SUFFICES ASSUME IInv, MCStep PROVE IInv'
    OBVIOUS
  <2>1. BillingInv'
    BY <1>3, UnboundedInv
  <2>2. ASSUME world' = "alone" PROVE AloneInv' /\ Waits'
    <3>1. AloneInv /\ Waits /\ [Unbounded]_vars
      BY <1>3, <2>2
    <3>2. AloneInv'
      BY <1>2, <3>1, AloneStep
    <3>3. Waits'
      BY <1>3, <1>4, <2>2, <3>1 DEF vars
    <3> QED
      BY <3>2, <3>3
  <2> QED
    BY <2>1, <2>2
<1>6. IInv /\ MCStep => /\ [world = "alone" => SpendsBoughtLast]_vars
                        /\ [world = "alone" => SwitchMintsNothing]_vars
                        /\ [world = "alone" => LogsBalance]_vars
  BY <1>2, <1>3, AloneSteps
<1> QED
  BY <1>1, <1>5, <1>6, PTL
     DEF MCSpec, BoughtSpentLastAlone, PlanSwitchMintsNothingAlone, ChangesLoggedAlone

(* In the world of single requests bought credits go last, for any plans   *)
(* and credits and whatever the races of the other world.                  *)
THEOREM BoughtIsSpentLast == ASSUME MCPlans \subseteq Plans PROVE MCSpec => BoughtSpentLastAlone
  BY AloneInTheWorlds

(* There setPlan brings no credits into being: it forgets no use of the    *)
(* period and adds to no other bucket.                                     *)
THEOREM PlanSwitchIsNeutral == ASSUME MCPlans \subseteq Plans PROVE MCSpec => PlanSwitchMintsNothingAlone
  BY AloneInTheWorlds

(* There the balance_after of a charge, a top-up and a refund is what the  *)
(* user has, but for a refund to a row with more use than allowance.       *)
THEOREM LedgerIsTrue == ASSUME MCPlans \subseteq Plans PROVE MCSpec => ChangesLoggedAlone
  BY AloneInTheWorlds

=============================================================================
