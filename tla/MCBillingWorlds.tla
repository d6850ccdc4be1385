-------------------------- MODULE MCBillingWorlds --------------------------
(* Two instances of BillingService in one graph, told apart by world: two  *)
(* requests that race, and one request at a time that goes through more    *)
(* tasks and more months.                                                  *)
EXTENDS MCBilling

CONSTANT First   \* the session of the requests that run alone

VARIABLE world

Single == INSTANCE BillingService
            WITH Tasks <- PlanTasks, MaxTasks <- 3, MaxMonth <- 3, MaxFailures <- 0

MCInit == Init /\ world \in {"races", "alone"}

Alone == Single!Next /\ \A s \in Sessions \ {First} : pc'[s] = "idle"

MCNext ==
    /\ world' = world
    /\ \/ world = "races" /\ Next
       \/ world = "alone" /\ Alone

MCSpec == MCInit /\ [][MCNext]_<<vars, world>> /\ Fairness

(* Without a race getBalance never hands out a row whose period is over    *)
(* when it looked at the clock, or whose rollover has expired.             *)
CurrentPeriodOfferedAlone == world = "alone" => CurrentPeriodOffered

(* Without a race a step that lowers the bought credits leaves nothing in  *)
(* the month's allowance and nothing in the rollover.                      *)
BoughtSpentLastAlone == [][world = "alone" => SpendsBoughtLast]_vars

(* Without a race switching plans back and forth produces no credits.      *)
PlanSwitchMintsNothingAlone == [][world = "alone" => SwitchMintsNothing]_vars

(* Without a race the ledger's balance_after is what is available.         *)
ChangesLoggedAlone == [][world = "alone" => LogsBalance]_vars

=============================================================================
