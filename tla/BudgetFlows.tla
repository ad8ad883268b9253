------------------------------ MODULE BudgetFlows ------------------------------
(***************************************************************************)
(* The budget guard over the in-memory ledger, under any callers: flows    *)
(* that reserve an estimate, record attempts in the ledger while they run, *)
(* settle at what the ledger still has for them, and are reported by their *)
(* callers, in any order (the use task_manager.py makes of the guard is in *)
(* TaskManager).  The guard's `recorded` is what a flow really spent; the  *)
(* guard itself sees only the ledger's totals.                             *)
(***************************************************************************)
EXTENDS BudgetGuard, CostLedger

CONSTANTS Estimates,  \* est_cost_usd of the flows
          MaxAttempts \* bound on the attempts recorded

\* The ledger files an attempt under its flow and the flow's client.
ASSUME FlowAssumption ==
    /\ Estimates \subseteq Nat /\ MaxAttempts \in Nat
    /\ Tasks = Requests /\ Payers = Clients

Reserve(h) ==
    \/ \E c \in Clients, est \in Estimates :
          ReserveFree(h, c, est) \/ CheckGlobalAt(h, c, est, Total)
    \/ CheckClientAt(h, TotalOf(hold[h].client))
    \/ hold[h].state = "checking" /\ ReserveRaises(h)

\* An attempt of the flow ends; its cost is what the models charged, or nothing.
\* Bound: a flow spends no more than it reserved.
Attempt(h) ==
    /\ Open(h) /\ Len(book) < MaxAttempts
    /\ \E cost \in {0, 1} :
          /\ recorded[h] + cost <= hold[h].est
          /\ RecordSpend(h, cost)
          /\ Record(h, hold[h].client, cost)

\* The actual cost is what the ledger has for the flow, or 0 when it cannot say.
SettleFlow(h) == Settle(h, TaskCost(h)) \/ Settle(h, 0)

FlowNext == \E h \in Requests :
    \/ Reserve(h) /\ UNCHANGED ledgerVars
    \/ Attempt(h)
    \/ SettleFlow(h) /\ UNCHANGED ledgerVars
    \/ Claim(h) /\ UNCHANGED budgetVars

flowVars == <<budgetVars, ledgerVars>>
FlowInit == BudgetInit /\ LedgerInit
FlowSpec == FlowInit /\ [][FlowNext]_flowVars

-----------------------------------------------------------------------------
(* Whatever is settled has been recorded: a flow settles once, and at no     *)
(* more than its attempts cost, however many of them the ring has evicted.   *)
(* So the larger of the two figures is the recorded spend, and _decide       *)
(* counts nothing twice (BudgetGuard.__init__: "Taking the max of the two    *)
(* avoids double counting once the record is written").                      *)
SettledIsRecorded ==
    /\ settledGlobal <= Total
    /\ \A c \in Clients : settledBy[c] <= TotalOf(c)
=============================================================================
