------------------------------ MODULE BudgetGuard ------------------------------
(***************************************************************************)
(* Admission holds over the cost ledger: src/src/consumption/budget.py.    *)
(*                                                                         *)
(* Money is counted in whole units.  A hold is the Reservation the guard   *)
(* hands out; h names the flow that took it (one admitted task, or one     *)
(* admission that never became a task).  reserve awaits the ledger twice   *)
(* under the guard's lock; spend may be recorded in between.               *)
(***************************************************************************)
EXTENDS Integers, FiniteSets, Functions

CONSTANTS Requests,    \* admission requests; each takes at most one reservation
          Clients,     \* client keys
          GlobalCap,   \* global_cap_usd
          ClientCap    \* per_client_cap_usd

ASSUME CapsAssumption ==
    /\ IsFiniteSet(Requests) /\ Clients # {}
    /\ GlobalCap \in Nat /\ ClientCap \in Nat

VARIABLES hold,            \* hold[h]: the Reservation of request h
          inflightGlobal,  \* _inflight_global
          inflightBy,      \* _inflight_by_client
          settledGlobal,   \* _settled_global
          settledBy,       \* _settled_by_client
          recorded         \* recorded[h]: what the ledger holds for request h

accountVars == <<inflightGlobal, inflightBy, settledGlobal, settledBy, recorded>>
budgetVars == <<hold, accountVars>>

HoldState == {"none", "checking", "denied", "open", "settled"}

BudgetTypeOK ==
    /\ \A h \in Requests :
          /\ hold[h].state \in HoldState
          /\ hold[h].client \in Clients
          /\ hold[h].est \in Nat
    /\ inflightGlobal \in Nat
    /\ inflightBy \in [Clients -> Nat]
    /\ settledGlobal \in Nat
    /\ settledBy \in [Clients -> Nat]
    /\ recorded \in [Requests -> Nat]

BudgetInit ==
    /\ hold = [h \in Requests |->
                 [state |-> "none", client |-> CHOOSE c \in Clients : TRUE, est |-> 0]]
    /\ inflightGlobal = 0
    /\ inflightBy = [c \in Clients |-> 0]
    /\ settledGlobal = 0
    /\ settledBy = [c \in Clients |-> 0]
    /\ recorded = [h \in Requests |-> 0]

HoldsOf(c) == {h \in Requests : hold[h].client = c}

Open(h) == hold[h].state = "open"

\* Reservation.est_cost_usd of every flow.
Held == [h \in Requests |-> hold[h].est]

\* The flow that holds _lock across an await: between its two ledger reads.
Locked == \E h \in Requests : hold[h].state = "checking"

\* total_cost_usd(), total_cost_usd(client): lifetime spend, recorded flow by flow.
LedgerTotal == SumFunctionOnSet(recorded, Requests)
LedgerTotalOf(c) == SumFunctionOnSet(recorded, HoldsOf(c))

Larger(a, b) == IF a > b THEN a ELSE b

-----------------------------------------------------------------------------
(* _decide: spent + in-flight + estimate against the global, then the client *)
(* cap, each when the ledger's reply arrives.                                *)

\* spent is what the ledger's total_cost_usd answers.
GlobalRoom(est, spent) ==
    Larger(spent, settledGlobal) + inflightGlobal + est <= GlobalCap

ClientRoom(c, est, spent) ==
    Larger(spent, settledBy[c]) + inflightBy[c] + est <= ClientCap

Issue(h, state, c, est) ==
    hold' = [hold EXCEPT ![h] = [state |-> state, client |-> c, est |-> est]]

\* A free flow needs no hold and no lock.
ReserveFree(h, c, est) ==
    /\ hold[h].state = "none" /\ est <= 0
    /\ Issue(h, "open", c, 0)
    /\ UNCHANGED accountVars

\* reserve up to the reply for the global total.
CheckGlobalAt(h, c, est, spent) ==
    /\ hold[h].state = "none" /\ est > 0 /\ ~ Locked
    /\ Issue(h, IF GlobalRoom(est, spent) THEN "checking" ELSE "denied", c, est)
    /\ UNCHANGED accountVars

\* ... when the ledger has lost nothing.
CheckGlobal(h, c, est) == CheckGlobalAt(h, c, est, LedgerTotal)

\* The reply for the client's total; booking follows without an await.
CheckClientAt(h, spent) ==
    LET c == hold[h].client  est == hold[h].est
        allowed == ClientRoom(c, est, spent)
    IN
    /\ hold[h].state = "checking"
    /\ Issue(h, IF allowed THEN "open" ELSE "denied", c, est)
    /\ inflightGlobal' = inflightGlobal + (IF allowed THEN est ELSE 0)
    /\ inflightBy' = [inflightBy EXCEPT ![c] = @ + (IF allowed THEN est ELSE 0)]
    /\ UNCHANGED <<settledGlobal, settledBy, recorded>>

CheckClient(h) == CheckClientAt(h, LedgerTotalOf(hold[h].client))

\* The ledger raises under reserve, which lets go of the lock.
ReserveRaises(h) ==
    /\ hold[h].state \in {"none", "checking"}
    /\ Issue(h, "none", hold[h].client, 0)
    /\ UNCHANGED accountVars

\* _release_inflight clamps at zero.
Released(total, est) == Larger(0, total - est)

\* Mutant: the reservation is not marked settled.
SettleTwice(h, actual) ==
    /\ hold' = hold
    /\ inflightGlobal' = Released(inflightGlobal, hold[h].est)
    /\ inflightBy' = [inflightBy EXCEPT ![hold[h].client] = Released(@, hold[h].est)]
    /\ settledGlobal' = settledGlobal + actual
    /\ settledBy' = [settledBy EXCEPT ![hold[h].client] = @ + actual]
    /\ UNCHANGED recorded

\* settle: waits for the lock; a no-op for a denied or already settled reservation.
Settle(h, actual) ==
    \/ /\ Open(h) /\ ~ Locked
       /\ hold' = [hold EXCEPT ![h].state = "settled"]
       /\ inflightGlobal' = Released(inflightGlobal, hold[h].est)
       /\ inflightBy' = [inflightBy EXCEPT ![hold[h].client] = Released(@, hold[h].est)]
       /\ settledGlobal' = settledGlobal + actual
       /\ settledBy' = [settledBy EXCEPT ![hold[h].client] = @ + actual]
       /\ UNCHANGED recorded
    \/ /\ ~ Open(h)
       /\ UNCHANGED budgetVars

\* The ledger books spend of a running flow (CostLedger.record, awaited in the solve).
RecordSpend(h, amount) ==
    /\ recorded' = [recorded EXCEPT ![h] = @ + amount]
    /\ UNCHANGED <<hold, inflightGlobal, inflightBy, settledGlobal, settledBy>>

-----------------------------------------------------------------------------
(* The in-flight totals are exactly the open holds, globally and per client: *)
(* no admission, coalesced retry, timeout or cancellation releases a hold    *)
(* twice or books one it never took (reserve / settle / _release_inflight).  *)
InflightIsOpenHolds ==
    /\ inflightGlobal = SumFunctionOnSet(Held, {h \in Requests : Open(h)})
    /\ \A c \in Clients :
          inflightBy[c] = SumFunctionOnSet(Held, {h \in HoldsOf(c) : Open(h)})

(* When no flow spends more than it reserved, recorded spend stays within    *)
(* both caps whatever the order of concurrent reserves, records and settles  *)
(* ("check the cap against spent + in-flight", reserve's docstring).         *)
SpendWithinCaps ==
    (\A h \in Requests : recorded[h] <= hold[h].est) =>
        /\ LedgerTotal <= GlobalCap
        /\ \A c \in Clients : LedgerTotalOf(c) <= ClientCap
=============================================================================
