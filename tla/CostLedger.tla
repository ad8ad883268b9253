------------------------------ MODULE CostLedger ------------------------------
(***************************************************************************)
(* The in-memory ledger of solve attempts: class CostLedger of             *)
(* src/src/consumption/ledger.py.  A record is an index into book, the     *)
(* objects created so far; the ring keeps the last MaxRecords of them, a   *)
(* task index finds those of one task, and the totals cover them all.      *)
(* Every operation runs under _lock without an await, so it is one step.   *)
(***************************************************************************)
EXTENDS Integers, Sequences, SequencesExt

CONSTANTS Tasks, Payers, MaxRecords

ASSUME LedgerAssumption == MaxRecords \in Nat \ {0}

VARIABLES book,         \* SolveRecord objects in the order of their created_at
          ring,         \* _records
          byTask,       \* _by_task
          totalGlobal,  \* _total_global
          totalBy       \* _total_by_client

ledgerVars == <<book, ring, byTask, totalGlobal, totalBy>>

LedgerInit ==
    /\ book = <<>> /\ ring = <<>>
    /\ byTask = [t \in Tasks |-> <<>>]
    /\ totalGlobal = 0
    /\ totalBy = [c \in Payers |-> 0]

Full == Len(ring) = MaxRecords

\* Mutant: the newest entry of the evicted record's task is dropped.
DroppedNewest(index, n) == [index EXCEPT ![book[n].task] = Front(@)]

\* _drop_task_entry: the evicted record leaves the bucket of its task, where
\* the scan first meets it.
Dropped(index, n) ==
    LET bucket == index[book[n].task] IN
    IF n \notin Range(bucket) THEN index
    ELSE [index EXCEPT ![book[n].task] =
             RemoveAt(bucket, Min({i \in DOMAIN bucket : bucket[i] = n}))]

\* Mutant: the totals follow the ring.
RecordForgetting(t, c, cost) ==
    LET n == Len(book) + 1
        lost == IF Full THEN book[Head(ring)].cost ELSE 0
    IN
    /\ book' = Append(book, [task |-> t, client |-> c, cost |-> cost, reported |-> FALSE])
    /\ ring' = Append(IF Full THEN Tail(ring) ELSE ring, n)
    /\ byTask' = [IF Full THEN Dropped(byTask, Head(ring)) ELSE byTask
                     EXCEPT ![t] = Append(@, n)]
    /\ totalGlobal' = totalGlobal + cost - lost
    /\ totalBy' = [[totalBy EXCEPT ![c] = @ + cost]
                      EXCEPT ![IF Full THEN book[Head(ring)].client ELSE c] = @ - lost]

\* record
Record(t, c, cost) ==
    LET n == Len(book) + 1 IN
    /\ book' = Append(book, [task |-> t, client |-> c, cost |-> cost, reported |-> FALSE])
    /\ ring' = Append(IF Full THEN Tail(ring) ELSE ring, n)
    /\ byTask' = [IF Full THEN Dropped(byTask, Head(ring)) ELSE byTask
                     EXCEPT ![t] = Append(@, n)]
    /\ totalGlobal' = totalGlobal + cost
    /\ totalBy' = [totalBy EXCEPT ![c] = @ + cost]

\* total_cost_usd
Total == totalGlobal
TotalOf(c) == totalBy[c]

\* task_cost_usd: the retained attempts of the task.
TaskCost(t) == SumFunction([i \in DOMAIN byTask[t] |-> book[byTask[t][i]].cost])

\* get_by_task_id, _best_task_record: the latest retained record, 0 for none.
Latest(t) == IF byTask[t] = <<>> THEN 0 ELSE Last(byTask[t])

\* try_claim_reported, when it returns True
Claim(t) ==
    /\ Latest(t) # 0 /\ ~ book[Latest(t)].reported
    /\ book' = [book EXCEPT ![Latest(t)].reported = TRUE]
    /\ UNCHANGED <<ring, byTask, totalGlobal, totalBy>>

-----------------------------------------------------------------------------
(* The index answers what a scan of the ring would, in the same order: an    *)
(* eviction takes exactly the evicted record out of its task's bucket, so    *)
(* settlement sums and a report claims the retained attempts of that task    *)
(* and no others (_index_task_entry, _drop_task_entry).                      *)
IndexMatchesRing ==
    \A t \in Tasks :
        /\ Range(byTask[t]) = {n \in Range(ring) : book[n].task = t}
        /\ \A i, j \in DOMAIN byTask[t] : i < j => byTask[t][i] < byTask[t][j]
=============================================================================
