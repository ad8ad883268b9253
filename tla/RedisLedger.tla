------------------------------ MODULE RedisLedger ------------------------------
(***************************************************************************)
(* Solve records, report claims and success accounting shared by several   *)
(* workers through Redis: RedisCostLedger (src/src/consumption/ledger.py), *)
(* RedisSuccessAccounting (accounting.py), the report routes               *)
(* (api/routes.py) and the outcome fan-out (services/outcome.py).          *)
(*                                                                         *)
(* A pipeline is one MULTI/EXEC, so it is one step; between two round      *)
(* trips of a call anything else may happen.  A worker has one call in     *)
(* flight: two calls of a worker meet in Redis as calls of two workers do, *)
(* and its migration is behind a lock of its own.  The lifetime counters   *)
(* (global, per client) move together, so there is one.  TTLs of seven     *)
(* days do not run out.                                                    *)
(***************************************************************************)
EXTENDS RankedIndex, FiniteSetsExt

CONSTANTS Workers, Tasks,
          Sinks,       \* learners of a verdict: the accounting, proxy health, session ...
          Legacy,      \* spend under the counter's old name before the upgrade
          MaxIndex,    \* max_records, as the bound of the report index
          MaxBuckets,  \* max_buckets
          MaxWrites,   \* bound on the records written
          MaxFailures  \* bound on the round trips that raise and workers that die

ASSUME LedgerAssumption ==
    /\ Legacy \in Nat /\ MaxIndex \in Nat \ {0} /\ MaxBuckets \in Nat \ {0}
    /\ MaxWrites \in Nat /\ MaxFailures \in Nat /\ "accounting" \in Sinks
    /\ IsFiniteSet(Tasks)

Absent == -1
Sides == {"opt", "real"}

VARIABLES
    old,       \* {prefix}:total:global, the legacy counter, or Absent
    total,     \* {prefix}:global, or Absent
    blob,      \* {prefix}:by_task: number of the record kept for a task, 0 for none
    score,     \* {prefix}:by_task_index
    claimed,   \* tasks with a {prefix}:reported key
    writes,    \* accounting index: lifetime writes of a bucket; its list goes with it
    migrated,  \* workers whose _legacy_migration_done is set
    call,      \* the call a worker has in flight
    heard,     \* heard[t][s]: verdicts of callers on task t that sink s was given
    history    \* what happened, for the properties only

redisVars == <<old, total, blob, score, claimed, writes>>
vars == <<redisVars, migrated, call, heard, history>>

Nothing == [at |-> "idle", op |-> "record", task |-> "none",
            seen |-> 0, gone |-> {}]

Init ==
    /\ old = Legacy /\ total = Absent
    /\ blob = [t \in Tasks |-> 0] /\ score = [t \in Tasks |-> 0]
    /\ claimed = {} /\ writes = [k \in Sides |-> 0]
    /\ migrated = {}
    /\ call = [w \in Workers |-> Nothing]
    /\ heard = [t \in Tasks |-> [s \in Sinks |-> 0]]
    /\ history = [records |-> 0, finders |-> 0, failures |-> 0]

Value(counter) == IF counter = Absent THEN 0 ELSE counter

At(w, step) == call[w].at = step
Step(w, step, seen, gone) ==
    call' = [call EXCEPT ![w].at = step, ![w].seen = seen, ![w].gone = gone]
Goto(w, step) == Step(w, step, 0, {})
Return(w) == call' = [call EXCEPT ![w] = Nothing]

Body(op) == IF op = "record" THEN "record" ELSE "lookup"

\* A call arrives: a solve records an attempt of t, or a caller reports on t.  Either
\* starts with _ensure_legacy_totals_migrated.
Arrive(w) ==
    /\ At(w, "idle")
    /\ \E t \in Tasks, op \in {"record", "report"} :
          /\ op = "record" => history.records < MaxWrites
          /\ call' = [call EXCEPT ![w] = [Nothing EXCEPT
                        !.at = IF w \in migrated THEN Body(op) ELSE "first", !.op = op, !.task = t]]
    /\ UNCHANGED <<redisVars, migrated, heard, history>>

-----------------------------------------------------------------------------
(* _migrate_legacy_totals: GET old, GET new, then SET if absent and DEL.     *)

\* Nothing under the old name.
SkipMigration(w) ==
    /\ At(w, "first") /\ old = Absent
    /\ migrated' = migrated \cup {w}
    /\ Goto(w, Body(call[w].op))
    /\ UNCHANGED <<redisVars, heard, history>>

ReadOld(w) ==
    /\ At(w, "first") /\ old # Absent
    /\ Step(w, "readNew", old, {})
    /\ history' = [history EXCEPT !.finders = @ + 1]
    /\ UNCHANGED <<redisVars, migrated, heard>>

\* ... to be copied when there is none under the new name.
ReadNew(w) ==
    /\ At(w, "readNew")
    /\ Step(w, IF total = Absent THEN "copy" ELSE "drop", call[w].seen, {})
    /\ UNCHANGED <<redisVars, migrated, heard, history>>

\* Mutant: the legacy key is left behind.
WriteNewOnly(w) ==
    /\ At(w, "copy") \/ At(w, "drop")
    /\ total' = IF At(w, "copy") THEN call[w].seen ELSE total
    /\ migrated' = migrated \cup {w}
    /\ Goto(w, Body(call[w].op))
    /\ UNCHANGED <<old, blob, score, claimed, writes, heard, history>>

WriteNew(w) ==
    /\ At(w, "copy") \/ At(w, "drop")
    /\ total' = IF At(w, "copy") THEN call[w].seen ELSE total
    /\ old' = Absent
    /\ migrated' = migrated \cup {w}
    /\ Goto(w, Body(call[w].op))
    /\ UNCHANGED <<blob, score, claimed, writes, heard, history>>

Fails ==
    /\ history.failures < MaxFailures
    /\ history' = [history EXCEPT !.failures = @ + 1]

\* A round trip raises: the migration counts as done all the same.
MigrationFails(w) ==
    /\ call[w].at \in {"first", "readNew", "copy", "drop"} /\ Fails
    /\ migrated' = migrated \cup {w}
    /\ Goto(w, Body(call[w].op))
    /\ UNCHANGED <<redisVars, heard>>

-----------------------------------------------------------------------------
(* record: one pipeline, then the eviction from the report index; then       *)
(* _record of browser_solver.py counts the outcome in the accounting.        *)

\* One unit of spend.  The score is the clock read before the pipeline was sent: it
\* may be that of the record before.
RecordPipeline(w) ==
    LET t == call[w].task
        n == history.records + 1
    IN
    /\ At(w, "record")
    /\ \E clock \in {n, n - 1} \ {0} : score' = [score EXCEPT ![t] = clock]
    /\ history' = [history EXCEPT !.records = n]
    /\ total' = Value(total) + 1
    /\ blob' = [blob EXCEPT ![t] = n]
    /\ LET excess == Overflow(score', MaxIndex)
       IN IF excess > 0 THEN Step(w, "trim", excess, {}) ELSE Goto(w, "count")
    /\ UNCHANGED <<old, claimed, writes, migrated, heard>>

\* ZRANGE of _evict_stale_tasks
PickStale(w) ==
    /\ At(w, "trim")
    /\ \E gone \in VictimsOf(score, call[w].seen, call[w].task) :
          IF gone = {} THEN Goto(w, "count") ELSE Step(w, "evict", 0, gone)
    /\ UNCHANGED <<redisVars, migrated, heard, history>>

EvictStale(w) ==
    /\ At(w, "evict")
    /\ blob' = [t \in Tasks |-> IF t \in call[w].gone THEN 0 ELSE blob[t]]
    /\ score' = [t \in Tasks |-> IF t \in call[w].gone THEN 0 ELSE score[t]]
    /\ Goto(w, "count")
    /\ UNCHANGED <<old, total, claimed, writes, migrated, heard, history>>

\* _push: a record goes into the token-obtained bucket, a verdict into the real one.
Side(w) == IF call[w].op = "record" THEN "opt" ELSE "real"

Push(w) ==
    /\ At(w, "count")
    /\ writes' = [writes EXCEPT ![Side(w)] = @ + 1]
    /\ LET excess == Overflow(writes', MaxBuckets)
       IN IF excess > 0 THEN Step(w, "rank", excess, {}) ELSE Return(w)
    /\ UNCHANGED <<old, total, blob, score, claimed, migrated, heard, history>>

\* _evict_lowest
PickLowest(w) ==
    /\ At(w, "rank")
    /\ \E gone \in VictimsOf(writes, call[w].seen, Side(w)) :
          IF gone = {} THEN Return(w) ELSE Step(w, "forget", 0, gone)
    /\ UNCHANGED <<redisVars, migrated, heard, history>>

ForgetLowest(w) ==
    /\ At(w, "forget")
    /\ writes' = [k \in Sides |-> IF k \in call[w].gone THEN 0 ELSE writes[k]]
    /\ Return(w)
    /\ UNCHANGED <<old, total, blob, score, claimed, migrated, heard, history>>

\* A round trip raises; _record and the fan-out swallow it, the route answers an error.
CallFails(w) ==
    /\ call[w].at \in {"record", "trim", "evict", "count", "rank", "forget", "lookup", "get", "setnx"}
    /\ Fails
    /\ Return(w)
    /\ UNCHANGED <<redisVars, migrated, heard>>

-----------------------------------------------------------------------------
(* _report_outcome: the record, its owner, the claim, the fan-out.           *)

\* get_by_task_id: without a record, or when the caller does not own it, that is all.
Lookup(w) ==
    /\ At(w, "lookup")
    /\ Return(w) \/ (blob[call[w].task] # 0 /\ Goto(w, "get"))
    /\ UNCHANGED <<redisVars, migrated, heard, history>>

\* try_claim_reported: HGET
ClaimGet(w) ==
    LET t == call[w].task IN
    /\ At(w, "get")
    /\ IF blob[t] = 0 THEN Return(w) ELSE Step(w, "setnx", blob[t], {})
    /\ UNCHANGED <<redisVars, migrated, heard, history>>

\* Mutant: mark_reported as it was, the flag read with the blob and written later.
ClaimSetAlways(w) ==
    /\ At(w, "setnx")
    /\ claimed' = claimed \cup {call[w].task}
    /\ Step(w, "sync", call[w].seen, {})
    /\ UNCHANGED <<old, total, blob, score, writes, migrated, heard, history>>

\* SET NX
ClaimSet(w) ==
    /\ At(w, "setnx")
    /\ claimed' = claimed \cup {call[w].task}
    /\ IF call[w].task \in claimed THEN Return(w) ELSE Step(w, "sync", call[w].seen, {})
    /\ UNCHANGED <<old, total, blob, score, writes, migrated, heard, history>>

\* The blob that was read is written back with its flag; a failure is swallowed.
SyncBlob(w) ==
    /\ At(w, "sync")
    /\ blob' \in {[blob EXCEPT ![call[w].task] = call[w].seen], blob}
    /\ Goto(w, "fan")
    /\ UNCHANGED <<old, total, score, claimed, writes, migrated, heard, history>>

\* record_real_outcome: every sink is guarded on its own, so any of them may miss it.
\* The accounting sink is the push that follows.
FanOut(w) ==
    /\ At(w, "fan")
    /\ \E reached \in SUBSET Sinks :
          /\ heard' = [heard EXCEPT ![call[w].task] =
                         [s \in Sinks |-> @[s] + (IF s \in reached THEN 1 ELSE 0)]]
          /\ IF "accounting" \in reached THEN Goto(w, "count") ELSE Return(w)
    /\ UNCHANGED <<redisVars, migrated, history>>

-----------------------------------------------------------------------------
\* A worker dies and boots again.
Crash(w) ==
    /\ Fails
    /\ migrated' = migrated \ {w}
    /\ Return(w)
    /\ UNCHANGED <<redisVars, heard>>

Next == \E w \in Workers :
    \/ Arrive(w)
    \/ SkipMigration(w) \/ ReadOld(w) \/ ReadNew(w) \/ WriteNew(w) \/ MigrationFails(w)
    \/ RecordPipeline(w) \/ PickStale(w) \/ EvictStale(w)
    \/ Push(w) \/ PickLowest(w) \/ ForgetLowest(w) \/ CallFails(w)
    \/ Lookup(w) \/ ClaimGet(w) \/ ClaimSet(w) \/ SyncBlob(w) \/ FanOut(w)
    \/ Crash(w)

Spec == Init /\ [][Next]_vars

-----------------------------------------------------------------------------
(* Whatever reports race, and whatever is evicted, recorded again or written *)
(* back meanwhile, no sink hears two callers' verdicts on one task           *)
(* (try_claim_reported: "exactly one concurrent caller wins").               *)
OneVerdictPerTask == \A t \in Tasks, s \in Sinks : heard[t][s] <= 1

(* As long as one worker at most finds the legacy counter, and no round trip *)
(* fails, lifetime spend is the legacy spend plus every record, at each      *)
(* moment of the migration (_copy_if_absent, record).                        *)
SpendAddsUp ==
    (history.finders <= 1 /\ history.failures = 0) =>
        Value(old) + Value(total) = Legacy + history.records

(* Once no writer is behind with its eviction both indexes are back within   *)
(* their bounds, whoever evicted what in which order (_evict_stale_tasks,    *)
(* _evict_lowest).                                                           *)
IndexCatchesUp ==
    (history.failures = 0 /\ \A w \in Workers : call[w].at \notin {"trim", "evict", "rank", "forget"}) =>
        /\ Overflow(score, MaxIndex) <= 0
        /\ Overflow(writes, MaxBuckets) <= 0

(* "a new key is only written when absent, so spend already recorded under   *)
(* the new name is never overwritten" (_migrate_legacy_totals).              *)
SpendNeverOverwritten == [][Value(total') >= Value(total)]_vars
=============================================================================
