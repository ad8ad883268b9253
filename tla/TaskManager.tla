------------------------------ MODULE TaskManager ------------------------------
(***************************************************************************)
(* Admission, execution, expiry and persistence of tasks on one or more    *)
(* workers sharing a Redis store: src/src/services/task_manager.py over    *)
(* src/src/orchestration/store.py, with the budget holds of BudgetGuard.   *)
(*                                                                         *)
(* asyncio runs a coroutine from one await to the next without             *)
(* interruption, so an action is the code between two awaits.  A request   *)
(* r is one acreate_task coroutine; the uuid it draws for its task is r    *)
(* itself, so r also names the task it may admit and that task's runner.   *)
(***************************************************************************)
EXTENDS BudgetGuard

CONSTANTS Workers, Keys, NoKey, NoTask,
          Shapes,         \* the requests a client may send (records, see ShapeOK)
          Pools,          \* the four execution semaphores
          PoolSize,       \* PoolSize[p]: permits of semaphore p
          CategoryBudget, \* _category_budgets
          QueueMaxSize,   \* queue_max_size, the global backstop
          Estimate,       \* budget_task_estimate_usd
          SolveTimeout, TaskTTL, ClaimTTL,  \* clock units
          MaxClock,       \* bound on the modelled time
          Outages,        \* which backends may fail: "budget", "claim", "write"
          MaxFaults       \* bound on the number of failed backend calls

ShapeOK(s) ==
    /\ s.worker \in Workers /\ s.client \in Clients
    /\ s.key \in Keys \cup {NoKey}
    /\ s.egress \in {"vision", "proxyless", "task", "pool", "auto", "unsupported"}

ASSUME TaskAssumption ==
    /\ \A s \in Shapes : ShapeOK(s)
    /\ {SolveTimeout, TaskTTL, ClaimTTL, Estimate, MaxClock, MaxFaults} \subseteq Nat
    /\ QueueMaxSize \in Nat /\ NoTask \notin Requests /\ NoKey \notin Keys
    /\ Shapes # {} /\ {"vision", "proxyless", "task", "pool"} \subseteq Pools
    /\ Requests \cap {"none", "full", "overbudget", "conflict"} = {}

VARIABLES clock,      \* coarse time, for deadlines and TTLs
          faults,     \* backend calls that have failed so far
          up,         \* up[w]: "up", "stopping" or "down"
          shape,      \* shape[r]: what request r asked for
          pc,         \* pc[r]: where acreate_task of r stands
          answer,     \* answer[r]: the id or the rejection r ends with
          table,      \* _tasks of every worker (a task sits on its shape's worker)
          idem,       \* idem[w][k]: _idempotency of worker w
          status,     \* status[t]: Task.status
          born,       \* born[t]: created_at / admitted_at
          runner,     \* runner[t]: where _process_task of t stands
          slot,       \* slot[t]: the semaphore the runner of t was routed to
          cancelled,  \* tasks whose runner has a pending CancelledError
          deleting,   \* fire-and-forget store deletes not yet carried out
          store,      \* store[t]: the Redis record, or NoRecord
          claims      \* claims[k]: the Redis idempotency claim, or NoClaim

taskVars == <<table, idem, status, born, runner, slot, cancelled>>
redisVars == <<deleting, store, claims>>
vars == <<clock, faults, up, shape, pc, answer, taskVars, redisVars, budgetVars>>

NoRecord == [rev |-> 0, status |-> "missing"]
NoClaim == [owner |-> NoTask, expires |-> 0]
NoShape == CHOOSE s \in Shapes : TRUE

Rejections == {"none", "full", "overbudget", "conflict"}
RequestPC == {"idle", "reserving", "claiming", "reading", "releasing",
              "mirror_get", "mirror_set", "answered"}
RunnerPC == {"none", "spawned", "queued", "solving", "settling",
             "final_get", "final_set", "done", "cut"}

TypeOK ==
    /\ BudgetTypeOK
    /\ clock \in 0..MaxClock /\ faults \in 0..MaxFaults
    /\ up \in [Workers -> {"up", "stopping", "down"}]
    /\ shape \in [Requests -> Shapes]
    /\ pc \in [Requests -> RequestPC]
    /\ answer \in [Requests -> Requests \cup Rejections]
    /\ table \subseteq Requests /\ cancelled \subseteq Requests
    /\ deleting \subseteq Requests
    /\ idem \in [Workers -> [Keys -> Requests \cup {NoTask}]]
    /\ status \in [Requests -> {"none", "processing", "ready", "failed"}]
    /\ born \in [Requests -> 0..MaxClock]
    /\ runner \in [Requests -> RunnerPC]
    /\ slot \in [Requests -> Pools]
    /\ \A t \in Requests : store[t].rev \in 0..2
    /\ \A k \in Keys : claims[k].owner \in Requests \cup {NoTask}

Init ==
    /\ BudgetInit
    /\ clock = 0 /\ faults = 0
    /\ up = [w \in Workers |-> "up"]
    /\ shape = [r \in Requests |-> NoShape]
    /\ pc = [r \in Requests |-> "idle"]
    /\ answer = [r \in Requests |-> "none"]
    /\ table = {} /\ cancelled = {} /\ deleting = {}
    /\ idem = [w \in Workers |-> [k \in Keys |-> NoTask]]
    /\ status = [r \in Requests |-> "none"]
    /\ born = [r \in Requests |-> 0]
    /\ runner = [r \in Requests |-> "none"]
    /\ slot = [r \in Requests |-> CHOOSE p \in Pools : TRUE]
    /\ store = [r \in Requests |-> NoRecord]
    /\ claims = [k \in Keys |-> NoClaim]

-----------------------------------------------------------------------------
(* Time, liveness of runners, capacity *)

Expired(t) == clock - born[t] > TaskTTL
Overdue(t) == clock - born[t] >= SolveTimeout
Home(t) == shape[t].worker
RunnerLive(t) == runner[t] \notin {"none", "done", "cut"}
ExpiredOn(w) == {t \in table : Home(t) = w /\ Expired(t)}

\* A call to a backend that is out: it raises and the code goes on without it.
Fails(backend) == /\ backend \in Outages /\ faults < MaxFaults
                  /\ faults' = faults + 1

\* _category_of: the registry's category of a task type.
Category(s) == IF s.egress = "vision" THEN "vision" ELSE "browser"

\* _fingerprints_conflict: only two known fingerprints can conflict.
Conflict(s, t) == s.payload # "none" /\ shape[t].payload # "none"
                  /\ s.payload # shape[t].payload

\* _inflight_count and _inflight_for_category over a table.
Inflight(tab, w) == {t \in tab : Home(t) = w /\ status[t] = "processing"}
InflightIn(tab, w, cat) == {t \in Inflight(tab, w) : Category(shape[t]) = cat}

\* _check_admission
AtCapacity(tab, s) ==
    \/ QueueMaxSize > 0 /\ Cardinality(Inflight(tab, s.worker)) >= QueueMaxSize
    \/ /\ CategoryBudget[Category(s)] > 0
       /\ Cardinality(InflightIn(tab, s.worker, Category(s)))
             >= CategoryBudget[Category(s)]

\* _semaphore_for: "auto" without a task proxy peeks at the proxy pool.
SemaphoresFor(s) ==
    IF s.egress = "auto" THEN {"pool", "proxyless"} ELSE {s.egress}

\* Mutant: a runner that fails in its slot does not give the permit back.
OccupantsLeaked(p, w) ==
    {t \in Requests : slot[t] = p /\ Home(t) = w /\ shape[t].egress # "unsupported"
                       /\ runner[t] # "queued" /\ (runner[t] = "solving" \/ status[t] = "failed")}

\* Who holds a permit: `async with semaphore` gives it back however the solve ends.
Occupants(p, w) == {t \in Requests : runner[t] = "solving" /\ slot[t] = p /\ Home(t) = w}

\* _cleanup_expired: cancel, forget, unmap and schedule the deletes.
Sweep(w) ==
    LET gone == ExpiredOn(w) IN
    /\ table' = table \ gone
    /\ cancelled' = cancelled \cup {t \in gone : RunnerLive(t)}
    /\ idem' = [idem EXCEPT ![w] =
                  [k \in Keys |-> IF \E t \in gone : shape[t].key = k
                                  THEN NoTask ELSE @[k]]]
    /\ deleting' = deleting \cup gone

-----------------------------------------------------------------------------
(* acreate_task *)

Answer(r, a) == /\ answer' = [answer EXCEPT ![r] = a]
                /\ pc' = [pc EXCEPT ![r] = "answered"]
Goto(r, step) == pc' = [pc EXCEPT ![r] = step] /\ UNCHANGED answer

\* Up to the first await: sweep, coalesce locally, check capacity.
Submit(r, s) ==
    LET prior == IF s.key = NoKey THEN NoTask ELSE idem'[s.worker][s.key] IN
    /\ pc[r] = "idle" /\ up[s.worker] = "up"
    /\ shape' = [shape EXCEPT ![r] = s]
    /\ Sweep(s.worker)
    /\ \/ prior \in table' /\ Answer(r, IF Conflict(s, prior) THEN "conflict" ELSE prior)
       \/ prior \notin table' /\ AtCapacity(table', s) /\ Answer(r, "full")
       \/ prior \notin table' /\ ~ AtCapacity(table', s) /\ Goto(r, "reserving")
    /\ UNCHANGED <<clock, faults, up, status, born, runner, slot, store, claims, budgetVars>>

\* Mutant: a key that is mapped already keeps its older task.
AdmitKeepsMapping(r) ==
    /\ table' = table \cup {r}
    /\ idem' = IF shape[r].key = NoKey \/ idem[Home(r)][shape[r].key] # NoTask THEN idem
               ELSE [idem EXCEPT ![Home(r)][shape[r].key] = r]
    /\ status' = [status EXCEPT ![r] = "processing"]
    /\ born' = [born EXCEPT ![r] = clock]
    /\ runner' = [runner EXCEPT ![r] = "spawned"]
    /\ Goto(r, "mirror_get")
    /\ UNCHANGED <<slot, cancelled>>

\* _admit, without the initial mirror: register the task and spawn its runner.
Admit(r) ==
    /\ table' = table \cup {r}
    /\ idem' = IF shape[r].key = NoKey THEN idem
               ELSE [idem EXCEPT ![Home(r)][shape[r].key] = r]
    /\ status' = [status EXCEPT ![r] = "processing"]
    /\ born' = [born EXCEPT ![r] = clock]
    /\ runner' = [runner EXCEPT ![r] = "spawned"]
    /\ Goto(r, "mirror_get")
    /\ UNCHANGED <<slot, cancelled>>

\* Past the reservation: claim the key, or admit at once when there is none.
Proceed(r) ==
    \/ shape[r].key = NoKey /\ Admit(r) /\ UNCHANGED <<shape, claims>>
    \/ shape[r].key # NoKey /\ Goto(r, "claiming") /\ UNCHANGED <<shape, taskVars, claims>>

\* _reserve_task_budget: the hold is taken at the second reply of the ledger.
ReserveBudget(r) ==
    /\ pc[r] = "reserving"
    /\ \/ ReserveFree(r, shape[r].client, Estimate)
       \/ CheckGlobal(r, shape[r].client, Estimate)
       \/ CheckClient(r)
    /\ \/ /\ hold'[r].state = "checking"
          /\ UNCHANGED <<shape, pc, answer, taskVars, claims>>
       \/ /\ hold'[r].state = "denied"
          /\ Answer(r, "overbudget")
          /\ UNCHANGED <<shape, taskVars, claims>>
       \/ hold'[r].state = "open" /\ Proceed(r)
    /\ UNCHANGED <<clock, faults, up, deleting, store>>

\* A budget backend outage admits without a hold.
ReserveFails(r) ==
    /\ pc[r] = "reserving" /\ Fails("budget")
    /\ ReserveRaises(r)
    /\ Proceed(r)
    /\ UNCHANGED <<clock, up, deleting, store>>

Live(k) == claims[k].owner # NoTask /\ clock < claims[k].expires

\* Mutant: SET without NX, so a second caller takes the claim over.
ClaimNotAtomic(r) ==
    /\ pc[r] = "claiming"
    /\ claims' = [claims EXCEPT ![shape[r].key] =
                    [owner |-> r, expires |-> clock + ClaimTTL]]
    /\ Admit(r)
    /\ UNCHANGED <<clock, faults, up, shape, deleting, store, budgetVars>>

\* RedisTaskStore.claim_idempotency: SET NX EX.
ClaimKey(r) ==
    LET k == shape[r].key IN
    /\ pc[r] = "claiming"
    /\ \/ /\ ~ Live(k)
          /\ claims' = [claims EXCEPT ![k] = [owner |-> r, expires |-> clock + ClaimTTL]]
          /\ Admit(r)
       \/ Live(k) /\ Goto(r, "reading") /\ UNCHANGED <<taskVars, claims>>
    /\ UNCHANGED <<clock, faults, up, shape, deleting, store, budgetVars>>

\* Mutant: the stored fingerprint is not compared.
ReadWithoutConflict(r) ==
    LET k == shape[r].key IN
    /\ pc[r] = "reading"
    /\ \/ /\ Live(k)
          /\ answer' = [answer EXCEPT ![r] = claims[k].owner]
          /\ pc' = [pc EXCEPT ![r] = "releasing"]
          /\ UNCHANGED taskVars
       \/ ~ Live(k) /\ Admit(r)
    /\ UNCHANGED <<clock, faults, up, shape, redisVars, budgetVars>>

\* ... then GET: the owner, a conflict, or a claim that expired in between.
ReadClaim(r) ==
    LET k == shape[r].key  owner == claims[k].owner IN
    /\ pc[r] = "reading"
    /\ \/ /\ Live(k)
          /\ answer' = [answer EXCEPT ![r] =
                          IF Conflict(shape[r], owner) THEN "conflict" ELSE owner]
          /\ pc' = [pc EXCEPT ![r] = "releasing"]
          /\ UNCHANGED taskVars
       \/ ~ Live(k) /\ Admit(r)
    /\ UNCHANGED <<clock, faults, up, shape, redisVars, budgetVars>>

\* _claim_idempotency swallows a store outage: "admitting locally".
ClaimFails(r) ==
    /\ pc[r] \in {"claiming", "reading"} /\ Fails("claim")
    /\ Admit(r)
    /\ UNCHANGED <<clock, up, shape, redisVars, budgetVars>>

\* _release_task_budget: the hold of a request that became no task.
ReleaseHold(r) ==
    /\ pc[r] = "releasing"
    /\ Settle(r, 0)
    /\ Goto(r, "answered")
    /\ UNCHANGED <<clock, faults, up, shape, taskVars, redisVars>>

-----------------------------------------------------------------------------
(* RedisTaskStore.upsert: GET, compare revisions, SET.  The initial mirror   *)
(* carries revision 1, the runner's final one revision 2 (_persist_task).    *)

FirstRecord == [rev |-> 1, status |-> "processing"]
FinalRecord(t) == [rev |-> 2, status |-> status[t]]
Stale(t, record) == store[t] # NoRecord /\ record.rev <= store[t].rev

\* Mutant: the initial mirror is fire-and-forget.
MirrorNotAwaited(r) ==
    /\ pc[r] = "mirror_get"
    /\ Answer(r, r)
    /\ UNCHANGED <<clock, faults, up, shape, taskVars, redisVars, budgetVars>>

MirrorRead(r) ==
    /\ pc[r] = "mirror_get"
    /\ \/ Stale(r, FirstRecord) /\ Answer(r, r)
       \/ ~ Stale(r, FirstRecord) /\ Goto(r, "mirror_set")
    /\ UNCHANGED <<clock, faults, up, shape, taskVars, redisVars, budgetVars>>

MirrorWrite(r) ==
    /\ pc[r] = "mirror_set"
    /\ store' = [store EXCEPT ![r] = FirstRecord]
    /\ Answer(r, r)
    /\ UNCHANGED <<clock, faults, up, shape, taskVars, deleting, claims, budgetVars>>

MirrorFails(r) ==
    /\ pc[r] \in {"mirror_get", "mirror_set"} /\ Fails("write")
    /\ Answer(r, r)
    /\ UNCHANGED <<clock, up, shape, taskVars, redisVars, budgetVars>>

DeleteRecord(t) ==
    /\ t \in deleting
    /\ deleting' = deleting \ {t}
    /\ \/ store' = [store EXCEPT ![t] = NoRecord] /\ UNCHANGED faults
       \/ Fails("write") /\ UNCHANGED store
    /\ UNCHANGED <<clock, up, shape, pc, answer, taskVars, claims, budgetVars>>

-----------------------------------------------------------------------------
(* _process_task *)

RunnerTo(t, step) == runner' = [runner EXCEPT ![t] = step]
Resumes(t, step) == runner[t] = step /\ t \notin cancelled
RunnerOnlyBut == UNCHANGED <<clock, up, shape, pc, answer, table, idem, born>>
RunnerOnly == RunnerOnlyBut /\ UNCHANGED faults

StartRunner(t) ==
    /\ Resumes(t, "spawned")
    /\ \/ /\ shape[t].egress = "unsupported"
          /\ status' = [status EXCEPT ![t] = "failed"]
          /\ RunnerTo(t, "settling")
          /\ UNCHANGED slot
       \/ /\ shape[t].egress # "unsupported"
          /\ \E p \in SemaphoresFor(shape[t]) : slot' = [slot EXCEPT ![t] = p]
          /\ RunnerTo(t, "queued")
          /\ UNCHANGED status
    /\ RunnerOnly /\ UNCHANGED <<cancelled, redisVars, budgetVars>>

\* A permit is free: solve with what is left of the budget, or time out at once.
TakeSlot(t) ==
    /\ Resumes(t, "queued")
    /\ Cardinality(Occupants(slot[t], Home(t))) < PoolSize[slot[t]]
    /\ \/ Overdue(t) /\ status' = [status EXCEPT ![t] = "failed"] /\ RunnerTo(t, "settling")
       \/ ~ Overdue(t) /\ RunnerTo(t, "solving") /\ UNCHANGED status
    /\ RunnerOnly /\ UNCHANGED <<slot, cancelled, redisVars, budgetVars>>

\* The solver records what an attempt cost.
SpendWhileSolving(t) ==
    /\ runner[t] = "solving" /\ recorded[t] < Estimate
    /\ RecordSpend(t, 1)
    /\ RunnerOnly /\ UNCHANGED <<status, runner, slot, cancelled, redisVars>>

\* The solver returns, raises, or is stopped by wait_for at the deadline.
FinishSolve(t) ==
    /\ Resumes(t, "solving")
    /\ \E result \in {"ready", "failed"} : status' = [status EXCEPT ![t] = result]
    /\ RunnerTo(t, "settling")
    /\ RunnerOnly /\ UNCHANGED <<slot, cancelled, redisVars, budgetVars>>

\* Mutant: a cancelled runner persists its task and leaves the hold behind.
CancelSolveUnsettled(t) ==
    /\ t \in cancelled /\ runner[t] \in {"queued", "solving"}
    /\ cancelled' = cancelled \ {t}
    /\ status' = [status EXCEPT ![t] = IF @ = "processing" THEN "failed" ELSE @]
    /\ RunnerTo(t, "final_get")
    /\ RunnerOnly /\ UNCHANGED <<slot, redisVars, budgetVars>>

\* CancelledError while queued or solving: fail the task, then clean up.
CancelSolve(t) ==
    /\ t \in cancelled /\ runner[t] \in {"queued", "solving"}
    /\ cancelled' = cancelled \ {t}
    /\ status' = [status EXCEPT ![t] = IF @ = "processing" THEN "failed" ELSE @]
    /\ RunnerTo(t, "settling")
    /\ RunnerOnly /\ UNCHANGED <<slot, redisVars, budgetVars>>

\* CancelledError before the first step, so that the coroutine never enters its
\* try, or inside the cleanup itself: the runner ends there (a SET already on
\* the wire may still be carried out).  "cut" marks the runner whose settle was
\* still to come.
CutShort(t) ==
    /\ t \in cancelled
    /\ runner[t] \in {"spawned", "settling", "final_get", "final_set"}
    /\ cancelled' = cancelled \ {t}
    /\ RunnerTo(t, IF runner[t] \in {"spawned", "settling"} THEN "cut" ELSE "done")
    /\ \/ UNCHANGED store
       \/ runner[t] = "final_set" /\ store' = [store EXCEPT ![t] = FinalRecord(t)]
    /\ RunnerOnly /\ UNCHANGED <<status, slot, deleting, claims, budgetVars>>

\* _settle_task_budget: the ledger's figure, or 0 when the lookup fails.
SettleTask(t) ==
    /\ Resumes(t, "settling")
    /\ \/ Settle(t, recorded[t]) /\ UNCHANGED faults
       \/ Fails("budget") /\ Settle(t, 0)
    /\ RunnerTo(t, "final_get")
    /\ RunnerOnlyBut /\ UNCHANGED <<status, slot, cancelled, redisVars>>

FinalRead(t) ==
    /\ Resumes(t, "final_get")
    /\ RunnerTo(t, IF Stale(t, FinalRecord(t)) THEN "done" ELSE "final_set")
    /\ RunnerOnly /\ UNCHANGED <<status, slot, cancelled, redisVars, budgetVars>>

FinalWrite(t) ==
    /\ Resumes(t, "final_set")
    /\ store' = [store EXCEPT ![t] = FinalRecord(t)]
    /\ RunnerTo(t, "done")
    /\ RunnerOnly /\ UNCHANGED <<status, slot, cancelled, deleting, claims, budgetVars>>

FinalFails(t) ==
    /\ Fails("write") /\ runner[t] \in {"final_get", "final_set"} /\ t \notin cancelled
    /\ RunnerTo(t, "done")
    /\ RunnerOnlyBut /\ UNCHANGED <<status, slot, cancelled, redisVars, budgetVars>>

-----------------------------------------------------------------------------
(* shutdown: the server has drained its requests; cancel, await, close. *)

Shutdown(w) ==
    /\ up[w] = "up"
    /\ \A r \in Requests : Home(r) = w => pc[r] \in {"idle", "answered"}
    /\ up' = [up EXCEPT ![w] = "stopping"]
    /\ cancelled' = cancelled \cup {t \in Requests : Home(t) = w /\ RunnerLive(t)}
    /\ UNCHANGED <<clock, faults, shape, pc, answer, table, idem, status, born, runner, slot,
                   redisVars, budgetVars>>

\* The runners have ended; pending writes were drained or timed out.
CloseStore(w) ==
    /\ up[w] = "stopping"
    /\ \A t \in Requests : Home(t) = w => ~ RunnerLive(t)
    /\ up' = [up EXCEPT ![w] = "down"]
    /\ table' = {t \in table : Home(t) # w}
    /\ deleting' = {t \in deleting : Home(t) # w}
    /\ UNCHANGED <<clock, faults, shape, pc, answer, idem, status, born, runner, slot, cancelled,
                   store, claims, budgetVars>>

Tick == /\ clock < MaxClock
        /\ clock' = clock + 1
        /\ UNCHANGED <<faults, up, shape, pc, answer, taskVars, redisVars, budgetVars>>

\* Nothing is left to start: every request is answered and every runner has
\* ended or has its cancellation pending (that it ends is EverythingEnds).
Quiescent ==
    /\ \A r \in Requests : pc[r] \in {"idle", "answered"}
    /\ \A t \in Requests : RunnerLive(t) => t \in cancelled
    /\ UNCHANGED vars

RequestStep(r) ==
    \/ ReserveBudget(r) \/ ReserveFails(r) \/ ClaimKey(r) \/ ReadClaim(r) \/ ClaimFails(r)
    \/ ReleaseHold(r) \/ MirrorRead(r) \/ MirrorWrite(r) \/ MirrorFails(r)

RunnerStep(t) ==
    \/ StartRunner(t) \/ TakeSlot(t) \/ FinishSolve(t) \/ CancelSolve(t) \/ CutShort(t)
    \/ SettleTask(t) \/ FinalRead(t) \/ FinalWrite(t) \/ FinalFails(t)

Next ==
    \/ \E r \in Requests, s \in Shapes : Submit(r, s)
    \/ \E r \in Requests : RequestStep(r) \/ RunnerStep(r) \/ SpendWhileSolving(r)
                           \/ DeleteRecord(r)
    \/ \E w \in Workers : Shutdown(w) \/ CloseStore(w)
    \/ Tick
    \/ Quiescent

\* The event loop runs whatever is ready: a step of some request, runner or
\* scheduled delete is taken while there is one (no request is favoured).
Progress ==
    \/ \E r \in Requests : RequestStep(r) \/ RunnerStep(r) \/ DeleteRecord(r)
    \/ \E w \in Workers : CloseStore(w)

Spec == Init /\ [][Next]_vars
FairSpec == Spec /\ WF_vars(Progress)

-----------------------------------------------------------------------------
(* Properties *)

(* A hold outlives its flow only when a cancellation ended the runner ahead  *)
(* of its settle: in the finally itself, at the settle's own await, or before *)
(* the first step (CutShort).  A runner that is swept or shut down while     *)
(* queued or solving settles like any other, and so does an admission that   *)
(* became no task (_settle_task_budget, _release_task_budget).  Only an      *)
(* expiry sweep and a shutdown cut a runner short.                           *)
HoldOutlivesOnlyCutShort ==
    \A r \in Requests :
        Open(r) =>
            \/ pc[r] # "answered" \/ RunnerLive(r)
            \/ runner[r] = "cut" /\ (r \notin table \/ up[Home(r)] # "up")

(* The id a client got for its own task resolves from any worker as long as  *)
(* the task has not been swept: the initial mirror is awaited before the     *)
(* response (acreate_task), and only a store outage can defeat it.           *)
AnsweredTaskIsStored ==
    "write" \notin Outages =>
        \A r \in Requests :
            (pc[r] = "answered" /\ answer[r] = r /\ r \in table) => store[r] # NoRecord

AdmittedFor(k) == {t \in Requests : status[t] # "none" /\ shape[t].key = k}

(* A key gets a second task only once a claim of it has run its full life:   *)
(* until then every request with the key, on whatever worker, is answered    *)
(* with the first task (claim_idempotency; while the store answers).         *)
OneTaskPerKey ==
    "claim" \notin Outages =>
        \A k \in Keys : \A t, u \in AdmittedFor(k) :
            (t # u /\ born[t] <= born[u]) =>
                \E v \in AdmittedFor(k) : born[v] + ClaimTTL <= born[u]

(* A retry never gets the task of a request with another payload.            *)
CoalescedPayloadAgrees ==
    \A r \in Requests : answer[r] \in Requests => ~ Conflict(shape[r], answer[r])

(* A key names the newest of its tasks in the table, so a retry at its       *)
(* worker finds it (_idempotency against _tasks).  It is lost or redirected  *)
(* only by a task admitted later, or by an earlier one that the sweep took:  *)
(* _cleanup_expired unmaps the key whichever task it names.                  *)
KeyFindsItsTask ==
    \A t \in table : LET key == shape[t].key IN
        key # NoKey =>
            \/ idem[Home(t)][key] = t
            \/ \E u \in AdmittedFor(key) \ {t} :
                  Home(u) = Home(t) /\ (u \in table => born[u] >= born[t])

(* Whatever is cancelled, swept or shut down in between, every request is    *)
(* eventually answered and every spawned runner eventually ends.             *)
EverythingEnds ==
    <>[](\A r \in Requests : pc[r] \in {"idle", "answered"} /\ ~ RunnerLive(r))

(* In-flight tasks are capped (module docstring: "In-flight tasks are        *)
(* capped; when the cap is reached create_task raises QueueFull").           *)
InflightCapped ==
    \A w \in Workers : Cardinality(Inflight(table, w)) <= QueueMaxSize

(* Within the life of a claim a key admits one task (claim_idempotency: "so  *)
(* the expensive solve is spawned exactly once per idempotency key across    *)
(* the whole cluster").                                                      *)
SpawnedOncePerKey ==
    \A k \in Keys : \A t, u \in AdmittedFor(k) :
        (t # u /\ born[t] <= born[u]) => born[u] - born[t] >= ClaimTTL

(* A write never takes the stored record back to an earlier revision         *)
(* (_persist_task: "an in-flight slow write can't regress a newer status").  *)
StoredRevisionNeverRegresses ==
    [][\A t \in Requests :
         store'[t] = NoRecord \/ store'[t].rev >= store[t].rev]_vars

(* When a worker has shut down, the store has the result of every task that  *)
(* worker had finished (shutdown: "Runners persist their final state in      *)
(* finally").                                                                *)
ShutdownKeepsResults ==
    \A t \in Requests :
        (up[Home(t)] = "down" /\ status[t] = "ready" /\ ~ Expired(t)
           /\ "write" \notin Outages)
        => store[t].status = "ready"
=============================================================================
