# A TLA+ model of CaptchAI

CaptchAI is a self-hosted captcha solver with an asynchronous task API
(`src/src/`). One asyncio event loop admits tasks, runs solvers over shared
browser sessions and proxies, calls language models behind circuit breakers,
and accounts for what it all costs; several such workers may share one Redis.

The interesting state is small (counters, maps, permits, status fields) and the
interesting behaviour is in the interleaving: every `await` is a point where
another coroutine may run, be cancelled, or where another worker may change
Redis. This directory models that control, and leaves the data (images, pages,
prompts, fingerprints) to the tests.

## Inventory

Paths are under `src/src/`. "Correct when" names what the component promises.

| Component | State | Operations | Talks to | Hard because | Correct when |
|---|---|---|---|---|---|
| Task manager `services/task_manager.py` | `_tasks`, `_idempotency`, `_running`, semaphores, pending writes | `create_task`, `acreate_task`, `aget_task`, `_process_task`, `_cleanup_expired`, `shutdown` | store, budget guard, ledger, solvers, proxy pool (peek) | awaits between check and use; cancellation inside cleanup; fire-and-forget writes | one solve per key, every task ends, holds are released, results survive |
| Task store `orchestration/store.py` | records with revision and TTL, idempotency claims | `put/get/upsert/delete`, `claim_idempotency` | Redis | read and write are separate round trips; claims expire | atomic claim, newest revision wins |
| Budget guard `consumption/budget.py` | in-flight totals, settled floors, lock | `check`, `reserve`, `settle` | ledger | two ledger reads before booking | caps hold under concurrency; a hold is released once |
| Cost ledger `consumption/ledger.py` | record ring, task index, lifetime totals, reported flags | `record`, `task_cost_usd`, `records`, `try_claim_reported`, summaries; the same in Redis with a migration | Redis | eviction, duplicate records of one task, migration races | totals never fall; a report is counted once |
| Accounting `consumption/accounting.py` | success counters per sitekey, their index | `record_*`, rates, eviction | Redis | concurrent evictions | each outcome counted once; the index stays bounded |
| Session pool `assets/session_pool.py` | permits, `_idle`, `_in_use`, `_creating` | `checkout`, `release`, `prewarm`, `close_all`, `report_outcome` | browser manager (factory), services | cancellation at every await; two counters bound one resource | permits conserved, size bounded, sessions exclusive |
| Proxy pool `assets/proxy_pool.py` | health, cooldown, quota, geo, sitekey statistics; in memory or in Redis (scripts, or a lock when scripts are unavailable) | `add`, `checkout`, `report*`, `set_geo` | Redis | late reports; lock that times out; three implementations of one contract | burned is final; cooldown is served; quotas hold |
| Model clients `assets/model_pool.py` | circuit state, failure streak, cooldown, probe latch, semaphore | `chat`, `transcribe_audio`, `aclose` | model backends | calls overlap the state they were admitted under | never latched half-open; trips at the threshold |
| Model invoker `parsing/model_call.py` | fan-out semaphores | `invoke`, `call_with_fallback`, `call_backend` | model clients, budget guard | fallback of a fallback; stale admission | one fallback at most; the budget gate is asked before a paid call |
| Solve attempt `services/browser_solver.py` | attempt context, `released` flag | acquire, solve, verify, release, record, retry | session pool, proxy pool, ledger, outcome | cancellation in release, retries on another egress | every attempt releases what it took, once |
| Browser manager `services/browser.py` | browser handle, `_disconnected`, runtime | `start`, `stop`, `new_context`, `context_factory` | Playwright | the process dies under running solves | no context after stop |
| Widget and page solvers `services/hcaptcha.py`, `injected_widget.py`, `recaptcha_v2.py`, `recaptcha_v3.py`, `turnstile.py` | per solve only | challenge rounds | page, vision plane | deadlines inside rounds | rounds are bounded |
| Vision plane `parsing/vision.py`, `dispatcher.py`, `vision_adapter.py`, `parsing/shapes/*` | per call; the adapter of an attempt | tiering, voting, metering, shape solving | invoker, budget guard | partial answers of a vote; errors past the metering | every paid reply is metered, outages aside; a denied grid stays local |
| Image solvers `services/vision_solver.py`, `recognition.py`, `classification.py` | none | one call each | invoker | – | – |
| Outcome fan-out `services/outcome.py` and routes `api/routes.py` | none of their own | `createTask`, `getTaskResult`, `getBalance`, reports | all of the above | claim before fan-out | a report is applied once, by the owner |
| Lifespan, rate limiter `main.py` | token buckets | start-up, shut-down, middleware | all of the above | order of closing; degraded start | nothing is closed under a user of it |
| Wiring `core/*`, `services/egress.py`, `assets/fingerprint.py`, `assets/geo_probe.py`, `models/task.py` | settings | parsing, look-ups | – | – | – |

`PROJECT.json` lists the same components with their status, and every hazard
at the line where it bites with the property that watches it.

## The modules

```
BudgetGuard -+- TaskManager -+- MCTaskLifecycle, MCIdempotency
             |               '------------.
             '- BudgetFlows -+- MCBudgetFlows
CostLedger -----'            '------------+- TaskManagerProofs
RankedIndex --- RedisLedger -+- MCRedisLedger
                             '- RedisLedgerProofs

ProxyHealth -+- ProxyContract --- ProxyPool -+- MCProxyPool
             |        |                      '--------------------.
             |   (INSTANCE)                                       |
             '- RedisProxyPool -+- MCRedisProxyPool               |
                                '---------------------------------+- ProxyPoolProofs

SessionPool -+- MCSessionPool           BrowserManager --- Lifespan -+- MCLifespan
             '- SessionPoolProofs                                    '- LifespanProofs
ModelCircuit +- MCModelCircuit          VisionPlane --- Challenge ---+- MCChallenge
             '- ModelCircuitProofs                                   '- ChallengeProofs
SolveAttempt +- MCSolveAttempt
             '- SolveAttemptProofs
```

An action is the code between two awaits: asyncio runs it without interruption.
Where the code awaits a lock that is never held across an await (the session
pool's, the in-memory ledger's), taking the lock is not an action of its own;
where a lock is held across an await (the budget guard's, the Redis proxy
pool's), it is modelled. Against Redis an action is one round trip: a script or
a MULTI/EXEC pipeline is one step, a read followed by a write is two.

### BudgetGuard, BudgetFlows

`hold[h]` is the `Reservation` of flow `h`; `inflightGlobal`, `inflightBy`,
`settledGlobal`, `settledBy` are the guard's four totals; `recorded[h]` is what
the ledger has for the flow. Money is in whole units. `reserve` is two actions,
`CheckGlobal` and `CheckClient`, one per ledger reply, with the guard's lock
held in between (`Locked`); booking follows the second reply without an await.
`Settle` waits for the lock and is a no-op for a denied or settled hold. The
1e-12 tolerance of the per-client total and the removal of a client's zero
entry have no counterpart: whole units cannot drift. `BudgetFlows` closes the
guard with arbitrary callers over the in-memory ledger (`FlowSpec`);
`TaskManager` is the caller the program has. `SettledIsRecorded` is why `_decide`
may take the larger of the recorded and the settled spend: the settled floors
never run ahead of the ledger, for all clients together and for each.

### CostLedger

The in-memory ledger. A record is an index into `book`; `ring` is the deque of
the last `MaxRecords`, `byTask` the index that finds those of a task, and the
totals are kept apart from both. Composed with the guard, a flow settles at what
the ring still has for it (or at zero when it cannot say) while the caps are
measured against the totals, which must not shrink with the ring.

### TaskManager (over the Redis store)

A request `r` is one `acreate_task`; the uuid it would draw is `r`, so `r` also
names its task and runner.

| Code | Model |
|---|---|
| `_tasks`, `_idempotency`, `Task.status`, `created_at` | `table`, `idem`, `status`, `born` |
| `acreate_task` up to the first await | `Submit` (with `_cleanup_expired` as `Sweep`) |
| `_reserve_task_budget` | `ReserveBudget`, `ReserveFails` |
| `claim_idempotency`: SET NX, then GET | `ClaimKey`, `ReadClaim`; a store outage is `ClaimFails` |
| `_admit` | `Admit`, part of whichever step precedes it without an await |
| `upsert` of the first mirror: GET, then SET | `MirrorRead`, `MirrorWrite`, `MirrorFails` |
| `_process_task` | `StartRunner`, `TakeSlot`, `FinishSolve`, `CancelSolve`, `SettleTask`, `FinalRead`, `FinalWrite`, `FinalFails` |
| cancellation outside the solve | `CutShort`: before the first step, or inside `finally`; a runner it ends ahead of its settle is marked "cut", for `HoldOutlivesOnlyCutShort` only |
| `_safe_delete` | `DeleteRecord` |
| `shutdown` | `Shutdown` (cancel), `CloseStore` (runners gone, store closed) |

Abstractions: a payload is a fingerprint value or "none" (unknown); an egress
mode is the semaphore it leads to, "auto" being decided at run time by the peek
at the proxy pool; time is a coarse clock. The Redis TTL of records is left out
(it is at least the task TTL with the default settings, and expiry of a record
is no worse than the sweep's delete); the TTL of claims is in.

`KeyFindsItsTask` says how far a retry can count on its worker's map. The key
names the newest of its tasks in the table, but the sweep of an older one takes
the mapping away, because `_cleanup_expired` unmaps the key of a task without
asking whom it names (`task_manager.py:1028-1030`). The retry then falls through
to the claim in Redis, and `OneTaskPerKey` is what it still has while that
lives. The plainer statement, that a task in the table is named by its key
unless a later one is, holds with two requests and fails with three.

### SessionPool

A call `c` is one `checkout` with its `release`; the session it builds is named
`c`. `_in_use` and `_permit_holders` change together in every section of the
code, so `inUse` stands for both. `depth` is the position of an idle session in
its bucket's stack. Reputation is in twentieths (+1, -8, threshold 6 of 20);
because the code adds floats, the comparison at exactly 6 goes either way.
Whether an idle session is still usable (age, idle time, live browser) is a
choice at each checkout. The calls of `prewarm` are the `Warmers`: `gather`
raises when one fails, and then nobody releases what the others got.

### ModelCircuit

`breaker[b]` holds the four fields of a `ModelClient` that decide admission; the
cooldown is a flag that `Lapse` clears. An invocation routes, may wait for the
budget gate (`gating`, `regating`), waits for the backend's semaphore
(`queued`), calls (`calling`), and after a connection error may go to the other
backend once. `AfterSuccess`, `AfterFailure`, `AfterCancel` are the three
transitions of the breaker; `probe[i]` is `probe_owner`. The failure streak
saturates at the threshold, beyond which it decides nothing.

### ProxyHealth, ProxyContract, ProxyPool, RedisProxyPool

`ProxyHealth` has the operators on the part of a `ProxyAsset` that decides
whether it may serve (state, counters, streak, remaining cooldown, bytes): what
a review, an outcome, traffic and time make of it. `ProxyContract` says that it
changes in these ways only, and on behalf of a solve that has the proxy: a
review, a loan, a report of an outcome, a report of traffic, time. Cooldowns are kept as time left (`rest`), so that no origin is
needed, and a backend may act on a clock reading up to `MaxLag` ticks old.

`ProxyPool` is the in-memory pool: one action per operation, the contract's
actions conjoined with the ranking (client verdicts for the sitekey, tokens
obtained, success rate, least recently used), compared as fractions.
`RedisProxyPool` is the shared pool, used through one `Pools` instance per
worker. While a pool has had no EVAL rejected (`evalSupported`), each operation
is one script, translated from the Lua. Any operation may be the first whose
EVAL is rejected, and from then on that pool takes a lock, reads whole hashes,
computes in Python (the contract's operators, which are the shared helpers) and
writes whole hashes back, beside the scripts of other pools. The lock may expire
or be given up on; a release is one EVAL, or a GET (`ReleaseLock`) and a DEL
(`DeleteLock`). A booting worker re-adds its inventory by a read and a write
that any of this may come between. Two sets are for the properties only:
`lockless`, the solves whose operation lost the lock or never had it, and
`overtaken`, the operations and boots that hold copies from before somebody
else's write. `set_geo` writes fields no other operation looks at and is left
out. The contract is instantiated over the hashes (`INSTANCE ProxyContract WITH
health <- hash, lent <- leased, stage <- phase`) and is what the run checks.

### RankedIndex, RedisLedger

`RankedIndex` is the capped sorted set that the ledger and the accounting both
evict from in two round trips. `RedisLedger` has the records, the lifetime
counter with its migration from the old key, the report index, the claim of a
report (`SET NX`), the route's fan-out to the sinks, and crashes of workers. The
lifetime counters move together, so there is one.

### SolveAttempt

One asyncio task per solve: `_solve_with_retries`, `_acquire_context` with its
egress modes, the injected page (prepare, navigate, interact, clean up) and the
real page, `_release_context`, the proxy report, `_record` and siteverify. The
proxy pool and the session pool are what a solve sees of them. `pooled[w]` is a
warm session with what is on its context: the signature stamp, and the document
routes of the attempt at work (`routes`), of preparations that got no further
(`partial`) and of clean-ups whose `unroute` raised or was cut short (`stuck`),
which the code logs and goes on. On the real page the navigation (`Navigate`) and
the check of where it landed (`ValidateLanding`), which may refuse a redirect,
are two steps. `Cancel` reaches a solve at every await, and again while it
unwinds. `took`, `loaded` and `successes` are for the properties only.

### BrowserManager, Lifespan

`BrowserManager` follows `start()` and `stop()` from await to await: the chain
from the runtime asked for to the one that launches, in strict and lenient mode,
the driver processes, a browser that dies, and what health reports.
`Lifespan` composes it with start-up (planes on their backend, on a fallback or
absent; services; inventory; prewarm; solvers) and the closings in their order,
each of which may raise.

### VisionPlane, Challenge

`VisionPlane` is one `VisionRouter.classify`: the budget gate, the first reply
and `call_with_fallback`, the weighing of its confidence, inline escalation with
a budget lookup of its own, the self-consistency vote and its quorum. That second
lookup stands outside of any `try` and raises when the Redis ledger is out
(`vision.py:351`); the usage of the first reply is lost with it. A reply is whether it matches the schema,
whether it selects anything, and its confidence on a scale of three (below the
solvers' floor, below the router's threshold, above). `Challenge` is a whole
hCaptcha solve over it: widget, trigger, polls, checkbox, challenge rounds,
reloads, the record, retries and the tier. The widget is the environment and
moves only where the next step of the solver reads the page; a poll looks first
and may elapse while a token is on its way. The grid shape has rounds
(`MaxRounds`), area and drag-and-drop have one; slide and dynamic grids are never
detected for hCaptcha. A record names the shape its attempt dispatched, or the
solver's default. Egress, contexts and the siteverify verdict are in `SolveAttempt`.

## The runs

| Run | Instance | What it shows |
|---|---|---|
| `task_lifecycle` | 1 worker, 2 requests (one keyed), 3 time units, one backend call may fail | in-flight totals equal the open holds in every state (`InflightIsOpenHolds`); a hold outlives its flow only if a cancellation ended the runner before it settled, in its cleanup or ahead of its first step (`HoldOutlivesOnlyCutShort`) |
| `budget_flows` | 3 flows, 2 clients, estimates 0 and 1, caps 2 and 1, a ring of 2 records, 4 attempts | recorded spend stays within both caps for every interleaving of ledger replies, records and settles, also when the ring has forgotten (`SpendWithinCaps`); the task index holds exactly the ring's records (`IndexMatchesRing`) |
| `idempotency` | 2 workers, 2 requests with one key, equal / different / unknown payloads, claims and tasks that expire | one task per key and claim life (`OneTaskPerKey`), payload conflicts never coalesced (`CoalescedPayloadAgrees`), what a key leads its worker to (`KeyFindsItsTask`), ids resolvable once answered (`AnsweredTaskIsStored`); requests and runners end (`EverythingEnds`) |
| `session_pool` | 2 permits, 2 prewarm calls, 2 solver calls, 2 egress keys, up to 3 solves per session, 1 outcome report | permits conserved (`PermitsConserved`), size bounded (`LiveBounded`), a session serves the caller that holds it (`SessionServesItsCaller`) and its contexts are open (`TrackedContextsOpen`); checkouts end (`CheckoutsEnd`) |
| `model_circuit` | 3 invocations, threshold 2, both backends, cloud limited to 1 call | no latched half-open circuit (`LatchHasProbe`), closed only below the threshold (`ClosedBelowThreshold`), half-open always resolves (`HalfOpenResolves`) |
| `proxy_pool` | 2 proxies of two kinds, 3 solves, 2 failures in a row or 2 samples rest a proxy, quota of 2 units | burned is final (`BurnedIsFinal`), cooldowns are served (`CooldownIsServed`), and whatever is not burned is back in rotation for good once the reports are in (`BackInRotation`) |
| `redis_proxy_pool` | 1 proxy, 2 solves on pools of their own that may lose scripting at any operation, clock readings 1 tick old, and one boot or one lost lock | who got the fallback lock excludes the others, around expiries, late releases and cancellations (`LockExcludes`); every change to the hash is a step of the contract, but for the write of an operation or boot that another write overtook (`ImplementsContract`) |
| `redis_ledger` | 2 workers, 2 tasks, 2 records, indexes capped at 1, 1 failure or crash, a legacy counter | one verdict per task at every sink (`OneVerdictPerTask`), no spend lost by a lone migration (`SpendAddsUp`), indexes back within their bounds (`IndexCatchesUp`) |
| `solve_attempt` | 2 solves (injected; injected or real page) of 2 attempts, 1 proxy, 1 warm session, 2 cancellations | sessions come back from every way out (`SessionComesBack`), records name the egress of their own attempt (`RecordNamesItsEgress`), one success per token (`OneProxySuccess`), document routes come off on every way out unless their own preparation or removal failed (`RoutesAreTakenOff`), and one whose removal failed meets no other injected solve (`StuckRoutesMeetNoOther`); every solve ends (`EverySolveEnds`) |
| `lifespan` | every runtime, strict or not, every installation, 2 failures anywhere | health tells what launched (`HealthTellsTheTruth`), degraded planes are named (`DegradedTellsAll`), everything that came up is released (`EverythingReleased`), and the browser after its users (`NothingOutlivesItsBrowser`) |
| `challenge` | 1 solve of tier 1, 2 attempts, 2 rounds, votes of 2 samples | denied grids stay local (`DeniedStaysLocal`), every reply is metered but the one in hand when a budget lookup raises (`OnlyOutagesGoUnmetered`), records are of their attempt (`RecordIsOfItsAttempt`), no failure before or during the passive wait engages tier 2 (`EarlyFailuresStayTierOne`); the solve ends (`SolveEnds`) |
| `find_spend` | the instance of `challenge` | counterexample to `SpendIsRecorded`, see below |

Bounds. `MaxClock` lets a task and a claim be fresh, overdue and expired. A key
is unmapped under a living task only when an older task of its key is swept
after it was admitted, and a retry meets that only as a third request. Three
requests are too many for liveness: `MCRetries.cfg` checks `OneTaskPerKey` and
`KeyFindsItsTask` with three of two shapes (`tlc -config MCRetries.cfg
MCIdempotency`, 565 091 states), and the theorems have any number of them.
`MaxFaults` of the task manager is 1: each recovery path starts from one failed
call, and a second failure meets the same handlers; for the lifespan it is 2,
since a failing start is followed by closings that may fail. `MaxReports` bounds
reputation nudges from outside. In `BudgetFlows` and in `SpendWhileSolving` a
flow records at most what it reserved; the guard cannot hold a cap against flows
that spend more, and its documentation claims nothing for them. A ring of two
records and four attempts evicts records of open and of settled flows. Two
permits and four calls make every pair of session-pool operations meet with the
pool full; the invariants are proved for every size. Invocation slots are
reused, so three of them stand for any number of calls of which three overlap
(two stale ones and a probe). The proxy pools meter no further once the quota is
used up; what they promise about health is proved for every quota. In the Redis
pool a boot and a lost lock are not met in one behaviour (`Loses`, `AddReads`), an
operation spans at most `MaxLag` ticks and a boot none, and one proxy carries
every race, since an operation reviews each hash by itself and relates them only
to rank them. Indexes capped at one make every write an eviction. Two solves
and one session make a session pass from one solve to another that may have been
cut short on it; a second cancellation reaches the unwinding of the first. Two
attempts and two rounds are the least for which state of an earlier attempt or
round can leak. Symmetry is used in safety-only runs, for interchangeable
requests, flows, solves, workers or proxies.

Each property is paired in `PROJECT.json` with a mutant: a plausible slip in
the code (a lock deleted without a look at its owner, a claim that is not atomic, a permit
given back twice or never, a totals counter that follows the ring, a document
route left on a session)
under which the property fails. Types are proved along with the rest, as
invariants of their own (`SessionPool`, `ModelCircuit`) or as the first conjunct
of the inductive invariant of the component.

## Where the code and its documentation disagree

Each of these has a counterexample; `tlc -config Find<property>.cfg <module>`
prints it. `FindTaskLifecycle.cfg`, `FindChallenge.cfg` and `FindSolveAttempt.cfg`
hold the statements of their module together, one of them active and the others
commented out. `SpendIsRecorded` is listed as the run `find_spend`.

| Property (module to run) | Place | The code, and what is said of it |
|---|---|---|
| `SpendIsRecorded` (`MCChallenge`) | `services/hcaptcha.py:912` | the adapter is stashed for the record after `dispatcher.solve` returned; an error that leaves past that line is recorded with zero spend, although `VisionParseError` carries its usage to "still meter a failed solve" (`parsing/vision.py:140`) |
| `InflightCapped` (`MCTaskLifecycle`) | `services/task_manager.py:503` | caps are checked before the awaits of admission, the task is registered after them; concurrent requests pass the documented cap (lines 9-10: "In-flight tasks are capped") |
| `SpawnedOncePerKey` (`MCIdempotency`) | `orchestration/store.py:331` | a claim that expires between `SET NX` and `GET` admits its reader without a claim, and the next request as well; "the expensive solve is spawned exactly once per idempotency key across the whole cluster" (312-313). Three requests are needed; with two, one task per claim life holds |
| `StoredRevisionNeverRegresses` (`MCTaskLifecycle`) | `orchestration/store.py:288` | the first and the final mirror of a task are two writers and `upsert` is not atomic, so revision 1 can land last; "concurrent writers for the same id don't exist" (271-273) |
| `ShutdownKeepsResults` (`MCTaskLifecycle`) | `services/task_manager.py:1011` | a runner cancelled inside its `finally` does not persist the result it had reached; "Runners persist their final state in ``finally``" (1044) |
| `QuietPoolHasItsPermits` (`MCSessionPool`) | `assets/session_pool.py:298` | one failing factory call in `prewarm` leaves the other sessions checked out for good; "an idle warm pool cannot starve new checkouts" (126-128) |
| `ProbeAlone` (`MCModelCircuit`) | `assets/model_pool.py:161` | a call admitted before the circuit opened closes it while the probe is out; "While that probe is in flight further calls are rejected" (131-132) |
| `BurnedStaysBurned` (`MCRedisProxyPool`) | `assets/proxy_pool.py:1736` | `add` of a booting worker writes back what it read, burned states of others included; "a proxy that burned on worker A isn't retried by worker B" (2333-2334) |
| `EveryReplyIsMetered` (`MCChallenge`) | `parsing/vision.py:351` | the second budget lookup of a classification reads the ledger outside of any `try`; on a Redis outage `classify` raises without the usage of the reply it holds, and the adapter has nothing to meter; "Meter even a failed call" (`parsing/vision_adapter.py:60`) |
| `TierRisesAfterAChallenge` (`MCChallenge`) | `services/hcaptcha.py:280` | the stage is stamped on entry to `_solve_challenge`, so a widget error or a page that breaks before any challenge shows raises the tier; it is meant for "when the failure actually reached the visual challenge" (274-278) |
| `BlameMeansNoPage` (`MCSolveAttempt`) | `services/browser_solver.py:908` | the stage is still `PAGE_LOAD` while the landed URL is checked; a page that loaded and was refused for its redirect is reported against the proxy, as a transport failure; "a failure in a later phase is a *solve* failure, not the proxy's fault" (335-338) |
| `RealPagesMeetNoRoute` (`MCSolveAttempt`) | `services/injected_widget.py:629` | an `unroute` that raises is logged and the session goes back with the route; the real page looks at no signature and may be served the earlier task's document, what the clean-up is there to prevent (622-624) |
| `SpendNeverOverwritten` (`MCRedisLedger`) | `consumption/ledger.py:656` | two workers that migrate at once read and write in separate round trips without NX; "spend already recorded under the new name is never overwritten" (574-575) |

Met while modelling, without a run of their own: the in-memory `reported` flag
is per record, so a later record of a task reopens its report
(`ledger.py:333-345`); Redis `records(limit)` returns the oldest records
(`ledger.py:768`); a rate-limited solve is reported with stage "solve" and never
cools its proxy down, against `captcha_errors.py:12`; `browser.close()` that
raises skips stopping the driver.

## Fairness

`TaskManager`: weak fairness of `Progress`, the disjunction of all ready steps:
the event loop always runs something that is ready. No request is favoured and
Redis replies or fails, but neither ticks, submissions nor faults are fair.
`SessionPool`: the same, over steps that end by themselves (a close returns, a
factory returns, a solver releases); `Quiescent` marks the states in which only
new calls could act. `ModelCircuit`: each call is answered within its timeout
and each budget check returns (weak fairness per invocation); a queued call
gets the semaphore if it is free again and again (strong fairness, since
asyncio's semaphore wakes its waiters in order). Cooldowns need not lapse.
`ProxyPool`: time passes, a peek comes by again and again (every admission
peeks), and each solve ends. `SolveAttempt`: weak fairness of `Progress`, the
disjunction of the solves' own steps (page and model calls have timeouts,
checkouts end by `CheckoutsEnd`, and the loop runs some solve that can go on);
cancellations are not fair. `Challenge`: weak fairness of the solver alone; widget, models and
cancellations owe nothing. In `Challenge` and the proxy pools a behaviour ends
when its solves have, so these runs do not check for deadlock.

## What is proved

TLAPS checks these for every value of the constants, under assumptions that each
component names: `PoolAssumption` (finite disjoint sets of calls, positive
size), `CircuitAssumption` (positive threshold, natural limits),
`HealthAssumption` (natural limits and sizes, a clock reading younger than a
cooldown), `SharedAssumption` (natural numbers of lost locks and boots; no solve is named
"free", the holder of a lock nobody has, or "boot", a booting worker), `CapsAssumption` (finitely many
requests, some client, natural caps), `FlowAssumption` (natural estimates, a
natural bound on attempts, and a ledger that files by flow and client),
`TaskAssumption` (requests of a well-formed shape, natural bounds, the four
semaphores, uuids that are none of the refusals), `LedgerAssumption` of
`CostLedger` (a ring has room) and of `RedisLedger` (natural bounds, finitely many tasks, accounting among the sinks),
`SolveAssumption` ("none" names no solve), `FaultAssumption`, `VisionAssumption`
and `ChallengeAssumption` (natural bounds, a tier of 1 or 2). TLC evaluates them
in the runs. The models are bounded by `MaxClock`, `MaxFaults` and the like,
and the theorems hold for every value of those too.

`SessionPoolProofs`. None of the pool's properties is inductive: that permits
add up needs to know that a session entering `inUse` was not there already, that
a call closing a session holds a session the pool no longer tracks, and that a
call which has built nothing owns no name. `Ownership` says exactly that, with
no arithmetic, and is inductive by itself; `Counts` (permits, creations, the
bound on live sessions, the debt of `close_all`) is inductive relative to it,
using the cardinality theorems. The key case is `StartBuild` with a full pool:
the permit in hand and `PermitsConserved` show that an idle session exists, so
"build rather than spin" never exceeds `size`. Theorems: `PoolInvariant`,
`PoolTypeOK`, `PermitsAreConserved`, `LiveSessionsAreBounded`,
`SessionsAreExclusive`, `TrackedContextsStayOpen`.

`ModelCircuitProofs`. A half-open circuit with its latch set is harmless only if
the probe is really out, and a step of one invocation may end a call on one
backend and begin one on the other. `Inv` is `TypeOK`, the coherence of the
fields of each breaker, and a probe for each half-open one; `Sound(f, i)` is the
same for the breakers in the middle of `i`'s step, with `i` itself not counted.
Each end of a call makes the breakers sound, each way of going on takes sound
breakers to `Inv`. Theorems: `CircuitTypeOK`, `HalfOpenHasProbe`,
`ClosedIsBelowThreshold`.

`ProxyPoolProofs`. That a burned proxy stays burned is not inductive: an outcome
report first sets whatever state the outcome asks for and only then looks at the
quota again, so it burns the proxy once more only if burned always means a quota
that is used up. `Accounted` says so, in both directions and also when there is
no quota; with the types and "a solve that will report has a proxy" it makes
`HealthInv`. Each operator of the contract has a lemma that it keeps a record
sound and changes it only as `Advances` allows; the step lemma lifts them to the
pool. Theorems: `HealthInvariant`, `QuotaIsFinal`, `BurnedForGood`,
`CooldownServed`; and `PoolKeepsContract`, that every operation of the in-memory
pool is one of the contract, with `PoolBurnsForGood` as its consequence.

For the shared pool the same module shows, step by step, that scripts, locked
fallback and boots, in any mixture, implement the contract
(`SharedKeepsContract`), but for writes that another write overtook. A locked operation reads
whole hashes and writes whole hashes back some round trips later, so its write is
a step of the contract only if what it has read is what is still there.
`SharedInv` says when that is so. `SharedTyped`: every hash, and every copy an
operation has yet to write, is a sound record, and an operation under way is one
its solve is entitled to. `Consistent`: what an operation that is not
`overtaken` has computed is what the contract makes of the hashes as they stand,
with its clock reading as old as it is by now. That last clause is what makes it
inductive: time passes between the read and the write, and a review or report
that was computed before a tick is one computed after it with an older reading,
so the two commute (`ReadsConsistent`, `TicksConsistent`, `WritesConsistent`);
and whoever writes overtakes all others that hold copies, so nobody else's copy
has to be followed (`OthersHold`). `BootConsistent` is the same for a worker that
boots. No hypothesis on locks, scripting or boots is needed: `overtaken` is
decided by what was written meanwhile, not by who was under way. Theorems:
`SharedSoundness`; `SharedQuota`, that burned says exactly that the quota is used
up, for the overtaken too; `SharedInvariant`; `SharedKeepsContract`; and
`BurnedButForTheOvertaken`, that nothing but an overtaken write brings a burned
proxy back, whoever boots and whatever lock is lost. `SharedExcludes` is about the
lock itself: between the SET that took it and the last write nobody else takes
it, unless it expired or was deleted by a release that had looked before it
expired; an operation that ends without having had the lock, or is cancelled,
leaves it to its owner.

`TaskManagerProofs`. The guard's totals are sums over all requests, and the
library defines a sum by recursion over a chosen member. A first part proves,
for any finite set, that such a sum unfolds at every member, that it changes by
the difference when one summand changes, and that it is additive and monotone
(`SumUnfolds`, `SumPick`, `SumChange`, `SumFilter`, `SumPlus`, `SumAtLeast`).
The induction is on the subsets of the set, with the property given as a set of
subsets so that the well-founded order has a minimal counterexample. `IInv` has
five parts: the types of the tasks and of the guard; `Life` (what is known of a
task before and after it is admitted, whom an answer names, who still has a
hold, what is stored); `Keyed` (what maps and claims name); and `Budget`. The
key to `OneTaskPerKey` is `ClaimStands`: from the first task of a key on, the
last claim on it stands in Redis and names a task admitted when that claim was
made, so a second task needs a claim that has run out. The key to the caps is
`Capped`: a flow weighs its reservation while that is open and what it recorded
afterwards; all flows together, and those of each client, stay within the caps;
and while a flow is between its two ledger replies the global cap has room for
it, because the lock keeps everyone else from booking. Settling cannot add
weight as long as nobody records more than he reserved. Theorems:
`TaskInvariant`, `InflightIsAlwaysOpenHolds`, `SpendStaysWithinCaps` (for the
task manager as the caller and a ledger that forgets nothing), `HoldsEnd`,
`KeysAdmitOneTask`, `KeysFindTheirTask`, `RetriesAgree`, `AnsweredTasksAreStored`.

The last part of the module is the guard over the in-memory ledger, under any
callers. The lemmas about the guard are stated of `GuardStep`, which a step of
`FlowNext` is as much as one of `TaskManager`; they ask that the totals the guard
is told are the spend of the flows (`TotalsKept`), and that a flow settles at no
more than it spent. The first holds because `record` adds to totals that no
eviction touches. The second is where the ring comes in: a settlement adds up a
bucket of `byTask`, and a bucket that had kept an evicted record twice, or that
of another task, would settle too much. `LedgerInv` says that the ring is an
unbroken end of `book` and that each bucket lists, oldest first, the records of
its task in the ring (`Lists`). Eviction takes the oldest of the ring, which is
the first of its bucket, so the removal by `_drop_task_entry` leaves a list of
the rest (`ListsDrops`), and the sum over a bucket is the sum over the records it
lists (`SumListed`), a part of what the flow spent (`TaskCostIs`, `SumOfPart`).
The induction over the sequence is put as one over the subsets of what it
lists. `SettledWasSpent` bounds the settled floors by the spend of settled
flows. Theorems: `FlowInvariant`, `IndexAlwaysMatchesRing`,
`CapsHoldOverTheRing`, `SettledIsAlwaysRecorded`.

`SolveAttemptProofs`. Solves share warm sessions and act on them from await to
await, so what one leaves on a session must be known when another gets it. `IInv`
says of each job that it has the context it took exactly while it works on it
(`OwnContext`), that from its begin to its record its parameters name what it
took (`OwnIdentity`), and what there is to undo and to praise at its place
(`OwnTraces`); and of each session that its holder is the one job that has it and
that it is `Orderly`: the routes to be taken off are of its holder's preparation,
and those, as well as the routes whose removal failed, bear the signature the
session carries (`Signed`). That is why the signature check shields an injected
solve from a stuck route: whoever prepares signs first. A cancellation leads to
places a solve passes anyway, so these say all there is to say of it. Theorems:
`SolveInvariant`, `SessionsComeBack`, `RecordsNameTheirEgress`,
`ProxiesArePraisedOnce`, `RoutesComeOff`, `SignaturesShield`.

`RedisLedgerProofs`. Three protocols over one Redis. `Verdicts`: who is past the
claim of a report holds the one verdict of its task. `Migration`: the phases of
a migrating worker, and what the two keys hold in each. `Eviction` is the
strengthening that is not obvious: an index may exceed its bound by any number
of members while evictions interleave, but then somebody has the whole excess in
hand (`InHand`): as many to pick, or so many picked that are still there. It
holds because whoever wrote last read the size last. Theorems: `LedgerInvariant`, `OneVerdictWins`,
`MigratedSpendAddsUp`, `IndexesCatchUp`.

`LifespanProofs`. `Manager` relates the runtime that launched, the fallback
marker and the place of `start()` and `stop()`; `Drivers` says that a driver
process which runs is owned or failed to stop; `Told` that a failure of start-up
is on the degraded list by the time the service is up; `Released` that a stage
of the shutdown that is over left nothing open but what raised. Theorems:
`LifespanInvariant`, `HealthIsTrue`, `NothingDegradedIsHidden`,
`WhatOpensIsReleased`, and for every step `TheBrowserGoesLast`.

`ChallengeProofs`. `AskOK` follows one classification: where the guard has had
its say by the time a cloud call can be made (`Asked`), and what has been paid
for but is not in the usage yet, which is only ever the replies of the vote under
way, or the one reply that a raising budget lookup loses (`Counted`). `Metering`,
`Tiers`, `RecordOK` and `OwnAsk` carry that through the attempt, to its record and
to the next attempt. Theorems: `ChallengeInvariant`, `CloudCallsWereAllowed`,
`RepliesAreMeteredButForOutages`, `RecordsKeepToTheirAttempt`,
`TierTwoFollowsAPassiveWait`.

Only model-checked: the liveness properties (`EverythingEnds`, `CheckoutsEnd`,
`HalfOpenResolves`, `BackInRotation`, `EverySolveEnds`, `SolveEnds`), which are
out of the prover's reach. The write of an overtaken operation is no step of the
contract, so of it only `SharedSoundness` and `SharedQuota` are proved.

## What is not modelled, and why

Page scripts, prompts, image geometry and pointer movement have no shared state
and are a matter of data; the solver families other than hCaptcha differ in them
and appear as the solve step of `SolveAttempt`. Configuration parsing,
fingerprints, routing of task types, request validation and response mapping are
pure look-ups. The image solvers are single calls of the model invoker. The rate
limiter's token bucket is arithmetic on the clock. The windows and rates of the
success accounting decide only the ranking, of which the proxy pool's part is
modelled. The synchronous `create_task` is used by tests only and shares
`_admit` and `_check_admission` with the modelled path. Bandwidth metering,
cookies and timings of an attempt, the exit's location that `set_geo` writes,
the counts of model calls, the TTLs of Redis records (seven days, or longer than
the task's own) and a cancellation inside the shutdown itself are left out.
`InMemoryTaskStore` and `aget_task` after a restart are not modelled yet.

## Plan

Done: the budget guard, the task manager over the Redis store, the session pool
and the model clients; both proxy pools against one contract; both ledgers with
report claims and fan-out; the solve attempt; browser manager and lifespan;
vision plane and the hCaptcha challenge.

Proved: every invariant and every action property the passing runs check, and
the refinements of the contract by both proxy pools.

Next: the in-memory task store with `aget_task` and restarts against one
claim-and-record specification; the windows of the success accounting; the
eviction of sitekey statistics in the proxy pools.
