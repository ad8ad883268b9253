------------------------------- MODULE Lifespan -------------------------------
(***************************************************************************)
(* Startup and shutdown of the service (src/src/main.py, lifespan;         *)
(* src/src/core/services.py, SolverServices): the browser, the shared      *)
(* planes and the solvers come up in order, each may fail, and what came   *)
(* up goes down in reverse.                                                *)
(*                                                                         *)
(* A plane runs on its configured backend, on an in-memory fallback, or    *)
(* not at all.  Solvers are registered in two groups: those that need the  *)
(* browser and those that only call models.                                *)
(***************************************************************************)
EXTENDS BrowserManager, FiniteSets, Sequences

VARIABLES
    stage,       \* where the lifespan is
    planes,      \* planes[p]: the backend of plane p
    container,   \* SolverServices was built
    attached,    \* services.browser_manager is the manager
    sessions,    \* the warm session pool: none, open, closed
    warm,        \* it holds contexts of the browser
    discarded,   \* _discarded_pools: none, kept, closed
    broken,      \* services.degraded
    told,        \* the lifespan's degraded list, app.state.degraded once it serves
    registered,  \* groups of task types that have a solver
    tasks        \* none, running, over

vars == <<managerVars, stage, planes, container, attached, sessions, warm, discarded,
          broken, told, registered, tasks>>
planeVars == <<planes, container, discarded>>
warmVars == <<attached, sessions, warm>>

Planes == {"ledger", "budget", "accounting", "token_verifier", "model_pool",
           "vision_router", "proxy_pool"}
Backed == {"ledger", "accounting", "proxy_pool"}   \* those with an in-memory fallback

Init ==
    /\ ManagerInit
    /\ stage = "checks"
    /\ planes = [p \in Planes |-> None] /\ container = FALSE
    /\ attached = FALSE /\ sessions = None /\ warm = FALSE /\ discarded = None
    /\ broken = {} /\ told = {} /\ registered = {} /\ tasks = None

\* A keyless public bind is refused before anything starts.
CheckAuth ==
    /\ stage = "checks"
    /\ stage' \in {"browser", "drain"}
    /\ UNCHANGED <<managerVars, planeVars, warmVars, broken, told, registered, tasks>>

StartBrowser ==
    /\ stage = "browser" /\ Start
    /\ UNCHANGED <<stage, planeVars, warmVars, broken, told, registered, tasks>>

\* start() returned or raised; the manager is kept in both cases.
BrowserStarted ==
    /\ stage = "browser" /\ mgr.pc \in {"up", "failed"}
    /\ stage' = "services"
    /\ told' = IF mgr.pc = "up" THEN told ELSE told \cup {"browser"}
    /\ UNCHANGED <<managerVars, planeVars, warmVars, broken, registered, tasks>>

-----------------------------------------------------------------------------
(* SolverServices.__init__                                                   *)

\* _build: the planes of bad fail, those of worse have no fallback either.
Built(bad, worse) ==
    LET own(p) == IF p \notin bad THEN "own"
                  ELSE IF p \in Backed \ worse THEN "fallback" ELSE None
    IN [p \in Planes |->
          IF p = "budget" /\ own("ledger") = None THEN None
          ELSE IF p = "vision_router" /\ own("model_pool") = None THEN None
          ELSE own(p)]

\* vision_router is named with the model pool it misses; the budget is not built.
Named(bad, built) ==
    (bad \ (IF built["ledger"] = None THEN {"budget"} ELSE {}))
        \cup (IF built["model_pool"] = None THEN {"vision_router"} ELSE {})

BuildServices ==
    /\ stage = "services"
    /\ \E bad \in SUBSET Planes : \E worse \in SUBSET (bad \cap Backed) :
          /\ faults + Cardinality(bad) + Cardinality(worse) <= MaxFaults
          /\ faults' = faults + Cardinality(bad) + Cardinality(worse)
          /\ planes' = Built(bad, worse)
          /\ broken' = Named(bad, planes')
    /\ container' = TRUE
    /\ stage' = "inventory"
    /\ UNCHANGED <<asked, mgr, drivers, connected, stuck, warmVars, discarded, told,
                   registered, tasks>>

\* The container itself cannot be built; clients connect lazily, so none is open yet.
ServicesFail ==
    /\ stage = "services" /\ Fault
    /\ told' = told \cup {"services"}
    /\ stage' = "configure"
    /\ UNCHANGED <<asked, mgr, drivers, connected, stuck, planeVars, warmVars, broken,
                   registered, tasks>>

\* _load_proxy_inventory: a pool that rejects the inventory is replaced, and kept for close.
LoadInventory ==
    /\ stage = "inventory"
    /\ stage' = "attach"
    /\ \/ UNCHANGED <<planes, discarded, broken, faults>>
       \/ /\ planes["proxy_pool"] # None /\ Fault
          /\ discarded' = "kept"
          /\ planes' = [planes EXCEPT !["proxy_pool"] = "fallback"]
          /\ broken' = broken \cup {"proxy_pool"}
    /\ UNCHANGED <<asked, mgr, drivers, connected, stuck, container, warmVars, told,
                   registered, tasks>>

\* Mutant: the degraded planes are read before the browser is attached.
AttachToldEarly ==
    /\ stage = "attach"
    /\ attached' = TRUE
    /\ \/ UNCHANGED <<sessions, broken, faults>>
       \/ Fault /\ broken' = broken \cup {"session_pool"} /\ UNCHANGED sessions
       \/ sessions' = "open" /\ UNCHANGED <<broken, faults>>
    /\ stage' = "prewarm"
    /\ told' = told \cup broken
    /\ UNCHANGED <<asked, mgr, drivers, connected, stuck, planeVars, warm, registered, tasks>>

\* attach_browser: the session pool is built, unless it is switched off.
Attach ==
    /\ stage = "attach"
    /\ attached' = TRUE
    /\ \/ UNCHANGED <<sessions, broken, faults>>
       \/ Fault /\ broken' = broken \cup {"session_pool"} /\ UNCHANGED sessions
       \/ sessions' = "open" /\ UNCHANGED <<broken, faults>>
    /\ stage' = "prewarm"
    /\ told' = told \cup broken'
    /\ UNCHANGED <<asked, mgr, drivers, connected, stuck, planeVars, warm, registered, tasks>>

\* prewarm_sessions, if there is a pool and it is wanted: without a browser it raises.
Prewarm ==
    /\ stage = "prewarm"
    /\ stage' = "configure"
    /\ \/ UNCHANGED <<warm, told>>
       \/ /\ sessions = "open"
          /\ IF IsReady THEN warm' = TRUE /\ UNCHANGED told
             ELSE told' = told \cup {"services"} /\ UNCHANGED warm
    /\ UNCHANGED <<managerVars, planeVars, attached, sessions, broken, registered, tasks>>

Configure ==
    /\ stage = "configure"
    /\ stage' = "register"
    /\ \/ UNCHANGED <<told, faults>>
       \/ Fault /\ told' = told \cup {"task_store"}
    /\ UNCHANGED <<asked, mgr, drivers, connected, stuck, planeVars, warmVars, broken,
                   registered, tasks>>

-----------------------------------------------------------------------------
(* _register_solver                                                          *)

\* The groups whose solvers are constructed: the browser's only if it started.
Offered == IF mgr.pc = "up" THEN {"browser", "vision"} ELSE {"vision"}

\* A group may fail; with no solver at all the service does not start.
Register ==
    /\ stage = "register"
    /\ \E failing \in SUBSET Offered :
          /\ faults + Cardinality(failing) <= MaxFaults
          /\ faults' = faults + Cardinality(failing)
          /\ registered' = Offered \ failing
    /\ stage' = IF registered' = {} THEN "drain" ELSE "serving"
    /\ UNCHANGED <<asked, mgr, drivers, connected, stuck, planeVars, warmVars, broken, told,
                   tasks>>

\* Tasks run while the service does; a browser solve leaves a warm context.
Serve ==
    /\ stage = "serving" /\ tasks = None
    /\ tasks' = "running"
    /\ warm' = (warm \/ ("browser" \in registered /\ sessions = "open" /\ IsReady))
    /\ UNCHANGED <<managerVars, stage, planeVars, attached, sessions, broken, told, registered>>

ShutDown ==
    /\ stage = "serving"
    /\ stage' = "drain"
    /\ UNCHANGED <<managerVars, planeVars, warmVars, broken, told, registered, tasks>>

\* The browser may die at any time; nobody relaunches it.
BrowserDies ==
    /\ Disconnect
    /\ UNCHANGED <<stage, planeVars, warmVars, broken, told, registered, tasks>>

-----------------------------------------------------------------------------
(* The way down: every step is guarded.                                      *)

Closing == <<"session_pool", "proxy_pool", "discarded", "model_pool", "accounting", "ledger">>

\* Mutant: the browser goes before the services.
AfterDrainBrowser == "stop"

AfterDrain == IF container THEN Closing[1] ELSE "stop"

\* task_manager.shutdown cancels and awaits the runners.
Drain ==
    /\ stage = "drain"
    /\ stage' = AfterDrain
    /\ \/ tasks' = "over" /\ UNCHANGED <<stuck, faults>>
       \/ Fault /\ stuck' = stuck \cup {"tasks"} /\ UNCHANGED tasks
    /\ UNCHANGED <<asked, mgr, drivers, connected, planeVars, warmVars, broken, told, registered>>

Open(x) ==
    CASE x = "session_pool" -> sessions = "open"
      [] x = "discarded" -> discarded = "kept"
      [] OTHER -> planes[x] # None

After(x) == LET i == CHOOSE j \in 1..Len(Closing) : Closing[j] = x
            IN IF i = Len(Closing) THEN "stop" ELSE Closing[i + 1]

\* Closing a session pool closes its contexts, or tries to.
Closed(x) ==
    /\ sessions' = IF x = "session_pool" THEN "closed" ELSE sessions
    /\ warm' = (warm /\ x # "session_pool")
    /\ discarded' = IF x = "discarded" THEN "closed" ELSE discarded
    /\ planes' = IF x \in Planes THEN [planes EXCEPT ![x] = "closed"] ELSE planes

\* Mutant: a closer that raises ends the shutdown of the services.
CloseUnguarded(x) ==
    /\ stage = x
    /\ \/ Open(x) /\ Closed(x) /\ stage' = After(x) /\ UNCHANGED <<stuck, faults>>
       \/ Open(x) /\ Fault /\ stuck' = stuck \cup {x} /\ stage' = "stop"
             /\ UNCHANGED <<sessions, warm, planes, discarded>>
       \/ ~ Open(x) /\ stage' = After(x)
             /\ UNCHANGED <<stuck, faults, sessions, warm, planes, discarded>>
    /\ UNCHANGED <<asked, mgr, drivers, connected, container, attached, broken, told,
                   registered, tasks>>

\* SolverServices.close, one subsystem after the other.
Close(x) ==
    /\ stage = x
    /\ stage' = After(x)
    /\ \/ Open(x) /\ Closed(x) /\ UNCHANGED <<stuck, faults>>
       \/ Open(x) /\ Fault /\ stuck' = stuck \cup {x}
             /\ UNCHANGED <<sessions, warm, planes, discarded>>
       \/ ~ Open(x) /\ UNCHANGED <<stuck, faults, sessions, warm, planes, discarded>>
    /\ UNCHANGED <<asked, mgr, drivers, connected, container, attached, broken, told,
                   registered, tasks>>

\* set_services(None), then the browser and its driver.
StopBrowser ==
    /\ stage = "stop"
    /\ attached' = FALSE
    /\ \/ mgr.pc # "stopped" /\ (CloseBrowser \/ StopDriver) /\ UNCHANGED stage
       \/ mgr.pc = "stopped" /\ stage' = "down" /\ UNCHANGED managerVars
    /\ UNCHANGED <<planeVars, sessions, warm, broken, told, registered, tasks>>

Startup ==
    \/ CheckAuth \/ StartBrowser \/ BrowserStarted \/ BuildServices \/ ServicesFail
    \/ LoadInventory \/ Attach \/ Prewarm \/ Configure \/ Register

Shutdown == Drain \/ (\E x \in {Closing[i] : i \in 1..Len(Closing)} : Close(x)) \/ StopBrowser

Next ==
    \/ Startup \/ Serve \/ ShutDown \/ BrowserDies \/ Shutdown
    \/ stage = "down" /\ UNCHANGED vars

Spec == Init /\ [][Next]_vars

-----------------------------------------------------------------------------
(* A subsystem that is missing or runs on its fallback while the service is  *)
(* up is named in app.state.degraded, itself or with the one it is built     *)
(* from, whatever the order in which things failed.                          *)
DegradedTellsAll ==
    stage = "serving" =>
        /\ \A p \in Planes :
              (container /\ planes[p] # "own") =>
                  p \in told \/ (p = "budget" /\ "ledger" \in told)
        /\ container \/ "services" \in told
        /\ broken \subseteq told
        /\ mgr.pc # "up" => "browser" \in told

(* When the service is down, every driver, browser, pool and client is       *)
(* released, except one whose own closer raised (browser and driver are one  *)
(* subsystem): also after a start that failed half way and when a neighbour  *)
(* fails to close.                                                           *)
EverythingReleased ==
    stage = "down" =>
        /\ drivers # {} \/ mgr.browser # None =>
              stuck \cap {"browser", "playwright", "rebrowser-playwright"} # {}
        /\ sessions = "open" => "session_pool" \in stuck
        /\ discarded = "kept" => "discarded" \in stuck
        /\ \A p \in Planes \cap {Closing[i] : i \in 1..Len(Closing)} :
              planes[p] \in {None, "closed"} \/ p \in stuck

(* The browser is closed only after the tasks that drive it and the warm     *)
(* contexts that live in it are gone, unless their own end raised.           *)
NothingOutlivesItsBrowser ==
    [][ (mgr.browser # None /\ mgr'.browser = None) =>
            /\ tasks = "over" \/ "tasks" \in stuck
            /\ warm => "session_pool" \in stuck ]_vars
=============================================================================
