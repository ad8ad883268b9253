---------------------------- MODULE BrowserManager ----------------------------
(***************************************************************************)
(* The shared browser (src/src/services/browser.py, BrowserManager): the   *)
(* chain from the runtime the operator asked for to the one that launches, *)
(* what health reports of it, and the way down.                            *)
(*                                                                         *)
(* A step goes from one await of start() or stop() to the next.  Driver    *)
(* processes are named for their package; a browser for what really runs:  *)
(* chromium, camoufox, or rebrowser (chromium on the patched driver).      *)
(***************************************************************************)
EXTENDS Integers

CONSTANT MaxFaults   \* bound on the failures injected into a behaviour

ASSUME FaultAssumption == MaxFaults \in Nat

VARIABLES
    asked,      \* configuration and installation: runtime, strict, found, importable, matches
    mgr,        \* the manager's fields
    drivers,    \* driver processes that run
    connected,  \* the browser process lives
    stuck,      \* what was asked to stop and raised
    faults      \* failures so far

managerVars == <<asked, mgr, drivers, connected, stuck, faults>>

None == "none"
NotStarted == "not-started"
Hardened == {"camoufox", "rebrowser"}
Marked == {"chromium(rebrowser-unavailable)", "chromium(rebrowser-launch-failed)"}

NewManager(runtime) ==
    [pc |-> "new", runtime |-> runtime, override |-> None, effective |-> NotStarted,
     playwright |-> None, browser |-> None, disconnected |-> FALSE]

ManagerInit ==
    /\ asked \in [runtime : {"chromium"} \cup Hardened, strict : BOOLEAN,
                  found : BOOLEAN,         \* find_spec sees the runtime's package
                  importable : BOOLEAN,    \* the rebrowser driver can be imported
                  matches : BOOLEAN]       \* the engine has the pinned Chrome major
    /\ mgr = NewManager(asked.runtime)
    /\ drivers = {} /\ connected = FALSE /\ stuck = {} /\ faults = 0

Fault == faults < MaxFaults /\ faults' = faults + 1

StartFails(m) == mgr' = [m EXCEPT !.pc = "failed"]

-----------------------------------------------------------------------------
(* start()                                                                   *)

Unavailable(m) == m.runtime \in Hardened /\ ~ asked.found

\* _prepare_runtime in lenient mode: stock Chromium, with a marker for rebrowser.
Degraded(m) ==
    [m EXCEPT !.runtime = "chromium",
              !.override = IF m.runtime = "rebrowser" THEN "chromium(rebrowser-unavailable)"
                           ELSE @]

Prepared(m) == IF Unavailable(m) THEN Degraded(m) ELSE m

NoImport(m) == m.runtime = "rebrowser" /\ ~ asked.importable

Package(m) == IF m.runtime = "rebrowser" THEN "rebrowser-playwright" ELSE "playwright"

\* The runtime is resolved and its driver started; strict mode raises rather than degrade.
StartDriver ==
    LET m == Prepared(mgr)
        n == IF NoImport(m) THEN Degraded(m) ELSE m IN
    /\ mgr.pc = "new"
    /\ IF asked.strict /\ (Unavailable(mgr) \/ NoImport(mgr))
       THEN StartFails(mgr) /\ UNCHANGED <<drivers, faults>>
       ELSE \/ /\ mgr' = [n EXCEPT !.pc = "launch", !.playwright = Package(n)]
               /\ drivers' = drivers \cup {Package(n)}
               /\ UNCHANGED faults
            \/ Fault /\ StartFails(n) /\ UNCHANGED drivers
    /\ UNCHANGED <<asked, connected, stuck>>

\* What a launch through the running driver gives.
Engine(m) ==
    IF m.runtime = "camoufox" THEN "camoufox"
    ELSE IF m.playwright = "rebrowser-playwright" THEN "rebrowser" ELSE "chromium"

\* _set_effective_runtime
Effective(m) == IF m.override # None THEN m.override ELSE m.runtime

Opened(m) ==
    /\ mgr' = [m EXCEPT !.pc = "validate", !.browser = Engine(m), !.effective = Effective(m),
                        !.disconnected = FALSE]
    /\ connected' = TRUE

Launch ==
    /\ mgr.pc = "launch"
    /\ Opened(mgr)
    /\ UNCHANGED <<asked, drivers, stuck, faults>>

\* Lenient mode tries again: on a new stock driver after rebrowser, whose own driver is
\* stopped or does not stop; else on the driver that runs.
LaunchFails ==
    /\ mgr.pc = "launch" /\ Fault
    /\ \/ /\ asked.strict
          /\ StartFails(mgr) /\ UNCHANGED <<drivers, stuck>>
       \/ /\ ~ asked.strict /\ mgr.runtime = "rebrowser"
          /\ mgr' = [mgr EXCEPT !.pc = "restart"]
          /\ \/ drivers' = drivers \ {mgr.playwright} /\ UNCHANGED stuck
             \/ stuck' = stuck \cup {mgr.playwright} /\ UNCHANGED drivers
       \/ /\ ~ asked.strict /\ mgr.runtime # "rebrowser"
          /\ mgr' = [mgr EXCEPT !.pc = "fallback", !.runtime = "chromium"]
          /\ UNCHANGED <<drivers, stuck>>
    /\ UNCHANGED <<asked, connected>>

\* Mutant: the stock driver launches under the runtime's own name.
RelaunchUnmarked ==
    /\ mgr.pc = "restart"
    /\ mgr' = [mgr EXCEPT !.pc = "fallback", !.playwright = "playwright"]
    /\ drivers' = drivers \cup {"playwright"}
    /\ UNCHANGED <<asked, connected, stuck, faults>>

\* _relaunch_on_stock_playwright
Relaunch ==
    /\ mgr.pc = "restart"
    /\ \/ /\ mgr' = [mgr EXCEPT !.pc = "fallback", !.playwright = "playwright",
                        !.runtime = "chromium",
                        !.override = "chromium(rebrowser-launch-failed)"]
          /\ drivers' = drivers \cup {"playwright"}
          /\ UNCHANGED faults
       \/ Fault /\ StartFails(mgr) /\ UNCHANGED drivers
    /\ UNCHANGED <<asked, connected, stuck>>

Fallback ==
    /\ mgr.pc = "fallback"
    /\ \/ Opened(mgr) /\ UNCHANGED faults
       \/ Fault /\ StartFails(mgr) /\ UNCHANGED connected
    /\ UNCHANGED <<asked, drivers, stuck>>

\* _validate_engine_version: strict mode raises, with the browser up.
Validate ==
    /\ mgr.pc = "validate"
    /\ IF mgr.runtime # "camoufox" /\ asked.strict /\ ~ asked.matches
       THEN StartFails(mgr) ELSE mgr' = [mgr EXCEPT !.pc = "up"]
    /\ UNCHANGED <<asked, drivers, connected, stuck, faults>>

Start == StartDriver \/ Launch \/ LaunchFails \/ Relaunch \/ Fallback \/ Validate

\* The browser process dies; its event may find no supervisor yet.
Disconnect ==
    /\ mgr.browser # None /\ connected
    /\ connected' = FALSE
    /\ \/ mgr' = [mgr EXCEPT !.disconnected = TRUE]
       \/ mgr.pc = "validate" /\ UNCHANGED mgr
    /\ UNCHANGED <<asked, drivers, stuck, faults>>

\* is_ready, with the connection check.
IsReady == mgr.browser # None /\ ~ mgr.disconnected /\ connected

-----------------------------------------------------------------------------
(* stop()                                                                    *)

\* A close that raises ends stop(): the driver is not asked.
CloseBrowser ==
    /\ mgr.browser # None
    /\ \/ /\ mgr' = [mgr EXCEPT !.browser = None, !.pc = "closed"]
          /\ connected' = FALSE
          /\ UNCHANGED <<stuck, faults>>
       \/ /\ Fault /\ stuck' = stuck \cup {"browser"}
          /\ mgr' = [mgr EXCEPT !.pc = "stopped"]
          /\ UNCHANGED connected
    /\ UNCHANGED <<asked, drivers>>

StopDriver ==
    /\ mgr.browser = None
    /\ \/ /\ mgr' = [mgr EXCEPT !.pc = "stopped", !.playwright = None, !.override = None,
                        !.effective = NotStarted, !.disconnected = FALSE]
          /\ drivers' = drivers \ {mgr.playwright}
          /\ UNCHANGED <<stuck, faults>>
       \/ /\ mgr.playwright # None /\ Fault
          /\ stuck' = stuck \cup {mgr.playwright}
          /\ mgr' = [mgr EXCEPT !.pc = "stopped"]
          /\ UNCHANGED drivers
    /\ UNCHANGED <<asked, connected>>

-----------------------------------------------------------------------------
(* While a browser is up, effective_runtime names what runs, and a stock     *)
(* browser launched for rebrowser is told from a deliberate one; for         *)
(* camoufox the runtime differs from the requested one (health's             *)
(* browser_runtime_degraded).                                                *)
HealthTellsTheTruth ==
    mgr.browser # None =>
        /\ mgr.browser \in Hardened => mgr.effective = mgr.browser
        /\ mgr.browser = "chromium" => mgr.effective \in {"chromium"} \cup Marked
        /\ (mgr.browser # asked.runtime) <=> (mgr.runtime # asked.runtime)
        /\ (mgr.browser = "chromium" /\ asked.runtime = "rebrowser") <=> mgr.effective \in Marked
=============================================================================
