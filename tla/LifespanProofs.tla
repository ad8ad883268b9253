---------------------------- MODULE LifespanProofs ----------------------------
(***************************************************************************)
(* Proofs about startup and shutdown, for any runtime and installation and *)
(* any number of failures on the way.                                      *)
(*                                                                         *)
(* Four arguments.  Manager: what is launched is always what the runtime   *)
(* field says, and the override is set exactly when rebrowser gave way to  *)
(* the stock browser.  Drivers: a driver that runs is the manager's own or *)
(* one that refused to stop.  Told: between the build of the planes and    *)
(* the moment the service is up, what is degraded is in `broken` and then  *)
(* in `told`.  Released: a stage of the way down is left only with its     *)
(* subsystem closed, or stuck.                                             *)
(***************************************************************************)
EXTENDS Lifespan, TLAPS

Runtimes == {"chromium"} \cup Hardened
DriverNames == {"playwright", "rebrowser-playwright"}
Starting == {"new", "launch", "restart", "fallback"}
Closers == {"session_pool", "proxy_pool", "discarded", "model_pool", "accounting", "ledger"}
GoingUp == {"inventory", "attach", "prewarm", "configure", "register", "serving"}
Early == {"checks", "browser", "services"}

Managers ==
    [pc : Starting \cup {"validate", "up", "failed", "closed", "stopped"},
     runtime : Runtimes, override : {None} \cup Marked,
     effective : {NotStarted} \cup Runtimes \cup Marked,
     playwright : {None} \cup DriverNames, browser : {None} \cup Runtimes,
     disconnected : BOOLEAN]

Types ==
    /\ asked \in [runtime : Runtimes, strict : BOOLEAN, found : BOOLEAN,
                  importable : BOOLEAN, matches : BOOLEAN]
    /\ mgr \in Managers /\ connected \in BOOLEAN
    /\ drivers \subseteq DriverNames
    /\ stage \in Early \cup GoingUp \cup {"drain", "stop", "down"} \cup Closers
    /\ planes \in [Planes -> {None, "own", "fallback", "closed"}]
    /\ container \in BOOLEAN /\ warm \in BOOLEAN
    /\ broken \subseteq Planes \cup {"session_pool"}

\* The runtime and its marker, while there is a browser or there may be one.
Manager ==
    /\ mgr.pc \in Starting => mgr.browser = None
    /\ (mgr.pc # "stopped" \/ mgr.browser # None) =>
          /\ mgr.runtime \in {asked.runtime, "chromium"}
          /\ mgr.override # None <=> (asked.runtime = "rebrowser" /\ mgr.runtime = "chromium")
    /\ mgr.pc = "new" => mgr.playwright = None
    /\ mgr.pc = "launch" => mgr.playwright = Package(mgr)
    /\ mgr.pc = "restart" => mgr.runtime = "rebrowser"
    /\ mgr.pc = "fallback" => mgr.playwright = "playwright" /\ mgr.runtime = "chromium"
    /\ mgr.browser # None => mgr.browser = mgr.runtime /\ mgr.effective = Effective(mgr)

\* Every driver that runs is the manager's or did not stop.
Drivers ==
    /\ \A d \in drivers : d \in stuck \/ (d = mgr.playwright /\ mgr.pc # "restart")
    /\ mgr.pc = "stopped" =>
          /\ mgr.browser # None => "browser" \in stuck
          /\ mgr.playwright # None => stuck \cap ({"browser"} \cup DriverNames) # {}
    /\ stage = "down" => mgr.pc = "stopped"

\* What is degraded is listed: by the container, and once it is attached by the lifespan.
Told ==
    /\ stage \in Early => ~ container /\ broken = {}
    /\ ~ container => /\ sessions # "open" /\ discarded # "kept"
                      /\ planes = [p \in Planes |-> None] /\ broken = {}
    /\ stage \in {"inventory", "attach"} =>
          /\ container
          /\ \A p \in Planes : planes[p] # "own" =>
                p \in broken \/ (p = "budget" /\ "ledger" \in broken)
    /\ stage \in GoingUp \ {"inventory", "attach"} =>
          /\ container \/ "services" \in told
          /\ broken \subseteq told
          /\ container => \A p \in Planes : planes[p] # "own" =>
                p \in told \/ (p = "budget" /\ "ledger" \in told)
    /\ stage \in GoingUp \cup {"services"} => mgr.pc = "up" \/ "browser" \in told

Down(x) ==
    \/ x \in stuck
    \/ CASE x = "session_pool" -> sessions # "open"
         [] x = "discarded" -> discarded # "kept"
         [] OTHER -> planes[x] \in {None, "closed"}

\* The stages behind the one that closes x.
Behind(x) ==
    {"stop", "down"} \cup
    CASE x = "session_pool" -> Closers \ {"session_pool"}
      [] x = "proxy_pool"   -> Closers \ {"session_pool", "proxy_pool"}
      [] x = "discarded"    -> {"model_pool", "accounting", "ledger"}
      [] x = "model_pool"   -> {"accounting", "ledger"}
      [] x = "accounting"   -> {"ledger"}
      [] x = "ledger"       -> {}

\* A stage is left with its subsystem down, and the tasks before all of them.
Released ==
    /\ \A x \in Closers : stage \in Behind(x) => Down(x)
    /\ stage \in Closers \cup {"stop", "down"} => tasks = "over" \/ "tasks" \in stuck
    /\ warm => sessions = "open"

IInv == Types /\ Manager /\ Drivers /\ Told /\ Released

-----------------------------------------------------------------------------
(* The manager                                                               *)

ManagerTypes ==
    /\ asked \in [runtime : Runtimes, strict : BOOLEAN, found : BOOLEAN,
                  importable : BOOLEAN, matches : BOOLEAN]
    /\ mgr \in Managers /\ connected \in BOOLEAN
    /\ drivers \subseteq DriverNames

\* The runtime and the marker agree with what was asked.
Agrees(m) ==
    /\ m.runtime \in {asked.runtime, "chromium"}
    /\ m.override # None <=> (asked.runtime = "rebrowser" /\ m.runtime = "chromium")

Alike(m, n) ==
    /\ n.pc = m.pc /\ n.effective = m.effective /\ n.playwright = m.playwright
    /\ n.browser = m.browser /\ n.disconnected = m.disconnected

(* Giving way to stock Chromium keeps the marker in step with the runtime.   *)
LEMMA DegradedOK ==
    ASSUME NEW m \in Managers, Agrees(m), asked.runtime \in Runtimes
    PROVE  /\ Degraded(m) \in Managers /\ Agrees(Degraded(m)) /\ Alike(m, Degraded(m))
           /\ Degraded(m).runtime = "chromium"
<1> DEFINE ov == IF m.runtime = "rebrowser" THEN "chromium(rebrowser-unavailable)" ELSE m.override
<1>1. Degraded(m) = [m EXCEPT !.runtime = "chromium", !.override = ov] BY DEF Degraded
<1>2. ov \in {None} \cup Marked BY DEF Managers, Marked
<1>3. ov # None <=> (asked.runtime = "rebrowser")
  BY DEF Agrees, None, Managers, Runtimes, Hardened
<1> HIDE DEF ov
<1>4. /\ Degraded(m) \in Managers /\ Degraded(m).runtime = "chromium" /\ Degraded(m).override = ov
      /\ Alike(m, Degraded(m))
  BY <1>1, <1>2 DEF Managers, Runtimes, Alike
<1> QED BY <1>3, <1>4 DEF Agrees

(* A start that fails keeps everything but the program counter.              *)
LEMMA FailOK ==
    ASSUME NEW m \in Managers, StartFails(m)
    PROVE  /\ mgr' \in Managers /\ mgr'.pc = "failed"
           /\ mgr'.runtime = m.runtime /\ mgr'.override = m.override
           /\ mgr'.effective = m.effective /\ mgr'.playwright = m.playwright
           /\ mgr'.browser = m.browser
BY DEF StartFails, Managers

(* A launch names the browser it opened.                                     *)
LEMMA OpenedOK ==
    ASSUME NEW m \in Managers, Agrees(m), asked.runtime \in Runtimes, Opened(m),
           m.runtime = "rebrowser" <=> m.playwright = "rebrowser-playwright"
    PROVE  /\ mgr' \in Managers /\ mgr'.pc = "validate" /\ connected' = TRUE
           /\ mgr'.runtime = m.runtime /\ mgr'.override = m.override
           /\ mgr'.playwright = m.playwright
           /\ mgr'.browser = mgr'.runtime /\ mgr'.effective = Effective(mgr')
<1>1. Engine(m) = m.runtime
  BY DEF Engine, Managers, Runtimes, Hardened
<1>2. Effective(m) \in {NotStarted} \cup Runtimes \cup Marked BY DEF Effective, Managers, None
<1>3. m.runtime \in Runtimes BY DEF Managers
<1>4. PICK e \in {NotStarted} \cup Runtimes \cup Marked : e = Effective(m) BY <1>2
<1>5. mgr' = [m EXCEPT !.pc = "validate", !.browser = m.runtime, !.effective = e,
                       !.disconnected = FALSE]
  BY <1>1, <1>4 DEF Opened
<1>6. /\ mgr'.pc = "validate" /\ mgr'.runtime = m.runtime /\ mgr'.override = m.override
      /\ mgr'.playwright = m.playwright /\ mgr'.browser = m.runtime /\ mgr'.effective = e
      /\ mgr' \in Managers
  BY <1>3, <1>5 DEF Managers
<1> QED BY <1>4, <1>6 DEF Opened, Effective

(* start() from one await to the next.                                       *)
LEMMA StartOK ==
    ASSUME ManagerTypes, Manager, Drivers, Start, stage # "down", stage' = stage
    PROVE  /\ ManagerTypes' /\ Manager' /\ Drivers'
           /\ asked' = asked /\ stuck \subseteq stuck'
           /\ mgr.browser # None => mgr'.browser # None
<1>t. mgr \in Managers /\ asked.runtime \in Runtimes BY DEF ManagerTypes
<1>n. None \notin DriverNames /\ None \notin Runtimes /\ "rebrowser-playwright" # "playwright"
  BY DEF None, DriverNames, Runtimes, Hardened
<1>p. ASSUME NEW m PROVE Package(m) \in DriverNames
  BY DEF Package, DriverNames
<1>q. ASSUME NEW m, NEW n, m.runtime = n.runtime PROVE Package(m) = Package(n)
  BY <1>q DEF Package
<1>1. CASE StartDriver
  <2> DEFINE m == Prepared(mgr)
             n == IF NoImport(m) THEN Degraded(m) ELSE m
  <2>1. mgr.pc = "new" /\ mgr.browser = None /\ Agrees(mgr)
    BY <1>1 DEF StartDriver, Manager, Starting, Agrees
  <2>2. m \in Managers /\ Agrees(m) /\ Alike(mgr, m)
    BY <1>t, <2>1, DegradedOK DEF Prepared, Alike
  <2>3. n \in Managers /\ Agrees(n) /\ Alike(mgr, n)
    BY <1>t, <2>2, DegradedOK DEF Alike
  <2>4. /\ UNCHANGED <<asked, connected, stuck>>
        /\ \/ StartFails(mgr) /\ UNCHANGED drivers
           \/ /\ mgr' = [n EXCEPT !.pc = "launch", !.playwright = Package(n)]
              /\ drivers' = drivers \cup {Package(n)}
           \/ StartFails(n) /\ UNCHANGED drivers
    BY <1>1 DEF StartDriver
  <2> HIDE DEF n
  <2>5. CASE StartFails(mgr) /\ UNCHANGED drivers
    BY <2>1, <2>4, <2>5, <1>t, <1>n, FailOK
       DEF ManagerTypes, Manager, Agrees, Drivers, Starting
  <2>6. CASE StartFails(n) /\ UNCHANGED drivers
    BY <2>1, <2>3, <2>4, <2>6, <1>t, <1>n, FailOK
       DEF ManagerTypes, Manager, Agrees, Alike, Drivers, Starting
  <2>7. CASE /\ mgr' = [n EXCEPT !.pc = "launch", !.playwright = Package(n)]
             /\ drivers' = drivers \cup {Package(n)}
    <3>1. PICK d \in DriverNames : d = Package(n) BY <1>p
    <3>2. mgr' = [n EXCEPT !.pc = "launch", !.playwright = d] BY <2>7, <3>1
    <3>3. /\ mgr' \in Managers /\ mgr'.pc = "launch" /\ mgr'.playwright = d
          /\ mgr'.runtime = n.runtime /\ mgr'.override = n.override /\ mgr'.browser = None
      BY <2>1, <2>3, <3>2 DEF Managers, Starting, Alike
    <3>4. Package(mgr') = d BY <3>1, <3>3, <1>q
    <3>5. Manager' BY <3>3, <3>4, <2>3, <2>4 DEF Manager, Agrees, Starting
    <3>6. \A e \in drivers : e \in stuck
      BY <2>1, <1>n DEF Drivers, ManagerTypes, Manager
    <3> QED BY <3>1, <3>3, <3>5, <3>6, <2>1, <2>4, <2>7 DEF ManagerTypes, Drivers
  <2> QED BY <2>4, <2>5, <2>6, <2>7
<1>2. CASE Launch
  <2>1. /\ mgr.pc = "launch" /\ mgr.browser = None /\ Agrees(mgr)
        /\ mgr.playwright = Package(mgr) /\ Opened(mgr)
        /\ UNCHANGED <<asked, drivers, stuck>>
    BY <1>2 DEF Launch, Manager, Starting, Agrees
  <2>2. mgr.runtime = "rebrowser" <=> mgr.playwright = "rebrowser-playwright"
    BY <2>1, <1>n DEF Package
  <2> QED BY <2>1, <2>2, <1>t, <1>n, OpenedOK
          DEF ManagerTypes, Manager, Agrees, Drivers, Starting
<1>3. CASE LaunchFails
  <2>1. /\ mgr.pc = "launch" /\ mgr.browser = None /\ Agrees(mgr)
        /\ mgr.playwright = Package(mgr) /\ UNCHANGED <<asked, connected>>
    BY <1>3 DEF LaunchFails, Manager, Starting, Agrees
  <2>2. CASE StartFails(mgr) /\ UNCHANGED <<drivers, stuck>>
    BY <2>1, <2>2, <1>t, <1>n, FailOK DEF ManagerTypes, Manager, Agrees, Drivers, Starting
  <2>3. CASE /\ mgr.runtime = "rebrowser" /\ mgr' = [mgr EXCEPT !.pc = "restart"]
             /\ \/ drivers' = drivers \ {mgr.playwright} /\ UNCHANGED stuck
                \/ stuck' = stuck \cup {mgr.playwright} /\ UNCHANGED drivers
    <3>1. /\ mgr' \in Managers /\ mgr'.pc = "restart" /\ mgr'.playwright = mgr.playwright
          /\ mgr'.runtime = mgr.runtime /\ mgr'.override = mgr.override /\ mgr'.browser = None
      BY <2>1, <2>3, <1>t DEF Managers, Starting
    <3>2. \A d \in drivers' : d \in stuck' BY <2>3 DEF Drivers
    <3>3. Manager' BY <3>1, <2>1, <2>3 DEF Manager, Agrees, Starting
    <3> QED BY <3>1, <3>2, <3>3, <2>1, <2>3 DEF ManagerTypes, Drivers
  <2>4. CASE /\ mgr.runtime # "rebrowser"
             /\ mgr' = [mgr EXCEPT !.pc = "fallback", !.runtime = "chromium"]
             /\ UNCHANGED <<drivers, stuck>>
    <3>1. /\ mgr' \in Managers /\ mgr'.pc = "fallback" /\ mgr'.playwright = mgr.playwright
          /\ mgr'.runtime = "chromium" /\ mgr'.override = mgr.override /\ mgr'.browser = None
      BY <2>1, <2>4, <1>t DEF Managers, Starting, Runtimes
    <3>2. mgr.playwright = "playwright" BY <2>1, <2>4 DEF Package
    <3>3. Agrees(mgr)' BY <2>1, <2>4, <3>1 DEF Agrees
    <3>4. Manager' BY <3>1, <3>2, <3>3 DEF Manager, Agrees
    <3> QED BY <3>1, <3>4, <2>1, <2>4 DEF ManagerTypes, Drivers
  <2> QED BY <1>3, <2>2, <2>3, <2>4 DEF LaunchFails
<1>4. CASE Relaunch
  <2>1. /\ mgr.pc = "restart" /\ mgr.browser = None /\ Agrees(mgr)
        /\ mgr.runtime = "rebrowser" /\ UNCHANGED <<asked, connected, stuck>>
    BY <1>4 DEF Relaunch, Manager, Starting, Agrees
  <2>2. CASE StartFails(mgr) /\ UNCHANGED drivers
    BY <2>1, <2>2, <1>t, <1>n, FailOK DEF ManagerTypes, Manager, Agrees, Drivers, Starting
  <2>3. CASE /\ mgr' = [mgr EXCEPT !.pc = "fallback", !.playwright = "playwright",
                              !.runtime = "chromium",
                              !.override = "chromium(rebrowser-launch-failed)"]
             /\ drivers' = drivers \cup {"playwright"}
    <3>1. /\ mgr' \in Managers /\ mgr'.pc = "fallback" /\ mgr'.playwright = "playwright"
          /\ mgr'.runtime = "chromium" /\ mgr'.browser = None
          /\ mgr'.override = "chromium(rebrowser-launch-failed)"
      BY <2>1, <2>3, <1>t DEF Managers, Starting, Runtimes, DriverNames, Marked
    <3>2. Agrees(mgr)'
      BY <2>1, <3>1, <1>t DEF Agrees, None, Runtimes, Hardened
    <3>3. Manager' BY <3>1, <3>2 DEF Manager, Agrees
    <3>4. \A d \in drivers : d \in stuck BY <2>1 DEF Drivers
    <3> QED BY <3>1, <3>3, <3>4, <2>1, <2>3 DEF ManagerTypes, Drivers, DriverNames
  <2> QED BY <1>4, <2>2, <2>3 DEF Relaunch
<1>5. CASE Fallback
  <2>1. /\ mgr.pc = "fallback" /\ mgr.browser = None /\ Agrees(mgr)
        /\ mgr.playwright = "playwright" /\ mgr.runtime = "chromium"
        /\ UNCHANGED <<asked, drivers, stuck>>
        /\ (Opened(mgr) \/ (StartFails(mgr) /\ UNCHANGED connected))
    <3>1. mgr.pc = "fallback" BY <1>5 DEF Fallback
    <3>2. UNCHANGED <<asked, drivers, stuck>> BY <1>5 DEF Fallback
    <3>3. Opened(mgr) \/ (StartFails(mgr) /\ UNCHANGED connected)
      BY <1>5 DEF Fallback
    <3>4. mgr.browser = None /\ Agrees(mgr) BY <3>1 DEF Manager, Starting, Agrees
    <3> QED BY <3>1, <3>2, <3>3, <3>4 DEF Manager
  <2>2. CASE StartFails(mgr) /\ UNCHANGED connected
    BY <2>1, <2>2, <1>t, <1>n, FailOK DEF ManagerTypes, Manager, Agrees, Drivers, Starting
  <2>3. CASE Opened(mgr)
    BY <2>1, <2>3, <1>t, <1>n, OpenedOK DEF ManagerTypes, Manager, Agrees, Drivers, Starting
  <2> QED BY <2>1, <2>2, <2>3
<1>6. CASE Validate
  <2>1. mgr.pc = "validate" /\ UNCHANGED <<asked, drivers, connected, stuck>>
    BY <1>6 DEF Validate
  <2>2. /\ mgr' \in Managers /\ mgr'.pc \in {"failed", "up"}
        /\ mgr'.runtime = mgr.runtime /\ mgr'.override = mgr.override
        /\ mgr'.effective = mgr.effective /\ mgr'.playwright = mgr.playwright
        /\ mgr'.browser = mgr.browser
    BY <1>6, <1>t, FailOK DEF Validate, Managers
  <2>3. Effective(mgr') = Effective(mgr) BY <2>2 DEF Effective
  <2> QED BY <2>1, <2>2, <2>3 DEF ManagerTypes, Manager, Drivers, Starting
<1> QED BY <1>1, <1>2, <1>3, <1>4, <1>5, <1>6 DEF Start

(* stop(), one await after the other.                                        *)
LEMMA StopOK ==
    ASSUME ManagerTypes, Manager, Drivers, CloseBrowser \/ StopDriver,
           mgr.pc # "stopped", stage # "down", stage' = stage
    PROVE  /\ ManagerTypes' /\ Manager' /\ Drivers'
           /\ asked' = asked /\ stuck \subseteq stuck'
<1>t. mgr \in Managers /\ asked.runtime \in Runtimes BY DEF ManagerTypes
<1>n. None \notin DriverNames /\ None \notin Runtimes
  BY DEF None, DriverNames, Runtimes, Hardened
<1>a. Agrees(mgr) BY DEF Manager, Agrees
<1>1. CASE CloseBrowser
  <2>1. mgr.browser # None /\ UNCHANGED <<asked, drivers>> BY <1>1 DEF CloseBrowser
  <2>2. CASE mgr' = [mgr EXCEPT !.browser = None, !.pc = "closed"] /\ connected' = FALSE
             /\ UNCHANGED stuck
    <3>1. /\ mgr' \in Managers /\ mgr'.pc = "closed" /\ mgr'.browser = None
          /\ mgr'.runtime = mgr.runtime /\ mgr'.override = mgr.override
          /\ mgr'.playwright = mgr.playwright
      BY <2>2, <1>t DEF Managers
    <3>2. mgr.pc # "restart" BY <2>1 DEF Manager, Starting
    <3> QED BY <3>1, <3>2, <2>1, <2>2, <1>a DEF ManagerTypes, Manager, Drivers, Agrees, Starting
  <2>3. CASE stuck' = stuck \cup {"browser"} /\ mgr' = [mgr EXCEPT !.pc = "stopped"]
             /\ UNCHANGED connected
    <3>1. /\ mgr' \in Managers /\ mgr'.pc = "stopped" /\ mgr'.browser = mgr.browser
          /\ mgr'.runtime = mgr.runtime /\ mgr'.override = mgr.override
          /\ mgr'.playwright = mgr.playwright /\ mgr'.effective = mgr.effective
      BY <2>3, <1>t DEF Managers
    <3>2. Effective(mgr') = Effective(mgr) BY <3>1 DEF Effective
    <3> QED BY <3>1, <3>2, <2>1, <2>3, <1>a DEF ManagerTypes, Manager, Drivers, Agrees, Starting
  <2> QED BY <1>1, <2>2, <2>3 DEF CloseBrowser
<1>2. CASE StopDriver
  <2>1. mgr.browser = None /\ UNCHANGED <<asked, connected>> BY <1>2 DEF StopDriver
  <2>2. CASE /\ mgr' = [mgr EXCEPT !.pc = "stopped", !.playwright = None, !.override = None,
                              !.effective = NotStarted, !.disconnected = FALSE]
             /\ drivers' = drivers \ {mgr.playwright} /\ UNCHANGED stuck
    <3>1. /\ mgr' \in Managers /\ mgr'.pc = "stopped" /\ mgr'.browser = None
          /\ mgr'.playwright = None
      BY <2>1, <2>2, <1>t DEF Managers
    <3> QED BY <3>1, <2>1, <2>2 DEF ManagerTypes, Manager, Drivers, Starting
  <2>3. CASE /\ mgr.playwright # None /\ stuck' = stuck \cup {mgr.playwright}
             /\ mgr' = [mgr EXCEPT !.pc = "stopped"] /\ UNCHANGED drivers
    <3>1. /\ mgr' \in Managers /\ mgr'.pc = "stopped" /\ mgr'.browser = None
          /\ mgr'.playwright = mgr.playwright /\ mgr.playwright \in DriverNames
      BY <2>1, <2>3, <1>t DEF Managers
    <3> QED BY <3>1, <2>1, <2>3 DEF ManagerTypes, Manager, Drivers, Starting
  <2> QED BY <1>2, <2>2, <2>3 DEF StopDriver
<1> QED BY <1>1, <1>2

(* The death of the browser process is no matter of its name.                *)
LEMMA DisconnectOK ==
    ASSUME ManagerTypes, Manager, Drivers, Disconnect, stage' = stage
    PROVE  ManagerTypes' /\ Manager' /\ Drivers' /\ stuck' = stuck /\ mgr'.pc = mgr.pc
<1>1. UNCHANGED <<asked, drivers, stuck>> /\ connected' = FALSE BY DEF Disconnect
<1>2. /\ mgr' \in Managers /\ mgr'.pc = mgr.pc /\ mgr'.browser = mgr.browser
      /\ mgr'.runtime = mgr.runtime /\ mgr'.override = mgr.override
      /\ mgr'.playwright = mgr.playwright /\ mgr'.effective = mgr.effective
  BY DEF Disconnect, ManagerTypes, Managers
<1>3. Effective(mgr') = Effective(mgr) /\ Package(mgr') = Package(mgr)
  BY <1>2 DEF Effective, Package
<1>4. ManagerTypes' BY <1>1, <1>2 DEF ManagerTypes
<1>5. Manager' BY <1>1, <1>2, <1>3 DEF Manager
<1>6. Drivers' BY <1>1, <1>2 DEF Drivers
<1> QED BY <1>1, <1>2, <1>4, <1>5, <1>6

(* Everybody else leaves the manager alone.                                  *)
LEMMA UnmovedOK ==
    ASSUME ManagerTypes, Manager, Drivers, UNCHANGED <<asked, mgr, drivers, connected>>,
           stuck \subseteq stuck', stage' = "down" => stage = "down" \/ mgr.pc = "stopped"
    PROVE  ManagerTypes' /\ Manager' /\ Drivers'
BY DEF ManagerTypes, Manager, Drivers, Effective, Package

-----------------------------------------------------------------------------
(* What is degraded is told, what is open is closed                          *)

LifeTypes ==
    /\ stage \in Early \cup GoingUp \cup {"drain", "stop", "down"} \cup Closers
    /\ planes \in [Planes -> {None, "own", "fallback", "closed"}]
    /\ container \in BOOLEAN /\ warm \in BOOLEAN
    /\ broken \subseteq Planes \cup {"session_pool"}

Life == LifeTypes /\ Told /\ Released

(* Before the way down only the warm contexts matter.                        *)
LEMMA NothingBehind ==
    ASSUME NEW s \in Early \cup GoingUp \cup {"drain", "session_pool"}, NEW x \in Closers
    PROVE  s \notin Behind(x)
BY DEF Early, GoingUp, Closers, Behind

(* While the manager starts, stops or loses its browser.                     *)
LEMMA LifeStays ==
    ASSUME Life, UNCHANGED <<stage, planeVars, sessions, warm, broken, told, tasks>>,
           stuck \subseteq stuck', stage \in {"browser", "stop"} \/ mgr'.pc = mgr.pc
    PROVE  Life'
<1>1. LifeTypes' BY DEF Life, LifeTypes, planeVars
<1>2. Told' BY DEF Life, Told, planeVars, GoingUp, Early
<1>3. Released' BY DEF Life, Released, Down, planeVars
<1> QED BY <1>1, <1>2, <1>3 DEF Life

(* A plane that fails to be built is named, or is built from one that is.    *)
LEMMA BuiltNamed ==
    ASSUME NEW bad \in SUBSET Planes, NEW worse \in SUBSET (bad \cap Backed)
    PROVE  /\ Built(bad, worse) \in [Planes -> {None, "own", "fallback", "closed"}]
           /\ Named(bad, Built(bad, worse)) \subseteq Planes
           /\ \A p \in Planes : Built(bad, worse)[p] # "own" =>
                 \/ p \in Named(bad, Built(bad, worse))
                 \/ p = "budget" /\ "ledger" \in Named(bad, Built(bad, worse))
<1> DEFINE own(p) == IF p \notin bad THEN "own"
                     ELSE IF p \in Backed \ worse THEN "fallback" ELSE None
           B == Built(bad, worse)
<1>1. \A p \in Planes : B[p] = IF p = "budget" /\ own("ledger") = None THEN None
                               ELSE IF p = "vision_router" /\ own("model_pool") = None THEN None
                               ELSE own(p)
  BY DEF Built
<1>2. B \in [Planes -> {None, "own", "fallback", "closed"}] BY DEF Built
<1>3. {"budget", "ledger", "vision_router", "model_pool"} \subseteq Planes BY DEF Planes
<1>4. B["ledger"] = own("ledger") /\ B["model_pool"] = own("model_pool")
  BY <1>1, <1>3
<1>5. own("ledger") = None => "ledger" \in bad BY DEF None
<1>6. Named(bad, B) = (bad \ (IF B["ledger"] = None THEN {"budget"} ELSE {}))
                        \cup (IF B["model_pool"] = None THEN {"vision_router"} ELSE {})
  BY DEF Named
<1> HIDE DEF B
<1>7. Named(bad, B) \subseteq Planes BY <1>3, <1>6
<1>8. ASSUME NEW p \in Planes, B[p] # "own"
      PROVE  p \in Named(bad, B) \/ (p = "budget" /\ "ledger" \in Named(bad, B))
  BY <1>1, <1>4, <1>5, <1>6, <1>8
<1> QED BY <1>2, <1>7, <1>8 DEF B

\* The startup's own steps, between those of the browser.
Ascend ==
    \/ CheckAuth \/ BrowserStarted \/ BuildServices \/ ServicesFail
    \/ LoadInventory \/ Attach \/ Prewarm \/ Configure \/ Register

(* On the way up every failure finds its way into told.                      *)
LEMMA AscendOK ==
    ASSUME Life, Ascend
    PROVE  /\ Life' /\ UNCHANGED <<asked, mgr, drivers, connected, stuck>>
           /\ stage' # "down"
<1> USE DEF Life
<1>1. /\ UNCHANGED <<asked, mgr, drivers, connected, stuck>>
      /\ stage' \in Early \cup GoingUp \cup {"drain"}
  BY DEF Ascend, CheckAuth, BrowserStarted, BuildServices, ServicesFail, LoadInventory,
     Attach, Prewarm, Configure, Register, Early, GoingUp, managerVars
<1>n. stage' # "down" /\ stage' \notin Closers \cup {"stop", "down"}
  BY <1>1 DEF Early, GoingUp, Closers
<1>r. ASSUME warm' => sessions' = "open" PROVE Released'
  BY <1>r, <1>1, <1>n, NothingBehind DEF Released
<1>2. CASE CheckAuth
  <2>1. /\ stage = "checks" /\ stage' \in {"browser", "drain"}
        /\ UNCHANGED <<planeVars, warmVars, broken, told>>
    BY <1>2 DEF CheckAuth
  <2>2. Told' BY <1>1, <2>1 DEF Told, planeVars, warmVars, Early, GoingUp
  <2>3. LifeTypes' BY <1>1, <2>1 DEF LifeTypes, planeVars, warmVars
  <2> QED BY <1>1, <1>n, <1>r, <2>1, <2>2, <2>3 DEF Released, warmVars
<1>3. CASE BrowserStarted
  <2>1. /\ stage = "browser" /\ stage' = "services"
        /\ told' = IF mgr.pc = "up" THEN told ELSE told \cup {"browser"}
        /\ UNCHANGED <<planeVars, warmVars, broken>>
    BY <1>3 DEF BrowserStarted
  <2>2. Told' BY <1>1, <2>1 DEF Told, planeVars, warmVars, Early, GoingUp
  <2>3. LifeTypes' BY <1>1, <2>1 DEF LifeTypes, planeVars, warmVars
  <2> QED BY <1>1, <1>n, <1>r, <2>1, <2>2, <2>3 DEF Released, warmVars
<1>4. CASE BuildServices
  <2>1. PICK bad \in SUBSET Planes : \E worse \in SUBSET (bad \cap Backed) :
          planes' = Built(bad, worse) /\ broken' = Named(bad, planes')
    BY <1>4 DEF BuildServices
  <2>2. PICK worse \in SUBSET (bad \cap Backed) :
          planes' = Built(bad, worse) /\ broken' = Named(bad, Built(bad, worse))
    BY <2>1
  <2>3. /\ stage = "services" /\ stage' = "inventory" /\ container' = TRUE
        /\ UNCHANGED <<warmVars, told>>
    BY <1>4 DEF BuildServices
  <2>4. Told' BY <1>1, <2>2, <2>3, BuiltNamed DEF Told, warmVars, Early, GoingUp
  <2>5. LifeTypes' BY <1>1, <2>2, <2>3, BuiltNamed DEF LifeTypes, warmVars
  <2> QED BY <1>1, <1>n, <1>r, <2>3, <2>4, <2>5 DEF Released, warmVars
<1>5. CASE ServicesFail
  <2>1. /\ stage = "services" /\ stage' = "configure" /\ told' = told \cup {"services"}
        /\ UNCHANGED <<planeVars, warmVars, broken>>
    BY <1>5 DEF ServicesFail
  <2>2. Told' BY <1>1, <2>1 DEF Told, planeVars, warmVars, Early, GoingUp
  <2>3. LifeTypes' BY <1>1, <2>1 DEF LifeTypes, planeVars, warmVars
  <2> QED BY <1>1, <1>n, <1>r, <2>1, <2>2, <2>3 DEF Released, warmVars
<1>6. CASE LoadInventory
  <2>1. /\ stage = "inventory" /\ stage' = "attach"
        /\ UNCHANGED <<container, warmVars, told>>
        /\ \/ UNCHANGED <<planes, discarded, broken>>
           \/ /\ planes' = [planes EXCEPT !["proxy_pool"] = "fallback"]
              /\ broken' = broken \cup {"proxy_pool"}
    BY <1>6 DEF LoadInventory
  <2>2. planes \in [Planes -> {None, "own", "fallback", "closed"}] BY DEF LifeTypes
  <2>3. planes' \in [Planes -> {None, "own", "fallback", "closed"}]
        /\ broken' \subseteq Planes \cup {"session_pool"}
    BY <2>1, <2>2 DEF LifeTypes, Planes
  <2>4. broken \subseteq broken' /\ container /\ container'
        /\ \A p \in Planes : planes'[p] = planes[p] \/ p \in broken'
    BY <2>1, <2>2 DEF Told
  <2>5. \A p \in Planes : planes'[p] # "own" =>
          p \in broken' \/ (p = "budget" /\ "ledger" \in broken')
    BY <2>1, <2>4 DEF Told
  <2>6. Told' BY <1>1, <2>1, <2>4, <2>5 DEF Told, Early, GoingUp
  <2>7. LifeTypes' BY <1>1, <2>1, <2>3 DEF LifeTypes, warmVars
  <2> QED BY <1>1, <1>n, <1>r, <2>1, <2>6, <2>7 DEF Released, warmVars
<1>7. CASE Attach
  <2>1. /\ stage = "attach" /\ stage' = "prewarm" /\ told' = told \cup broken'
        /\ UNCHANGED <<planeVars, warm>>
        /\ broken' = broken \/ broken' = broken \cup {"session_pool"}
        /\ sessions' = sessions \/ sessions' = "open"
    BY <1>7 DEF Attach
  <2>2. Told' BY <1>1, <2>1 DEF Told, planeVars, Early, GoingUp
  <2>3. LifeTypes' BY <1>1, <2>1 DEF LifeTypes, planeVars
  <2> QED BY <1>1, <1>n, <1>r, <2>1, <2>2, <2>3 DEF Released
<1>8. CASE Prewarm
  <2>1. /\ stage = "prewarm" /\ stage' = "configure"
        /\ UNCHANGED <<planeVars, sessions, broken>>
        /\ warm' = warm \/ (warm' = TRUE /\ sessions = "open")
        /\ told \subseteq told'
    BY <1>8 DEF Prewarm
  <2>2. Told' BY <1>1, <2>1 DEF Told, planeVars, Early, GoingUp
  <2>3. LifeTypes' BY <1>1, <2>1 DEF LifeTypes, planeVars
  <2> QED BY <1>1, <1>n, <1>r, <2>1, <2>2, <2>3 DEF Released
<1>9. CASE Configure
  <2>1. /\ stage = "configure" /\ stage' = "register"
        /\ UNCHANGED <<planeVars, warmVars, broken>> /\ told \subseteq told'
    BY <1>9 DEF Configure
  <2>2. Told' BY <1>1, <2>1 DEF Told, planeVars, warmVars, Early, GoingUp
  <2>3. LifeTypes' BY <1>1, <2>1 DEF LifeTypes, planeVars, warmVars
  <2> QED BY <1>1, <1>n, <1>r, <2>1, <2>2, <2>3 DEF Released, warmVars
<1>10. CASE Register
  <2>1. /\ stage = "register" /\ stage' \in {"drain", "serving"}
        /\ UNCHANGED <<planeVars, warmVars, broken, told>>
    BY <1>10 DEF Register
  <2>2. Told' BY <1>1, <2>1 DEF Told, planeVars, warmVars, Early, GoingUp
  <2>3. LifeTypes' BY <1>1, <2>1 DEF LifeTypes, planeVars, warmVars
  <2> QED BY <1>1, <1>n, <1>r, <2>1, <2>2, <2>3 DEF Released, warmVars
<1> QED BY <1>1, <1>n, <1>2, <1>3, <1>4, <1>5, <1>6, <1>7, <1>8, <1>9, <1>10 DEF Ascend

(* While the service is up, and when it is asked to stop.                    *)
LEMMA ServeOK ==
    ASSUME Life, Serve \/ ShutDown
    PROVE  /\ Life' /\ UNCHANGED <<asked, mgr, drivers, connected, stuck>>
           /\ stage' # "down"
<1>1. /\ stage = "serving" /\ stage' \in {"serving", "drain"}
      /\ UNCHANGED <<asked, mgr, drivers, connected, stuck, planeVars, sessions, broken, told>>
      /\ warm' \in BOOLEAN /\ (warm' => warm \/ sessions = "open")
  <2>1. CASE Serve
    <3>1. warm' = (warm \/ ("browser" \in registered /\ sessions = "open" /\ IsReady))
      BY <2>1 DEF Serve
    <3>2. warm' \in BOOLEAN /\ (warm' => warm \/ sessions = "open")
      BY <3>1, Zenon DEF Life, LifeTypes
    <3> QED BY <2>1, <3>2 DEF Serve, managerVars
  <2>2. CASE ShutDown
    BY <2>2 DEF ShutDown, managerVars, warmVars, Life, LifeTypes
  <2> QED BY <2>1, <2>2
<1>2. Told' BY <1>1 DEF Life, Told, planeVars, Early, GoingUp
<1>3. LifeTypes' BY <1>1 DEF Life, LifeTypes, planeVars, GoingUp
<1>4. stage' \notin Closers \cup {"stop", "down"}
  BY <1>1 DEF Closers
<1>5. stage' \in Early \cup GoingUp \cup {"drain"} BY <1>1 DEF GoingUp
<1>6. Released' BY <1>1, <1>4, <1>5, NothingBehind DEF Life, Released
<1> QED BY <1>1, <1>2, <1>3, <1>6 DEF Life

(* The order of the way down.                                                *)
LEMMA ClosingIs ==
    /\ {Closing[i] : i \in 1..Len(Closing)} = Closers
    /\ Closing[1] = "session_pool"
    /\ \A x \in Closers : After(x) \in (Closers \cup {"stop"}) \ {"session_pool"}
    /\ \A x, y \in Closers : After(x) \in Behind(y) => x = y \/ x \in Behind(y)
<1>1. /\ Len(Closing) = 6 /\ Closing[1] = "session_pool" /\ Closing[2] = "proxy_pool"
      /\ Closing[3] = "discarded" /\ Closing[4] = "model_pool"
      /\ Closing[5] = "accounting" /\ Closing[6] = "ledger"
  BY DEF Closing
<1>2. 1..6 = {1, 2, 3, 4, 5, 6} OBVIOUS
<1> HIDE DEF Closing
<1>3. {Closing[i] : i \in 1..Len(Closing)} = Closers
  BY <1>1, <1>2 DEF Closers
<1>4. ASSUME NEW x, NEW k \in 1..6, Closing[k] = x,
             \A j \in 1..6 : Closing[j] = x => j = k
      PROVE  After(x) = IF k = 6 THEN "stop" ELSE Closing[k + 1]
  <2> DEFINE i == CHOOSE j \in 1..Len(Closing) : Closing[j] = x
  <2>1. i = k BY <1>1, <1>4
  <2>2. After(x) = IF i = Len(Closing) THEN "stop" ELSE Closing[i + 1] BY DEF After
  <2> HIDE DEF i
  <2> QED BY <2>1, <2>2, <1>1
<1>5. /\ After("session_pool") = "proxy_pool" /\ After("proxy_pool") = "discarded"
      /\ After("discarded") = "model_pool" /\ After("model_pool") = "accounting"
      /\ After("accounting") = "ledger" /\ After("ledger") = "stop"
  <2>1. After("session_pool") = "proxy_pool" BY <1>1, <1>2, <1>4
  <2>2. After("proxy_pool") = "discarded" BY <1>1, <1>2, <1>4
  <2>3. After("discarded") = "model_pool" BY <1>1, <1>2, <1>4
  <2>4. After("model_pool") = "accounting" BY <1>1, <1>2, <1>4
  <2>5. After("accounting") = "ledger" BY <1>1, <1>2, <1>4
  <2>6. After("ledger") = "stop" BY <1>1, <1>2, <1>4
  <2> QED BY <2>1, <2>2, <2>3, <2>4, <2>5, <2>6
<1>6. \A x \in Closers : After(x) \in (Closers \cup {"stop"}) \ {"session_pool"}
  BY <1>5 DEF Closers
<1>7. ASSUME NEW x \in Closers, NEW y \in Closers, After(x) \in Behind(y), x # y
      PROVE  x \in Behind(y)
  BY <1>5, <1>7 DEF Closers, Behind
<1> QED BY <1>1, <1>3, <1>6, <1>7

(* The tasks end first; without a container there is nothing else to close.  *)
LEMMA DrainOK ==
    ASSUME Life, Drain
    PROVE  /\ Life' /\ UNCHANGED <<asked, mgr, drivers, connected>>
           /\ stuck \subseteq stuck' /\ stage' # "down"
<1>1. /\ stage = "drain" /\ stage' = IF container THEN "session_pool" ELSE "stop"
      /\ UNCHANGED <<asked, mgr, drivers, connected, planeVars, warmVars, broken, told>>
      /\ tasks' = "over" \/ "tasks" \in stuck'
      /\ stuck \subseteq stuck'
  BY ClosingIs DEF Drain, AfterDrain
<1>2. Told' BY <1>1 DEF Life, Told, planeVars, warmVars, Early, GoingUp
<1>3. LifeTypes' BY <1>1 DEF Life, LifeTypes, planeVars, warmVars, Closers
<1>4. ASSUME NEW x \in Closers, stage' \in Behind(x) PROVE Down(x)'
  <2>1. ~ container BY <1>1, <1>4, NothingBehind
  <2>2. sessions # "open" /\ discarded # "kept" /\ \A p \in Planes : planes[p] = None
    BY <2>1 DEF Life, Told
  <2> QED BY <2>2, <1>1 DEF Down, planeVars, warmVars, Closers, Planes
<1>5. Released' BY <1>1, <1>4 DEF Life, Released, warmVars
<1> QED BY <1>1, <1>2, <1>3, <1>5 DEF Life

(* A subsystem is closed, was never opened, or its closer raised.            *)
LEMMA CloseOK ==
    ASSUME Life, NEW x \in Closers, Close(x)
    PROVE  /\ Life' /\ UNCHANGED <<asked, mgr, drivers, connected>>
           /\ stuck \subseteq stuck' /\ stage' # "down"
<1>1. /\ stage = x /\ stage' = After(x)
      /\ UNCHANGED <<asked, mgr, drivers, connected, container, attached, broken, told, tasks>>
      /\ stuck \subseteq stuck'
  BY DEF Close
<1>2. stage' \in (Closers \cup {"stop"}) \ {"session_pool"} BY <1>1, ClosingIs
<1>3. \/ Open(x) /\ Closed(x)
      \/ x \in stuck' /\ UNCHANGED <<sessions, warm, planes, discarded>>
      \/ ~ Open(x) /\ UNCHANGED <<sessions, warm, planes, discarded>>
  BY DEF Close
<1>4. planes \in [Planes -> {None, "own", "fallback", "closed"}] /\ warm \in BOOLEAN
  BY DEF Life, LifeTypes
<1>5. /\ sessions' = sessions \/ sessions' = "closed"
      /\ discarded' = discarded \/ discarded' = "closed"
      /\ planes' \in [Planes -> {None, "own", "fallback", "closed"}]
      /\ \A p \in Planes : planes'[p] = planes[p] \/ planes'[p] = "closed"
      /\ warm' \in BOOLEAN
  BY <1>3, <1>4 DEF Closed
<1>6. Down(x)'
  <2>1. CASE Open(x) /\ Closed(x)
    BY <2>1, <1>4 DEF Down, Closed, Closers, Planes
  <2>2. CASE x \in stuck' BY <2>2 DEF Down
  <2>3. CASE ~ Open(x) /\ UNCHANGED <<sessions, warm, planes, discarded>>
    BY <2>3 DEF Down, Open, Closers
  <2> QED BY <1>3, <2>1, <2>2, <2>3
<1>7. ASSUME NEW y \in Closers, stage' \in Behind(y) PROVE Down(y)'
  <2>1. CASE y = x BY <2>1, <1>6
  <2>2. CASE y # x
    <3>1. Down(y) BY <2>2, <1>1, <1>7, ClosingIs DEF Life, Released
    <3> QED BY <3>1, <1>1, <1>5 DEF Down, Closers, Planes
  <2> QED BY <2>1, <2>2
<1>8. warm' => sessions' = "open"
  <2>1. CASE Closed(x)
    BY <2>1, <1>4 DEF Closed, Life, Released
  <2>2. CASE UNCHANGED <<sessions, warm, planes, discarded>>
    BY <2>2 DEF Life, Released
  <2> QED BY <1>3, <2>1, <2>2
<1>9. Released'
  BY <1>1, <1>7, <1>8 DEF Life, Released
<1>10. LifeTypes' BY <1>1, <1>2, <1>5 DEF Life, LifeTypes
<1>11. ~ container => UNCHANGED <<sessions, discarded, planes>>
  <2> SUFFICES ASSUME ~ container PROVE ~ Open(x)
    BY <1>3
  <2>1. sessions # "open" /\ discarded # "kept" /\ \A p \in Planes : planes[p] = None
    BY DEF Life, Told
  <2> QED BY <2>1 DEF Open, Closers, Planes
<1>12. stage \in Closers /\ stage' \notin Early \cup GoingUp
  BY <1>1, <1>2 DEF Closers, Early, GoingUp
<1>13. Told'
  <2>1. stage' \notin Early /\ stage' \notin GoingUp \cup {"services", "inventory", "attach"}
    BY <1>12 DEF Early, GoingUp
  <2> QED BY <1>1, <1>11, <2>1 DEF Life, Told
<1>14. stage' # "down" BY <1>2 DEF Closers
<1> QED BY <1>1, <1>9, <1>10, <1>13, <1>14 DEF Life

-----------------------------------------------------------------------------
(* The invariant and the properties it implies                               *)

(* Nothing is up yet.                                                        *)
LEMMA InitOK == Init => IInv
<1> SUFFICES ASSUME Init PROVE IInv OBVIOUS
<1>1. mgr = [pc |-> "new", runtime |-> asked.runtime, override |-> None,
             effective |-> NotStarted, playwright |-> None, browser |-> None,
             disconnected |-> FALSE]
  BY DEF Init, ManagerInit, NewManager
<1>2. asked \in [runtime : Runtimes, strict : BOOLEAN, found : BOOLEAN,
                 importable : BOOLEAN, matches : BOOLEAN]
  BY DEF Init, ManagerInit, Runtimes
<1>3. mgr \in Managers BY <1>1, <1>2 DEF Managers, Starting
<1>4. drivers = {} /\ connected = FALSE /\ stage = "checks" BY DEF Init, ManagerInit
<1>5. Types BY <1>2, <1>3, <1>4 DEF Init, Types, Early
<1>6. Manager BY <1>1, <1>2 DEF Manager, Runtimes, Hardened, None
<1>7. Drivers BY <1>1, <1>4 DEF Drivers
<1>8. Told BY <1>4 DEF Init, Told, GoingUp, None
<1>9. \A x \in Closers : stage \notin Behind(x) BY <1>4, NothingBehind DEF Early
<1>10. Released BY <1>4, <1>9 DEF Init, Released, Closers
<1> QED BY <1>5, <1>6, <1>7, <1>8, <1>10 DEF IInv

\* The invariant as its two halves.
Whole == ManagerTypes /\ Manager /\ Drivers /\ Life

(* Every step keeps it.                                                      *)
LEMMA NextOK == IInv /\ [Next]_vars => IInv'
<1>1. IInv <=> Whole
  BY DEF IInv, Whole, Types, ManagerTypes, Life, LifeTypes
<1>2. IInv' <=> Whole'
  BY DEF IInv, Whole, Types, ManagerTypes, Life, LifeTypes
<1> SUFFICES ASSUME Whole, [Next]_vars PROVE Whole'
  BY <1>1, <1>2
<1> USE DEF Whole
<1>3. CASE StartBrowser
  <2>1. /\ Start /\ stage = "browser" /\ stage' = stage
        /\ UNCHANGED <<planeVars, warmVars, broken, told, tasks>>
    BY <1>3 DEF StartBrowser
  <2>2. ManagerTypes' /\ Manager' /\ Drivers' /\ stuck \subseteq stuck'
    BY <2>1, StartOK
  <2> QED BY <2>1, <2>2, LifeStays DEF warmVars
<1>4. CASE Ascend BY <1>4, AscendOK, UnmovedOK
<1>5. CASE Serve \/ ShutDown BY <1>5, ServeOK, UnmovedOK
<1>6. CASE BrowserDies
  <2>1. /\ Disconnect /\ stage' = stage
        /\ UNCHANGED <<planeVars, warmVars, broken, told, tasks>>
    BY <1>6 DEF BrowserDies
  <2>2. ManagerTypes' /\ Manager' /\ Drivers' /\ stuck' = stuck /\ mgr'.pc = mgr.pc
    BY <2>1, DisconnectOK
  <2> QED BY <2>1, <2>2, LifeStays DEF warmVars
<1>7. CASE Drain BY <1>7, DrainOK, UnmovedOK
<1>8. CASE \E x \in Closers : Close(x) BY <1>8, CloseOK, UnmovedOK
<1>9. CASE StopBrowser
  <2>1. stage = "stop" /\ UNCHANGED <<planeVars, sessions, warm, broken, told, tasks>>
    BY <1>9 DEF StopBrowser
  <2>2. CASE mgr.pc # "stopped" /\ (CloseBrowser \/ StopDriver) /\ UNCHANGED stage
    <3>1. ManagerTypes' /\ Manager' /\ Drivers' /\ stuck \subseteq stuck'
      BY <2>1, <2>2, StopOK
    <3> QED BY <2>1, <2>2, <3>1, LifeStays
  <2>3. CASE mgr.pc = "stopped" /\ stage' = "down" /\ UNCHANGED managerVars
    <3>1. ManagerTypes' /\ Manager' /\ Drivers'
      BY <2>3, UnmovedOK DEF managerVars
    <3>2. LifeTypes' BY <2>1, <2>3 DEF Life, LifeTypes, planeVars
    <3>3. Told' BY <2>1, <2>3 DEF Life, Told, planeVars, managerVars, Early, GoingUp
    <3>4. \A x \in Closers : stage \in Behind(x) BY <2>1 DEF Behind, Closers
    <3>5. Released' BY <2>1, <2>3, <3>4 DEF Life, Released, Down, planeVars, managerVars
    <3> QED BY <3>1, <3>2, <3>3, <3>5 DEF Life
  <2> QED BY <1>9, <2>2, <2>3 DEF StopBrowser
<1>10. CASE UNCHANGED vars
  <2>1. UNCHANGED <<asked, mgr, drivers, connected, stuck, stage, planeVars, sessions, warm,
                    broken, told, tasks>>
    BY <1>10 DEF vars, managerVars, planeVars
  <2> QED BY <2>1, UnmovedOK, LifeStays
<1> QED BY <1>3, <1>4, <1>5, <1>6, <1>7, <1>8, <1>9, <1>10, ClosingIs
        DEF Next, Startup, Shutdown, Ascend

(* The inductive invariant of startup and shutdown holds throughout.         *)
THEOREM LifespanInvariant == Spec => []IInv
<1> QED BY InitOK, NextOK, PTL DEF Spec

(* Health names the browser that really runs, and marks the stock one that   *)
(* stands in for rebrowser, along every way down the fallback chain.         *)
THEOREM HealthIsTrue == Spec => []HealthTellsTheTruth
<1>1. IInv => HealthTellsTheTruth
  <2> SUFFICES ASSUME IInv, mgr.browser # None
               PROVE  /\ mgr.browser \in Hardened => mgr.effective = mgr.browser
                      /\ mgr.browser = "chromium" => mgr.effective \in {"chromium"} \cup Marked
                      /\ (mgr.browser # asked.runtime) <=> (mgr.runtime # asked.runtime)
                      /\ (mgr.browser = "chromium" /\ asked.runtime = "rebrowser")
                           <=> mgr.effective \in Marked
    BY DEF HealthTellsTheTruth
  <2>1. /\ mgr.browser = mgr.runtime
        /\ mgr.effective = IF mgr.override # None THEN mgr.override ELSE mgr.runtime
        /\ mgr.override # None <=> (asked.runtime = "rebrowser" /\ mgr.runtime = "chromium")
        /\ mgr.override \in {None} \cup Marked
        /\ mgr.runtime \in {"chromium", "camoufox", "rebrowser"}
    BY DEF IInv, Types, Managers, Manager, Effective, Runtimes, Hardened
  <2> QED BY <2>1 DEF Hardened, Marked, None
<1> QED BY <1>1, LifespanInvariant, PTL

(* What is missing or runs on its fallback while the service is up is told.  *)
THEOREM NothingDegradedIsHidden == Spec => []DegradedTellsAll
<1>1. IInv => DegradedTellsAll
  BY DEF IInv, Told, DegradedTellsAll, GoingUp
<1> QED BY <1>1, LifespanInvariant, PTL

(* Once it is down nothing is left open but what refused to close.           *)
THEOREM WhatOpensIsReleased == Spec => []EverythingReleased
<1>1. IInv => EverythingReleased
  <2> SUFFICES ASSUME IInv, stage = "down"
               PROVE  /\ drivers # {} \/ mgr.browser # None =>
                           stuck \cap {"browser", "playwright", "rebrowser-playwright"} # {}
                      /\ sessions = "open" => "session_pool" \in stuck
                      /\ discarded = "kept" => "discarded" \in stuck
                      /\ \A p \in Planes \cap {Closing[i] : i \in 1..Len(Closing)} :
                           planes[p] \in {None, "closed"} \/ p \in stuck
    BY DEF EverythingReleased
  <2>1. mgr.pc = "stopped" BY DEF IInv, Drivers
  <2>2. \A x \in Closers : Down(x) BY DEF IInv, Released, Behind, Closers
  <2>3. mgr.browser # None => "browser" \in stuck BY <2>1 DEF IInv, Drivers
  <2>4. ASSUME NEW d \in drivers
        PROVE  stuck \cap {"browser", "playwright", "rebrowser-playwright"} # {}
    <3>1. d \in DriverNames /\ d # None
      BY DEF IInv, Types, DriverNames, None
    <3>2. d \in stuck \/ d = mgr.playwright BY DEF IInv, Drivers
    <3> QED BY <2>1, <3>1, <3>2 DEF IInv, Drivers, DriverNames
  <2>5. \A p \in Planes \cap Closers : planes[p] \in {None, "closed"} \/ p \in stuck
    BY <2>2 DEF Down, Closers, Planes
  <2>6. Down("session_pool") /\ Down("discarded") BY <2>2 DEF Closers
  <2>7. /\ sessions = "open" => "session_pool" \in stuck
        /\ discarded = "kept" => "discarded" \in stuck
    BY <2>6 DEF Down
  <2> QED BY <2>3, <2>4, <2>5, <2>7, ClosingIs
<1> QED BY <1>1, LifespanInvariant, PTL

(* The browser is closed last: neither a running task nor a warm context is  *)
(* left in it, unless what should have ended them raised.                    *)
THEOREM TheBrowserGoesLast == Spec => NothingOutlivesItsBrowser
<1> DEFINE Gone == mgr.browser # None /\ mgr'.browser = None
           Last == /\ tasks = "over" \/ "tasks" \in stuck
                   /\ warm => "session_pool" \in stuck
<1>1. IInv /\ [Next]_vars => [Gone => Last]_vars
  <2> SUFFICES ASSUME IInv, Next, Gone PROVE Last OBVIOUS
  <2>1. ManagerTypes /\ Manager /\ Drivers /\ Life
    BY DEF IInv, Types, ManagerTypes, Life, LifeTypes
  <2>2. mgr' # mgr OBVIOUS
  <2>3. CASE StartBrowser
    <3>1. Start /\ stage = "browser" /\ stage' = stage BY <2>3 DEF StartBrowser
    <3> QED BY <3>1, <2>1, StartOK
  <2>4. CASE BrowserDies
    <3>1. mgr' = mgr \/ mgr' = [mgr EXCEPT !.disconnected = TRUE]
      BY <2>4 DEF BrowserDies, Disconnect
    <3>2. mgr'.browser = mgr.browser BY <3>1, <2>1 DEF ManagerTypes, Managers
    <3> QED BY <3>2
  <2>5. CASE StopBrowser
    <3>1. stage = "stop" BY <2>5 DEF StopBrowser
    <3>2. tasks = "over" \/ "tasks" \in stuck BY <3>1 DEF IInv, Released
    <3>3. Down("session_pool") BY <3>1 DEF IInv, Released, Behind, Closers
    <3>4. warm => "session_pool" \in stuck BY <3>3 DEF IInv, Released, Down
    <3> QED BY <3>2, <3>4
  <2>6. CASE Ascend BY <2>6, <2>1, <2>2, AscendOK
  <2>7. CASE Serve \/ ShutDown BY <2>7, <2>1, <2>2, ServeOK
  <2>8. CASE Drain BY <2>8, <2>1, <2>2, DrainOK
  <2>9. CASE \E x \in Closers : Close(x) BY <2>9, <2>1, <2>2, CloseOK
  <2>10. CASE UNCHANGED vars BY <2>10, <2>2 DEF vars, managerVars
  <2> QED BY <2>3, <2>4, <2>5, <2>6, <2>7, <2>8, <2>9, <2>10, ClosingIs
          DEF Next, Startup, Shutdown, Ascend
<1> QED BY <1>1, LifespanInvariant, PTL DEF Spec, NothingOutlivesItsBrowser
=============================================================================
