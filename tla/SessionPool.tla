------------------------------ MODULE SessionPool ------------------------------
(***************************************************************************)
(* The warm browser-session pool: src/src/assets/session_pool.py.          *)
(*                                                                         *)
(* A call c is one checkout() with the release() that gives its session    *)
(* back; a session is named after the call that built it.  No section      *)
(* under self._lock awaits, so the lock is never contended and an action   *)
(* is the code between two awaits: waiting for a permit, closing a         *)
(* context, running the factory.  _in_use and _permit_holders are written  *)
(* together everywhere and are one variable here.                          *)
(***************************************************************************)
EXTENDS Integers, FiniteSets

CONSTANTS Users,      \* checkout calls made by solvers
          Warmers,    \* the checkout calls prewarm() gathers, one per slot
          NoSession,
          Keys,       \* egress buckets: proxy ids and Proxyless
          Proxyless,
          Size, MaxSolves,
          MaxReports  \* bound on report_outcome calls

Calls == Users \cup Warmers

ASSUME PoolAssumption ==
    /\ IsFiniteSet(Users) /\ IsFiniteSet(Warmers) /\ Users \cap Warmers = {}
    /\ NoSession \notin Calls
    /\ Proxyless \in Keys
    /\ Size \in Nat \ {0} /\ MaxSolves \in Nat \ {0} /\ MaxReports \in Nat
    /\ Cardinality(Warmers) \in {0, Size}

VARIABLES permits,   \* value of the _slots semaphore
          creating,  \* _creating
          inUse,     \* _in_use, and the sessions of _permit_holders
          depth,     \* depth[s] in the stacks of _idle, 1 the last idled; 0 elsewhere
          pc,        \* where each call stands
          key,       \* key[c]: the bucket c asked for, hence of the session it built
          has,       \* has[c]: the session c uses or is closing
          ctx,       \* ctx[s]: the browser context of s
          solves, rep, \* BrowserSession.solves and .reputation, in twentieths
          doomed,    \* sessions close_all still has to close
          owed,      \* permits close_all returns at its end
          closer,    \* where close_all stands
          warmupFailed, \* prewarm()'s gather has raised
          reports

callVars == <<pc, key, has>>
stockVars == <<creating, inUse, depth>>
sessionVars == <<solves, rep>>
closeVars == <<doomed, owed, closer>>
vars == <<permits, stockVars, callVars, ctx, sessionVars, closeVars,
          warmupFailed, reports>>

CallPC == {"new", "waiting", "evicting", "building", "using", "retiring", "done"}

TypeOK ==
    /\ permits \in 0..Size /\ creating \in 0..Size /\ owed \in 0..Size
    /\ inUse \subseteq Calls /\ doomed \subseteq Calls
    /\ depth \in [Calls -> Nat]
    /\ pc \in [Calls -> CallPC]
    /\ key \in [Calls -> Keys]
    /\ has \in [Calls -> Calls \cup {NoSession}]
    /\ ctx \in [Calls -> {"unopened", "open", "closed"}]
    /\ solves \in [Calls -> 0..MaxSolves] /\ rep \in [Calls -> 0..20]
    /\ closer \in {"no", "closing", "closed"}
    /\ warmupFailed \in BOOLEAN /\ reports \in 0..MaxReports

Init ==
    /\ permits = Size /\ creating = 0 /\ inUse = {}
    /\ depth = [s \in Calls |-> 0]
    /\ pc = [c \in Calls |-> "new"]
    /\ key = [c \in Calls |-> Proxyless]
    /\ has = [c \in Calls |-> NoSession]
    /\ ctx = [s \in Calls |-> "unopened"]
    /\ solves = [s \in Calls |-> 0] /\ rep = [s \in Calls |-> 20]
    /\ doomed = {} /\ owed = 0 /\ closer = "no"
    /\ warmupFailed = FALSE /\ reports = 0

-----------------------------------------------------------------------------
Idle == {s \in Calls : depth[s] > 0}
Bucket(k) == {s \in Idle : key[s] = k}

\* _pop_idle: a bucket is a stack.
Latest(k) == {s \in Bucket(k) : \A t \in Bucket(k) : depth[s] <= depth[t]}

MakeIdle(s) ==
    depth' = [t \in Calls |-> IF t = s THEN 1
                              ELSE IF t \in Idle THEN depth[t] + 1 ELSE 0]

Live == Cardinality(inUse) + creating + Cardinality(Idle)

\* _evict_one_idle: lowest reputation, then most solves (ties go by age in
\* the code, and either way here).
Ranks(s, t) == rep[s] < rep[t] \/ (rep[s] = rep[t] /\ solves[s] >= solves[t])
WorstIdle == {s \in Idle : \A t \in Idle : Ranks(s, t)}

\* min(1.0, r + 0.05) and max(0.0, r - 0.4)
Nudged(r, success) == IF success THEN (IF r < 20 THEN r + 1 ELSE 20)
                                 ELSE (IF r > 8 THEN r - 8 ELSE 0)

\* reputation < 0.3, whose float sum may fall on either side at 0.3 itself.
BelowThreshold(r) == IF r = 6 THEN BOOLEAN ELSE {r < 6}

\* What release() closes instead of keeping warm: s has just done its solve.
Retires(s, low, expired) == low \/ solves[s] + 1 >= MaxSolves \/ expired

Minus1(n) == IF n > 0 THEN n - 1 ELSE 0

-----------------------------------------------------------------------------
(* checkout *)

\* prewarm runs in the lifespan before the server accepts requests.
WarmupOver == warmupFailed \/ \A w \in Warmers : pc[w] = "done"

Begin(c, k) ==
    /\ pc[c] = "new"
    /\ c \in Warmers => k = Proxyless
    /\ c \in Users => WarmupOver
    /\ pc' = [pc EXCEPT ![c] = "waiting"]
    /\ key' = [key EXCEPT ![c] = k]
    /\ UNCHANGED <<permits, stockVars, has, ctx, sessionVars, closeVars,
                   warmupFailed, reports>>

Take(c, s, next) ==
    /\ depth' = [depth EXCEPT ![s] = 0]
    /\ has' = [has EXCEPT ![c] = s]
    /\ pc' = [pc EXCEPT ![c] = next]
    /\ UNCHANGED creating

\* Mutant: the bucket is read, not popped.
ReuseWithoutPop(c) ==
    /\ \E s \in Latest(key[c]) :
          /\ has' = [has EXCEPT ![c] = s]
          /\ inUse' = inUse \cup {s}
    /\ pc' = [pc EXCEPT ![c] = "using"]
    /\ UNCHANGED <<creating, depth>>

\* _session_usable is the clock's and the browser's answer: at any checkout
\* the latest idle session may be too old, too long idle or dead.
Reuse(c) ==
    \E s \in Latest(key[c]) :
       /\ Take(c, s, "using")
       /\ inUse' = inUse \cup {s}

DropStale(c) ==
    /\ \E s \in Latest(key[c]) : Take(c, s, "evicting")
    /\ UNCHANGED inUse

StartBuild(c) ==
    /\ Bucket(key[c]) = {} /\ (Live < Size \/ Idle = {})
    /\ creating' = creating + 1
    /\ pc' = [pc EXCEPT ![c] = "building"]
    /\ has' = [has EXCEPT ![c] = NoSession]
    /\ UNCHANGED <<inUse, depth>>

EvictOther(c) ==
    /\ Bucket(key[c]) = {} /\ Live >= Size
    /\ \E s \in WorstIdle : Take(c, s, "evicting")
    /\ UNCHANGED inUse

\* One turn of checkout's loop, with a permit in hand.
Choose(c) == Reuse(c) \/ DropStale(c) \/ StartBuild(c) \/ EvictOther(c)

Acquire(c) ==
    /\ pc[c] = "waiting" /\ permits > 0
    /\ permits' = permits - 1
    /\ Choose(c)
    /\ UNCHANGED <<key, ctx, sessionVars, closeVars, warmupFailed, reports>>

EvictionDone(c) ==
    /\ pc[c] = "evicting"
    /\ ctx' = [ctx EXCEPT ![has[c]] = "closed"]
    /\ Choose(c)
    /\ UNCHANGED <<permits, key, sessionVars, closeVars, warmupFailed, reports>>

Built(c) ==
    /\ pc[c] = "building"
    /\ creating' = Minus1(creating)
    /\ ctx' = [ctx EXCEPT ![c] = "open"]
    /\ inUse' = inUse \cup {c}
    /\ has' = [has EXCEPT ![c] = c]
    /\ pc' = [pc EXCEPT ![c] = "using"]
    /\ UNCHANGED <<permits, depth, key, sessionVars, closeVars, warmupFailed,
                   reports>>

\* The permit goes back exactly once and the call ends.
GiveUp(c) ==
    /\ permits' = permits + 1
    /\ pc' = [pc EXCEPT ![c] = "done"]
    /\ has' = [has EXCEPT ![c] = NoSession]

\* Mutant: the inner and the outer handler both give the creation back.
CreationGivenBackTwice(c) ==
    /\ pc[c] = "building"
    /\ creating' = Minus1(Minus1(creating))
    /\ GiveUp(c)
    /\ warmupFailed' = (warmupFailed \/ c \in Warmers)
    /\ UNCHANGED <<inUse, depth, key, ctx, sessionVars, closeVars, reports>>

\* Mutant: a failing factory ends the call with its permit.
FailureKeepsPermit(c) ==
    /\ pc[c] = "building"
    /\ creating' = Minus1(creating)
    /\ pc' = [pc EXCEPT ![c] = "done"]
    /\ warmupFailed' = (warmupFailed \/ c \in Warmers)
    /\ UNCHANGED <<permits, has, inUse, depth, key, ctx, sessionVars,
                   closeVars, reports>>

\* The factory raises, or the call is cancelled under it; for a call of
\* prewarm, gather raises at once and leaves the other calls running.
BuildFails(c) ==
    /\ pc[c] = "building"
    /\ creating' = Minus1(creating)
    /\ GiveUp(c)
    /\ warmupFailed' = (warmupFailed \/ c \in Warmers)
    /\ UNCHANGED <<inUse, depth, key, ctx, sessionVars, closeVars, reports>>

CancelWaiting(c) ==
    /\ pc[c] = "waiting" /\ c \in Users
    /\ pc' = [pc EXCEPT ![c] = "done"]
    /\ UNCHANGED <<permits, stockVars, key, has, ctx, sessionVars, closeVars,
                   warmupFailed, reports>>

\* Cancelled while closing a context, which may stay open for good.
CancelClosing(c) ==
    /\ pc[c] \in {"evicting", "retiring"} /\ c \in Users
    /\ GiveUp(c)
    /\ \E left \in {"open", "closed"} : ctx' = [ctx EXCEPT ![has[c]] = left]
    /\ UNCHANGED <<stockVars, key, sessionVars, closeVars, warmupFailed, reports>>

-----------------------------------------------------------------------------
(* release *)

\* prewarm releases the gathered sessions one after the other, and none when
\* the gather raised.
MayRelease(c) ==
    c \in Warmers =>
        /\ ~ warmupFailed
        /\ \A w \in Warmers : pc[w] \in {"using", "done"}

\* Mutant: release() trusts its caller and hands a permit back anyway.
ReleaseUnknownPermit(c) ==
    /\ pc[c] = "using" /\ MayRelease(c) /\ has[c] \notin inUse
    /\ GiveUp(c)
    /\ UNCHANGED <<stockVars, key, ctx, sessionVars, closeVars, warmupFailed,
                   reports>>

\* Mutant: a session close_all took is put back into its bucket.
ReleaseUnknownIdles(c) ==
    /\ pc[c] = "using" /\ MayRelease(c) /\ has[c] \notin inUse
    /\ pc' = [pc EXCEPT ![c] = "done"]
    /\ has' = [has EXCEPT ![c] = NoSession]
    /\ MakeIdle(has[c])
    /\ UNCHANGED <<permits, creating, inUse, key, ctx, sessionVars, closeVars,
                   warmupFailed, reports>>

\* Not in _in_use: close_all took it, nothing left to do.
ReleaseUnknown(c) ==
    /\ pc[c] = "using" /\ MayRelease(c) /\ has[c] \notin inUse
    /\ pc' = [pc EXCEPT ![c] = "done"]
    /\ has' = [has EXCEPT ![c] = NoSession]
    /\ UNCHANGED <<permits, stockVars, key, ctx, sessionVars, closeVars,
                   warmupFailed, reports>>

Release(c, success) ==
    /\ pc[c] = "using" /\ MayRelease(c) /\ has[c] \in inUse
    /\ c \in Warmers => success
    /\ inUse' = inUse \ {has[c]}
    /\ solves' = [solves EXCEPT ![has[c]] = @ + 1]
    /\ rep' = [rep EXCEPT ![has[c]] = Nudged(@, success)]
    /\ \E low \in BelowThreshold(rep'[has[c]]), expired \in BOOLEAN :
          \/ /\ Retires(has[c], low, expired)
             /\ pc' = [pc EXCEPT ![c] = "retiring"]
             /\ UNCHANGED <<permits, depth, has>>
          \/ /\ ~ Retires(has[c], low, expired)
             /\ MakeIdle(has[c])
             /\ GiveUp(c)
    /\ UNCHANGED <<creating, key, ctx, closeVars, warmupFailed, reports>>

RetirementDone(c) ==
    /\ pc[c] = "retiring"
    /\ ctx' = [ctx EXCEPT ![has[c]] = "closed"]
    /\ GiveUp(c)
    /\ UNCHANGED <<stockVars, key, sessionVars, closeVars, warmupFailed, reports>>

-----------------------------------------------------------------------------
(* close_all and report_outcome *)

CloseAll ==
    /\ closer = "no"
    /\ closer' = "closing"
    /\ doomed' = inUse \cup Idle
    /\ owed' = Cardinality(inUse)
    /\ inUse' = {} /\ depth' = [s \in Calls |-> 0]
    /\ UNCHANGED <<permits, creating, callVars, ctx, sessionVars, warmupFailed,
                   reports>>

CloseNext(s) ==
    /\ closer = "closing" /\ s \in doomed
    /\ doomed' = doomed \ {s}
    /\ ctx' = [ctx EXCEPT ![s] = "closed"]
    /\ UNCHANGED <<permits, stockVars, callVars, sessionVars, owed, closer,
                   warmupFailed, reports>>

CloseAllEnds ==
    /\ closer = "closing" /\ doomed = {}
    /\ closer' = "closed"
    /\ permits' = permits + owed /\ owed' = 0
    /\ UNCHANGED <<stockVars, callVars, ctx, sessionVars, doomed, warmupFailed,
                   reports>>

ReportOutcome(s, success) ==
    /\ reports < MaxReports
    /\ s \in inUse \cup Idle
    /\ reports' = reports + 1
    /\ rep' = [rep EXCEPT ![s] = Nudged(@, success)]
    /\ UNCHANGED <<permits, stockVars, callVars, ctx, solves, closeVars,
                   warmupFailed>>

\* The event loop has nothing to run: calls have ended or wait for a permit,
\* and nobody releases the sessions a failed prewarm leaves behind.
Abandoned(c) == c \in Warmers /\ warmupFailed /\ pc[c] = "using"
Quiescent ==
    /\ \A c \in Calls : pc[c] \in {"waiting", "done"} \/ Abandoned(c)
    /\ UNCHANGED vars

Progress ==
    \/ \E c \in Calls : \/ Acquire(c) \/ EvictionDone(c) \/ Built(c)
                        \/ RetirementDone(c) \/ ReleaseUnknown(c)
                        \/ Release(c, TRUE)
    \/ \E s \in Calls : CloseNext(s)
    \/ CloseAllEnds

Next ==
    \/ \E c \in Calls :
          \/ \E k \in Keys : Begin(c, k)
          \/ Acquire(c) \/ EvictionDone(c) \/ Built(c) \/ BuildFails(c)
          \/ CancelWaiting(c) \/ CancelClosing(c)
          \/ ReleaseUnknown(c) \/ RetirementDone(c)
          \/ \E success \in BOOLEAN : Release(c, success)
    \/ \E s \in Calls :
          \/ CloseNext(s)
          \/ \E success \in BOOLEAN : ReportOutcome(s, success)
    \/ CloseAll \/ CloseAllEnds
    \/ Quiescent

Spec == Init /\ [][Next]_vars
FairSpec == Spec /\ WF_vars(Progress)

-----------------------------------------------------------------------------
Building == {c \in Calls : pc[c] = "building"}
\* The calls that hold a permit for themselves; a session in use holds one too.
Holding == {c \in Calls : pc[c] \in {"evicting", "building", "retiring"}}

(* No permit is lost and none is given back twice, whichever of failure,     *)
(* cancellation, retirement and close_all ends a call (_slots).              *)
PermitsConserved ==
    permits + Cardinality(Holding) + Cardinality(inUse) + owed = Size

(* Sessions in use, being built and idle never exceed size together, although*)
(* an idle session holds no permit (__init__: "Total live sessions (in-use + *)
(* idle + in-flight creations) is still bounded by size").                   *)
LiveBounded ==
    Cardinality(inUse) + Cardinality(Building) + Cardinality(Idle) <= Size

(* A session in use serves one call, of the bucket it was built for: what    *)
(* release, eviction and close_all do in between never shares it or moves    *)
(* it to another egress identity.                                            *)
SessionServesItsCaller ==
    \A c \in Calls : pc[c] = "using" =>
        /\ key[has[c]] = key[c]
        /\ has[c] \notin Idle
        /\ \A d \in Calls \ {c} : pc[d] = "using" => has[d] # has[c]

(* The pool tracks only contexts it has not started to close: a session that *)
(* was evicted, retired or swept by close_all is never handed out again.     *)
TrackedContextsOpen == \A s \in inUse \cup Idle : ctx[s] = "open"

(* Every checkout eventually gets its session or ends, however many calls    *)
(* fail, are cancelled or were abandoned by a failed prewarm.                *)
CheckoutsEnd == <>[](\A c \in Users : pc[c] \in {"new", "done"})

(* When no call is running every permit is free (__init__: "a permit is held *)
(* only between checkout and release (i.e. while a session is in use), so an *)
(* idle warm pool cannot starve new checkouts").                             *)
QuietPoolHasItsPermits ==
    (owed = 0 /\ \A c \in Calls : pc[c] \in {"new", "done"} \/ Abandoned(c))
        => permits = Size
=============================================================================
