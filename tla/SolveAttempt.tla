----------------------------- MODULE SolveAttempt -----------------------------
(***************************************************************************)
(* Browser solves: the retry loop, the egress and context an attempt       *)
(* leases, the page it drives and the way back                             *)
(* (src/src/services/browser_solver.py, injected_widget.py).               *)
(*                                                                         *)
(* The proxy pool and the session pool are reduced to what a solve sees of *)
(* them: a proxy or none, a warm session of the proxy's bucket or a new    *)
(* one, and exceptions.  Warm sessions outlive a solve, with whatever it   *)
(* left on their context.  A solve is one asyncio task: a cancellation may *)
(* reach it at any await, and again while it unwinds.                      *)
(***************************************************************************)
EXTENDS Integers, Functions

CONSTANTS Solves, Proxies, Sessions,
          Plans,       \* Plans[s]: what s may ask for: provider family and egress
          Retries,     \* captcha_retries
          MaxCancels   \* bound on the cancellations of a behaviour

ASSUME SolveAssumption ==
    /\ Plans \in [Solves -> SUBSET [family : {"injected", "real"},
                                    egress : {"auto", "task", "pool", "proxyless"}]]
    /\ Retries \in Nat \ {0} /\ MaxCancels \in Nat
    /\ "none" \notin Solves

None == "none"

VARIABLES
    plan,    \* plan[s]: the task
    job,     \* job[s]: the running attempt
    params,  \* params[s]: the identity keys of the shared params mirror
    pooled,  \* pooled[w]: a warm session: its holder, bucket and what is on its context
    cancels  \* the cancellations so far

vars == <<plan, job, params, pooled, cancels>>

NoContext == [kind |-> None, session |-> None, proxy |-> None]
NoIdentity == [proxy |-> None, session |-> None, reported |-> FALSE]

NewJob == [pc |-> "begin", attempt |-> 0,
           ctx |-> NoContext,      \* the SolveContext
           force |-> FALSE,        \* _force_fresh_context
           prepared |-> FALSE, stage |-> "acquire", result |-> None,
           \* for the properties only: the proxy and session this attempt took, whether
           \* its page was there, and the successes told of its proxy
           took |-> NoContext, loaded |-> FALSE, successes |-> 0]

\* On the context of a warm session: the task it was prepared for, and whose document
\* routes it carries: those of an attempt that has still to take its own off, those a
\* preparation left that got no further, and those whose removal failed.
NoSession == [holder |-> None, bucket |-> None, signature |-> None,
              routes |-> {}, partial |-> {}, stuck |-> {}]

Init ==
    /\ plan \in {f \in [Solves -> UNION Range(Plans)] : \A s \in Solves : f[s] \in Plans[s]}
    /\ job = [s \in Solves |-> NewJob]
    /\ params = [s \in Solves |-> NoIdentity]
    /\ pooled = [w \in Sessions |-> NoSession]
    /\ cancels = 0

At(s, pc) == job[s].pc = pc
Become(s, new) == job' = [job EXCEPT ![s] = new]
Goto(s, pc) == Become(s, [job[s] EXCEPT !.pc = pc])

\* An exception leaves the attempt before it has a context: straight to the recorder.
Raise(s, result) == Become(s, [job[s] EXCEPT !.pc = "record", !.result = result])

\* What is left of an attempt that is over.
Ended(s, pc) == [NewJob EXCEPT !.pc = pc, !.attempt = job[s].attempt,
                               !.successes = job[s].successes]

-----------------------------------------------------------------------------
(* _solve_with_retries: a fresh AttemptContext, mirrored onto params.        *)

Begin(s) ==
    /\ At(s, "begin")
    /\ Become(s, [job[s] EXCEPT !.pc = "acquire", !.attempt = @ + 1])
    /\ params' = [params EXCEPT ![s] = NoIdentity]
    /\ UNCHANGED <<plan, pooled>>

\* A URL that resolves to an internal address is refused before anything is leased.
RefuseUrl(s) ==
    /\ At(s, "acquire") /\ ~ job[s].force
    /\ Raise(s, "fatal")
    /\ UNCHANGED <<plan, params, pooled>>

-----------------------------------------------------------------------------
(* _acquire_context                                                          *)

\* A context of the browser manager: for the caller's proxy, or when no session is used.
Fresh(s, proxy) ==
    Become(s, [job[s] EXCEPT !.pc = "acquired",
                 !.ctx = [kind |-> "fresh", session |-> None, proxy |-> proxy],
                 !.took = [kind |-> "fresh", session |-> None, proxy |-> proxy]])

AcquireTask(s) ==
    /\ At(s, "acquire") /\ plan[s].egress = "task"
    /\ Fresh(s, None) \/ Raise(s, "failed")
    /\ UNCHANGED <<plan, params, pooled>>

\* The checkout gives a proxy, bound to params at once; without one, egress=pool
\* fails, and auto (whose peek may have been late) takes the server's own address.
CheckoutProxy(s) ==
    /\ At(s, "acquire") /\ plan[s].egress \in {"auto", "pool"}
    /\ \/ \E p \in Proxies :
            /\ params' = [params EXCEPT ![s].proxy = p]
            /\ Become(s, [job[s] EXCEPT !.pc = "lease", !.took.proxy = p])
       \/ /\ plan[s].egress = "pool"
          /\ Raise(s, "failed") /\ UNCHANGED params
       \/ /\ plan[s].egress = "auto"
          /\ Goto(s, "lease") /\ UNCHANGED params
    /\ UNCHANGED <<plan, pooled>>

\* _acquire_proxyless goes straight to the session pool.
Leasing(s) == At(s, "lease") \/ (At(s, "acquire") /\ plan[s].egress = "proxyless")

\* The key of a session's bucket: the proxy, or PROXYLESS_KEY.
BucketOf(proxy) == IF proxy = None THEN "server" ELSE proxy

\* SessionPool.checkout: an idle session of the bucket, or a new one.
LeaseSession(s) ==
    LET p == job[s].took.proxy IN
    /\ Leasing(s) /\ ~ job[s].force
    /\ \E w \in Sessions :
          /\ pooled[w].holder = None
          /\ pooled[w] = NoSession \/ pooled[w].bucket = BucketOf(p)
          /\ pooled' = [pooled EXCEPT ![w].holder = s, ![w].bucket = BucketOf(p)]
          /\ params' = [params EXCEPT ![s].session = w]
          /\ LET c == [kind |-> "warm", session |-> w, proxy |-> p]
             IN Become(s, [job[s] EXCEPT !.pc = "acquired", !.ctx = c, !.took = c])
    /\ UNCHANGED plan

\* No session pool, or a fresh context forced by the task or by a mismatch.
LeaseFresh(s) ==
    /\ Leasing(s)
    /\ Fresh(s, job[s].took.proxy)
    /\ UNCHANGED <<plan, params, pooled>>

LeaseFails(s) ==
    /\ Leasing(s)
    /\ Raise(s, "failed")
    /\ UNCHANGED <<plan, params, pooled>>

-----------------------------------------------------------------------------
(* _run_page_solve, _solve_real_page_once                                    *)

Warm(s) == job[s].ctx.kind = "warm"
Session(s) == pooled[job[s].ctx.session]

\* A warm session goes back and may be retired; a fresh context is closed.
GiveBack(s) ==
    pooled' \in IF Warm(s)
                THEN {[pooled EXCEPT ![job[s].ctx.session].holder = None],
                      [pooled EXCEPT ![job[s].ctx.session] = NoSession]}
                ELSE {pooled}

\* A warm session prepared for another task.  Every solve is a task of its own.
Mismatch(s) ==
    /\ plan[s].family = "injected" /\ Warm(s)
    /\ Session(s).signature \notin {None, s}

\* Mutant: the identity of the rejected session stays.
DiscardKeepingIdentity(s) ==
    /\ At(s, "acquired") /\ Mismatch(s)
    /\ GiveBack(s)
    /\ Become(s, [job[s] EXCEPT !.pc = "acquire", !.ctx = NoContext, !.took = NoContext,
                                !.force = TRUE])
    /\ UNCHANGED <<plan, params>>

\* It goes back untouched, its identity is dropped and a fresh context acquired.
Discard(s) ==
    /\ At(s, "acquired") /\ Mismatch(s)
    /\ GiveBack(s)
    /\ params' = [params EXCEPT ![s] = NoIdentity]
    /\ Become(s, [job[s] EXCEPT !.pc = "acquire", !.ctx = NoContext, !.took = NoContext,
                                !.force = TRUE])
    /\ UNCHANGED plan

Unwind(s, result) == Become(s, [job[s] EXCEPT !.pc = "close", !.result = result])

\* The real-page template has nothing to prepare; its attempt is in the page load.
EnterRealPage(s) ==
    /\ At(s, "acquired") /\ plan[s].family = "real"
    /\ Become(s, [job[s] EXCEPT !.pc = "goto", !.stage = "page_load"])
    /\ UNCHANGED <<plan, params, pooled>>

Preparing(s) == At(s, "acquired") /\ plan[s].family = "injected" /\ ~ Mismatch(s)

\* What prepare_context leaves on the context of a warm session.
OnContext(s, change(_)) ==
    pooled' = IF Warm(s)
              THEN [pooled EXCEPT ![job[s].ctx.session] = change(@)]
              ELSE pooled

\* A preparation that is complete: the route is in and the signature stamped.
Prepared(s) ==
    OnContext(s, LAMBDA w : [w EXCEPT !.routes = @ \cup {s}, !.signature = s])

\* One that got as far as the route, which no clean-up will take off.
PreparedInPart(s) == OnContext(s, LAMBDA w : [w EXCEPT !.partial = @ \cup {s}])

\* Mutant: the signature is not stamped.
PrepareUnsigned(s) ==
    /\ Preparing(s)
    /\ OnContext(s, LAMBDA w : [w EXCEPT !.routes = @ \cup {s}])
    /\ Become(s, [job[s] EXCEPT !.pc = "goto", !.prepared = TRUE, !.stage = "page_load"])
    /\ UNCHANGED <<plan, params>>

\* The document route goes in, the signature is stamped, a page is opened.
Prepare(s) ==
    /\ Preparing(s)
    /\ Prepared(s)
    /\ Become(s, [job[s] EXCEPT !.pc = "goto", !.prepared = TRUE, !.stage = "page_load"])
    /\ UNCHANGED <<plan, params>>

\* ... or not: the provider's guard or the preparation raises, with the route in or not,
\* or no page opens after it.
PrepareRaises(s) ==
    /\ Preparing(s)
    /\ \/ /\ Unwind(s, "failed") /\ UNCHANGED pooled
       \/ /\ PreparedInPart(s)
          /\ Unwind(s, "failed")
       \/ /\ Prepared(s)
          /\ Become(s, [job[s] EXCEPT !.pc = "close", !.prepared = TRUE, !.result = "failed"])
    /\ UNCHANGED <<plan, params>>

\* page.goto returns.  A widget is interacted with at once; the real-page template
\* first looks where it has landed, and is in the page load until then.
Navigate(s) ==
    /\ At(s, "goto")
    /\ Become(s, IF plan[s].family = "injected"
                 THEN [job[s] EXCEPT !.pc = "interact", !.loaded = TRUE, !.stage = "interaction"]
                 ELSE [job[s] EXCEPT !.pc = "landed", !.loaded = TRUE])
    /\ UNCHANGED <<plan, params, pooled>>

\* validate_landed_page_url: a public address, or a redirect to an internal one.
ValidateLanding(s) ==
    /\ At(s, "landed")
    /\ \/ Become(s, [job[s] EXCEPT !.pc = "interact", !.stage = "interaction"])
       \/ Unwind(s, "fatal")
    /\ UNCHANGED <<plan, params, pooled>>

\* Mutant: the page is opened before the try.
NavigationEscapes(s) ==
    /\ At(s, "goto")
    /\ Raise(s, "failed")
    /\ UNCHANGED <<plan, params, pooled>>

\* No page or no navigation.
NavigationFails(s) ==
    /\ At(s, "goto")
    /\ Unwind(s, "failed")
    /\ UNCHANGED <<plan, params, pooled>>

\* An error of the widget: classified, a rate limit or a faulty request is fatal.
WidgetErrors == {"failed", "fatal"}

\* The widget is clicked and polled: a token, none in time, or its error.
Interact(s) ==
    /\ At(s, "interact") /\ plan[s].family = "injected"
    /\ \E result \in {"token"} \cup WidgetErrors : Unwind(s, result)
    /\ UNCHANGED <<plan, params, pooled>>

\* The hooks of the real-page template: a token, an invalid one, or a site-owner fault.
ExtractToken(s) ==
    /\ At(s, "interact") /\ plan[s].family = "real"
    /\ \E result \in {"token"} \cup WidgetErrors : Unwind(s, result)
    /\ UNCHANGED <<plan, params, pooled>>

\* unroute takes this attempt's handler off ...
Unroute(s) == OnContext(s, LAMBDA w : [w EXCEPT !.routes = @ \ {s}])

\* ... or raises, or is cut short, and the handler stays for good.
UnrouteFails(s) ==
    OnContext(s, LAMBDA w : [w EXCEPT !.routes = @ \ {s}, !.stuck = @ \cup {s}])

\* cleanup_context, for a context that was prepared; its failure is only logged.
Unprepare(s) == IF job[s].prepared THEN Unroute(s) \/ UnrouteFails(s) ELSE UNCHANGED pooled

\* Mutant: the document route is not taken off.
ClosePageOnly(s) ==
    /\ At(s, "close")
    /\ Goto(s, "release")
    /\ UNCHANGED <<plan, params, pooled>>

\* The finally blocks: the page is closed and the preparation undone.
ClosePage(s) ==
    /\ At(s, "close")
    /\ Unprepare(s)
    /\ Become(s, [job[s] EXCEPT !.pc = "release", !.prepared = FALSE])
    /\ UNCHANGED <<plan, params>>

-----------------------------------------------------------------------------
(* _release_context                                                          *)

\* The attempt on its way to the recorder; a cancelled one is not recorded.
Left(s) == IF job[s].result = "cancelled" THEN Ended(s, "cancelled")
           ELSE [job[s] EXCEPT !.pc = "record", !.ctx = NoContext,
                               !.stage = "acquire", !.loaded = FALSE]

\* The proxy to report: the context's, or one that was bound on the way to it.
Reported(s) == IF job[s].ctx.proxy # None THEN job[s].ctx.proxy ELSE params[s].proxy

Release(s) ==
    /\ At(s, "release")
    /\ GiveBack(s)
    /\ params' = IF job[s].ctx.proxy = None THEN [params EXCEPT ![s].proxy = None] ELSE params
    /\ Become(s, IF Reported(s) = None THEN Left(s)
                 ELSE [job[s] EXCEPT !.ctx = NoContext, !.pc = "report"])
    /\ UNCHANGED plan

TransportStages == {"acquire", "page_load"}

\* Whether a report that is due holds a failed transport against the proxy.
Blames(s) == At(s, "report") /\ job[s].result # "token" /\ job[s].stage \in TransportStages

\* The proxy learns how the attempt ended; a report that raises is not repeated.
ReportProxy(s) ==
    /\ At(s, "report")
    /\ \/ /\ job[s].result = "token"
          /\ params' = [params EXCEPT ![s].reported = TRUE]
          /\ Become(s, [Left(s) EXCEPT !.successes = @ + 1])
       \/ Become(s, Left(s)) /\ UNCHANGED params
    /\ UNCHANGED <<plan, pooled>>

-----------------------------------------------------------------------------
(* The rest of _solve_with_retries                                           *)

\* Mutant: a rejected token does not use up its attempt.
AgainForFree(s, result) ==
    IF result = "fatal" THEN Ended(s, "failed")
    ELSE IF result = "rejected" THEN [NewJob EXCEPT !.attempt = job[s].attempt - 1]
    ELSE IF job[s].attempt < Retries
    THEN [NewJob EXCEPT !.attempt = job[s].attempt] ELSE Ended(s, "failed")

Retryable(result) == result # "fatal"

Again(s, result) ==
    IF Retryable(result) /\ job[s].attempt < Retries
    THEN [NewJob EXCEPT !.attempt = job[s].attempt] ELSE Ended(s, "failed")

\* _record: one ledger record for every attempt that was not cancelled.
Record(s) ==
    /\ At(s, "record")
    /\ Become(s, IF job[s].result = "token" THEN [job[s] EXCEPT !.pc = "verify"]
                 ELSE Again(s, job[s].result))
    /\ UNCHANGED <<plan, params, pooled>>

\* Mutant: siteverify's verdict always reports the proxy.
SecondSuccess(s) == IF job[s].took.proxy # None THEN 1 ELSE 0

\* _close_real_outcome: what an accepted token adds to the proxy's successes.
RealSuccess(s) == IF params[s].proxy # None /\ ~ params[s].reported THEN 1 ELSE 0

\* siteverify: no verdict or a good one ends the solve, a bad one the attempt.
Verify(s) ==
    /\ At(s, "verify")
    /\ \/ Become(s, Ended(s, "done"))      \* no secret, no answer, no verifier
       \/ Become(s, [Ended(s, "done") EXCEPT !.successes = @ + RealSuccess(s)])
       \/ Become(s, Again(s, "rejected"))
    /\ UNCHANGED <<plan, params, pooled>>

-----------------------------------------------------------------------------
\* task.cancel() reaches the next await: the timeout of the task, the sweep, a shutdown.
Cancel(s) ==
    /\ cancels < MaxCancels
    /\ cancels' = cancels + 1
    /\ \/ /\ job[s].pc \in {"begin", "acquire", "lease", "report", "record", "verify"}
          /\ Become(s, Ended(s, "cancelled"))
          /\ UNCHANGED pooled
       \/ /\ At(s, "acquired") /\ Mismatch(s)
          /\ Become(s, Ended(s, "cancelled"))
          /\ GiveBack(s)
       \/ /\ job[s].pc \in {"acquired", "goto", "landed", "interact"}
          /\ ~ (At(s, "acquired") /\ Mismatch(s))
          /\ Unwind(s, "cancelled")
          /\ UNCHANGED pooled \/ (Preparing(s) /\ PreparedInPart(s))
       \/ /\ At(s, "close")      \* while the page closes, or in the clean-up itself
          /\ Become(s, [job[s] EXCEPT !.pc = "release", !.prepared = FALSE, !.result = "cancelled"])
          /\ Unprepare(s)
       \/ /\ At(s, "release")    \* the session pool finishes what it accepted
          /\ Become(s, Ended(s, "cancelled"))
          /\ GiveBack(s)
    /\ UNCHANGED <<plan, params>>

Step(s) ==
    \/ Begin(s) \/ RefuseUrl(s)
    \/ AcquireTask(s) \/ CheckoutProxy(s)
    \/ LeaseSession(s) \/ LeaseFresh(s) \/ LeaseFails(s)
    \/ Discard(s) \/ EnterRealPage(s) \/ Prepare(s) \/ PrepareRaises(s)
    \/ Navigate(s) \/ ValidateLanding(s) \/ NavigationFails(s) \/ Interact(s) \/ ExtractToken(s)
    \/ ClosePage(s) \/ Release(s) \/ ReportProxy(s)
    \/ Record(s) \/ Verify(s)

Over(s) == job[s].pc \in {"done", "failed", "cancelled"}

Next ==
    \/ \E s \in Solves : (Step(s) /\ UNCHANGED cancels) \/ Cancel(s)
    \/ (\A s \in Solves : Over(s)) /\ UNCHANGED vars

\* Every await of an attempt returns or raises (browser calls and model calls have
\* timeouts, SessionPool.checkout ends: CheckoutsEnd), and the event loop goes on with
\* some solve that can.
Progress == \E s \in Solves : Step(s) /\ UNCHANGED cancels

Spec == Init /\ [][Next]_vars /\ WF_vars(Progress)

-----------------------------------------------------------------------------
(* A solve holds a warm session exactly while it works on its context: every *)
(* way out of an attempt, the cancelled ones and the discarded session       *)
(* included, gives it back, and none gives it back once another solve has it *)
(* (SolveContext.released, _return_warm_session).                            *)
SessionComesBack ==
    \A s \in Solves, w \in Sessions :
        pooled[w].holder = s <=> (Warm(s) /\ job[s].ctx.session = w)

(* What a finished attempt tells the ledger and the accounting names the     *)
(* proxy and the session of that attempt, not those of an earlier attempt or *)
(* of a session it handed back (_record, SolveIdentity.from_params).         *)
RecordNamesItsEgress ==
    \A s \in Solves :
        At(s, "record") =>
            /\ params[s].proxy = job[s].took.proxy
            /\ params[s].session = job[s].took.session

(* One token is one success for its proxy, whether the release, siteverify   *)
(* or both report it (_close_real_outcome).                                  *)
OneProxySuccess == \A s \in Solves : job[s].successes <= 1

(* A warm session carries the document route of the attempt that works on    *)
(* it and no other, but for a route whose own preparation or removal failed: *)
(* every way out of an attempt, the cancelled ones included, undoes what it  *)
(* prepared (cleanup_context).                                               *)
RoutesAreTakenOff ==
    \A w \in Sessions : \A s \in pooled[w].routes : pooled[w].holder = s /\ job[s].prepared

(* A route that could not be taken off a warm session never meets another    *)
(* injected solve: the stamped signature sends that solve to a fresh         *)
(* context.  What it may still meet is a route whose preparation failed      *)
(* before the signature was stamped (_run_page_solve).                       *)
StuckRoutesMeetNoOther ==
    \A s \in Solves :
        (Warm(s) /\ job[s].prepared) => Session(s).routes \cup Session(s).stuck \subseteq {s}

\* A comment says that a route left behind must not serve "the next solve that
\* navigates the same URL" (injected_widget.py:622-624); a clean-up that fails leaves
\* it there, and the real-page template looks at no signature.  This is not so:
RealPagesMeetNoRoute ==
    \A s \in Solves :
        (Warm(s) /\ plan[s].family = "real" /\ At(s, "goto")) =>
            Session(s).routes \cup Session(s).partial \cup Session(s).stuck = {}

\* A comment says that only failures to get a page count against a proxy's health
\* (browser_solver.py:335-338); a refused landing and a cancellation while the landing
\* is looked at come after the page.  This is not so:
BlameMeansNoPage == \A s \in Solves : Blames(s) => ~ job[s].loaded

(* A solve ends: with a token, with an error, or cancelled.                  *)
EverySolveEnds == \A s \in Solves : <>Over(s)
=============================================================================
