--------------------------- MODULE SolveAttemptProofs ---------------------------
(***************************************************************************)
(* Proofs about browser solves, for any number of solves, proxies, warm    *)
(* sessions, attempts and cancellations.                                   *)
(*                                                                         *)
(* JobOK is the life of one attempt: where it has a context, whose proxy   *)
(* and session its identity names, whether its preparation is still to be  *)
(* undone.  SessionOK ties a warm session to the attempt that holds it.    *)
(***************************************************************************)
EXTENDS SolveAttempt, TLAPS

Working == {"acquired", "goto", "landed", "interact", "close", "release"}
Finished == {"done", "failed", "cancelled"}
JobPC == {"begin", "acquire", "lease", "report", "record", "verify"} \cup Working \cup Finished

Contexts == [kind : {None, "fresh", "warm"}, session : Sessions \cup {None},
             proxy : Proxies \cup {None}]

Jobs ==
    [pc : JobPC, attempt : Nat, ctx : Contexts, force : BOOLEAN, prepared : BOOLEAN,
     stage : {"acquire", "page_load", "interaction"},
     result : {None, "failed", "fatal", "token", "cancelled"},
     took : Contexts, loaded : BOOLEAN, successes : {0, 1}]

Identities == [proxy : Proxies \cup {None}, session : Sessions \cup {None},
               reported : BOOLEAN]

SessionRecords ==
    [holder : Solves \cup {None}, bucket : Proxies \cup {"server", None},
     signature : Solves \cup {None},
     routes : SUBSET Solves, partial : SUBSET Solves, stuck : SUBSET Solves]

\* An attempt has a context, the one it took, exactly while it works on it.
OwnContext(j) ==
    /\ j.pc \in Working => j.ctx = j.took
    /\ j.pc \notin Working => j.ctx = NoContext
    /\ j.pc \in {"begin", "acquire"} => j.took = NoContext
    /\ j.pc = "lease" => j.took.session = None
    /\ j.took.kind = "warm" => j.took.session \in Sessions

\* From its begin to its record an attempt's identity is what it took.
OwnIdentity(j, q) ==
    j.pc \notin Finished \cup {"begin"} =>
        q.proxy = j.took.proxy /\ q.session = j.took.session

\* What there is to undo and to praise at this point of an attempt.
OwnTraces(j, q) ==
    /\ j.prepared => j.pc \in {"goto", "landed", "interact", "close"}
    /\ j.successes = 1 => j.pc \in Finished \/ (j.pc \in {"record", "verify"} /\ q.reported)

JobOK(j, q) ==
    /\ j \in Jobs /\ q \in Identities
    /\ OwnContext(j) /\ OwnIdentity(j, q) /\ OwnTraces(j, q)

Holds(j, w) == j.ctx.kind = "warm" /\ j.ctx.session = w

\* Whoever completed a preparation, undone or not, has signed the session.
Signed(x) == \A t \in x.routes \cup x.stuck : x.signature = t

\* The routes of an orderly session are those of its holder's preparation.
Orderly(x) ==
    /\ Signed(x)
    /\ x.routes = {} \/ \E s \in Solves : x.holder = s /\ job[s].prepared /\ x.routes = {s}
    /\ \A s \in Solves : (x.holder = s /\ job[s].prepared) => x.signature = s

SessionOK(w) ==
    /\ \A s \in Solves : pooled[w].holder = s <=> Holds(job[s], w)
    /\ Orderly(pooled[w])

IInv ==
    /\ job \in [Solves -> Jobs] /\ params \in [Solves -> Identities]
    /\ \A s \in Solves : JobOK(job[s], params[s])
    /\ pooled \in [Sessions -> SessionRecords]
    /\ \A w \in Sessions : SessionOK(w)

-----------------------------------------------------------------------------
(* What a step of solve s has to show                                        *)

\* How a step that turns the attempt of s into j may leave session w.
Touched(s, j, w) ==
    /\ pooled'[w].holder = s <=> Holds(j, w)
    /\ \A t \in Solves \ {s} : pooled'[w].holder = t <=> pooled[w].holder = t
    /\ \/ pooled'[w] = pooled[w] /\ (pooled[w].holder = s => j.prepared = job[s].prepared)
       \/ /\ pooled'[w].holder \in {s, None} /\ Signed(pooled'[w])
          /\ \/ pooled'[w].routes = {} /\ (pooled'[w].holder = s => ~ j.prepared)
             \/ /\ pooled'[w].routes = {s} /\ pooled'[w].signature = s
                /\ pooled'[w].holder = s /\ j.prepared

(* A solve's step concerns its own attempt, its own identity and the session *)
(* it holds, takes or gives back.                                            *)
LEMMA JobStep ==
    ASSUME IInv, NEW s \in Solves, NEW j, NEW q, JobOK(j, q),
           job' = [job EXCEPT ![s] = j], params' = [params EXCEPT ![s] = q],
           pooled' \in [Sessions -> SessionRecords],
           \A w \in Sessions : Touched(s, j, w)
    PROVE  IInv'
<1>1. j \in Jobs /\ q \in Identities BY DEF JobOK
<1>2. job' \in [Solves -> Jobs] /\ params' \in [Solves -> Identities]
  BY <1>1 DEF IInv
<1>3. \A t \in Solves : job'[t] = (IF t = s THEN j ELSE job[t])
                     /\ params'[t] = (IF t = s THEN q ELSE params[t])
  BY DEF IInv
<1>4. \A t \in Solves : JobOK(job'[t], params'[t]) BY <1>3 DEF IInv
<1>5. ASSUME NEW w \in Sessions PROVE SessionOK(w)'
  <2>1. Touched(s, j, w) /\ SessionOK(w) BY DEF IInv
  <2>2. \A t \in Solves : pooled'[w].holder = t <=> Holds(job'[t], w)
    BY <2>1, <1>3 DEF Touched, SessionOK
  <2>3. Orderly(pooled[w])'
    <3>0. None \notin Solves BY SolveAssumption DEF None
    <3>1. CASE pooled'[w] = pooled[w] /\ (pooled[w].holder = s => j.prepared = job[s].prepared)
      BY <3>1, <2>1, <1>3 DEF SessionOK, Orderly, Signed
    <3>2. CASE pooled'[w] # pooled[w] \/ ~ (pooled[w].holder = s => j.prepared = job[s].prepared)
      <4>1. /\ pooled'[w].holder \in {s, None} /\ Signed(pooled'[w])
            /\ \/ pooled'[w].routes = {} /\ (pooled'[w].holder = s => ~ j.prepared)
               \/ /\ pooled'[w].routes = {s} /\ pooled'[w].signature = s
                  /\ pooled'[w].holder = s /\ j.prepared
        BY <3>2, <2>1 DEF Touched
      <4> QED BY <4>1, <3>0, <1>3 DEF Orderly, Signed
    <3> QED BY <3>1, <3>2
  <2> QED BY <2>2, <2>3 DEF SessionOK, Holds
<1> QED BY <1>2, <1>4, <1>5 DEF IInv

(* A step that leaves the sessions alone keeps its context, and its          *)
(* preparation as long as it is one of a session.                            *)
LEMMA PoolKept ==
    ASSUME IInv, NEW s \in Solves, NEW j, NEW q, JobOK(j, q),
           job' = [job EXCEPT ![s] = j], params' = [params EXCEPT ![s] = q],
           pooled' = pooled,
           \A w \in Sessions : Holds(j, w) <=> Holds(job[s], w),
           Warm(s) => j.prepared = job[s].prepared
    PROVE  IInv'
<1>1. \A w \in Sessions : Touched(s, j, w)
  BY DEF IInv, SessionOK, Holds, Warm, Touched
<1> QED BY <1>1, JobStep DEF IInv

(* An attempt that gives its session back has undone what it prepared.       *)
LEMMA GivenBack ==
    ASSUME IInv, NEW s \in Solves, NEW j, NEW q, JobOK(j, q),
           job' = [job EXCEPT ![s] = j], params' = [params EXCEPT ![s] = q],
           GiveBack(s), ~ job[s].prepared, job[s].pc \in Working, j.pc \notin Working
    PROVE  IInv'
<1>1. \A w \in Sessions : ~ Holds(j, w) BY DEF JobOK, OwnContext, NoContext, Holds, None
<1>2. CASE ~ Warm(s)
  <2>1. pooled' = pooled BY <1>2 DEF GiveBack
  <2>2. \A w \in Sessions : ~ Holds(job[s], w) BY <1>2 DEF Warm, Holds
  <2> QED BY <1>1, <1>2, <2>1, <2>2, PoolKept
<1>3. CASE Warm(s)
  <2> DEFINE v == job[s].ctx.session
  <2>1. v \in Sessions BY <1>3 DEF IInv, JobOK, OwnContext, Warm
  <2>2. PICK x \in SessionRecords :
          /\ x.holder = None
          /\ \/ x.routes = pooled[v].routes /\ x.stuck = pooled[v].stuck
                /\ x.signature = pooled[v].signature
             \/ x.routes = {} /\ x.stuck = {}
          /\ pooled' = [pooled EXCEPT ![v] = x]
    <3>1. pooled[v] \in SessionRecords BY <2>1 DEF IInv
    <3>2. [pooled[v] EXCEPT !.holder = None] \in SessionRecords
      BY <3>1 DEF SessionRecords
    <3>3. NoSession \in SessionRecords BY DEF NoSession, SessionRecords
    <3>4. CASE pooled' = [pooled EXCEPT ![v].holder = None]
      BY <3>1, <3>2, <3>4 DEF SessionRecords
    <3>5. CASE pooled' = [pooled EXCEPT ![v] = NoSession]
      BY <3>3, <3>5 DEF NoSession
    <3> QED BY <3>4, <3>5, <1>3 DEF GiveBack
  <2>3. pooled' \in [Sessions -> SessionRecords] BY <2>1, <2>2 DEF IInv
  <2>4. ASSUME NEW w \in Sessions PROVE Touched(s, j, w)
    <3>1. SessionOK(w) BY DEF IInv
    <3>2. CASE w # v
      <4>1. pooled'[w] = pooled[w] BY <2>2, <3>2 DEF IInv
      <4> QED BY <4>1, <3>1, <3>2, <1>1 DEF Touched, SessionOK, Holds
    <3>3. CASE w = v
      <4>1. pooled'[w] = x BY <2>1, <2>2, <3>3 DEF IInv
      <4>2. pooled[w].holder = s BY <3>1, <3>3, <1>3 DEF SessionOK, Holds, Warm
      <4>3. None \notin Solves BY SolveAssumption DEF None
      <4>4. pooled[w].routes = {} /\ Signed(pooled[w])
        BY <3>1, <4>2 DEF SessionOK, Orderly
      <4>5. Signed(x) /\ x.routes = {} BY <4>4, <2>2, <3>3 DEF Signed
      <4> QED BY <4>1, <4>2, <4>3, <4>5, <2>2, <1>1, <3>1 DEF Touched, SessionOK
    <3> QED BY <3>2, <3>3
  <2> QED BY <2>3, <2>4, JobStep
<1> QED BY <1>2, <1>3

(* What an attempt leaves on the context of its session while it holds it.   *)
LEMMA Written ==
    ASSUME IInv, NEW s \in Solves, NEW j, NEW q, JobOK(j, q),
           job' = [job EXCEPT ![s] = j], params' = [params EXCEPT ![s] = q],
           j.ctx = job[s].ctx, job[s].pc \in Working, Warm(s),
           NEW x \in SessionRecords,
           pooled' = [pooled EXCEPT ![job[s].ctx.session] = x],
           x.holder = s, Signed(x),
           \/ x.routes = {} /\ ~ j.prepared
           \/ x.routes = {s} /\ x.signature = s /\ j.prepared
    PROVE  IInv'
<1> DEFINE v == job[s].ctx.session
<1>1. v \in Sessions BY DEF IInv, JobOK, OwnContext, Warm
<1>2. pooled' \in [Sessions -> SessionRecords] BY <1>1 DEF IInv
<1>3. ASSUME NEW w \in Sessions PROVE Touched(s, j, w)
  <2>1. SessionOK(w) BY DEF IInv
  <2>2. CASE w # v
    <3>1. pooled'[w] = pooled[w] BY <2>2 DEF IInv
    <3> QED BY <3>1, <2>1, <2>2 DEF Touched, SessionOK, Holds
  <2>3. CASE w = v
    <3>1. pooled'[w] = x BY <1>1, <2>3 DEF IInv
    <3>2. pooled[w].holder = s BY <2>1, <2>3 DEF SessionOK, Holds, Warm
    <3> QED BY <3>1, <3>2, <2>3 DEF Touched, Holds, Warm
  <2> QED BY <2>2, <2>3
<1> QED BY <1>2, <1>3, JobStep

(* A job that has not begun is a job.                                        *)
LEMMA NewJobTypeOK == NoContext \in Contexts /\ NewJob \in Jobs
<1>1. NoContext \in Contexts BY DEF NoContext, Contexts
<1> QED BY <1>1 DEF NewJob, Jobs, JobPC

(* An attempt that is over, and one that is about to begin, holds nothing.   *)
LEMMA EndedOK ==
    ASSUME IInv, NEW s \in Solves, NEW pc \in Finished, NEW q \in Identities
    PROVE  JobOK(Ended(s, pc), q) /\ \A w : ~ Holds(Ended(s, pc), w)
<1>1. job[s] \in Jobs BY DEF IInv
<1>2. /\ Ended(s, pc).pc = pc /\ Ended(s, pc).ctx = NoContext
      /\ ~ Ended(s, pc).prepared /\ Ended(s, pc).took = NoContext
  BY DEF Ended, NewJob
<1>4. Ended(s, pc) \in Jobs BY <1>1, NewJobTypeOK DEF Ended, Jobs, JobPC
<1>5. OwnContext(Ended(s, pc))
  BY <1>2 DEF OwnContext, Working, Finished, NoContext, None
<1>6. OwnIdentity(Ended(s, pc), q) BY <1>2 DEF OwnIdentity
<1>7. OwnTraces(Ended(s, pc), q) BY <1>2 DEF OwnTraces
<1>8. \A w : ~ Holds(Ended(s, pc), w) BY <1>2 DEF Holds, NoContext, None
<1> QED BY <1>4, <1>5, <1>6, <1>7, <1>8 DEF JobOK

(* A further attempt begins without a context, a token or a trace.           *)
LEMMA NewJobOK ==
    ASSUME NEW n \in Nat, NEW q \in Identities
    PROVE  LET j == [NewJob EXCEPT !.attempt = n]
           IN JobOK(j, q) /\ \A w : ~ Holds(j, w)
<1> DEFINE j == [NewJob EXCEPT !.attempt = n]
<1>2. /\ j.pc = "begin" /\ j.ctx = NoContext /\ j.took = NoContext /\ j.successes = 0
      /\ ~ j.prepared
  BY DEF NewJob
<1>4. j \in Jobs BY NewJobTypeOK DEF Jobs
<1> HIDE DEF j
<1>5. OwnContext(j) BY <1>2 DEF OwnContext, Working, NoContext, None
<1>6. OwnIdentity(j, q) BY <1>2 DEF OwnIdentity
<1>7. OwnTraces(j, q) BY <1>2 DEF OwnTraces
<1>8. \A w : ~ Holds(j, w) BY <1>2 DEF Holds, NoContext, None
<1> QED BY <1>4, <1>5, <1>6, <1>7, <1>8 DEF JobOK, j

(* An attempt with no context of a session leaves the sessions alone.        *)
LEMMA HoldsNothing ==
    ASSUME IInv, NEW s \in Solves, job[s].pc \notin Working
    PROVE  ~ Warm(s) /\ \A w : ~ Holds(job[s], w)
BY DEF IInv, JobOK, OwnContext, NoContext, None, Warm, Holds

-----------------------------------------------------------------------------
(* Before the context                                                        *)

(* Until it has a context an attempt touches no session.                     *)
LEMMA AcquireSteps ==
    ASSUME IInv, NEW s \in Solves,
           Begin(s) \/ RefuseUrl(s) \/ AcquireTask(s) \/ CheckoutProxy(s)
           \/ LeaseFresh(s) \/ LeaseFails(s)
    PROVE  IInv'
<1> USE DEF At, Become, Goto, JobPC, Working, Finished
<1>j. job[s] \in Jobs /\ params[s] \in Identities /\ JobOK(job[s], params[s])
  BY DEF IInv
<1>o. OwnContext(job[s]) /\ OwnIdentity(job[s], params[s]) /\ OwnTraces(job[s], params[s])
  BY <1>j DEF JobOK
<1>n. NoContext \in Contexts /\ NoIdentity \in Identities
  BY DEF NoContext, Contexts, NoIdentity, Identities
<1>p. job[s].pc \notin Working /\ UNCHANGED pooled
  BY DEF Begin, RefuseUrl, AcquireTask, CheckoutProxy, LeaseFresh, LeaseFails, Leasing
<1>h. ~ Warm(s) /\ \A w : ~ Holds(job[s], w) BY <1>p, HoldsNothing
<1>q. ASSUME NEW j, NEW q, JobOK(j, q), j.ctx.kind # "warm",
             job' = [job EXCEPT ![s] = j], params' = [params EXCEPT ![s] = q]
      PROVE  IInv'
  <2>1. \A w \in Sessions : Holds(j, w) <=> Holds(job[s], w)
    BY <1>h, <1>q DEF Holds
  <2> QED BY <2>1, <1>h, <1>p, <1>q, PoolKept
<1>k. ASSUME NEW j, JobOK(j, params[s]), j.ctx.kind # "warm",
             job' = [job EXCEPT ![s] = j], UNCHANGED params
      PROVE  IInv'
  <2>1. params' = [params EXCEPT ![s] = params[s]] BY <1>k DEF IInv
  <2> QED BY <2>1, <1>k, <1>q
<1>r. ASSUME NEW result \in {"failed", "fatal"}, Raise(s, result), UNCHANGED params,
             job[s].pc \in {"acquire", "lease"}
      PROVE  IInv'
  <2> DEFINE j == [job[s] EXCEPT !.pc = "record", !.result = result]
  <2>1. j \in Jobs BY <1>j DEF Jobs
  <2>2. OwnContext(j) /\ OwnIdentity(j, params[s]) /\ OwnTraces(j, params[s])
    BY <1>j, <1>o, <1>r DEF Jobs, OwnContext, OwnIdentity, OwnTraces
  <2>3. j.ctx.kind # "warm" BY <1>j, <1>h DEF Jobs, Warm
  <2>4. JobOK(j, params[s]) BY <2>1, <2>2, <1>j DEF JobOK
  <2> QED BY <2>3, <2>4, <1>k, <1>r DEF Raise
<1>f. ASSUME NEW p \in Proxies \cup {None}, Fresh(s, p), UNCHANGED params,
             job[s].pc \in {"acquire", "lease"}, p = job[s].took.proxy
      PROVE  IInv'
  <2> DEFINE c == [kind |-> "fresh", session |-> None, proxy |-> p]
  <2> DEFINE j == [job[s] EXCEPT !.pc = "acquired", !.ctx = c, !.took = c]
  <2>1. c \in Contexts BY DEF Contexts
  <2>2. c.kind = "fresh" /\ c.session = None /\ c.proxy = p OBVIOUS
  <2>3. job' = [job EXCEPT ![s] = j] BY <1>f DEF Fresh
  <2> HIDE DEF c
  <2>4. j \in Jobs BY <1>j, <2>1 DEF Jobs
  <2>5. OwnContext(j) BY <1>j, <1>o, <1>f, <2>2 DEF Jobs, OwnContext
  <2>6. OwnIdentity(j, params[s])
    BY <1>j, <1>o, <1>f, <2>2 DEF Jobs, OwnContext, OwnIdentity, NoContext
  <2>7. OwnTraces(j, params[s]) BY <1>j, <1>o, <1>f DEF Jobs, OwnTraces
  <2>8. j.ctx.kind # "warm" BY <1>j, <2>2 DEF Jobs
  <2>9. JobOK(j, params[s]) BY <2>4, <2>5, <2>6, <2>7, <1>j DEF JobOK
  <2> QED BY <2>3, <2>8, <2>9, <1>k, <1>f
<1>1. CASE Begin(s)
  <2>1. PICK n \in Nat : n = job[s].attempt + 1 BY <1>j DEF Jobs
  <2> DEFINE j == [job[s] EXCEPT !.pc = "acquire", !.attempt = n]
  <2>2. j \in Jobs BY <1>j DEF Jobs
  <2>3. OwnContext(j) /\ OwnTraces(j, NoIdentity)
    BY <1>j, <1>o, <1>1 DEF Begin, Jobs, OwnContext, OwnTraces
  <2>4. OwnIdentity(j, NoIdentity)
    BY <1>j, <1>o, <1>1 DEF Begin, Jobs, OwnContext, OwnIdentity, NoIdentity, NoContext
  <2>5. JobOK(j, NoIdentity) BY <2>2, <2>3, <2>4, <1>n DEF JobOK
  <2>6. j.ctx.kind # "warm" BY <1>j, <1>h DEF Jobs, Warm
  <2>7. job' = [job EXCEPT ![s] = j] BY <1>1, <2>1 DEF Begin
  <2> QED BY <2>5, <2>6, <2>7, <1>q, <1>1 DEF Begin
<1>2. CASE RefuseUrl(s) BY <1>2, <1>r DEF RefuseUrl
<1>3. CASE AcquireTask(s)
  <2>1. job[s].took.proxy = None BY <1>3, <1>o DEF AcquireTask, OwnContext, NoContext
  <2> QED BY <2>1, <1>3, <1>r, <1>f DEF AcquireTask
<1>4. CASE CheckoutProxy(s)
  <2>0. job[s].pc = "acquire" /\ job[s].took = NoContext /\ job[s].ctx = NoContext
    BY <1>4, <1>o DEF CheckoutProxy, OwnContext
  <2>1. ASSUME NEW p \in Proxies,
               params' = [params EXCEPT ![s].proxy = p],
               Become(s, [job[s] EXCEPT !.pc = "lease", !.took.proxy = p])
        PROVE  IInv'
    <3> DEFINE c == [job[s].took EXCEPT !.proxy = p]
    <3> DEFINE j == [job[s] EXCEPT !.pc = "lease", !.took = c]
    <3> DEFINE q == [params[s] EXCEPT !.proxy = p]
    <3>1. c \in Contexts /\ c.session = job[s].took.session /\ c.kind = job[s].took.kind
          /\ c.proxy = p
      BY <1>j DEF Jobs, Contexts
    <3>2. q \in Identities /\ q.proxy = p /\ q.session = params[s].session
          /\ q.reported = params[s].reported
      BY <1>j DEF Identities
    <3>3. job' = [job EXCEPT ![s] = j] /\ params' = [params EXCEPT ![s] = q]
      BY <2>1
    <3> HIDE DEF c, q
    <3>4. j \in Jobs BY <1>j, <3>1 DEF Jobs
    <3>5. OwnContext(j)
      BY <1>j, <2>0, <3>1 DEF Jobs, OwnContext, NoContext, None
    <3>6. OwnIdentity(j, q) /\ OwnTraces(j, q)
      BY <1>j, <1>o, <1>4, <3>1, <3>2 DEF CheckoutProxy, Jobs, OwnIdentity, OwnTraces
    <3>7. j.ctx.kind # "warm" BY <1>j, <1>h DEF Jobs, Warm
    <3> QED BY <3>2, <3>3, <3>4, <3>5, <3>6, <3>7, <1>q DEF JobOK
  <2>2. ASSUME Goto(s, "lease"), UNCHANGED params PROVE IInv'
    <3> DEFINE j == [job[s] EXCEPT !.pc = "lease"]
    <3>1. j \in Jobs BY <1>j DEF Jobs
    <3>2. OwnContext(j) BY <1>j, <2>0 DEF Jobs, OwnContext, NoContext, None
    <3>4. OwnIdentity(j, params[s]) /\ OwnTraces(j, params[s])
      BY <1>j, <1>o, <2>0 DEF Jobs, OwnIdentity, OwnTraces
    <3>3. j.ctx.kind # "warm" BY <1>j, <1>h DEF Jobs, Warm
    <3> QED BY <3>1, <3>2, <3>3, <3>4, <2>2, <1>j, <1>k DEF JobOK
  <2> QED BY <2>1, <2>2, <1>4, <1>r DEF CheckoutProxy
<1>5. CASE LeaseFresh(s)
  <2>1. job[s].took.proxy \in Proxies \cup {None} BY <1>j DEF Jobs, Contexts
  <2> QED BY <2>1, <1>5, <1>f DEF LeaseFresh, Leasing
<1>6. CASE LeaseFails(s) BY <1>6, <1>r DEF LeaseFails, Leasing
<1> QED BY <1>1, <1>2, <1>3, <1>4, <1>5, <1>6

(* A leased session was idle, so no other attempt held it and it carries no  *)
(* route of an orderly one.                                                  *)
LEMMA LeaseKeeps ==
    ASSUME IInv, NEW s \in Solves, LeaseSession(s)
    PROVE  IInv'
<1> USE DEF At, Become, JobPC, Working, Finished
<1>j. job[s] \in Jobs /\ params[s] \in Identities /\ JobOK(job[s], params[s])
  BY DEF IInv
<1>o. OwnContext(job[s]) /\ OwnIdentity(job[s], params[s]) /\ OwnTraces(job[s], params[s])
  BY <1>j DEF JobOK
<1>p. job[s].pc \in {"acquire", "lease"} BY DEF LeaseSession, Leasing
<1>h. \A w : ~ Holds(job[s], w) BY <1>p, HoldsNothing
<1> DEFINE p == job[s].took.proxy
<1>1. PICK v \in Sessions :
        /\ pooled[v].holder = None
        /\ pooled' = [pooled EXCEPT ![v].holder = s, ![v].bucket = BucketOf(p)]
        /\ params' = [params EXCEPT ![s].session = v]
        /\ LET c == [kind |-> "warm", session |-> v, proxy |-> p]
           IN job' = [job EXCEPT ![s] = [job[s] EXCEPT !.pc = "acquired", !.ctx = c, !.took = c]]
  BY DEF LeaseSession
<1> DEFINE c == [kind |-> "warm", session |-> v, proxy |-> p]
<1> DEFINE j == [job[s] EXCEPT !.pc = "acquired", !.ctx = c, !.took = c]
<1> DEFINE q == [params[s] EXCEPT !.session = v]
<1> DEFINE x == [pooled[v] EXCEPT !.holder = s, !.bucket = BucketOf(p)]
<1>2. p \in Proxies \cup {None} BY <1>j DEF Jobs, Contexts
<1>3. c \in Contexts BY <1>2 DEF Contexts
<1>4. c.kind = "warm" /\ c.session = v /\ c.proxy = p OBVIOUS
<1>5. job' = [job EXCEPT ![s] = j] BY <1>1
<1>6. q \in Identities /\ q.session = v /\ q.proxy = params[s].proxy
  BY <1>j DEF Identities
<1>7. params' = [params EXCEPT ![s] = q] BY <1>1
<1>8. /\ x \in SessionRecords /\ x.holder = s
      /\ x.routes = pooled[v].routes /\ x.stuck = pooled[v].stuck
      /\ x.signature = pooled[v].signature
  <2>1. BucketOf(p) \in Proxies \cup {"server", None} BY <1>2 DEF BucketOf
  <2>2. pooled[v] \in SessionRecords BY DEF IInv
  <2> QED BY <2>1, <2>2 DEF SessionRecords
<1>9. pooled' = [pooled EXCEPT ![v] = x] BY <1>1 DEF IInv
<1> HIDE DEF p, c, q, x
<1>10. j \in Jobs BY <1>j, <1>3 DEF Jobs
<1>11. OwnContext(j) BY <1>j, <1>4 DEF Jobs, OwnContext
<1>12. OwnIdentity(j, q)
  BY <1>j, <1>o, <1>p, <1>4, <1>6 DEF Jobs, OwnIdentity, p
<1>13. OwnTraces(j, q) BY <1>j, <1>o, <1>p DEF Jobs, OwnTraces
<1>14. j.ctx = c BY <1>j DEF Jobs
<1>15. pooled' \in [Sessions -> SessionRecords] BY <1>8, <1>9 DEF IInv
<1>16. ASSUME NEW w \in Sessions PROVE Touched(s, j, w)
  <2>1. SessionOK(w) BY DEF IInv
  <2>2. CASE w # v
    <3>1. pooled'[w] = pooled[w] BY <1>9, <2>2 DEF IInv
    <3>2. ~ Holds(j, w) BY <1>4, <1>14, <2>2 DEF Holds
    <3> QED BY <3>1, <3>2, <2>1, <1>h DEF Touched, SessionOK
  <2>3. CASE w = v
    <3>1. pooled'[w] = x BY <1>9, <2>3 DEF IInv
    <3>2. Holds(j, w) BY <1>4, <1>14, <2>3 DEF Holds
    <3>3. None \notin Solves BY SolveAssumption DEF None
    <3>4. pooled[w].routes = {} /\ Signed(pooled[w])
      BY <2>1, <2>3, <1>1, <3>3 DEF SessionOK, Orderly
    <3>5. Signed(x) /\ x.routes = {} BY <3>4, <1>8, <2>3 DEF Signed
    <3>6. ~ j.prepared BY <1>p, <1>j, <1>o DEF Jobs, OwnTraces
    <3> QED BY <3>1, <3>2, <3>3, <3>5, <3>6, <1>1, <1>8, <2>3 DEF Touched
  <2> QED BY <2>2, <2>3
<1> HIDE DEF j
<1>17. JobOK(j, q) BY <1>6, <1>10, <1>11, <1>12, <1>13 DEF JobOK
<1> QED BY <1>5, <1>7, <1>15, <1>16, <1>17, JobStep

-----------------------------------------------------------------------------
(* On the context                                                            *)

(* While it works an attempt keeps what it took.                             *)
LEMMA StaysOK ==
    ASSUME IInv, NEW s \in Solves, job[s].pc \in Working,
           NEW j \in Jobs, j.pc \in Working,
           j.ctx = job[s].ctx, j.took = job[s].took,
           j.successes = job[s].successes,
           j.prepared => j.pc \in {"goto", "landed", "interact", "close"}
    PROVE  JobOK(j, params[s])
BY DEF IInv, JobOK, OwnContext, OwnIdentity, OwnTraces, Working, Finished

(* ... and so its session, which it does not touch.                          *)
LEMMA StaysKeep ==
    ASSUME IInv, NEW s \in Solves, NEW j, JobOK(j, params[s]),
           job' = [job EXCEPT ![s] = j], UNCHANGED <<params, pooled>>,
           j.ctx = job[s].ctx, Warm(s) => j.prepared = job[s].prepared
    PROVE  IInv'
<1>1. params' = [params EXCEPT ![s] = params[s]] BY DEF IInv
<1>2. \A w \in Sessions : Holds(j, w) <=> Holds(job[s], w) BY DEF Holds
<1> QED BY <1>1, <1>2, PoolKept

(* What a solve knows of the session it works on.                            *)
LEMMA OwnSession ==
    ASSUME IInv, NEW s \in Solves, job[s].pc \in Working, Warm(s)
    PROVE  LET y == pooled[job[s].ctx.session] IN
           /\ job[s].ctx.session \in Sessions /\ y \in SessionRecords /\ y.holder = s
           /\ Signed(y) /\ y.routes \subseteq {s}
           /\ ~ job[s].prepared => y.routes = {}
           /\ job[s].prepared => y.signature = s
<1> DEFINE v == job[s].ctx.session
<1>1. v \in Sessions BY DEF IInv, JobOK, OwnContext, Warm
<1>2. SessionOK(v) /\ pooled[v] \in SessionRecords BY <1>1 DEF IInv
<1>3. pooled[v].holder = s BY <1>2 DEF SessionOK, Holds, Warm
<1> QED BY <1>1, <1>2, <1>3 DEF SessionOK, Orderly

(* A context without a session is nobody else's concern.                     *)
LEMMA FreshKeeps ==
    ASSUME IInv, NEW s \in Solves, NEW j, JobOK(j, params[s]),
           job' = [job EXCEPT ![s] = j], UNCHANGED <<params, pooled>>,
           j.ctx = job[s].ctx, ~ Warm(s)
    PROVE  IInv'
BY StaysKeep

(* A preparation is complete only on a session that no other has signed.     *)
LEMMA PreparedKeeps ==
    ASSUME IInv, NEW s \in Solves, NEW j, JobOK(j, params[s]), j.prepared,
           job' = [job EXCEPT ![s] = j], UNCHANGED params, j.ctx = job[s].ctx,
           Preparing(s), Prepared(s)
    PROVE  IInv'
<1> DEFINE v == job[s].ctx.session
<1>w. job[s].pc \in Working BY DEF Preparing, At, Working
<1>1. CASE ~ Warm(s)
  <2>1. UNCHANGED pooled BY <1>1 DEF Prepared, OnContext
  <2> QED BY <2>1, <1>1, FreshKeeps
<1>2. CASE Warm(s)
  <2> DEFINE x == [pooled[v] EXCEPT !.routes = @ \cup {s}, !.signature = s]
  <2>1. /\ v \in Sessions /\ pooled[v] \in SessionRecords /\ pooled[v].holder = s
        /\ Signed(pooled[v]) /\ pooled[v].routes \subseteq {s}
    BY <1>2, <1>w, OwnSession
  <2>2. pooled[v].signature \in {None, s}
    BY <1>2 DEF Preparing, Mismatch, Session
  <2>3. /\ x \in SessionRecords /\ x.holder = s /\ x.signature = s
        /\ x.routes = pooled[v].routes \cup {s} /\ x.stuck = pooled[v].stuck
    BY <2>1 DEF SessionRecords
  <2>4. pooled[v].stuck \subseteq Solves BY <2>1 DEF SessionRecords
  <2>5. pooled' = [pooled EXCEPT ![v] = x] BY <1>2 DEF Prepared, OnContext
  <2> HIDE DEF x
  <2>6. None \notin Solves BY SolveAssumption DEF None
  <2>7. Signed(x) BY <2>1, <2>2, <2>3, <2>4, <2>6 DEF Signed
  <2>8. x.routes = {s} BY <2>1, <2>3
  <2>9. params' = [params EXCEPT ![s] = params[s]] BY DEF IInv
  <2> QED BY <2>3, <2>5, <2>7, <2>8, <2>9, <1>2, <1>w, Written
<1> QED BY <1>1, <1>2

(* One that is not leaves a route that nobody counts as his.                 *)
LEMMA PartKeeps ==
    ASSUME IInv, NEW s \in Solves, NEW j, JobOK(j, params[s]), ~ j.prepared,
           job' = [job EXCEPT ![s] = j], UNCHANGED params, j.ctx = job[s].ctx,
           job[s].pc \in Working, ~ job[s].prepared, PreparedInPart(s)
    PROVE  IInv'
<1> DEFINE v == job[s].ctx.session
<1>1. CASE ~ Warm(s)
  <2>1. UNCHANGED pooled BY <1>1 DEF PreparedInPart, OnContext
  <2> QED BY <2>1, <1>1, FreshKeeps
<1>2. CASE Warm(s)
  <2> DEFINE x == [pooled[v] EXCEPT !.partial = @ \cup {s}]
  <2>1. /\ v \in Sessions /\ pooled[v] \in SessionRecords /\ pooled[v].holder = s
        /\ Signed(pooled[v]) /\ pooled[v].routes = {}
    BY <1>2, OwnSession
  <2>2. /\ x \in SessionRecords /\ x.holder = s /\ x.signature = pooled[v].signature
        /\ x.routes = {} /\ x.stuck = pooled[v].stuck
    BY <2>1 DEF SessionRecords
  <2>3. pooled' = [pooled EXCEPT ![v] = x] BY <1>2 DEF PreparedInPart, OnContext
  <2> HIDE DEF x
  <2>4. Signed(x) BY <2>1, <2>2 DEF Signed
  <2>5. params' = [params EXCEPT ![s] = params[s]] BY DEF IInv
  <2> QED BY <2>2, <2>3, <2>4, <2>5, <1>2, Written
<1> QED BY <1>1, <1>2

(* The clean-up takes the route of this attempt off its session, or leaves   *)
(* it there under the attempt's signature.                                   *)
LEMMA UnprepareKeeps ==
    ASSUME IInv, NEW s \in Solves, NEW j, JobOK(j, params[s]), ~ j.prepared,
           job' = [job EXCEPT ![s] = j], UNCHANGED params,
           job[s].pc \in Working, j.ctx = job[s].ctx, Unprepare(s)
    PROVE  IInv'
<1> DEFINE v == job[s].ctx.session
<1>1. CASE ~ Warm(s)
  <2>1. UNCHANGED pooled BY <1>1 DEF Unprepare, Unroute, UnrouteFails, OnContext
  <2> QED BY <2>1, <1>1, FreshKeeps
<1>2. CASE Warm(s) /\ job[s].prepared
  <2>1. /\ v \in Sessions /\ pooled[v] \in SessionRecords /\ pooled[v].holder = s
        /\ Signed(pooled[v]) /\ pooled[v].routes \subseteq {s} /\ pooled[v].signature = s
    BY <1>2, OwnSession
  <2>2. PICK x \in SessionRecords :
          /\ x.holder = s /\ x.routes = pooled[v].routes \ {s} /\ x.signature = s
          /\ x.stuck \subseteq pooled[v].stuck \cup {s}
          /\ pooled' = [pooled EXCEPT ![v] = x]
    <3>1. CASE Unroute(s)
      <4> DEFINE x == [pooled[v] EXCEPT !.routes = @ \ {s}]
      <4>1. /\ x \in SessionRecords /\ x.holder = s /\ x.signature = s
            /\ x.routes = pooled[v].routes \ {s} /\ x.stuck = pooled[v].stuck
        BY <2>1 DEF SessionRecords
      <4>2. pooled' = [pooled EXCEPT ![v] = x] BY <3>1, <1>2 DEF Unroute, OnContext
      <4> HIDE DEF x
      <4> QED BY <4>1, <4>2
    <3>2. CASE UnrouteFails(s)
      <4> DEFINE x == [pooled[v] EXCEPT !.routes = @ \ {s}, !.stuck = @ \cup {s}]
      <4>1. /\ x \in SessionRecords /\ x.holder = s /\ x.signature = s
            /\ x.routes = pooled[v].routes \ {s} /\ x.stuck = pooled[v].stuck \cup {s}
        BY <2>1 DEF SessionRecords
      <4>2. pooled' = [pooled EXCEPT ![v] = x] BY <3>2, <1>2 DEF UnrouteFails, OnContext
      <4> HIDE DEF x
      <4> QED BY <4>1, <4>2
    <3> QED BY <3>1, <3>2, <1>2 DEF Unprepare
  <2>3. x.routes = {} BY <2>1, <2>2
  <2>4. Signed(x) BY <2>1, <2>2, <2>3 DEF Signed
  <2>5. params' = [params EXCEPT ![s] = params[s]] BY DEF IInv
  <2> QED BY <2>2, <2>3, <2>4, <2>5, <1>2, Written
<1>3. CASE ~ job[s].prepared
  <2>1. job[s].prepared \in BOOLEAN /\ j.prepared \in BOOLEAN
    BY DEF IInv, JobOK, Jobs
  <2>2. UNCHANGED pooled BY <1>3 DEF Unprepare
  <2> QED BY <2>1, <2>2, <1>3, StaysKeep
<1> QED BY <1>1, <1>2, <1>3

(* On its context an attempt marks only the session it holds.                *)
LEMMA WorkSteps ==
    ASSUME IInv, NEW s \in Solves,
           Discard(s) \/ EnterRealPage(s) \/ Prepare(s) \/ PrepareRaises(s)
           \/ Navigate(s) \/ ValidateLanding(s) \/ NavigationFails(s)
           \/ Interact(s) \/ ExtractToken(s) \/ ClosePage(s)
    PROVE  IInv'
<1> USE DEF At, Become, Goto, JobPC, Working
<1>j. job[s] \in Jobs /\ params[s] \in Identities /\ OwnTraces(job[s], params[s])
  BY DEF IInv, JobOK
<1> DEFINE v == job[s].ctx.session
<1>v. Warm(s) => v \in Sessions /\ pooled[v] \in SessionRecords
  BY DEF IInv, JobOK, OwnContext, Warm, NoContext, None
<1>u. ASSUME NEW result \in {"failed", "fatal", "token"}, Unwind(s, result),
             job[s].pc \in {"acquired", "goto", "landed", "interact"},
             UNCHANGED <<params, pooled>>
      PROVE  IInv'
  <2> DEFINE j == [job[s] EXCEPT !.pc = "close", !.result = result]
  <2>1. j \in Jobs BY <1>j DEF Jobs
  <2>2. JobOK(j, params[s]) BY <2>1, <1>u, <1>j, StaysOK, ZenonT(30) DEF Jobs, OwnTraces
  <2>3. j.ctx = job[s].ctx /\ j.prepared = job[s].prepared BY <1>j DEF Jobs
  <2> QED BY <2>2, <2>3, <1>u, StaysKeep DEF Unwind
<1>1. CASE Discard(s)
  <2> DEFINE j == [job[s] EXCEPT !.pc = "acquire", !.ctx = NoContext, !.took = NoContext,
                                 !.force = TRUE]
  <2>1. j \in Jobs BY <1>j, NewJobTypeOK DEF Jobs
  <2>2. OwnContext(j) BY <1>j DEF Jobs, OwnContext, NoContext, None
  <2>3. OwnIdentity(j, NoIdentity) BY <1>j DEF Jobs, OwnIdentity, NoIdentity, NoContext
  <2>4. OwnTraces(j, NoIdentity) BY <1>j, <1>1 DEF Discard, Jobs, OwnTraces, Finished
  <2>5. NoIdentity \in Identities BY DEF NoIdentity, Identities
  <2>6. JobOK(j, NoIdentity) BY <2>1, <2>2, <2>3, <2>4, <2>5 DEF JobOK
  <2>7. ~ job[s].prepared BY <1>1, <1>j DEF Discard, OwnTraces
  <2>8. j.pc \notin Working BY <1>j DEF Jobs
  <2>9. /\ job' = [job EXCEPT ![s] = j] /\ params' = [params EXCEPT ![s] = NoIdentity]
        /\ GiveBack(s) /\ job[s].pc \in Working
    BY <1>1 DEF Discard
  <2> HIDE DEF j
  <2> QED BY <2>6, <2>7, <2>8, <2>9, GivenBack
<1>2. CASE EnterRealPage(s)
  <2> DEFINE j == [job[s] EXCEPT !.pc = "goto", !.stage = "page_load"]
  <2>1. j \in Jobs BY <1>j DEF Jobs
  <2>2. JobOK(j, params[s])
    BY <2>1, <1>2, <1>j, StaysOK DEF EnterRealPage, Jobs, OwnTraces
  <2>3. j.ctx = job[s].ctx /\ j.prepared = job[s].prepared BY <1>j DEF Jobs
  <2> QED BY <2>2, <2>3, <1>2, StaysKeep DEF EnterRealPage
<1>3. CASE Prepare(s)
  <2> DEFINE j == [job[s] EXCEPT !.pc = "goto", !.prepared = TRUE, !.stage = "page_load"]
  <2>0. job[s].pc = "acquired" /\ ~ job[s].prepared
    BY <1>3, <1>j DEF Prepare, Preparing, OwnTraces
  <2>1. j \in Jobs BY <1>j DEF Jobs
  <2>2. JobOK(j, params[s]) BY <2>0, <2>1, <1>j, StaysOK DEF Jobs
  <2>3. j.ctx = job[s].ctx /\ j.prepared BY <1>j DEF Jobs
  <2>4. /\ job' = [job EXCEPT ![s] = j] /\ UNCHANGED params
        /\ Preparing(s) /\ Prepared(s)
    BY <1>3 DEF Prepare
  <2> HIDE DEF j
  <2> QED BY <2>2, <2>3, <2>4, PreparedKeeps
<1>4. CASE PrepareRaises(s)
  <2>0. job[s].pc = "acquired" /\ ~ job[s].prepared /\ UNCHANGED params /\ Preparing(s)
    BY <1>4, <1>j DEF PrepareRaises, Preparing, OwnTraces
  <2>1. CASE Unwind(s, "failed") /\ UNCHANGED pooled BY <2>0, <2>1, <1>u
  <2>2. ASSUME PreparedInPart(s), Unwind(s, "failed") PROVE IInv'
    <3> DEFINE j == [job[s] EXCEPT !.pc = "close", !.result = "failed"]
    <3>1. j \in Jobs BY <1>j DEF Jobs
    <3>2. JobOK(j, params[s]) BY <2>0, <3>1, <1>j, StaysOK DEF Jobs
    <3>3. j.ctx = job[s].ctx /\ ~ j.prepared BY <2>0, <1>j DEF Jobs
    <3>4. job' = [job EXCEPT ![s] = j] BY <2>2 DEF Unwind
    <3> HIDE DEF j
    <3> QED BY <2>0, <2>2, <3>2, <3>3, <3>4, PartKeeps
  <2>3. ASSUME Prepared(s),
               Become(s, [job[s] EXCEPT !.pc = "close", !.prepared = TRUE,
                                        !.result = "failed"])
        PROVE  IInv'
    <3> DEFINE j == [job[s] EXCEPT !.pc = "close", !.prepared = TRUE, !.result = "failed"]
    <3>1. j \in Jobs BY <1>j DEF Jobs
    <3>2. JobOK(j, params[s]) BY <2>0, <3>1, <1>j, StaysOK, ZenonT(30) DEF Jobs
    <3>3. j.ctx = job[s].ctx /\ j.prepared BY <1>j DEF Jobs
    <3>4. job' = [job EXCEPT ![s] = j] BY <2>3
    <3> HIDE DEF j
    <3> QED BY <2>0, <2>3, <3>2, <3>3, <3>4, PreparedKeeps
  <2> QED BY <2>1, <2>2, <2>3, <1>4 DEF PrepareRaises
<1>5. CASE Navigate(s)
  <2>0. job[s].pc = "goto" /\ UNCHANGED <<params, pooled>> BY <1>5 DEF Navigate
  <2>1. CASE plan[s].family = "injected"
    <3> DEFINE j == [job[s] EXCEPT !.pc = "interact", !.loaded = TRUE, !.stage = "interaction"]
    <3>1. j \in Jobs BY <1>j DEF Jobs
    <3>2. JobOK(j, params[s]) BY <2>0, <3>1, <1>j, StaysOK DEF Jobs, OwnTraces
    <3>3. j.ctx = job[s].ctx /\ j.prepared = job[s].prepared BY <1>j DEF Jobs
    <3> QED BY <2>0, <2>1, <3>2, <3>3, <1>5, StaysKeep DEF Navigate
  <2>2. CASE plan[s].family # "injected"
    <3> DEFINE j == [job[s] EXCEPT !.pc = "landed", !.loaded = TRUE]
    <3>1. j \in Jobs BY <1>j DEF Jobs
    <3>2. JobOK(j, params[s]) BY <2>0, <3>1, <1>j, StaysOK DEF Jobs, OwnTraces
    <3>3. j.ctx = job[s].ctx /\ j.prepared = job[s].prepared BY <1>j DEF Jobs
    <3> QED BY <2>0, <2>2, <3>2, <3>3, <1>5, StaysKeep DEF Navigate
  <2> QED BY <2>1, <2>2
<1>10. CASE ValidateLanding(s)
  <2>0. job[s].pc = "landed" /\ UNCHANGED <<params, pooled>> BY <1>10 DEF ValidateLanding
  <2>1. CASE Become(s, [job[s] EXCEPT !.pc = "interact", !.stage = "interaction"])
    <3> DEFINE j == [job[s] EXCEPT !.pc = "interact", !.stage = "interaction"]
    <3>1. j \in Jobs BY <1>j DEF Jobs
    <3>2. JobOK(j, params[s]) BY <2>0, <3>1, <1>j, StaysOK DEF Jobs, OwnTraces
    <3>3. j.ctx = job[s].ctx /\ j.prepared = job[s].prepared BY <1>j DEF Jobs
    <3> QED BY <2>0, <2>1, <3>2, <3>3, StaysKeep
  <2>2. CASE Unwind(s, "fatal") BY <2>0, <2>2, <1>u
  <2> QED BY <2>1, <2>2, <1>10 DEF ValidateLanding
<1>6. CASE NavigationFails(s) BY <1>6, <1>u DEF NavigationFails
<1>7. CASE Interact(s) BY <1>7, <1>u DEF Interact, WidgetErrors
<1>8. CASE ExtractToken(s) BY <1>8, <1>u DEF ExtractToken, WidgetErrors
<1>9. CASE ClosePage(s)
  <2> DEFINE j == [job[s] EXCEPT !.pc = "release", !.prepared = FALSE]
  <2>1. j \in Jobs BY <1>j DEF Jobs
  <2>2. JobOK(j, params[s]) BY <2>1, <1>9, <1>j, StaysOK DEF ClosePage, Jobs, OwnTraces
  <2>3. j.ctx = job[s].ctx /\ ~ j.prepared BY <1>j DEF Jobs
  <2>4. /\ job' = [job EXCEPT ![s] = j] /\ UNCHANGED params /\ Unprepare(s)
        /\ job[s].pc \in Working
    BY <1>9 DEF ClosePage
  <2> HIDE DEF j
  <2> QED BY <2>2, <2>3, <2>4, UnprepareKeeps
<1> QED BY <1>1, <1>2, <1>3, <1>4, <1>5, <1>6, <1>7, <1>8, <1>9, <1>10

-----------------------------------------------------------------------------
(* The way back                                                              *)

\* The attempt that leaves for the recorder, or ends as cancelled.
LEMMA LeftOK ==
    ASSUME IInv, NEW s \in Solves, job[s].pc \in {"release", "report"},
           NEW q \in Identities, OwnIdentity(job[s], q)
    PROVE  /\ JobOK(Left(s), q) /\ \A w : ~ Holds(Left(s), w)
           /\ Left(s).pc \notin Working /\ Left(s).successes = 0
           /\ job[s].result = "token" => Left(s).pc = "record"
<1>j. job[s] \in Jobs /\ OwnContext(job[s]) /\ OwnTraces(job[s], params[s])
  BY DEF IInv, JobOK
<1>s. job[s].successes = 0 BY <1>j DEF OwnTraces, Jobs, Finished
<1>1. CASE job[s].result = "cancelled"
  <2>1. Left(s) = Ended(s, "cancelled") BY <1>1 DEF Left
  <2>2. Ended(s, "cancelled").pc = "cancelled" /\ Ended(s, "cancelled").successes = 0
    BY <1>s DEF Ended, NewJob
  <2> QED BY <2>1, <2>2, <1>1, EndedOK DEF Finished, Working
<1>2. CASE job[s].result # "cancelled"
  <2> DEFINE j == [job[s] EXCEPT !.pc = "record", !.ctx = NoContext,
                                 !.stage = "acquire", !.loaded = FALSE]
  <2>1. Left(s) = j BY <1>2 DEF Left
  <2>2. j \in Jobs BY <1>j, NewJobTypeOK DEF Jobs, JobPC
  <2>3. j.pc = "record" /\ j.ctx = NoContext /\ j.successes = 0 /\ j.took = job[s].took
        /\ j.prepared = job[s].prepared
    BY <1>j, <1>s DEF Jobs
  <2> HIDE DEF j
  <2>4. OwnContext(j) BY <2>3, <1>j DEF OwnContext, Working, Jobs
  <2>5. OwnIdentity(j, q) BY <2>3 DEF OwnIdentity, Finished
  <2>6. OwnTraces(j, q) BY <2>3, <1>j DEF OwnTraces, Finished
  <2>7. \A w : ~ Holds(j, w) BY <2>3 DEF Holds, NoContext, None
  <2> QED BY <2>1, <2>2, <2>3, <2>4, <2>5, <2>6, <2>7 DEF JobOK, Working
<1> QED BY <1>1, <1>2

(* After an attempt the solve tries again or is over.                        *)
LEMMA AgainOK ==
    ASSUME IInv, NEW s \in Solves, NEW result, NEW q \in Identities
    PROVE  JobOK(Again(s, result), q) /\ \A w : ~ Holds(Again(s, result), w)
<1>1. job[s].attempt \in Nat BY DEF IInv, Jobs
<1>2. Again(s, result) = [NewJob EXCEPT !.attempt = job[s].attempt]
      \/ Again(s, result) = Ended(s, "failed")
  BY DEF Again
<1> QED BY <1>1, <1>2, NewJobOK, EndedOK DEF Finished

(* From the release of the context to the verdict.                           *)
LEMMA ReturnSteps ==
    ASSUME IInv, NEW s \in Solves,
           Release(s) \/ ReportProxy(s) \/ Record(s) \/ Verify(s)
    PROVE  IInv'
<1> USE DEF At, Become, JobPC, Working, Finished
<1>j. job[s] \in Jobs /\ params[s] \in Identities /\ OwnContext(job[s])
      /\ OwnIdentity(job[s], params[s]) /\ OwnTraces(job[s], params[s])
  BY DEF IInv, JobOK
<1>p. [params EXCEPT ![s] = params[s]] = params BY DEF IInv
<1>q. ASSUME NEW j, NEW q, JobOK(j, q), \A w : ~ Holds(j, w),
             job' = [job EXCEPT ![s] = j], params' = [params EXCEPT ![s] = q],
             job[s].pc \notin Working, UNCHANGED pooled
      PROVE  IInv'
  BY <1>q, HoldsNothing, PoolKept
<1>1. CASE Release(s)
  <2>0. job[s].pc = "release" /\ GiveBack(s) BY <1>1 DEF Release
  <2> DEFINE q == IF job[s].ctx.proxy = None THEN [params[s] EXCEPT !.proxy = None]
                  ELSE params[s]
  <2>1. q \in Identities /\ q.session = params[s].session /\ q.reported = params[s].reported
    BY <1>j DEF Identities
  <2>2. q.proxy = job[s].took.proxy
    BY <2>0, <1>j DEF Identities, OwnContext, OwnIdentity
  <2>3. params' = [params EXCEPT ![s] = q] BY <1>1, <1>p DEF Release
  <2>4. OwnIdentity(job[s], q) BY <2>1, <2>2, <1>j DEF OwnIdentity
  <2>5. OwnTraces(job[s], q) /\ ~ job[s].prepared BY <2>0, <2>1, <1>j DEF OwnTraces
  <2> HIDE DEF q
  <2>6. CASE Reported(s) = None
    <3>1. job' = [job EXCEPT ![s] = Left(s)] BY <2>6, <1>1 DEF Release
    <3> QED BY <3>1, <2>0, <2>1, <2>3, <2>4, <2>5, LeftOK, GivenBack
  <2>7. CASE Reported(s) # None
    <3> DEFINE j == [job[s] EXCEPT !.ctx = NoContext, !.pc = "report"]
    <3>1. job' = [job EXCEPT ![s] = j] BY <2>7, <1>1 DEF Release
    <3>2. j \in Jobs BY <1>j, NewJobTypeOK DEF Jobs
    <3>3. OwnContext(j) BY <1>j DEF Jobs, OwnContext
    <3>4. OwnIdentity(j, q) BY <2>0, <2>4, <1>j DEF Jobs, OwnIdentity
    <3>5. OwnTraces(j, q) BY <2>0, <2>5, <1>j DEF Jobs, OwnTraces
    <3>6. j.pc \notin Working BY <1>j DEF Jobs
    <3>7. JobOK(j, q) BY <3>2, <3>3, <3>4, <3>5, <2>1 DEF JobOK
    <3> HIDE DEF j
    <3> QED BY <3>1, <3>6, <3>7, <2>0, <2>3, <2>5, GivenBack
  <2> QED BY <2>6, <2>7
<1>2. CASE ReportProxy(s)
  <2>0. job[s].pc = "report" /\ UNCHANGED pooled BY <1>2 DEF ReportProxy
  <2>1. /\ JobOK(Left(s), params[s]) /\ \A w : ~ Holds(Left(s), w)
        /\ Left(s).pc \notin Working /\ Left(s).successes = 0
        /\ job[s].result = "token" => Left(s).pc = "record"
    BY <2>0, <1>j, LeftOK
  <2>2. CASE Become(s, Left(s)) /\ UNCHANGED params
    BY <2>0, <2>1, <2>2, <1>p, <1>q
  <2>3. ASSUME job[s].result = "token", params' = [params EXCEPT ![s].reported = TRUE],
               Become(s, [Left(s) EXCEPT !.successes = @ + 1])
        PROVE  IInv'
    <3> DEFINE q == [params[s] EXCEPT !.reported = TRUE]
    <3> DEFINE j == [Left(s) EXCEPT !.successes = 1]
    <3>1. q \in Identities /\ q.reported /\ q.proxy = params[s].proxy
          /\ q.session = params[s].session
      BY <1>j DEF Identities
    <3>2. params' = [params EXCEPT ![s] = q] BY <2>3
    <3>3. OwnIdentity(job[s], q) BY <3>1, <1>j DEF OwnIdentity
    <3>4. JobOK(Left(s), q) BY <2>0, <3>1, <3>3, LeftOK
    <3>5. Left(s) \in Jobs /\ OwnContext(Left(s)) /\ OwnIdentity(Left(s), q)
          /\ OwnTraces(Left(s), q)
      BY <3>4 DEF JobOK
    <3>6. [Left(s) EXCEPT !.successes = @ + 1] = j BY <2>1
    <3> HIDE DEF q
    <3>7. j \in Jobs BY <3>5 DEF Jobs
    <3>8. OwnContext(j) BY <3>5 DEF Jobs, OwnContext
    <3>9. OwnIdentity(j, q) BY <3>5 DEF Jobs, OwnIdentity
    <3>10. OwnTraces(j, q) BY <2>1, <2>3, <3>1, <3>5 DEF Jobs, OwnTraces
    <3>11. \A w : ~ Holds(j, w) BY <2>1, <3>5 DEF Jobs, Holds
    <3>12. JobOK(j, q) BY <3>1, <3>7, <3>8, <3>9, <3>10 DEF JobOK
    <3>13. job' = [job EXCEPT ![s] = j] BY <2>3, <3>6
    <3> HIDE DEF j
    <3> QED BY <2>0, <3>2, <3>11, <3>12, <3>13, <1>q
  <2> QED BY <2>2, <2>3, <1>2 DEF ReportProxy
<1>3. CASE Record(s)
  <2>0. job[s].pc = "record" /\ UNCHANGED <<params, pooled>> BY <1>3 DEF Record
  <2>1. CASE job[s].result = "token"
    <3> DEFINE j == [job[s] EXCEPT !.pc = "verify"]
    <3>1. job' = [job EXCEPT ![s] = j] BY <2>1, <1>3 DEF Record
    <3>2. j \in Jobs BY <1>j DEF Jobs
    <3>3. OwnContext(j) BY <2>0, <1>j DEF Jobs, OwnContext
    <3>4. OwnIdentity(j, params[s]) BY <2>0, <1>j DEF Jobs, OwnIdentity
    <3>5. OwnTraces(j, params[s]) BY <2>0, <1>j DEF Jobs, OwnTraces
    <3>6. \A w : ~ Holds(j, w) BY <2>0, <1>j DEF Jobs, OwnContext, Holds, NoContext, None
    <3>7. JobOK(j, params[s]) BY <3>2, <3>3, <3>4, <3>5, <1>j DEF JobOK
    <3> HIDE DEF j
    <3> QED BY <3>1, <3>6, <3>7, <2>0, <1>p, <1>q
  <2>2. CASE job[s].result # "token"
    <3>1. job' = [job EXCEPT ![s] = Again(s, job[s].result)] BY <2>2, <1>3 DEF Record
    <3> QED BY <3>1, <2>0, <1>j, <1>p, <1>q, AgainOK
  <2> QED BY <2>1, <2>2
<1>4. CASE Verify(s)
  <2>0. job[s].pc = "verify" /\ UNCHANGED <<params, pooled>> BY <1>4 DEF Verify
  <2>e. JobOK(Ended(s, "done"), params[s]) /\ \A w : ~ Holds(Ended(s, "done"), w)
    BY <1>j, EndedOK
  <2>1. CASE Become(s, Ended(s, "done")) BY <2>0, <2>1, <2>e, <1>p, <1>q
  <2>2. ASSUME Become(s, [Ended(s, "done") EXCEPT !.successes = @ + RealSuccess(s)])
        PROVE  IInv'
    <3>1. /\ Ended(s, "done") \in Jobs /\ OwnContext(Ended(s, "done"))
          /\ Ended(s, "done").pc = "done" /\ Ended(s, "done").successes = job[s].successes
          /\ OwnTraces(Ended(s, "done"), params[s])
      BY <2>e DEF JobOK, Ended, NewJob
    <3>2. PICK n \in {0, 1} : n = Ended(s, "done").successes + RealSuccess(s)
      BY <2>0, <3>1, <1>j DEF RealSuccess, OwnTraces, Jobs
    <3> DEFINE j == [Ended(s, "done") EXCEPT !.successes = n]
    <3>3. job' = [job EXCEPT ![s] = j] BY <2>2, <3>2
    <3>4. j \in Jobs BY <3>1 DEF Jobs
    <3>5. OwnContext(j) BY <3>1 DEF Jobs, OwnContext
    <3>6. OwnIdentity(j, params[s]) BY <3>1 DEF Jobs, OwnIdentity
    <3>7. OwnTraces(j, params[s]) BY <3>1 DEF Jobs, OwnTraces
    <3>8. \A w : ~ Holds(j, w) BY <2>e, <3>1 DEF Jobs, Holds
    <3>9. JobOK(j, params[s]) BY <3>4, <3>5, <3>6, <3>7, <1>j DEF JobOK
    <3> HIDE DEF j
    <3> QED BY <3>3, <3>8, <3>9, <2>0, <1>p, <1>q
  <2>3. CASE Become(s, Again(s, "rejected"))
    BY <2>0, <2>3, <1>j, <1>p, <1>q, AgainOK
  <2> QED BY <2>1, <2>2, <2>3, <1>4 DEF Verify
<1> QED BY <1>1, <1>2, <1>3, <1>4

-----------------------------------------------------------------------------
(* Cancellation                                                              *)

(* A cancellation on a context: the attempt is on its way out, or further on *)
(* it.                                                                       *)
LEMMA CancelWorkOK ==
    ASSUME IInv, NEW s \in Solves,
           \/ /\ job[s].pc \in {"acquired", "goto", "landed", "interact"}
              /\ job' = [job EXCEPT ![s] = [job[s] EXCEPT !.pc = "close", !.result = "cancelled"]]
              /\ UNCHANGED pooled \/ (Preparing(s) /\ PreparedInPart(s))
           \/ /\ job[s].pc = "close"
              /\ job' = [job EXCEPT ![s] = [job[s] EXCEPT !.pc = "release", !.prepared = FALSE,
                                                          !.result = "cancelled"]]
              /\ Unprepare(s),
           UNCHANGED params
    PROVE  IInv'
<1> USE DEF Working, JobPC
<1>j. job[s] \in Jobs /\ OwnTraces(job[s], params[s]) BY DEF IInv, JobOK
<1>1. ASSUME job[s].pc \in {"acquired", "goto", "landed", "interact"},
             job' = [job EXCEPT ![s] = [job[s] EXCEPT !.pc = "close", !.result = "cancelled"]],
             UNCHANGED pooled \/ (Preparing(s) /\ PreparedInPart(s))
      PROVE  IInv'
  <2> DEFINE j == [job[s] EXCEPT !.pc = "close", !.result = "cancelled"]
  <2>1. j \in Jobs BY <1>j DEF Jobs
  <2>0. job[s].pc \in {"acquired", "goto", "landed", "interact"} BY <1>1
  <2>2. JobOK(j, params[s]) BY <2>0, <2>1, <1>j, StaysOK, ZenonT(30) DEF Jobs, OwnTraces
  <2>3. j.ctx = job[s].ctx /\ j.prepared = job[s].prepared BY <1>j DEF Jobs
  <2>4. job' = [job EXCEPT ![s] = j] BY <1>1
  <2> HIDE DEF j
  <2>5. CASE UNCHANGED pooled BY <2>2, <2>3, <2>4, <2>5, StaysKeep
  <2>6. CASE Preparing(s) /\ PreparedInPart(s)
    <3>1. job[s].pc \in Working /\ ~ job[s].prepared
      BY <2>6, <1>j DEF Preparing, At, OwnTraces
    <3> QED BY <2>2, <2>3, <2>4, <2>6, <3>1, PartKeeps
  <2> QED BY <2>5, <2>6, <1>1
<1>2. ASSUME job[s].pc = "close",
             job' = [job EXCEPT ![s] = [job[s] EXCEPT !.pc = "release", !.prepared = FALSE,
                                                      !.result = "cancelled"]],
             Unprepare(s)
      PROVE  IInv'
  <2> DEFINE j == [job[s] EXCEPT !.pc = "release", !.prepared = FALSE,
                                 !.result = "cancelled"]
  <2>1. j \in Jobs BY <1>j DEF Jobs
  <2>2. JobOK(j, params[s]) BY <2>1, <1>2, <1>j, StaysOK DEF Jobs, OwnTraces
  <2>3. j.ctx = job[s].ctx /\ ~ j.prepared BY <1>j DEF Jobs
  <2>4. job' = [job EXCEPT ![s] = j] BY <1>2
  <2>5. job[s].pc \in Working BY <1>2
  <2> HIDE DEF j
  <2> QED BY <2>2, <2>3, <2>4, <2>5, <1>2, UnprepareKeeps
<1> QED BY <1>1, <1>2

(* A cancellation, at whatever await, keeps the invariant.                   *)
LEMMA CancelKeeps ==
    ASSUME IInv, NEW s \in Solves, Cancel(s)
    PROVE  IInv'
<1>j. params[s] \in Identities /\ job[s] \in Jobs /\ OwnTraces(job[s], params[s])
  BY DEF IInv, JobOK
<1>p. params' = [params EXCEPT ![s] = params[s]] BY DEF IInv, Cancel
<1>e. JobOK(Ended(s, "cancelled"), params[s]) /\ \A w : ~ Holds(Ended(s, "cancelled"), w)
  BY <1>j, EndedOK DEF Finished
<1>c. Ended(s, "cancelled").pc \notin Working BY DEF Ended, NewJob, Working
<1>1. CASE /\ job[s].pc \in {"begin", "acquire", "lease", "report", "record", "verify"}
           /\ Become(s, Ended(s, "cancelled"))
           /\ UNCHANGED pooled
  BY <1>1, <1>p, <1>e, HoldsNothing, PoolKept DEF Become, Working
<1>2. CASE /\ job[s].pc \in {"acquired", "release"}
           /\ Become(s, Ended(s, "cancelled"))
           /\ GiveBack(s)
  <2>1. ~ job[s].prepared BY <1>2, <1>j DEF OwnTraces
  <2> QED BY <2>1, <1>2, <1>p, <1>e, <1>c, GivenBack DEF Become, Working
<1>3. CASE /\ job[s].pc \in {"acquired", "goto", "landed", "interact"}
           /\ Unwind(s, "cancelled")
           /\ UNCHANGED pooled \/ (Preparing(s) /\ PreparedInPart(s))
  BY <1>3, CancelWorkOK DEF Cancel, Unwind, Become
<1>4. CASE /\ At(s, "close")
           /\ Become(s, [job[s] EXCEPT !.pc = "release", !.prepared = FALSE, !.result = "cancelled"])
           /\ Unprepare(s)
  BY <1>4, CancelWorkOK DEF Cancel, Become, At
<1> QED BY <1>1, <1>2, <1>3, <1>4 DEF Cancel, At

-----------------------------------------------------------------------------
(* The theorems                                                              *)

(* No solve has begun and the warm sessions are clean.                       *)
LEMMA InitOK == Init => IInv
<1> SUFFICES ASSUME Init PROVE IInv OBVIOUS
<1>1. NewJob \in Jobs /\ NoIdentity \in Identities /\ NoSession \in SessionRecords
  BY NewJobTypeOK DEF NoIdentity, Identities, NoSession, SessionRecords
<1>2. /\ job \in [Solves -> Jobs] /\ params \in [Solves -> Identities]
      /\ pooled \in [Sessions -> SessionRecords]
  BY <1>1 DEF Init
<1>3. ASSUME NEW s \in Solves
      PROVE  JobOK(job[s], params[s]) /\ \A w \in Sessions : ~ Holds(job[s], w)
  <2>1. OwnContext(NewJob) /\ OwnIdentity(NewJob, NoIdentity) /\ OwnTraces(NewJob, NoIdentity)
    BY DEF NewJob, OwnContext, OwnIdentity, OwnTraces, Working, NoContext, None
  <2>2. JobOK(NewJob, NoIdentity) /\ \A w : ~ Holds(NewJob, w)
    BY <1>1, <2>1 DEF JobOK, Holds, NewJob, NoContext, None
  <2> QED BY <2>2 DEF Init
<1>4. ASSUME NEW w \in Sessions PROVE SessionOK(w)
  <2>1. pooled[w].holder = None /\ pooled[w].routes = {} /\ pooled[w].stuck = {}
    BY DEF Init, NoSession
  <2>2. None \notin Solves BY SolveAssumption DEF None
  <2> QED BY <1>3, <2>1, <2>2 DEF SessionOK, Orderly, Signed
<1> QED BY <1>2, <1>3, <1>4 DEF IInv

(* Every step keeps the invariant.                                           *)
LEMMA StepOK == IInv /\ [Next]_vars => IInv'
<1> SUFFICES ASSUME IInv, [Next]_vars PROVE IInv' OBVIOUS
<1>1. CASE UNCHANGED vars
  BY <1>1 DEF vars, IInv, SessionOK, Orderly, Signed, Holds
<1>2. ASSUME NEW s \in Solves, Step(s) PROVE IInv'
  BY <1>2, AcquireSteps, LeaseKeeps, WorkSteps, ReturnSteps DEF Step
<1>3. ASSUME NEW s \in Solves, Cancel(s) PROVE IInv'
  BY <1>3, CancelKeeps
<1> QED BY <1>1, <1>2, <1>3 DEF Next

(* The life of each attempt and the state of each warm session, in every     *)
(* reachable state.                                                          *)
THEOREM SolveInvariant == Spec => []IInv
BY InitOK, StepOK, PTL DEF Spec

(* SessionComesBack: whatever raises, is discarded or is cancelled, a warm   *)
(* session is held exactly by the solve that works on its context            *)
(* (SolveContext.released, _return_warm_session).                            *)
THEOREM SessionsComeBack == Spec => []SessionComesBack
<1>1. IInv => SessionComesBack BY DEF IInv, SessionOK, Holds, Warm, SessionComesBack
<1> QED BY <1>1, SolveInvariant, PTL

(* RecordNamesItsEgress: an attempt is recorded under the proxy and session  *)
(* it took, also after a discarded session (_record).                        *)
THEOREM RecordsNameTheirEgress == Spec => []RecordNamesItsEgress
<1>1. IInv => RecordNamesItsEgress
  BY DEF IInv, JobOK, OwnIdentity, Finished, At, RecordNamesItsEgress
<1> QED BY <1>1, SolveInvariant, PTL

(* OneProxySuccess: release and siteverify together tell a proxy of a token  *)
(* at most once (_close_real_outcome).                                       *)
THEOREM ProxiesArePraisedOnce == Spec => []OneProxySuccess
<1>1. IInv => OneProxySuccess BY DEF IInv, Jobs, OneProxySuccess
<1> QED BY <1>1, SolveInvariant, PTL

(* RoutesAreTakenOff: a warm session carries no document route but that of   *)
(* the attempt at work on it and those whose preparation or removal failed   *)
(* (cleanup_context).                                                        *)
THEOREM RoutesComeOff == Spec => []RoutesAreTakenOff
<1>1. IInv => RoutesAreTakenOff
  BY DEF IInv, SessionOK, Orderly, RoutesAreTakenOff
<1> QED BY <1>1, SolveInvariant, PTL

(* StuckRoutesMeetNoOther: where the removal of a route failed the signature *)
(* keeps every other injected solve away (_run_page_solve).                  *)
THEOREM SignaturesShield == Spec => []StuckRoutesMeetNoOther
<1>1. IInv => StuckRoutesMeetNoOther
  <2> SUFFICES ASSUME IInv, NEW s \in Solves, Warm(s), job[s].prepared
               PROVE  Session(s).routes \cup Session(s).stuck \subseteq {s}
    BY DEF StuckRoutesMeetNoOther
  <2>1. job[s].pc \in Working BY DEF IInv, JobOK, OwnTraces, Working
  <2>2. Signed(Session(s)) /\ Session(s).signature = s BY <2>1, OwnSession DEF Session
  <2> QED BY <2>2 DEF Signed
<1> QED BY <1>1, SolveInvariant, PTL
=============================================================================
