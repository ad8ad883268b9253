------------------------------- MODULE ProxyPool -------------------------------
(***************************************************************************)
(* The in-memory proxy pool: src/src/assets/proxy_pool.py, class ProxyPool.*)
(*                                                                         *)
(* Its lock is never held across an await, so every operation is one       *)
(* action of ProxyContract, with what the contract leaves open: the        *)
(* ranking of checkout over both sitekey buckets and the order of use that *)
(* breaks ties.                                                            *)
(***************************************************************************)
EXTENDS ProxyContract, Sequences

VARIABLES token,    \* token[p]: sitekey_stats of the one contended sitekey
          real,     \* real[p]: real_sitekey_stats of it
          order     \* the proxies, least recently used first

vars == <<healthVars, token, real, order>>

Counts == [ok : Nat, fail : Nat]

TypeOK ==
    /\ HealthTypeOK
    /\ token \in [Proxies -> Counts] /\ real \in [Proxies -> Counts]
    /\ {order[i] : i \in DOMAIN order} = Proxies /\ Len(order) = Cardinality(Proxies)

\* The inventory is loaded before the first checkout.
Init ==
    /\ HealthInit
    /\ token = [p \in Proxies |-> [ok |-> 0, fail |-> 0]]
    /\ real = token
    /\ order = CHOOSE s \in [1..Cardinality(Proxies) -> Proxies] :
                    {s[i] : i \in DOMAIN s} = Proxies

-----------------------------------------------------------------------------
(* rank: (sitekey rate, success rate, least recently used); a rate is <<n, d>> *)

Rate(c, unknown) == IF c.ok + c.fail = 0 THEN unknown ELSE <<c.ok, c.ok + c.fail>>
Over(r, s) == r[1] * s[2] > s[1] * r[2]
Level(r, s) == r[1] * s[2] = s[1] * r[2]

\* The client's verdicts first, then the tokens obtained, then 0.5.
SitekeyRate(p) == Rate(real[p], Rate(token[p], <<1, 2>>))

Position(p) == CHOOSE i \in DOMAIN order : order[i] = p

\* p is preferred to q; without a sitekey both sitekey rates are 0.5.
Preferred(p, q, sitekeyed, hs) ==
    LET sp == IF sitekeyed THEN SitekeyRate(p) ELSE <<1, 2>>
        sq == IF sitekeyed THEN SitekeyRate(q) ELSE <<1, 2>>
        rp == Rate(hs[p], <<1, 1>>)
        rq == Rate(hs[q], <<1, 1>>)
    IN  \/ Over(sp, sq)
        \/ Level(sp, sq) /\ Over(rp, rq)
        \/ Level(sp, sq) /\ Level(rp, rq) /\ Position(p) < Position(q)

\* last_used_at = now
Used(p) == order' = Append(SelectSeq(order, LAMBDA q : q # p), p)

Checkout(u, kinds, sitekeyed) ==
    LET reviewed == [p \in Proxies |-> Reviewed(health[p], 0)]
        candidates == {p \in Proxies : MayServe(reviewed[p]) /\ KindOf[p] \in kinds}
    IN
    /\ stage[u] = "new"
    /\ \/ \E p \in candidates :
             /\ \A q \in candidates \ {p} : Preferred(p, q, sitekeyed, reviewed)
             /\ Lend(u, p, 0)
             /\ Used(p)
       \/ candidates = {} /\ Decline(u, 0) /\ UNCHANGED order
    /\ UNCHANGED <<token, real>>

\* has_available: any() stops at the first proxy that can serve.
Peek(kinds) ==
    \E seen \in SUBSET Proxies :
        /\ \A p \in Proxies \ seen :
              \E q \in seen : MayServe(Reviewed(health[q], 0)) /\ KindOf[q] \in kinds
        /\ Review(seen, 0)
        /\ UNCHANGED <<token, real, order>>

Count(c, success) == IF success THEN [c EXCEPT !.ok = @ + 1] ELSE [c EXCEPT !.fail = @ + 1]

\* The solver's report, and report_sitekey when its params name a sitekey.
ReportSolve(u, outcome, nbytes) ==
    /\ Report(u, outcome, nbytes, 0)
    /\ token' = [token EXCEPT ![lent[u]] = Count(@, outcome = "success")]
    /\ UNCHANGED <<real, order>>

ReportReal(u, accepted) ==
    /\ Feedback(u, accepted, 0)
    /\ real' = [real EXCEPT ![lent[u]] = Count(@, accepted)]
    /\ UNCHANGED <<token, order>>

\* Bound: no metering past the quota.
ReportBytes(u, nbytes) ==
    /\ CarryBytes(u, nbytes) /\ health[lent[u]].bytes < MaxBytes
    /\ UNCHANGED <<token, real, order>>

Abandon(u) == Leave(u) /\ stage[u] # "new" /\ UNCHANGED <<token, real, order>>

TimePasses == Tick /\ UNCHANGED <<token, real, order>>

Next ==
    \/ \E u \in Solves :
          \/ \E kinds \in Asked, sitekeyed \in BOOLEAN : Checkout(u, kinds, sitekeyed)
          \/ \E outcome \in Outcomes, nbytes \in Sizes : ReportSolve(u, outcome, nbytes)
          \/ \E accepted \in BOOLEAN : ReportReal(u, accepted)
          \/ \E nbytes \in Sizes : ReportBytes(u, nbytes)
          \/ Abandon(u)
    \/ \E kinds \in Asked : Peek(kinds)
    \/ TimePasses

Spec == Init /\ [][Next]_vars
FairSpec == Spec /\ WF_vars(TimePasses) /\ WF_vars(Peek({}))
                 /\ \A u \in Solves : WF_vars(Abandon(u))

-----------------------------------------------------------------------------
(* No streak and no ratio blacklists a proxy for good: once the reports of   *)
(* its solves have come in, a proxy that is not burned stays in rotation from*)
(* some moment on, although peeks and checkouts keep judging it              *)
(* (_proxy_available: "stops a single early failure (or an unlucky streak)   *)
(* from permanently blacklisting a proxy").                                  *)
BackInRotation ==
    \A p \in Proxies :
        <>[](health[p].state = "burned" \/ MayServe(Reviewed(health[p], 0)))
=============================================================================
