----------------------------- MODULE ProxyContract -----------------------------
(***************************************************************************)
(* What a proxy pool promises about the health of its proxies, whichever   *)
(* backend keeps them: the operations of ProxyPoolProtocol, as far as they *)
(* change health, and what no sequence of them may do.                     *)
(***************************************************************************)
EXTENDS ProxyHealth

VARIABLES health,
          lent,    \* lent[u]: the proxy solve u got, or NoProxy
          stage    \* stage[u]: where solve u stands with it

healthVars == <<health, lent, stage>>

HealthTypeOK ==
    /\ health \in [Proxies -> Record]
    /\ \A p \in Proxies : health[p].rest \in (-MaxLag)..Cooldown
    /\ lent \in [Solves -> Proxies \cup {NoProxy}]
    /\ stage \in [Solves -> {"new", "using", "reported", "done"}]

HealthInit ==
    /\ health = [p \in Proxies |-> Fresh]
    /\ lent = [u \in Solves |-> NoProxy]
    /\ stage = [u \in Solves |-> "new"]

-----------------------------------------------------------------------------
(* The contract *)

To(u, step) == stage' = [stage EXCEPT ![u] = step]

\* A peek (has_available) reviews, and may stop at the first proxy that can serve.
Review(seen, lag) ==
    /\ health' = [p \in Proxies |->
                    IF p \in seen THEN Reviewed(health[p], lag) ELSE health[p]]
    /\ UNCHANGED <<lent, stage>>

Lend(u, p, lag) ==
    LET reviewed == [q \in Proxies |-> Reviewed(health[q], lag)] IN
    /\ stage[u] = "new" /\ MayServe(reviewed[p])
    /\ health' = [reviewed EXCEPT ![p] = Reserved(@)]
    /\ lent' = [lent EXCEPT ![u] = p]
    /\ To(u, "using")

\* A checkout reviews every proxy and answers None.
Decline(u, lag) ==
    /\ stage[u] = "new"
    /\ health' = [p \in Proxies |-> Reviewed(health[p], lag)]
    /\ To(u, "done")
    /\ UNCHANGED lent

\* A cancelled solve never reports.
Leave(u) == /\ stage[u] \in {"new", "using", "reported"}
            /\ To(u, "done")
            /\ UNCHANGED <<health, lent>>

\* The solver's report at the end of its attempt.
Report(u, outcome, nbytes, lag) ==
    /\ stage[u] = "using"
    /\ health' = [health EXCEPT ![lent[u]] = Reported(@, outcome, nbytes, lag)]
    /\ To(u, "reported")
    /\ UNCHANGED lent

\* The client's verdict on the token, which may come much later.
Feedback(u, accepted, lag) ==
    /\ stage[u] = "reported"
    /\ health' = [health EXCEPT ![lent[u]] =
                    Reported(@, IF accepted THEN "success" ELSE "later", 0, lag)]
    /\ To(u, "done")
    /\ UNCHANGED lent

CarryBytes(u, nbytes) ==
    /\ stage[u] = "using" /\ nbytes > 0
    /\ health' = [health EXCEPT ![lent[u]] = Carried(@, nbytes)]
    /\ UNCHANGED <<lent, stage>>

Tick == /\ health' = [p \in Proxies |-> Older(health[p])]
        /\ UNCHANGED <<lent, stage>>

HealthNext ==
    \/ \E lag \in 0..MaxLag :
          \/ \E seen \in SUBSET Proxies : Review(seen, lag)
          \/ \E u \in Solves :
                \/ Decline(u, lag) \/ \E p \in Proxies : Lend(u, p, lag)
                \/ \E outcome \in Outcomes, nbytes \in Sizes :
                      Report(u, outcome, nbytes, lag)
                \/ \E accepted \in BOOLEAN : Feedback(u, accepted, lag)
    \/ \E u \in Solves : Leave(u) \/ \E nbytes \in Sizes : CarryBytes(u, nbytes)
    \/ Tick

HealthSpec == HealthInit /\ [][HealthNext]_healthVars

-----------------------------------------------------------------------------
(* Burned is final: no success, failure, cooldown or review that was already *)
(* under way when the quota was used up brings the proxy back (report:       *)
(* "Bandwidth quota overrides health", build_proxy_pool: "a proxy that burned*)
(* on worker A isn't retried by worker B").                                  *)
BurnedIsFinal ==
    [][\A p \in Proxies : health[p].state = "burned" => health'[p].state = "burned"]_healthVars

(* A proxy over its quota is out of rotation in every state, whatever order  *)
(* byte reports and outcome reports came in.                                 *)
QuotaRetires ==
    \A p \in Proxies :
        MaxBytes > 0 => (health[p].bytes >= MaxBytes <=> health[p].state = "burned")

(* A cooldown is served: a proxy leaves it when its time has run out (on a   *)
(* clock at most MaxLag old), when a solve that had it before succeeds, or   *)
(* when its quota burns it; no review, other report or checkout cuts it short*)
(* (_proxy_available, report).                                               *)
CooldownIsServed ==
    [][\A p \in Proxies :
         health[p].state = "cooldown" /\ health'[p].state # "cooldown" =>
            \/ health[p].rest <= 0
            \/ health'[p].state = "burned"
            \/ health'[p].ok = health[p].ok + 1]_healthVars
=============================================================================
