------------------------------ MODULE ProxyHealth ------------------------------
(***************************************************************************)
(* The health of a proxy, whichever backend keeps it: the fields of a      *)
(* ProxyAsset that decide whether it may serve, and what a review, a loan  *)
(* and a report make of them (src/src/assets/proxy_pool.py, with helpers   *)
(* that both Python pools share).                                          *)
(*                                                                         *)
(* rest is cooldown_until - now, so that time needs no origin; a backend   *)
(* may act on a clock reading that is up to MaxLag ticks old.              *)
(***************************************************************************)
EXTENDS Integers, FiniteSets

CONSTANTS Proxies,
          Solves,      \* solve attempts; each checks out at most one proxy
          NoProxy,
          KindOf,      \* KindOf[p]: the kind of proxy p
          MinSamples, RateNum, RateDen, \* min_health_samples, min_success_rate
          MaxFails,    \* max_consecutive_fails
          Cooldown,    \* cooldown_seconds, in ticks
          MaxBytes,    \* max_bytes_per_proxy, 0 when there is no quota
          Sizes,       \* traffic a report may carry
          MaxLag

ASSUME HealthAssumption ==
    /\ NoProxy \notin Proxies
    /\ MinSamples \in Nat \ {0} /\ MaxFails \in Nat \ {0}
    /\ RateNum \in Nat /\ RateDen \in Nat \ {0}
    /\ Cooldown \in Nat /\ MaxLag \in Nat /\ MaxLag < Cooldown
    /\ MaxBytes \in Nat /\ Sizes \subseteq Nat

ProxyState == {"healthy", "probing", "cooldown", "burned"}
Record == [state : ProxyState, ok : Nat, fail : Nat, streak : Nat,
           rest : Int, bytes : Nat]
Fresh == [state |-> "healthy", ok |-> 0, fail |-> 0, streak |-> 0,
          rest |-> -MaxLag, bytes |-> 0]

Kinds == {KindOf[p] : p \in Proxies}
\* Any kind, one kind, or a kind the inventory does not have.
Asked == {Kinds, {}} \cup {{k} : k \in Kinds}

-----------------------------------------------------------------------------
(* _proxy_available, on a clock reading that is lag ticks old *)

\* Enough samples, and a rolling success ratio under the minimum.
Poor(h) == /\ h.ok + h.fail >= MinSamples
           /\ h.ok * RateDen < RateNum * (h.ok + h.fail)
Resting(h, lag) == h.state = "cooldown" /\ h.rest + lag > 0

\* Mutant: an expiring tombstone keeps the counters that set it.
ReviewedUnforgiven(h, lag) ==
    CASE h.state = "burned" \/ Resting(h, lag) -> h
      [] h.state = "cooldown" /\ ~ Resting(h, lag) ->
            [h EXCEPT !.state = "healthy", !.streak = 0]
      [] OTHER -> IF Poor(h)
                  THEN [h EXCEPT !.state = "cooldown", !.rest = Cooldown - lag]
                  ELSE h

\* Mutant: a cooldown is over as soon as somebody looks.
ReviewedEarly(h, lag) ==
    IF h.state = "cooldown"
    THEN [h EXCEPT !.state = "healthy", !.streak = 0, !.ok = 0, !.fail = 0]
    ELSE h

\* What the check leaves behind: rehabilitation when the cooldown is over, with
\* the counters of a poor record forgotten; a tombstone for a poor ratio.
Reviewed(h, lag) ==
    CASE h.state = "burned" \/ Resting(h, lag) -> h
      [] h.state = "cooldown" /\ ~ Resting(h, lag) ->
            [h EXCEPT !.state = "healthy", !.streak = 0,
                      !.ok = IF Poor(h) THEN 0 ELSE @,
                      !.fail = IF Poor(h) THEN 0 ELSE @]
      [] OTHER -> IF Poor(h)
                  THEN [h EXCEPT !.state = "cooldown", !.rest = Cooldown - lag]
                  ELSE h

MayServe(reviewed) == reviewed.state \in {"healthy", "probing"}

\* The reservation: a proxy that never succeeded is on probation.
Reserved(h) == IF h.ok = 0 THEN [h EXCEPT !.state = "probing"] ELSE h

-----------------------------------------------------------------------------
(* report and report_bytes *)

\* The byte quota overrides whatever the outcome said.
Metered(h) == IF MaxBytes > 0 /\ h.bytes >= MaxBytes
              THEN [h EXCEPT !.state = "burned"] ELSE h

\* A report's outcome: a success, a transport failure, or a failure of a later
\* stage, which says nothing about the proxy.
Outcomes == {"success", "transport", "later"}

\* Mutant: a failed solve is not metered against the quota.
ReportedUnmetered(h, outcome, nbytes, lag) ==
    LET g == [h EXCEPT !.bytes = @ + nbytes] IN
    CASE outcome = "success" ->
            Metered([g EXCEPT !.ok = @ + 1, !.streak = 0,
                              !.state = IF @ = "burned" THEN @ ELSE "healthy"])
      [] outcome = "later" -> g
      [] outcome = "transport" ->
            [g EXCEPT !.fail = @ + 1, !.streak = @ + 1,
                      !.state = IF g.streak + 1 >= MaxFails THEN "cooldown" ELSE @]

Reported(h, outcome, nbytes, lag) ==
    LET g == [h EXCEPT !.bytes = @ + nbytes] IN
    Metered(
      CASE outcome = "success" ->
              [g EXCEPT !.ok = @ + 1, !.streak = 0,
                        !.state = IF @ = "burned" THEN @ ELSE "healthy"]
        [] outcome = "later" -> g
        [] outcome = "transport" ->
              IF g.streak + 1 >= MaxFails
              THEN [g EXCEPT !.fail = @ + 1, !.streak = @ + 1,
                             !.state = "cooldown", !.rest = Cooldown - lag]
              ELSE [g EXCEPT !.fail = @ + 1, !.streak = @ + 1])

Carried(h, nbytes) == Metered([h EXCEPT !.bytes = @ + nbytes])

\* A tick later.
Older(h) == [h EXCEPT !.rest = IF @ > -MaxLag THEN @ - 1 ELSE @]
=============================================================================
