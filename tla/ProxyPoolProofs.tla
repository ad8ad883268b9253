---------------------------- MODULE ProxyPoolProofs ----------------------------
(***************************************************************************)
(* Proofs about the health of proxies: what the contract of ProxyContract  *)
(* promises holds for any inventory, quota, cooldown and number of solves; *)
(* the in-memory pool keeps that contract; and so does the pool several    *)
(* workers share in Redis, by scripts, under its lock and while others     *)
(* boot, but for the writes of an operation that another write overtook.   *)
(***************************************************************************)
EXTENDS ProxyPool, RedisProxyPool, TLAPS

\* Burned says exactly that there is a quota and that it is used up.
Accounted(h) ==
    /\ h.state = "burned" => MaxBytes > 0
    /\ MaxBytes > 0 => (h.bytes >= MaxBytes <=> h.state = "burned")

Sane(h) == /\ h \in Record
           /\ h.rest \in (-MaxLag)..Cooldown
           /\ Accounted(h)

\* What no step may do to the health of one proxy.
Advances(h, g) ==
    /\ h.state = "burned" => g.state = "burned"
    /\ h.state = "cooldown" /\ g.state # "cooldown" =>
          \/ h.rest <= 0
          \/ g.state = "burned"
          \/ g.ok = h.ok + 1

\* The inductive invariant: a solve that will still report has a proxy to report on.
HealthInv ==
    /\ HealthTypeOK
    /\ \A p \in Proxies : Accounted(health[p])
    /\ \A u \in Solves : stage[u] \in {"using", "reported"} => lent[u] \in Proxies

-----------------------------------------------------------------------------
(* The operators on one proxy's health                                       *)

(* A review keeps a proxy's record sound, and ends a cooldown only when it   *)
(* has run out (_proxy_available).                                           *)
LEMMA ReviewedAdvances ==
    ASSUME NEW h, Sane(h), NEW lag \in 0..MaxLag
    PROVE  Sane(Reviewed(h, lag)) /\ Advances(h, Reviewed(h, lag))
<1> DEFINE g == Reviewed(h, lag)
<1>0. h \in Record /\ h.rest \in (-MaxLag)..Cooldown /\ Accounted(h) BY DEF Sane
<1>1. CASE h.state = "burned" \/ Resting(h, lag)
  <2>1. g = h BY <1>1 DEF Reviewed
  <2> QED BY <2>1 DEF Sane, Advances
<1>2. CASE h.state = "cooldown" /\ ~ Resting(h, lag)
  <2>1. \E ok \in Nat, fail \in Nat :
           g = [h EXCEPT !.state = "healthy", !.streak = 0, !.ok = ok, !.fail = fail]
    <3>1. CASE Poor(h)
      <4>1. g = [h EXCEPT !.state = "healthy", !.streak = 0, !.ok = 0, !.fail = 0]
        BY <3>1, <1>2 DEF Reviewed
      <4> QED BY <4>1
    <3>2. CASE ~ Poor(h)
      <4>1. g = [h EXCEPT !.state = "healthy", !.streak = 0, !.ok = h.ok, !.fail = h.fail]
        BY <3>2, <1>2 DEF Reviewed
      <4> QED BY <4>1, <1>0 DEF Record
    <3> QED BY <3>1, <3>2
  <2>2. h.rest <= 0
    BY <1>0, <1>2, HealthAssumption DEF Resting, Record
  <2>3. /\ g \in Record /\ g.rest = h.rest /\ g.bytes = h.bytes
        /\ g.state = "healthy"
    <3>1. PICK ok \in Nat, fail \in Nat :
             g = [h EXCEPT !.state = "healthy", !.streak = 0, !.ok = ok, !.fail = fail]
      BY <2>1
    <3> HIDE DEF g
    <3> QED BY <3>1, <1>0 DEF Record, ProxyState
  <2> HIDE DEF g
  <2>4. Accounted(g) BY <2>3, <1>0, <1>2 DEF Accounted
  <2>5. Advances(h, g) BY <2>2, <1>2 DEF Advances
  <2> QED BY <2>3, <2>4, <2>5, <1>0 DEF Sane, g
<1>3. CASE h.state \in {"healthy", "probing"}
  <2>1. CASE Poor(h)
    <3>1. PICK r \in (-MaxLag)..Cooldown : r = Cooldown - lag BY HealthAssumption
    <3>2. g = [h EXCEPT !.state = "cooldown", !.rest = r]
      BY <3>1, <2>1, <1>3 DEF Reviewed, Resting
    <3> HIDE DEF g
    <3>3. r \in Int BY HealthAssumption
    <3>4. g \in Record /\ g.rest = r /\ g.bytes = h.bytes /\ g.state = "cooldown"
      BY <3>2, <3>3, <1>0 DEF Record, ProxyState
    <3>5. Accounted(g) BY <3>4, <1>0, <1>3 DEF Accounted
    <3>6. Advances(h, g) BY <1>3 DEF Advances
    <3> QED BY <3>4, <3>5, <3>6 DEF Sane, g
  <2>2. CASE ~ Poor(h)
    <3>1. g = h BY <2>2, <1>3 DEF Reviewed, Resting
    <3> QED BY <3>1 DEF Sane, Advances
  <2> QED BY <2>1, <2>2
<1> QED BY <1>0, <1>1, <1>2, <1>3 DEF Record, ProxyState

(* The reservation touches a proxy that may serve, never a burned or cooling *)
(* one (checkout).                                                           *)
LEMMA ReservedAdvances ==
    ASSUME NEW h, Sane(h), MayServe(h)
    PROVE  Sane(Reserved(h)) /\ Reserved(h).state \notin {"burned", "cooldown"}
                             /\ Reserved(h).ok = h.ok
BY DEF Sane, Accounted, Record, ProxyState, MayServe, Reserved

(* More bytes, and the quota looked at again, keep a record sound; a proxy   *)
(* stays burned whatever state the outcome would give it (report).           *)
LEMMA MeteredSane ==
    ASSUME NEW h, h \in Record, h.rest \in (-MaxLag)..Cooldown,
           h.state = "burned" => MaxBytes > 0 /\ h.bytes >= MaxBytes
    PROVE  /\ Sane(Metered(h))
           /\ Metered(h).ok = h.ok
           /\ Metered(h).state = h.state \/ Metered(h).state = "burned"
           /\ MaxBytes > 0 /\ h.bytes >= MaxBytes => Metered(h).state = "burned"
<1>1. CASE MaxBytes > 0 /\ h.bytes >= MaxBytes
  <2>1. Metered(h) = [h EXCEPT !.state = "burned"] BY <1>1 DEF Metered
  <2> QED BY <2>1, <1>1 DEF Sane, Accounted, Record, ProxyState
<1>2. CASE ~ (MaxBytes > 0 /\ h.bytes >= MaxBytes)
  <2>1. Metered(h) = h BY <1>2 DEF Metered
  <2> QED BY <2>1, <1>2, HealthAssumption DEF Sane, Accounted, Record
<1> QED BY <1>1, <1>2

(* An outcome report, of whatever stage and traffic, keeps a record sound;   *)
(* it takes a proxy out of its cooldown only with a success (report).        *)
LEMMA ReportedAdvances ==
    ASSUME NEW h, Sane(h), NEW outcome \in Outcomes, NEW nbytes \in Nat,
           NEW lag \in 0..MaxLag
    PROVE  Sane(Reported(h, outcome, nbytes, lag))
           /\ Advances(h, Reported(h, outcome, nbytes, lag))
<1>g. PICK g : g = [h EXCEPT !.bytes = @ + nbytes] OBVIOUS
<1>0. /\ h \in Record /\ h.rest \in (-MaxLag)..Cooldown
      /\ h.state = "burned" => MaxBytes > 0 /\ h.bytes >= MaxBytes
  BY DEF Sane, Accounted
<1>1. /\ g \in Record /\ g.rest = h.rest /\ g.state = h.state /\ g.ok = h.ok
      /\ g.streak = h.streak /\ g.fail = h.fail /\ g.bytes = h.bytes + nbytes
      /\ g.bytes >= h.bytes
  BY <1>0, <1>g DEF Record
<1>2. Cooldown - lag \in (-MaxLag)..Cooldown BY HealthAssumption
<1>3. CASE outcome = "success"
  <2>a. PICK n \in Nat, s \in ProxyState :
           n = g.ok + 1 /\ s = IF g.state = "burned" THEN g.state ELSE "healthy"
    BY <1>1 DEF Record, ProxyState
  <2> DEFINE k == [g EXCEPT !.ok = n, !.streak = 0, !.state = s]
  <2>1. Reported(h, outcome, nbytes, lag) = Metered(k) BY <2>a, <1>3, <1>g DEF Reported
  <2>2. /\ k \in Record /\ k.rest = h.rest /\ k.bytes = g.bytes /\ k.ok = h.ok + 1
        /\ k.state = "burned" <=> h.state = "burned"
    BY <2>a, <1>1 DEF Record, ProxyState
  <2>3. k.rest \in (-MaxLag)..Cooldown /\ (k.state = "burned" => MaxBytes > 0 /\ k.bytes >= MaxBytes)
    <3>1. MaxBytes \in Nat /\ h.bytes \in Nat /\ g.bytes \in Nat
      BY <1>0, <1>1, HealthAssumption DEF Record
    <3> QED BY <3>1, <2>2, <1>0, <1>1
  <2> HIDE DEF k
  <2> QED BY <2>1, <2>2, <2>3, MeteredSane DEF Advances
<1>4. CASE outcome = "later"
  <2>1. Reported(h, outcome, nbytes, lag) = Metered(g) BY <1>4, <1>g DEF Reported
  <2>2. g.rest \in (-MaxLag)..Cooldown /\ (g.state = "burned" => MaxBytes > 0 /\ g.bytes >= MaxBytes)
    <3>1. MaxBytes \in Nat /\ h.bytes \in Nat /\ g.bytes \in Nat
      BY <1>0, <1>1, HealthAssumption DEF Record
    <3> QED BY <3>1, <1>0, <1>1
  <2> QED BY <2>1, <2>2, <1>0, <1>1, MeteredSane DEF Advances
<1>5. CASE outcome = "transport"
  <2>0. h.state = "burned" => MaxBytes > 0 /\ g.bytes >= MaxBytes
    <3>1. MaxBytes \in Nat /\ h.bytes \in Nat /\ g.bytes \in Nat
      BY <1>0, <1>1, HealthAssumption DEF Record
    <3> QED BY <3>1, <1>0, <1>1
  <2>a. PICK m \in Nat, n \in Nat : m = g.fail + 1 /\ n = g.streak + 1
    BY <1>1 DEF Record
  <2>1. CASE g.streak + 1 >= MaxFails
    <3>a. PICK r \in (-MaxLag)..Cooldown : r = Cooldown - lag BY <1>2
    <3>b. r \in Int BY HealthAssumption
    <3> DEFINE k == [g EXCEPT !.fail = m, !.streak = n, !.state = "cooldown", !.rest = r]
    <3>1. Reported(h, outcome, nbytes, lag) = Metered(k)
      BY <3>a, <2>a, <1>5, <2>1, <1>g DEF Reported
    <3>2. /\ k \in Record /\ k.rest \in (-MaxLag)..Cooldown /\ k.state = "cooldown"
          /\ k.bytes = g.bytes
      BY <3>b, <1>1 DEF Record, ProxyState
    <3> HIDE DEF k
    <3> QED BY <3>1, <3>2, <2>0, MeteredSane DEF Advances
  <2>2. CASE ~ (g.streak + 1 >= MaxFails)
    <3> DEFINE k == [g EXCEPT !.fail = m, !.streak = n]
    <3>1. Reported(h, outcome, nbytes, lag) = Metered(k)
      BY <2>a, <1>5, <2>2, <1>g DEF Reported
    <3>2. /\ k \in Record /\ k.rest = h.rest /\ k.state = h.state /\ k.bytes = g.bytes
      BY <1>1 DEF Record
    <3> HIDE DEF k
    <3> QED BY <3>1, <3>2, <2>0, <1>0, MeteredSane DEF Advances
  <2> QED BY <2>1, <2>2
<1> QED BY <1>3, <1>4, <1>5 DEF Outcomes

(* So does a report of traffic alone (report_bytes).                         *)
LEMMA CarriedAdvances ==
    ASSUME NEW h, Sane(h), NEW nbytes \in Nat
    PROVE  Sane(Carried(h, nbytes)) /\ Advances(h, Carried(h, nbytes))
<1> DEFINE g == [h EXCEPT !.bytes = @ + nbytes]
<1>1. h \in Record /\ h.rest \in (-MaxLag)..Cooldown BY DEF Sane
<1>2. MaxBytes \in Nat /\ h.bytes \in Nat BY <1>1, HealthAssumption DEF Record
<1>3. h.state = "burned" => MaxBytes > 0 /\ h.bytes >= MaxBytes BY DEF Sane, Accounted
<1>4. g \in Record /\ g.rest = h.rest /\ g.state = h.state /\ g.bytes = h.bytes + nbytes
  BY <1>1 DEF Record
<1>5. g.state = "burned" => MaxBytes > 0 /\ g.bytes >= MaxBytes BY <1>2, <1>3, <1>4
<1>6. Carried(h, nbytes) = Metered(g) BY DEF Carried
<1> HIDE DEF g
<1> QED BY <1>1, <1>3, <1>4, <1>5, <1>6, MeteredSane DEF Advances

(* Time alone brings no proxy back.                                          *)
LEMMA OlderAdvances ==
    ASSUME NEW h, Sane(h)
    PROVE  Sane(Older(h)) /\ Advances(h, Older(h))
<1>1. h \in Record /\ h.rest \in (-MaxLag)..Cooldown /\ Accounted(h) BY DEF Sane
<1>2. PICK r \in (-MaxLag)..Cooldown : Older(h) = [h EXCEPT !.rest = r]
  BY <1>1, HealthAssumption DEF Older, Record
<1> QED BY <1>1, <1>2, HealthAssumption DEF Sane, Accounted, Advances, Record

-----------------------------------------------------------------------------
(* The contract                                                              *)

(* An empty history: every proxy is fresh and no solve has one.              *)
LEMMA HealthInvInit == HealthInit => HealthInv
<1> SUFFICES ASSUME HealthInit PROVE HealthInv OBVIOUS
<1>1. Sane(Fresh)
  BY HealthAssumption DEF Sane, Accounted, Fresh, Record, ProxyState
<1> QED BY <1>1 DEF HealthInit, HealthInv, HealthTypeOK, Sane

(* Every step of the contract keeps the invariant, and changes the health of *)
(* a proxy only as Advances allows.                                          *)
LEMMA HealthInvStep ==
    ASSUME HealthInv, [HealthNext]_healthVars
    PROVE  HealthInv' /\ \A p \in Proxies : Advances(health[p], health'[p])
<1> DEFINE Sound(f) == f \in [Proxies -> Record] /\ \A p \in Proxies : Sane(f[p])
           Onward == Sound(health') /\ \A p \in Proxies : Advances(health[p], health'[p])
           Held == /\ lent' \in [Solves -> Proxies \cup {NoProxy}]
                   /\ stage' \in [Solves -> {"new", "using", "reported", "done"}]
                   /\ \A u \in Solves : stage'[u] \in {"using", "reported"} => lent'[u] \in Proxies
<1>0. /\ Sound(health)
      /\ lent \in [Solves -> Proxies \cup {NoProxy}]
      /\ stage \in [Solves -> {"new", "using", "reported", "done"}]
      /\ \A u \in Solves : stage[u] \in {"using", "reported"} => lent[u] \in Proxies
  BY DEF HealthInv, HealthTypeOK, Sane
<1>a. SUFFICES Onward /\ Held
  BY DEF HealthInv, HealthTypeOK, Sane
<1>s. \A g : Sane(g) => g \in Record BY DEF Sane
<1>o. ASSUME NEW p \in Proxies, NEW h, Sane(h), Advances(health[p], h),
             health' = [health EXCEPT ![p] = h]
      PROVE  Onward
  <2>1. \A q \in Proxies : Advances(health[q], health[q]) BY DEF Advances
  <2> QED BY <1>0, <1>o, <1>s, <2>1
<1>1. ASSUME NEW lag \in 0..MaxLag, NEW seen \in SUBSET Proxies, Review(seen, lag)
      PROVE  Onward /\ Held
  <2>1. \A p \in Proxies : Sane(health'[p]) /\ Advances(health[p], health'[p])
    BY <1>0, <1>1, ReviewedAdvances DEF Review, Advances
  <2> QED BY <1>0, <1>1, <1>s, <2>1 DEF Review
<1>2. ASSUME NEW lag \in 0..MaxLag, NEW u \in Solves, Decline(u, lag)
      PROVE  Onward /\ Held
  <2>1. \A p \in Proxies : Sane(health'[p]) /\ Advances(health[p], health'[p])
    BY <1>0, <1>2, ReviewedAdvances DEF Decline
  <2> QED BY <1>0, <1>2, <1>s, <2>1 DEF Decline, To
<1>3. ASSUME NEW lag \in 0..MaxLag, NEW u \in Solves, NEW p \in Proxies, Lend(u, p, lag)
      PROVE  Onward /\ Held
  <2> DEFINE reviewed == [q \in Proxies |-> Reviewed(health[q], lag)]
  <2>1. \A q \in Proxies : Sane(reviewed[q]) /\ Advances(health[q], reviewed[q])
    BY <1>0, ReviewedAdvances
  <2>2. MayServe(reviewed[p]) /\ health' = [reviewed EXCEPT ![p] = Reserved(@)]
    BY <1>3 DEF Lend
  <2>3. /\ Sane(Reserved(reviewed[p]))
        /\ Advances(health[p], Reserved(reviewed[p]))
    <3>1. Reserved(reviewed[p]).state \notin {"burned", "cooldown"}
          /\ Reserved(reviewed[p]).ok = reviewed[p].ok /\ Sane(Reserved(reviewed[p]))
      BY <2>1, <2>2, ReservedAdvances
    <3>2. reviewed[p].state \notin {"burned", "cooldown"}
      BY <2>2 DEF MayServe
    <3> QED BY <2>1, <3>1, <3>2 DEF Advances
  <2> HIDE DEF reviewed
  <2>4. reviewed \in [Proxies -> Record] BY <2>1, <1>s DEF reviewed
  <2>5. Onward BY <2>1, <2>2, <2>3, <2>4, <1>s
  <2>6. Held BY <1>0, <1>3 DEF Lend, To
  <2> QED BY <2>5, <2>6
<1>4. ASSUME NEW lag \in 0..MaxLag, NEW u \in Solves, NEW outcome \in Outcomes,
             NEW nbytes \in Sizes, Report(u, outcome, nbytes, lag)
      PROVE  Onward /\ Held
  <2>1. lent[u] \in Proxies /\ Sane(health[lent[u]]) /\ nbytes \in Nat
    BY <1>0, <1>4, HealthAssumption DEF Report
  <2>2. health' = [health EXCEPT ![lent[u]] = Reported(health[lent[u]], outcome, nbytes, lag)]
    BY <1>4 DEF Report
  <2>3. Onward BY <2>1, <2>2, <1>o, ReportedAdvances
  <2> QED BY <1>0, <1>4, <2>3 DEF Report, To
<1>5. ASSUME NEW lag \in 0..MaxLag, NEW u \in Solves, NEW accepted \in BOOLEAN,
             Feedback(u, accepted, lag)
      PROVE  Onward /\ Held
  <2> DEFINE outcome == IF accepted THEN "success" ELSE "later"
  <2>1. lent[u] \in Proxies /\ Sane(health[lent[u]]) /\ outcome \in Outcomes
    BY <1>0, <1>5 DEF Feedback, Outcomes
  <2>2. health' = [health EXCEPT ![lent[u]] = Reported(health[lent[u]], outcome, 0, lag)]
    BY <1>5 DEF Feedback
  <2> HIDE DEF outcome
  <2>3. Onward BY <2>1, <2>2, <1>o, ReportedAdvances
  <2> QED BY <1>0, <1>5, <2>3 DEF Feedback, To
<1>6. ASSUME NEW u \in Solves, Leave(u) PROVE Onward /\ Held
  BY <1>0, <1>6 DEF Leave, To, Advances
<1>7. ASSUME NEW u \in Solves, NEW nbytes \in Sizes, CarryBytes(u, nbytes)
      PROVE  Onward /\ Held
  <2>1. lent[u] \in Proxies /\ Sane(health[lent[u]]) /\ nbytes \in Nat
    BY <1>0, <1>7, HealthAssumption DEF CarryBytes
  <2>2. health' = [health EXCEPT ![lent[u]] = Carried(health[lent[u]], nbytes)]
    BY <1>7 DEF CarryBytes
  <2>3. Onward BY <2>1, <2>2, <1>o, CarriedAdvances
  <2> QED BY <1>0, <1>7, <2>3 DEF CarryBytes
<1>8. CASE Tick
  <2>1. \A p \in Proxies : Sane(health'[p]) /\ Advances(health[p], health'[p])
    BY <1>0, <1>8, OlderAdvances DEF Tick
  <2> QED BY <1>0, <1>8, <1>s, <2>1 DEF Tick
<1>9. CASE UNCHANGED healthVars
  BY <1>0, <1>9 DEF healthVars, Advances
<1> HIDE DEF Onward, Held
<1> QED BY <1>1, <1>2, <1>3, <1>4, <1>5, <1>6, <1>7, <1>8, <1>9 DEF HealthNext

(* The invariant of the contract.                                            *)
THEOREM HealthInvariant == HealthSpec => []HealthInv
BY HealthInvInit, HealthInvStep, PTL DEF HealthSpec

(* A proxy is out of rotation for good exactly when its quota is used up.    *)
THEOREM QuotaIsFinal == HealthSpec => []QuotaRetires
<1>1. HealthInv => QuotaRetires BY DEF HealthInv, Accounted, QuotaRetires
<1> QED BY <1>1, HealthInvariant, PTL

(* Burned is final, whatever was under way when the quota was used up.       *)
THEOREM BurnedForGood == HealthSpec => BurnedIsFinal
<1>1. HealthInv /\ [HealthNext]_healthVars =>
        [\A p \in Proxies : health[p].state = "burned" => health'[p].state = "burned"]_healthVars
  BY HealthInvStep DEF Advances
<1> QED BY <1>1, HealthInvariant, PTL DEF HealthSpec, BurnedIsFinal

(* A cooldown ends with its time, with a success or with the quota.          *)
THEOREM CooldownServed == HealthSpec => CooldownIsServed
<1>1. HealthInv /\ [HealthNext]_healthVars =>
        [\A p \in Proxies :
            health[p].state = "cooldown" /\ health'[p].state # "cooldown" =>
               \/ health[p].rest <= 0
               \/ health'[p].state = "burned"
               \/ health'[p].ok = health[p].ok + 1]_healthVars
  BY HealthInvStep DEF Advances
<1> QED BY <1>1, HealthInvariant, PTL DEF HealthSpec, CooldownIsServed

-----------------------------------------------------------------------------
(* The in-memory pool                                                        *)

(* Each operation of the in-memory pool is one operation of the contract: the*)
(* ranking only picks among the proxies that may serve.                      *)
THEOREM PoolKeepsContract == Spec => HealthSpec
<1>1. Init => HealthInit BY DEF Init
<1>2. [Next]_vars => [HealthNext]_healthVars
  <2> SUFFICES ASSUME Next PROVE HealthNext
    BY DEF vars, healthVars
  <2>0. 0 \in 0..MaxLag BY HealthAssumption
  <2>1. ASSUME NEW u \in Solves, NEW kinds \in Asked, NEW sitekeyed \in BOOLEAN,
               Checkout(u, kinds, sitekeyed)
        PROVE  HealthNext
    BY <2>0, <2>1 DEF Checkout, HealthNext
  <2>2. ASSUME NEW u \in Solves, NEW outcome \in Outcomes, NEW nbytes \in Sizes,
               ReportSolve(u, outcome, nbytes)
        PROVE  HealthNext
    BY <2>0, <2>2 DEF ReportSolve, HealthNext
  <2>3. ASSUME NEW u \in Solves, NEW accepted \in BOOLEAN, ReportReal(u, accepted)
        PROVE  HealthNext
    BY <2>0, <2>3 DEF ReportReal, HealthNext
  <2>4. ASSUME NEW u \in Solves, NEW nbytes \in Sizes, ReportBytes(u, nbytes)
        PROVE  HealthNext
    BY <2>4 DEF ReportBytes, HealthNext
  <2>5. ASSUME NEW u \in Solves, Abandon(u) PROVE HealthNext
    BY <2>5 DEF Abandon, HealthNext
  <2>6. ASSUME NEW kinds \in Asked, Peek(kinds) PROVE HealthNext
    BY <2>0, <2>6 DEF Peek, HealthNext
  <2>7. ASSUME TimePasses PROVE HealthNext
    BY <2>7 DEF TimePasses, HealthNext
  <2> QED BY <2>1, <2>2, <2>3, <2>4, <2>5, <2>6, <2>7 DEF Next
<1> QED BY <1>1, <1>2, PTL DEF Spec, HealthSpec

(* So a proxy the in-memory pool burned is never lent again.                 *)
THEOREM PoolBurnsForGood == FairSpec => BurnedIsFinal /\ CooldownIsServed /\ []QuotaRetires
<1>1. FairSpec => Spec BY PTL DEF FairSpec
<1> QED BY <1>1, PoolKeepsContract, BurnedForGood, CooldownServed, QuotaIsFinal, PTL

-----------------------------------------------------------------------------
(* Health and time: an operation that computes now and writes later writes   *)
(* what the contract makes of the hash at the later time, with the older     *)
(* clock reading                                                             *)

LEMMA OlderFields ==
    ASSUME NEW h, Sane(h)
    PROVE  /\ Older(h) = [h EXCEPT !.rest = Older(h).rest]
           /\ Older(h).rest = IF h.rest > -MaxLag THEN h.rest - 1 ELSE h.rest
           /\ Older(h).rest \in Int
           /\ Older(h).state = h.state /\ Older(h).ok = h.ok /\ Older(h).fail = h.fail
           /\ Older(h).streak = h.streak /\ Older(h).bytes = h.bytes
BY HealthAssumption DEF Older, Sane, Record

(* Two records of health with the same fields are the same.                  *)
LEMMA SameRecord ==
    ASSUME NEW g \in Record, NEW h \in Record, g.state = h.state, g.ok = h.ok,
           g.fail = h.fail, g.streak = h.streak, g.rest = h.rest, g.bytes = h.bytes
    PROVE  g = h
BY DEF Record

(* What a review makes of a record, field by field (_proxy_available).       *)
LEMMA ReviewedFields ==
    ASSUME NEW h, Sane(h), NEW lag \in 0..MaxLag
    PROVE  LET g == Reviewed(h, lag)
               ended == h.state = "cooldown" /\ ~ (h.rest + lag > 0)
               judged == h.state \notin {"burned", "cooldown"} /\ Poor(h)
           IN  /\ g \in Record
               /\ g.bytes = h.bytes
               /\ g.state = IF ended THEN "healthy" ELSE IF judged THEN "cooldown" ELSE h.state
               /\ g.rest = IF judged THEN Cooldown - lag ELSE h.rest
               /\ g.streak = IF ended THEN 0 ELSE h.streak
               /\ g.ok = IF ended /\ Poor(h) THEN 0 ELSE h.ok
               /\ g.fail = IF ended /\ Poor(h) THEN 0 ELSE h.fail
<1>1. h \in Record BY DEF Sane
<1>2. Reviewed(h, lag) \in Record BY ReviewedAdvances DEF Sane
<1>3. CASE h.state = "burned" BY <1>1, <1>2, <1>3 DEF Reviewed, Record
<1>4. CASE h.state = "cooldown" /\ h.rest + lag > 0
  BY <1>1, <1>2, <1>4 DEF Reviewed, Resting, Record
<1>5. CASE h.state = "cooldown" /\ ~ (h.rest + lag > 0)
  <2>1. CASE Poor(h) BY <2>1, <1>1, <1>2, <1>5 DEF Reviewed, Resting, Record
  <2>2. CASE ~ Poor(h) BY <2>2, <1>1, <1>2, <1>5 DEF Reviewed, Resting, Record
  <2> QED BY <2>1, <2>2
<1>6. CASE h.state \notin {"burned", "cooldown"}
  BY <1>1, <1>2, <1>6 DEF Reviewed, Resting, Record
<1> QED BY <1>3, <1>4, <1>5, <1>6

(* A record that was just reviewed is not changed by the same review again:  *)
(* the counters of an expired tombstone are forgotten, a new one lasts       *)
(* (_proxy_available).                                                       *)
LEMMA ReviewedSettles ==
    ASSUME NEW h, Sane(h), NEW lag \in 0..MaxLag
    PROVE  Reviewed(Reviewed(h, lag), lag) = Reviewed(h, lag)
<1> DEFINE g == Reviewed(h, lag)
<1>1. Sane(g) /\ g \in Record /\ h \in Record BY ReviewedAdvances DEF Sane
<1>2. \/ g.state = "burned" \/ Resting(g, lag)
      \/ g.state \notin {"burned", "cooldown"} /\ ~ Poor(g)
  <2>0. Cooldown - lag + lag > 0 /\ MinSamples > 0 BY HealthAssumption
  <2>1. CASE h.state = "cooldown" /\ ~ (h.rest + lag > 0)
    BY <2>0, <2>1, <1>1, ReviewedFields, HealthAssumption DEF Poor, Record
  <2>2. CASE h.state = "cooldown" /\ h.rest + lag > 0
    BY <2>2, <1>1, ReviewedFields DEF Resting
  <2>3. CASE h.state \notin {"burned", "cooldown"} /\ Poor(h)
    BY <2>0, <2>3, <1>1, ReviewedFields DEF Resting
  <2>4. CASE h.state \notin {"burned", "cooldown"} /\ ~ Poor(h)
    BY <2>4, <1>1, ReviewedFields DEF Poor
  <2>5. CASE h.state = "burned" BY <2>5, ReviewedFields
  <2> QED BY <2>1, <2>2, <2>3, <2>4, <2>5
<1> HIDE DEF g
<1>3. Reviewed(g, lag) = g BY <1>1, <1>2 DEF Reviewed, Resting
<1> QED BY <1>3 DEF g

(* A review and a tick commute.                                              *)
LEMMA ReviewedOlder ==
    ASSUME NEW h, Sane(h), NEW lag \in 0..MaxLag, lag < MaxLag
    PROVE  Reviewed(Older(h), lag + 1) = Older(Reviewed(h, lag))
<1> DEFINE f == Reviewed(Older(h), lag + 1)
           g == Older(Reviewed(h, lag))
<1>0. lag + 1 \in 0..MaxLag /\ h.rest \in (-MaxLag)..Cooldown BY HealthAssumption DEF Sane
<1>1. Sane(Older(h)) BY OlderAdvances
<1>2. Sane(Reviewed(h, lag)) BY ReviewedAdvances
<1>3. f \in Record BY <1>0, <1>1, ReviewedFields
<1>4. g \in Record BY <1>2, OlderAdvances DEF Sane
<1>5. Poor(Older(h)) <=> Poor(h) BY OlderFields DEF Poor
<1>6. Older(h).rest + (lag + 1) > 0 <=> h.rest + lag > 0
  BY <1>0, OlderFields, HealthAssumption
<1>7. /\ f.state = g.state /\ f.ok = g.ok /\ f.fail = g.fail
      /\ f.streak = g.streak /\ f.bytes = g.bytes
  <2>1. /\ g.state = Reviewed(h, lag).state /\ g.ok = Reviewed(h, lag).ok
        /\ g.fail = Reviewed(h, lag).fail /\ g.streak = Reviewed(h, lag).streak
        /\ g.bytes = Reviewed(h, lag).bytes
    BY <1>2, OlderFields
  <2> HIDE DEF g
  <2> QED BY <2>1, <1>0, <1>1, <1>5, <1>6, ReviewedFields, OlderFields
<1>8. f.rest = g.rest
  <2> DEFINE judged == h.state \notin {"burned", "cooldown"} /\ Poor(h)
  <2>1. f.rest = IF judged THEN Cooldown - (lag + 1) ELSE Older(h).rest
    BY <1>0, <1>1, <1>5, ReviewedFields, OlderFields
  <2>2. Reviewed(h, lag).rest = IF judged THEN Cooldown - lag ELSE h.rest
    BY ReviewedFields
  <2>3. g.rest = IF Reviewed(h, lag).rest > -MaxLag THEN Reviewed(h, lag).rest - 1
                 ELSE Reviewed(h, lag).rest
    BY <1>2, OlderFields
  <2>4. Older(h).rest = IF h.rest > -MaxLag THEN h.rest - 1 ELSE h.rest
    BY OlderFields
  <2>5. Cooldown - lag > -MaxLag /\ Cooldown - (lag + 1) = Cooldown - lag - 1
    BY HealthAssumption
  <2> HIDE DEF f, g, judged
  <2> QED BY <2>1, <2>2, <2>3, <2>4, <2>5
<1> HIDE DEF f, g
<1>9. f = g BY <1>3, <1>4, <1>7, <1>8, SameRecord
<1> QED BY <1>9 DEF f, g

(* What the quota makes of a record, field by field.                         *)
LEMMA MeteredFields ==
    ASSUME NEW h \in Record
    PROVE  /\ Metered(h) \in Record
           /\ Metered(h).state = IF MaxBytes > 0 /\ h.bytes >= MaxBytes
                                 THEN "burned" ELSE h.state
           /\ Metered(h).ok = h.ok /\ Metered(h).fail = h.fail
           /\ Metered(h).streak = h.streak /\ Metered(h).bytes = h.bytes
           /\ Metered(h).rest = h.rest
BY DEF Metered, Record, ProxyState

(* What a report makes of a record, field by field (report).                 *)
LEMMA ReportedFields ==
    ASSUME NEW h, Sane(h), NEW outcome \in Outcomes, NEW nbytes \in Nat,
           NEW lag \in 0..MaxLag
    PROVE  LET g == Reported(h, outcome, nbytes, lag)
               trips == outcome = "transport" /\ h.streak + 1 >= MaxFails
           IN  /\ g \in Record
               /\ g.bytes = h.bytes + nbytes
               /\ g.ok = IF outcome = "success" THEN h.ok + 1 ELSE h.ok
               /\ g.fail = IF outcome = "transport" THEN h.fail + 1 ELSE h.fail
               /\ g.streak = IF outcome = "success" THEN 0
                             ELSE IF outcome = "transport" THEN h.streak + 1
                             ELSE h.streak
               /\ g.rest = IF trips THEN Cooldown - lag ELSE h.rest
               /\ g.state = IF MaxBytes > 0 /\ h.bytes + nbytes >= MaxBytes
                            THEN "burned"
                            ELSE IF outcome = "success" /\ h.state # "burned"
                            THEN "healthy"
                            ELSE IF trips THEN "cooldown" ELSE h.state
<1>0. h \in Record /\ Reported(h, outcome, nbytes, lag) \in Record
  BY ReportedAdvances DEF Sane
<1>g. PICK g : g = [h EXCEPT !.bytes = @ + nbytes] OBVIOUS
<1>1. /\ g \in Record /\ g.rest = h.rest /\ g.state = h.state /\ g.ok = h.ok
      /\ g.streak = h.streak /\ g.fail = h.fail /\ g.bytes = h.bytes + nbytes
  BY <1>0, <1>g DEF Record
<1>2. Cooldown - lag \in Int BY HealthAssumption
<1>3. CASE outcome = "success"
  <2>a. PICK n \in Nat, s \in ProxyState :
           n = g.ok + 1 /\ s = IF g.state = "burned" THEN g.state ELSE "healthy"
    BY <1>1 DEF Record, ProxyState
  <2> DEFINE k == [g EXCEPT !.ok = n, !.streak = 0, !.state = s]
  <2>1. Reported(h, outcome, nbytes, lag) = Metered(k)
    BY <2>a, <1>3, <1>g DEF Reported
  <2>2. /\ k \in Record /\ k.rest = g.rest /\ k.bytes = g.bytes /\ k.ok = g.ok + 1
        /\ k.fail = g.fail /\ k.streak = 0
        /\ k.state = IF g.state = "burned" THEN "burned" ELSE "healthy"
    BY <2>a, <1>1 DEF Record, ProxyState
  <2> HIDE DEF k
  <2> QED BY <2>1, <2>2, <1>0, <1>1, <1>3, MeteredFields
<1>4. CASE outcome = "later"
  <2>1. Reported(h, outcome, nbytes, lag) = Metered(g) BY <1>4, <1>g DEF Reported
  <2> QED BY <2>1, <1>0, <1>1, <1>4, MeteredFields
<1>5. CASE outcome = "transport"
  <2>a. PICK m \in Nat, n \in Nat : m = g.fail + 1 /\ n = g.streak + 1
    BY <1>1 DEF Record
  <2>1. CASE g.streak + 1 >= MaxFails
    <3> DEFINE k == [g EXCEPT !.fail = m, !.streak = n,
                              !.state = "cooldown", !.rest = Cooldown - lag]
    <3>1. Reported(h, outcome, nbytes, lag) = Metered(k)
      BY <2>a, <1>5, <2>1, <1>g DEF Reported
    <3>2. /\ k \in Record /\ k.rest = Cooldown - lag /\ k.bytes = g.bytes /\ k.ok = g.ok
          /\ k.fail = g.fail + 1 /\ k.streak = g.streak + 1 /\ k.state = "cooldown"
      BY <2>a, <1>1, <1>2 DEF Record, ProxyState
    <3> HIDE DEF k
    <3> QED BY <3>1, <3>2, <2>1, <1>0, <1>1, <1>5, MeteredFields
  <2>2. CASE ~ (g.streak + 1 >= MaxFails)
    <3> DEFINE k == [g EXCEPT !.fail = m, !.streak = n]
    <3>1. Reported(h, outcome, nbytes, lag) = Metered(k)
      BY <2>a, <1>5, <2>2, <1>g DEF Reported
    <3>2. /\ k \in Record /\ k.rest = g.rest /\ k.bytes = g.bytes /\ k.ok = g.ok
          /\ k.fail = g.fail + 1 /\ k.streak = g.streak + 1 /\ k.state = g.state
      BY <2>a, <1>1 DEF Record
    <3> HIDE DEF k
    <3> QED BY <3>1, <3>2, <2>2, <1>0, <1>1, <1>5, MeteredFields
  <2> QED BY <2>1, <2>2
<1> QED BY <1>3, <1>4, <1>5 DEF Outcomes

(* A report and a tick commute.                                              *)
LEMMA ReportedOlder ==
    ASSUME NEW h, Sane(h), NEW outcome \in Outcomes, NEW nbytes \in Nat,
           NEW lag \in 0..MaxLag, lag < MaxLag
    PROVE  Reported(Older(h), outcome, nbytes, lag + 1)
              = Older(Reported(h, outcome, nbytes, lag))
<1> DEFINE f == Reported(Older(h), outcome, nbytes, lag + 1)
           e == Reported(h, outcome, nbytes, lag)
           g == Older(e)
           trips == outcome = "transport" /\ h.streak + 1 >= MaxFails
<1>0. lag + 1 \in 0..MaxLag /\ h.rest \in (-MaxLag)..Cooldown BY HealthAssumption DEF Sane
<1>1. Sane(Older(h)) BY OlderAdvances
<1>2. Sane(e) BY ReportedAdvances
<1>3. f \in Record BY <1>0, <1>1, ReportedFields
<1>4. g \in Record BY <1>2, OlderAdvances DEF Sane
<1>5. /\ g.state = e.state /\ g.ok = e.ok /\ g.fail = e.fail
      /\ g.streak = e.streak /\ g.bytes = e.bytes
      /\ g.rest = IF e.rest > -MaxLag THEN e.rest - 1 ELSE e.rest
  BY <1>2, OlderFields
<1>6. /\ f.state = e.state /\ f.ok = e.ok /\ f.fail = e.fail
      /\ f.streak = e.streak /\ f.bytes = e.bytes
      /\ f.rest = IF trips THEN Cooldown - (lag + 1) ELSE Older(h).rest
      /\ e.rest = IF trips THEN Cooldown - lag ELSE h.rest
  <2>1. /\ Older(h).state = h.state /\ Older(h).ok = h.ok /\ Older(h).fail = h.fail
        /\ Older(h).streak = h.streak /\ Older(h).bytes = h.bytes
    BY OlderFields
  <2>2. PICK a : a = Older(h) OBVIOUS
  <2>3. PICK n \in 0..MaxLag : n = lag + 1 BY <1>0
  <2> QED BY <2>1, <2>2, <2>3, <1>1, ReportedFields
<1>7. f.rest = g.rest
  <2>4. Older(h).rest = IF h.rest > -MaxLag THEN h.rest - 1 ELSE h.rest
    BY OlderFields
  <2>5. Cooldown - lag > -MaxLag /\ Cooldown - (lag + 1) = Cooldown - lag - 1
    BY HealthAssumption
  <2> HIDE DEF f, g, e, trips
  <2> QED BY <2>4, <2>5, <1>5, <1>6
<1> HIDE DEF f, g, e
<1>8. f = g BY <1>3, <1>4, <1>5, <1>6, <1>7, SameRecord
<1> QED BY <1>8 DEF f, g, e

(* A report of traffic and a tick commute.                                   *)
LEMMA CarriedOlder ==
    ASSUME NEW h, Sane(h), NEW nbytes \in Nat
    PROVE  Carried(Older(h), nbytes) = Older(Carried(h, nbytes))
<1> DEFINE m(x) == [x EXCEPT !.bytes = @ + nbytes]
<1>1. Sane(Older(h)) /\ Sane(Carried(h, nbytes)) /\ Sane(Carried(Older(h), nbytes))
      /\ Sane(Older(Carried(h, nbytes)))
  BY OlderAdvances, CarriedAdvances
<1>2. ASSUME NEW x, Sane(x)
      PROVE  /\ Carried(x, nbytes).ok = x.ok /\ Carried(x, nbytes).fail = x.fail
             /\ Carried(x, nbytes).streak = x.streak /\ Carried(x, nbytes).rest = x.rest
             /\ Carried(x, nbytes).bytes = x.bytes + nbytes
             /\ Carried(x, nbytes).state =
                  IF MaxBytes > 0 /\ x.bytes + nbytes >= MaxBytes
                  THEN "burned" ELSE x.state
  <2>1. /\ m(x) \in Record /\ m(x).ok = x.ok /\ m(x).fail = x.fail
        /\ m(x).streak = x.streak /\ m(x).rest = x.rest /\ m(x).state = x.state
        /\ m(x).bytes = x.bytes + nbytes
    BY <1>2 DEF Sane, Record
  <2>2. Carried(x, nbytes) = Metered(m(x)) BY DEF Carried
  <2> HIDE DEF m
  <2> QED BY <2>1, <2>2, MeteredFields
<1>3. PICK a : a = Older(h) OBVIOUS
<1>4. PICK b : b = Carried(h, nbytes) OBVIOUS
<1>5. Carried(a, nbytes) \in Record /\ Older(b) \in Record BY <1>1, <1>3, <1>4 DEF Sane
<1>6. /\ Carried(a, nbytes).ok = Older(b).ok /\ Carried(a, nbytes).fail = Older(b).fail
      /\ Carried(a, nbytes).streak = Older(b).streak
      /\ Carried(a, nbytes).bytes = Older(b).bytes
      /\ Carried(a, nbytes).state = Older(b).state
      /\ Carried(a, nbytes).rest = Older(b).rest
  BY <1>1, <1>2, <1>3, <1>4, OlderFields
<1> QED BY <1>3, <1>4, <1>5, <1>6, SameRecord

-----------------------------------------------------------------------------
(* The scripts and the helpers in Python                                     *)

(* _CHECKOUT_LUA judges one hash as _proxy_available judges one entry.       *)
LEMMA ScriptReviews ==
    ASSUME NEW h, Sane(h), NEW lag \in 0..MaxLag
    PROVE  /\ LuaReviewed(h, lag) = Reviewed(h, lag)
           /\ LuaAvailable(Reviewed(h, lag)) <=> MayServe(Reviewed(h, lag))
<1>1. h \in Record BY DEF Sane
<1>2. LuaReviewed(h, lag) = Reviewed(h, lag)
  <2>1. CASE h.state = "burned" BY <2>1 DEF LuaReviewed, Reviewed
  <2>2. CASE h.state = "cooldown" /\ h.rest + lag > 0
    BY <2>2 DEF LuaReviewed, Reviewed, Resting
  <2>3. CASE h.state = "cooldown" /\ ~ (h.rest + lag > 0)
    <3>1. CASE Poor(h) BY <2>3, <3>1 DEF LuaReviewed, Reviewed, Resting, Poor
    <3>2. CASE ~ Poor(h) BY <2>3, <3>2 DEF LuaReviewed, Reviewed, Resting, Poor
    <3> QED BY <3>1, <3>2
  <2>4. CASE h.state \notin {"burned", "cooldown"}
    BY <2>4 DEF LuaReviewed, Reviewed, Resting, Poor
  <2> QED BY <2>1, <2>2, <2>3, <2>4
<1>3. Reviewed(h, lag) \in Record BY ReviewedFields
<1> QED BY <1>2, <1>3 DEF LuaAvailable, MayServe, Record, ProxyState

(* _REPORT_LUA and _REPORT_BYTES_LUA count as report and report_bytes do.    *)
LEMMA ScriptReports ==
    ASSUME NEW h, Sane(h), NEW outcome \in Outcomes, NEW nbytes \in Nat,
           NEW lag \in 0..MaxLag
    PROVE  /\ LuaReported(h, outcome, nbytes, lag) = Reported(h, outcome, nbytes, lag)
           /\ LuaCarried(h, nbytes) = Carried(h, nbytes)
<1>1. \A x : LuaBurns(x) = Metered(x) BY DEF LuaBurns, Metered
<1>2. PICK g : g = [h EXCEPT !.bytes = @ + nbytes] OBVIOUS
<1>3. /\ g \in Record /\ h \in Record
      /\ Cooldown - lag \in Int
  BY <1>2, HealthAssumption DEF Sane, Record
<1>4. CASE outcome = "success"
  <2> DEFINE k == [g EXCEPT !.ok = @ + 1, !.streak = 0,
                            !.state = IF @ # "burned" THEN "healthy" ELSE @]
             l == [g EXCEPT !.ok = @ + 1, !.streak = 0,
                            !.state = IF @ = "burned" THEN @ ELSE "healthy"]
  <2>1. k = l OBVIOUS
  <2>2. LuaReported(h, outcome, nbytes, lag) = Metered(k)
    BY <1>1, <1>2, <1>4 DEF LuaReported
  <2>3. Reported(h, outcome, nbytes, lag) = Metered(l)
    BY <1>2, <1>4 DEF Reported
  <2> HIDE DEF k, l
  <2> QED BY <2>1, <2>2, <2>3, <1>1 DEF Carried, LuaCarried
<1>5. CASE outcome = "later"
  BY <1>1, <1>2, <1>5 DEF LuaReported, Reported, Carried, LuaCarried
<1>6. CASE outcome = "transport"
  <2> DEFINE failed == [g EXCEPT !.fail = @ + 1, !.streak = @ + 1]
  <2>1. failed.streak = g.streak + 1 BY <1>3 DEF Record
  <2>2. CASE g.streak + 1 >= MaxFails
    <3> DEFINE k == [failed EXCEPT !.state = "cooldown", !.rest = Cooldown - lag]
               l == [g EXCEPT !.fail = @ + 1, !.streak = @ + 1,
                              !.state = "cooldown", !.rest = Cooldown - lag]
    <3>1. LuaReported(h, outcome, nbytes, lag) = Metered(k)
      BY <1>1, <1>2, <1>6, <2>1, <2>2 DEF LuaReported
    <3>2. Reported(h, outcome, nbytes, lag) = Metered(l)
      BY <1>2, <1>6, <2>2 DEF Reported
    <3>3. k = l BY <1>3 DEF Record
    <3> HIDE DEF k, l, failed
    <3> QED BY <3>1, <3>2, <3>3, <1>1 DEF Carried, LuaCarried
  <2>3. CASE ~ (g.streak + 1 >= MaxFails)
    <3>1. LuaReported(h, outcome, nbytes, lag) = Metered(failed)
      BY <1>1, <1>2, <1>6, <2>1, <2>3 DEF LuaReported
    <3>2. Reported(h, outcome, nbytes, lag) = Metered(failed)
      BY <1>2, <1>6, <2>3 DEF Reported
    <3> HIDE DEF failed
    <3> QED BY <3>1, <3>2, <1>1 DEF Carried, LuaCarried
  <2> QED BY <2>2, <2>3
<1> QED BY <1>4, <1>5, <1>6 DEF Outcomes

(* The instance Contract has helpers of its own; they are these.             *)
LEMMA ContractReviews ==
    ASSUME NEW h, NEW lag
    PROVE  Contract!Reviewed(h, lag) = Reviewed(h, lag)
<1>1. Contract!Resting(h, lag) <=> Resting(h, lag) BY DEF Contract!Resting, Resting
<1>2. Contract!Poor(h) <=> Poor(h) BY DEF Contract!Poor, Poor
<1> QED BY <1>1, <1>2 DEF Contract!Reviewed, Reviewed

LEMMA ContractReports ==
    ASSUME NEW h, NEW outcome, NEW nbytes, NEW lag
    PROVE  /\ Contract!Reported(h, outcome, nbytes, lag) = Reported(h, outcome, nbytes, lag)
           /\ Contract!Carried(h, nbytes) = Carried(h, nbytes)
<1>1. \A x : Contract!Metered(x) = Metered(x) BY DEF Contract!Metered, Metered
<1> QED BY <1>1 DEF Contract!Reported, Reported, Contract!Carried, Carried

LEMMA ContractLends ==
    ASSUME NEW h
    PROVE  /\ Contract!MayServe(h) <=> MayServe(h)
           /\ Contract!Reserved(h) = Reserved(h)
           /\ Contract!Older(h) = Older(h)
BY DEF Contract!MayServe, MayServe, Contract!Reserved, Reserved, Contract!Older, Older

LEMMA ContractSets == Contract!Outcomes = Outcomes /\ Contract!Fresh = Fresh
BY DEF Contract!Outcomes, Outcomes, Contract!Fresh, Fresh

-----------------------------------------------------------------------------
(* The shared pool: the inductive invariant                                  *)

Operation ==
    [does : {"nothing", "checkout", "report", "feedback", "bytes"}, pc : Steps,
     lag : 0..MaxLag, kinds : SUBSET Kinds, outcome : Outcomes, bytes : Nat,
     copy : [Proxies -> Record], changed : SUBSET Proxies]

Occupied(o) == o.pc \in {"locking", "reading", "persisting", "writing"}

\* An operation under way does what its solve is entitled to.
Entitled(o, at) ==
    /\ ~ Occupied(o) => o = [Idle EXCEPT !.pc = o.pc]
    /\ o.pc = "persisting" => o.does = "checkout"
    /\ Occupied(o) =>
          \/ o.does = "checkout" /\ at = "new"
          \/ o.does = "report" /\ at = "using" /\ o.bytes \in Sizes
          \/ o.does = "bytes" /\ at = "using" /\ o.bytes \in Sizes /\ o.bytes > 0
          \/ o.does = "feedback" /\ at = "reported"
                /\ o.bytes = 0 /\ o.outcome \in {"success", "later"}

\* What an operation has computed is what the contract makes of the hash as it
\* stands: of every hash for a checkout, of the leased one for a report.
Reread(o, h, copy, pending) ==
    /\ copy = Reviewed(h, o.lag)
    /\ ~ pending => copy = h
Faithful(o, p) ==
    /\ o.does = "checkout" =>
          \A q \in Proxies :
              Reread(o, hash[q], o.copy[q], o.pc = "persisting" /\ q \in o.changed)
    /\ o.does \in {"report", "feedback"} =>
          o.copy[p] = Reported(hash[p], o.outcome, o.bytes, o.lag)
    /\ o.does = "bytes" => o.copy[p] = Carried(hash[p], o.bytes)

HashesSound == hash \in [Proxies -> Record] /\ \A p \in Proxies : Sane(hash[p])

LeasesSound ==
    /\ leased \in [Solves -> Proxies \cup {NoProxy}]
    /\ phase \in [Solves -> {"new", "using", "reported", "done"}]
    /\ \A u \in Solves : phase[u] \in {"using", "reported"} => leased[u] \in Proxies

Sound(o) == o \in Operation /\ \A p \in Proxies : Sane(o.copy[p])

OperationsSound ==
    /\ op \in [Solves -> Operation]
    /\ \A u \in Solves : Sound(op[u]) /\ Entitled(op[u], phase[u])

BootSound ==
    boot \in [proxy : Proxies \cup {NoProxy}, copy : Record] /\ Sane(boot.copy)

SharedTyped == HashesSound /\ LeasesSound /\ OperationsSound /\ BootSound

\* Who was not overtaken since it read has copies that are still right.
Consistent ==
    \A u \in Solves :
        op[u].pc \in {"persisting", "writing"} /\ u \notin overtaken =>
            Faithful(op[u], leased[u])
BootConsistent == Booting /\ "boot" \notin overtaken => boot.copy = hash[boot.proxy]

SharedInv == SharedTyped /\ Consistent /\ BootConsistent

-----------------------------------------------------------------------------
(* The shared pool: soundness of what is stored and copied                   *)

Ending == {"idle", "unlocking", "deleting"}

LEMMA IdleSound ==
    /\ Sane(Fresh) /\ Sound(Idle) /\ Idle.pc = "idle"
    /\ \A at : \A pc \in Ending :
          /\ Sound([Idle EXCEPT !.pc = pc]) /\ Entitled([Idle EXCEPT !.pc = pc], at)
          /\ [Idle EXCEPT !.pc = pc].pc = pc
    /\ Idle = [Idle EXCEPT !.pc = "idle"]
<1>1. Sane(Fresh)
  BY HealthAssumption DEF Sane, Accounted, Fresh, Record, ProxyState
<1>2. [p \in Proxies |-> Fresh] \in [Proxies -> Record] BY <1>1 DEF Sane
<1>3. 0 \in 0..MaxLag /\ {} \in SUBSET Kinds /\ {} \in SUBSET Proxies
      /\ "later" \in Outcomes
  BY HealthAssumption DEF Outcomes
<1>4. Idle \in Operation /\ Idle.pc = "idle" BY <1>2, <1>3 DEF Idle, Operation, Steps
<1>5. \A p \in Proxies : Idle.copy[p] = Fresh BY DEF Idle
<1>6. ASSUME NEW pc \in Ending
      PROVE  /\ [Idle EXCEPT !.pc = pc] \in Operation /\ [Idle EXCEPT !.pc = pc].pc = pc
             /\ [Idle EXCEPT !.pc = pc].copy = Idle.copy
  BY <1>4 DEF Operation, Steps, Ending
<1>7. Idle = [Idle EXCEPT !.pc = "idle"] BY <1>4 DEF Operation
<1> QED BY <1>1, <1>4, <1>5, <1>6, <1>7 DEF Sound, Entitled, Occupied, Ending

(* The operation of one solve moves on; those of the others stay entitled.   *)
LEMMA SetsSound ==
    ASSUME OperationsSound, NEW u \in Solves, NEW o, Sound(o), Entitled(o, phase'[u]),
           Sets(u, o), \A v \in Solves \ {u} : phase'[v] = phase[v]
    PROVE  OperationsSound'
<1>1. op \in [Solves -> Operation] /\ op' = [op EXCEPT ![u] = o] /\ o \in Operation
  BY DEF OperationsSound, Sets, Sound
<1>2. op' \in [Solves -> Operation] /\ op'[u] = o BY <1>1
<1>3. \A v \in Solves \ {u} : op'[v] = op[v] BY <1>1
<1>4. \A v \in Solves : Sound(op'[v]) /\ Entitled(op'[v], phase'[v])
  BY <1>2, <1>3 DEF OperationsSound
<1> QED BY <1>2, <1>4 DEF OperationsSound

(* Writing back sound copies keeps the hashes sound.                         *)
LEMMA WriteBackSound ==
    ASSUME HashesSound, NEW ps \in SUBSET Proxies, NEW copy,
           \A p \in ps : Sane(copy[p]), WriteBack(ps, copy)
    PROVE  HashesSound'
BY DEF HashesSound, WriteBack, Sane

LEMMA SharedTypedInit == SharedInit => SharedTyped
<1> SUFFICES ASSUME SharedInit PROVE SharedTyped OBVIOUS
<1>1. /\ hash = [p \in Proxies |-> Fresh]
      /\ leased = [u \in Solves |-> NoProxy] /\ phase = [u \in Solves |-> "new"]
  BY ContractSets DEF SharedInit, Contract!HealthInit
<1>2. HashesSound BY <1>1, IdleSound DEF SharedInit, HashesSound, Sane
<1>3. LeasesSound BY <1>1 DEF LeasesSound
<1>4. \A at : Entitled(Idle, at)
  <2>1. \A at : Entitled([Idle EXCEPT !.pc = "idle"], at) BY IdleSound DEF Ending
  <2> QED BY <2>1, IdleSound
<1>5. OperationsSound
  BY <1>4, IdleSound DEF SharedInit, OperationsSound, Sound
<1>6. BootSound
  BY IdleSound DEF SharedInit, BootSound, NoBoot, Sane
<1> QED BY <1>2, <1>3, <1>5, <1>6 DEF SharedTyped

(* Scripts write sound hashes; the solve has no other operation under way.   *)
LEMMA ScriptsSound ==
    ASSUME SharedTyped, NEW u \in Solves, NEW lag \in 0..MaxLag,
           \/ \E kinds \in Asked : ScriptCheckout(u, kinds, lag)
           \/ \E outcome \in Outcomes, nbytes \in Sizes :
                 ScriptReport(u, outcome, nbytes, lag)
           \/ \E accepted \in BOOLEAN : ScriptFeedback(u, accepted, lag)
           \/ \E nbytes \in Sizes : ScriptBytes(u, nbytes)
    PROVE  SharedTyped'
<1>0. HashesSound /\ LeasesSound /\ OperationsSound /\ BootSound BY DEF SharedTyped
<1>1. Free(u) /\ UNCHANGED <<op, boot>>
  BY DEF ScriptCheckout, ScriptReport, ScriptFeedback, ScriptBytes, Scripts, ScriptOnly
<1>2. BootSound' BY <1>0, <1>1 DEF BootSound
<1>3. ASSUME \A v \in Solves \ {u} : phase'[v] = phase[v] PROVE OperationsSound'
  <2>1. Sound(op[u]) /\ op[u] = [Idle EXCEPT !.pc = op[u].pc] /\ op[u].pc \in Ending
    BY <1>0, <1>1 DEF OperationsSound, Entitled, Free, Occupied, Ending
  <2>2. Entitled(op[u], phase'[u]) BY <2>1, IdleSound
  <2>3. Sets(u, op[u]) BY <1>0, <1>1 DEF Sets, OperationsSound
  <2> QED BY <1>0, <1>3, <2>1, <2>2, <2>3, SetsSound
<1>o. ASSUME NEW p \in Proxies, NEW h, Sane(h), hash' = [hash EXCEPT ![p] = h]
      PROVE  HashesSound'
  BY <1>0, <1>o DEF HashesSound, Sane
<1>4. ASSUME NEW kinds \in Asked, ScriptCheckout(u, kinds, lag)
      PROVE  SharedTyped'
  <2> DEFINE seen == [p \in Proxies |-> LuaReviewed(hash[p], lag)]
             candidates == {p \in Proxies : LuaAvailable(seen[p]) /\ KindOf[p] \in kinds}
  <2>1. \A p \in Proxies : seen[p] = Reviewed(hash[p], lag) /\ Sane(seen[p])
    BY <1>0, ScriptReviews, ReviewedAdvances DEF HashesSound
  <2>2. seen \in [Proxies -> Record] BY <2>1 DEF Sane
  <2>4. ASSUME NEW p \in candidates,
               hash' = [seen EXCEPT ![p].state = IF seen[p].ok = 0 THEN "probing" ELSE @],
               leased' = [leased EXCEPT ![u] = p],
               phase' = [phase EXCEPT ![u] = "using"]
        PROVE  SharedTyped'
    <3>1. p \in Proxies /\ MayServe(seen[p]) BY <2>1, <2>4, <1>0, ScriptReviews DEF HashesSound
    <3> HIDE DEF seen
    <3>2. hash' = [seen EXCEPT ![p] = Reserved(seen[p])]
      BY <2>2, <2>4, <3>1 DEF Reserved, Record
    <3>3. Sane(Reserved(seen[p])) BY <2>1, <3>1, ReservedAdvances
    <3>4. HashesSound' BY <2>1, <2>2, <3>1, <3>2, <3>3 DEF HashesSound, Sane
    <3>5. LeasesSound' BY <2>4, <3>1, <1>0 DEF LeasesSound
    <3>6. OperationsSound' BY <2>4, <1>0, <1>3 DEF LeasesSound
    <3> QED BY <3>4, <3>5, <3>6, <1>2 DEF SharedTyped
  <2>5. ASSUME hash' = seen, phase' = [phase EXCEPT ![u] = "done"], UNCHANGED leased
        PROVE  SharedTyped'
    <3>1. HashesSound' BY <2>1, <2>2, <2>5 DEF HashesSound
    <3>2. LeasesSound' BY <2>5, <1>0 DEF LeasesSound
    <3>3. OperationsSound' BY <2>5, <1>0, <1>3 DEF LeasesSound
    <3> QED BY <3>1, <3>2, <3>3, <1>2 DEF SharedTyped
  <2> QED BY <2>4, <2>5, <1>4 DEF ScriptCheckout
<1>5. ASSUME NEW outcome \in Outcomes, NEW nbytes \in Sizes,
             ScriptReport(u, outcome, nbytes, lag)
      PROVE  SharedTyped'
  <2>1. nbytes \in Nat /\ leased[u] \in Proxies /\ Sane(hash[leased[u]])
    BY <1>0, <1>5, HealthAssumption DEF ScriptReport, LeasesSound, HashesSound
  <2>2. hash' = [hash EXCEPT ![leased[u]] = Reported(hash[leased[u]], outcome, nbytes, lag)]
    BY <2>1, <1>5, ScriptReports DEF ScriptReport
  <2>b. Sane(Reported(hash[leased[u]], outcome, nbytes, lag)) BY <2>1, ReportedAdvances
  <2>3. HashesSound' BY <2>1, <2>2, <2>b, <1>o
  <2>4. LeasesSound' BY <1>5, <1>0 DEF ScriptReport, LeasesSound
  <2>5. OperationsSound' BY <1>0, <1>3, <1>5 DEF ScriptReport, LeasesSound
  <2> QED BY <2>3, <2>4, <2>5, <1>2 DEF SharedTyped
<1>6. ASSUME NEW accepted \in BOOLEAN, ScriptFeedback(u, accepted, lag)
      PROVE  SharedTyped'
  <2> DEFINE outcome == IF accepted THEN "success" ELSE "later"
  <2>1. 0 \in Nat /\ outcome \in Outcomes /\ leased[u] \in Proxies /\ Sane(hash[leased[u]])
    BY <1>0, <1>6 DEF ScriptFeedback, LeasesSound, HashesSound, Outcomes
  <2>a. hash' = [hash EXCEPT ![leased[u]] = LuaReported(hash[leased[u]], outcome, 0, lag)]
    BY <1>6 DEF ScriptFeedback
  <2> HIDE DEF outcome
  <2>2. hash' = [hash EXCEPT ![leased[u]] = Reported(hash[leased[u]], outcome, 0, lag)]
    BY <2>1, <2>a, ScriptReports
  <2>b. Sane(Reported(hash[leased[u]], outcome, 0, lag)) BY <2>1, ReportedAdvances
  <2>3. HashesSound' BY <2>1, <2>2, <2>b, <1>o
  <2>4. LeasesSound' BY <1>6, <1>0 DEF ScriptFeedback, LeasesSound
  <2>5. OperationsSound' BY <1>0, <1>3, <1>6 DEF ScriptFeedback, LeasesSound
  <2> QED BY <2>3, <2>4, <2>5, <1>2 DEF SharedTyped
<1>7. ASSUME NEW nbytes \in Sizes, ScriptBytes(u, nbytes)
      PROVE  SharedTyped'
  <2>1. nbytes \in Nat /\ leased[u] \in Proxies /\ Sane(hash[leased[u]])
    BY <1>0, <1>7, HealthAssumption DEF ScriptBytes, LeasesSound, HashesSound
  <2>a. "later" \in Outcomes BY DEF Outcomes
  <2>2. hash' = [hash EXCEPT ![leased[u]] = Carried(hash[leased[u]], nbytes)]
    BY <2>1, <2>a, <1>7, ScriptReports DEF ScriptBytes
  <2>3. HashesSound' BY <2>1, <2>2, <1>o, CarriedAdvances
  <2>4. LeasesSound' BY <1>7, <1>0 DEF ScriptBytes, LeasesSound
  <2>5. OperationsSound' BY <1>3, <1>7 DEF ScriptBytes
  <2> QED BY <2>3, <2>4, <2>5, <1>2 DEF SharedTyped
<1> QED BY <1>4, <1>5, <1>6, <1>7

(* A checkout, report or metering that is begun is what its solve may do.    *)
LEMMA BeginSound ==
    ASSUME SharedTyped, NEW u \in Solves, BeginAny(u)
    PROVE  SharedTyped'
<1> DEFINE o(does, kinds, outcome, nbytes) ==
             [Idle EXCEPT !.does = does, !.pc = "locking", !.kinds = kinds,
                          !.outcome = outcome, !.bytes = nbytes]
<1>0. HashesSound /\ LeasesSound /\ OperationsSound /\ BootSound BY DEF SharedTyped
<1>1. ASSUME NEW does \in {"checkout", "report", "feedback", "bytes"},
             NEW kinds \in SUBSET Kinds, NEW outcome \in Outcomes, NEW nbytes \in Nat,
             does \in {"report", "bytes"} => nbytes \in Sizes,
             does = "feedback" => nbytes = 0 /\ outcome \in {"success", "later"},
             Begin(u, does, kinds, outcome, nbytes)
      PROVE  SharedTyped'
  <2>1. /\ Sets(u, o(does, kinds, outcome, nbytes))
        /\ UNCHANGED <<hash, leased, phase, boot>>
        /\ phase[u] = IF does = "checkout" THEN "new"
                      ELSE IF does = "feedback" THEN "reported" ELSE "using"
        /\ does = "bytes" => nbytes > 0
    BY <1>1 DEF Begin
  <2>2. PICK b : b = o(does, kinds, outcome, nbytes) OBVIOUS
  <2>3. /\ b \in Operation /\ b.copy = Idle.copy /\ b.pc = "locking"
        /\ b.does = does /\ b.bytes = nbytes /\ b.outcome = outcome
    BY <2>2, IdleSound DEF Operation, Steps, Sound
  <2>4. Sound(b) BY <2>3, IdleSound DEF Sound
  <2>5. Entitled(b, phase[u]) BY <2>1, <2>3, <1>1 DEF Entitled, Occupied
  <2>6. OperationsSound'
    <3> HIDE DEF o
    <3> QED BY <2>1, <2>2, <2>4, <2>5, <1>0, SetsSound
  <2> QED BY <2>1, <2>6, <1>0 DEF SharedTyped, HashesSound, LeasesSound, BootSound
<1>2. "later" \in Outcomes /\ {} \in SUBSET Kinds /\ Asked \subseteq SUBSET Kinds
      /\ Sizes \subseteq Nat /\ {"success", "later"} \subseteq Outcomes /\ 0 \in Nat
  BY HealthAssumption DEF Outcomes, Asked
<1> QED BY <1>1, <1>2 DEF BeginAny

(* The lock, and what is read under it: the copies are sound.                *)
LEMMA LockedReadsSound ==
    ASSUME SharedTyped, NEW u \in Solves,
           \/ AcquireLock(u) \/ ReadForCheckout(u) \/ ReadForReport(u)
    PROVE  SharedTyped'
<1>0. HashesSound /\ LeasesSound /\ OperationsSound /\ BootSound BY DEF SharedTyped
<1>1. /\ op[u].pc \in {"locking", "reading"} /\ Occupied(op[u])
      /\ UNCHANGED <<hash, leased, phase, boot>>
  BY DEF AcquireLock, ReadForCheckout, ReadForReport, LockedOnly, Occupied
<1>2. Sound(op[u]) /\ op[u] \in Operation /\ Entitled(op[u], phase[u])
      /\ op[u].copy \in [Proxies -> Record]
  BY <1>0 DEF OperationsSound, Sound, Operation
<1>3. SUFFICES OperationsSound'
  BY <1>0, <1>1 DEF SharedTyped, HashesSound, LeasesSound, BootSound
<1>4. ASSUME NEW o, Sound(o), Entitled(o, phase[u]), Sets(u, o)
      PROVE  OperationsSound'
  BY <1>0, <1>1, <1>4, SetsSound
<1>6. CASE AcquireLock(u)
  <2> DEFINE o == [op[u] EXCEPT !.pc = "reading"]
  <2>1. o \in Operation /\ o.copy = op[u].copy /\ o.pc = "reading" /\ o.does = op[u].does
        /\ o.bytes = op[u].bytes /\ o.outcome = op[u].outcome
    BY <1>2 DEF Operation, Steps
  <2>3. Sets(u, o) BY <1>6 DEF AcquireLock
  <2> HIDE DEF o
  <2>4. Sound(o) /\ Entitled(o, phase[u])
    BY <2>1, <1>1, <1>2 DEF Sound, Entitled, Occupied
  <2> QED BY <2>3, <2>4, <1>4
<1>7. CASE ReadForCheckout(u)
  <2> DEFINE judged == [p \in Proxies |-> Reviewed(hash[p], op[u].lag)]
             changed == {p \in Proxies : judged[p] # hash[p]}
             next == IF changed # {} THEN "persisting" ELSE "writing"
             o == [op[u] EXCEPT !.copy = judged, !.changed = changed, !.pc = next]
  <2>1. \A p \in Proxies : Sane(judged[p])
    BY <1>0, <1>2, ReviewedAdvances DEF Operation, HashesSound
  <2>2. judged \in [Proxies -> Record] BY <2>1 DEF Sane
  <2>3. Sets(u, o) /\ op[u].does = "checkout" BY <1>7 DEF ReadForCheckout
  <2>4. changed \in SUBSET Proxies /\ next \in {"persisting", "writing"} OBVIOUS
  <2> HIDE DEF judged, changed, next
  <2>5. o \in Operation /\ o.copy = judged /\ o.pc = next /\ o.does = op[u].does
    BY <1>2, <2>2, <2>4 DEF Operation, Steps
  <2> HIDE DEF o
  <2>6. Sound(o) /\ Entitled(o, phase[u])
    BY <2>1, <2>3, <2>4, <2>5, <1>1, <1>2 DEF Sound, Entitled, Occupied
  <2> QED BY <2>3, <2>6, <1>4
<1>8. CASE ReadForReport(u)
  <2> DEFINE p == leased[u]
             h == IF op[u].does = "bytes" THEN Carried(hash[p], op[u].bytes)
                  ELSE Reported(hash[p], op[u].outcome, op[u].bytes, 0)
             o == [op[u] EXCEPT !.copy[p] = h, !.lag = 0, !.pc = "writing"]
  <2>1. Sets(u, o) /\ op[u].does # "checkout" BY <1>8 DEF ReadForReport
  <2>2. p \in Proxies /\ Sane(hash[p]) /\ 0 \in 0..MaxLag
        /\ op[u].bytes \in Nat /\ op[u].outcome \in Outcomes
    BY <1>0, <1>1, <1>2, <2>1, HealthAssumption
       DEF Entitled, LeasesSound, HashesSound, Operation
  <2>3. Sane(h)
    BY <2>2, ReportedAdvances, CarriedAdvances
  <2> HIDE DEF h
  <2>4. h \in Record BY <2>3 DEF Sane
  <2> HIDE DEF p
  <2>5. /\ o \in Operation /\ o.pc = "writing" /\ o.does = op[u].does
        /\ o.bytes = op[u].bytes /\ o.outcome = op[u].outcome
        /\ o.copy = [op[u].copy EXCEPT ![p] = h]
    BY <1>2, <2>2, <2>4 DEF Operation, Steps
  <2> HIDE DEF o
  <2>6. \A q \in Proxies : Sane(o.copy[q])
    BY <1>2, <2>2, <2>3, <2>5 DEF Sound
  <2>7. Sound(o) /\ Entitled(o, phase[u])
    BY <2>1, <2>5, <2>6, <1>1, <1>2 DEF Sound, Entitled, Occupied
  <2> QED BY <2>1, <2>7, <1>4
<1> QED BY <1>6, <1>7, <1>8

(* What is written under the lock are the sound copies.                      *)
LEMMA LockedWritesSound ==
    ASSUME SharedTyped, NEW u \in Solves,
           \/ Persist(u) \/ Reserve(u) \/ WriteReport(u)
    PROVE  SharedTyped'
<1>0. HashesSound /\ LeasesSound /\ OperationsSound /\ BootSound BY DEF SharedTyped
<1>1. /\ op[u].pc \in {"persisting", "writing"} /\ Occupied(op[u]) /\ UNCHANGED boot
  BY DEF Persist, Reserve, WriteReport, LockedOnly, Occupied
<1>2. /\ Sound(op[u]) /\ op[u] \in Operation /\ Entitled(op[u], phase[u])
      /\ op[u].copy \in [Proxies -> Record] /\ op[u].changed \in SUBSET Proxies
      /\ \A p \in Proxies : Sane(op[u].copy[p])
  BY <1>0 DEF OperationsSound, Sound, Operation
<1>3. BootSound' BY <1>0, <1>1 DEF BootSound
<1>4. ASSUME NEW o, Sound(o), Entitled(o, phase'[u]), Sets(u, o),
             \A v \in Solves \ {u} : phase'[v] = phase[v]
      PROVE  OperationsSound'
  BY <1>0, <1>4, SetsSound
<1>e. "unlocking" \in Ending BY DEF Ending
<1>5. CASE Persist(u)
  <2> DEFINE o == [op[u] EXCEPT !.pc = "writing"]
  <2>1. HashesSound'
    BY <1>0, <1>2, <1>5, WriteBackSound DEF Persist
  <2>2. LeasesSound' /\ phase' = phase BY <1>0, <1>5 DEF Persist, LeasesSound
  <2>3. /\ o \in Operation /\ o.copy = op[u].copy /\ o.pc = "writing"
        /\ o.does = op[u].does /\ o.bytes = op[u].bytes /\ o.outcome = op[u].outcome
    BY <1>2 DEF Operation, Steps
  <2>4. Sets(u, o) BY <1>5 DEF Persist
  <2> HIDE DEF o
  <2>5. Sound(o) /\ Entitled(o, phase[u])
    BY <2>3, <1>1, <1>2 DEF Sound, Entitled, Occupied
  <2> QED BY <2>1, <2>2, <2>4, <2>5, <1>3, <1>4 DEF SharedTyped
<1>6. CASE Reserve(u)
  <2> DEFINE candidates == {p \in Proxies : MayServe(op[u].copy[p])
                                              /\ KindOf[p] \in op[u].kinds}
  <2>1. Sets(u, [Idle EXCEPT !.pc = "unlocking"]) BY <1>6 DEF Reserve
  <2>2. ASSUME NEW p \in candidates,
               WriteBack({p}, [op[u].copy EXCEPT ![p] = Reserved(@)]),
               leased' = [leased EXCEPT ![u] = p], phase' = [phase EXCEPT ![u] = "using"]
        PROVE  SharedTyped'
    <3>1. p \in Proxies /\ MayServe(op[u].copy[p]) OBVIOUS
    <3>2. Sane(Reserved(op[u].copy[p])) BY <1>2, <3>1, ReservedAdvances
    <3> DEFINE copy == [op[u].copy EXCEPT ![p] = Reserved(@)]
    <3>3. copy[p] = Reserved(op[u].copy[p]) BY <1>2, <3>1
    <3>4. WriteBack({p}, copy) BY <2>2
    <3> HIDE DEF copy
    <3>5. HashesSound' BY <1>0, <3>1, <3>2, <3>3, <3>4, WriteBackSound
    <3>6. LeasesSound' BY <1>0, <2>2, <3>1 DEF LeasesSound
    <3>7. \A v \in Solves \ {u} : phase'[v] = phase[v] BY <1>0, <2>2 DEF LeasesSound
    <3> QED BY <2>1, <3>5, <3>6, <3>7, <1>3, <1>4, <1>e, IdleSound DEF SharedTyped
  <2>3. ASSUME phase' = [phase EXCEPT ![u] = "done"], UNCHANGED <<hash, leased>>
        PROVE  SharedTyped'
    <3>1. HashesSound' BY <1>0, <2>3 DEF HashesSound
    <3>2. LeasesSound' BY <1>0, <2>3 DEF LeasesSound
    <3>3. \A v \in Solves \ {u} : phase'[v] = phase[v] BY <1>0, <2>3 DEF LeasesSound
    <3> QED BY <2>1, <3>1, <3>2, <3>3, <1>3, <1>4, <1>e, IdleSound DEF SharedTyped
  <2> QED BY <2>2, <2>3, <1>6 DEF Reserve
<1>7. CASE WriteReport(u)
  <2>1. leased[u] \in Proxies /\ op[u].does \in {"report", "feedback", "bytes"}
        /\ phase[u] \in {"using", "reported"}
    BY <1>0, <1>1, <1>2, <1>7 DEF WriteReport, Entitled, LeasesSound
  <2>2. HashesSound'
    BY <1>0, <1>2, <1>7, <2>1, WriteBackSound DEF WriteReport
  <2>3. /\ UNCHANGED leased
        /\ \E s \in {"reported", "done", phase[u]} : phase' = [phase EXCEPT ![u] = s]
    <3>1. CASE op[u].does = "report" BY <1>7, <3>1 DEF WriteReport
    <3>2. CASE op[u].does = "feedback" BY <1>7, <3>2 DEF WriteReport
    <3>3. CASE op[u].does = "bytes" BY <1>7, <3>3 DEF WriteReport
    <3> QED BY <2>1, <3>1, <3>2, <3>3
  <2>4. LeasesSound' BY <1>0, <2>1, <2>3 DEF LeasesSound
  <2>5. \A v \in Solves \ {u} : phase'[v] = phase[v] BY <1>0, <2>3 DEF LeasesSound
  <2>6. Sets(u, [Idle EXCEPT !.pc = "unlocking"]) BY <1>7 DEF WriteReport
  <2> QED BY <2>2, <2>4, <2>5, <2>6, <1>3, <1>4, <1>e, IdleSound DEF SharedTyped
<1> QED BY <1>5, <1>6, <1>7

(* Giving the lock back and giving up.                                       *)
LEMMA LockedEndsSound ==
    ASSUME SharedTyped, NEW u \in Solves, ReleaseLock(u) \/ DeleteLock(u) \/ GivenUp(u)
    PROVE  SharedTyped'
<1>0. HashesSound /\ LeasesSound /\ OperationsSound /\ BootSound BY DEF SharedTyped
<1>1. UNCHANGED <<hash, leased, boot>>
  BY DEF ReleaseLock, DeleteLock, GivenUp, LockedOnly
<1>2. HashesSound' /\ BootSound' BY <1>0, <1>1 DEF HashesSound, BootSound
<1>3. PICK pc \in Ending : Sets(u, [Idle EXCEPT !.pc = pc])
  <2>1. \/ Sets(u, Idle) \/ Sets(u, [Idle EXCEPT !.pc = "unlocking"])
        \/ Sets(u, [Idle EXCEPT !.pc = "deleting"])
    BY DEF ReleaseLock, DeleteLock, GivenUp
  <2> QED BY <2>1, IdleSound DEF Ending
<1>4. phase' = phase \/ phase' = [phase EXCEPT ![u] = "done"]
  BY DEF ReleaseLock, DeleteLock, GivenUp
<1>5. LeasesSound' /\ \A v \in Solves \ {u} : phase'[v] = phase[v]
  BY <1>0, <1>1, <1>4 DEF LeasesSound
<1>6. OperationsSound' BY <1>0, <1>3, <1>5, IdleSound, SetsSound
<1> QED BY <1>2, <1>5, <1>6 DEF SharedTyped

(* A lock that expires, and a worker that boots.                             *)
LEMMA BootsSound ==
    ASSUME SharedTyped, LockExpires \/ AddWrites \/ \E p \in Proxies : AddReads(p)
    PROVE  SharedTyped'
<1>0. HashesSound /\ LeasesSound /\ OperationsSound /\ BootSound BY DEF SharedTyped
<1>1. UNCHANGED <<leased, phase, op>>
  BY DEF LockExpires, AddWrites, AddReads
<1>2. LeasesSound' /\ OperationsSound'
  BY <1>0, <1>1 DEF LeasesSound, OperationsSound
<1>3. CASE LockExpires
  BY <1>0, <1>2, <1>3 DEF LockExpires, LockedOnly, SharedTyped, HashesSound, BootSound
<1>4. CASE AddWrites
  <2>1. boot.proxy \in Proxies /\ Sane(boot.copy)
    BY <1>0, <1>4 DEF AddWrites, Booting, BootSound
  <2> DEFINE copy == [p \in Proxies |-> Preserved(boot.copy)]
  <2>2. copy[boot.proxy] = boot.copy BY <2>1 DEF Preserved
  <2>3. WriteBack({boot.proxy}, copy) BY <1>4 DEF AddWrites
  <2> HIDE DEF copy
  <2>4. HashesSound' BY <2>1, <2>2, <2>3, <1>0, WriteBackSound
  <2>5. BootSound' BY <1>4, IdleSound DEF AddWrites, BootSound, NoBoot, Sane
  <2> QED BY <2>4, <2>5, <1>2 DEF SharedTyped
<1>5. ASSUME NEW p \in Proxies, AddReads(p) PROVE SharedTyped'
  <2>1. UNCHANGED hash /\ boot' = [proxy |-> p, copy |-> hash[p]]
    BY <1>5 DEF AddReads
  <2>2. BootSound' BY <2>1, <1>0 DEF BootSound, HashesSound
  <2> QED BY <2>1, <2>2, <1>0, <1>2 DEF SharedTyped, HashesSound
<1> QED BY <1>3, <1>4, <1>5

(* A tick ages the copies of an operation, and its clock reading.            *)
LEMMA LaterSound ==
    ASSUME NEW o, Sound(o), Occupied(o), o.lag < MaxLag, NEW at, Entitled(o, at)
    PROVE  /\ Sound(Later(o)) /\ Entitled(Later(o), at)
           /\ Later(o).lag = o.lag + 1
           /\ Later(o).pc = o.pc /\ Later(o).does = o.does /\ Later(o).bytes = o.bytes
           /\ Later(o).outcome = o.outcome /\ Later(o).changed = o.changed
           /\ \A p \in Proxies : Later(o).copy[p] = Older(o.copy[p])
<1> DEFINE aged == [p \in Proxies |-> Older(o.copy[p])]
<1>1. o \in Operation /\ \A p \in Proxies : Sane(o.copy[p]) BY DEF Sound
<1>2. \A p \in Proxies : Sane(Older(o.copy[p])) BY <1>1, OlderAdvances
<1>3. aged \in [Proxies -> Record] BY <1>2 DEF Sane
<1>4. \A p \in Proxies : aged[p] = Older(o.copy[p]) OBVIOUS
<1>5. PICK n \in 0..MaxLag : n = o.lag + 1 BY <1>1, HealthAssumption DEF Operation
<1>6. Later(o) = [o EXCEPT !.lag = n, !.copy = aged] BY <1>1, <1>5 DEF Later, Operation
<1> HIDE DEF aged
<1>7. /\ Later(o) \in Operation /\ Later(o).copy = aged /\ Later(o).lag = n
      /\ Later(o).pc = o.pc /\ Later(o).does = o.does /\ Later(o).bytes = o.bytes
      /\ Later(o).outcome = o.outcome /\ Later(o).changed = o.changed
  BY <1>1, <1>3, <1>6 DEF Operation
<1>8. Sound(Later(o)) BY <1>2, <1>4, <1>7 DEF Sound
<1>9. Entitled(Later(o), at) BY <1>7 DEF Entitled, Occupied
<1> QED BY <1>4, <1>5, <1>7, <1>8, <1>9

(* What a tick does to each operation.                                       *)
LEMMA TicksEach ==
    ASSUME SharedTyped, TicksPass, NEW u \in Solves
    PROVE  /\ ~ Occupied(op[u]) => op'[u] = op[u]
           /\ Occupied(op[u]) => op'[u] = Later(op[u]) /\ op[u].lag < MaxLag
           /\ op'[u].pc = op[u].pc
<1>1. op' = [v \in Solves |-> IF op[v].pc \in {"idle", "unlocking", "deleting"} THEN op[v]
                              ELSE Later(op[v])]
      /\ (Free(u) \/ op[u].lag < MaxLag)
  BY DEF TicksPass
<1>2. Sound(op[u]) /\ Entitled(op[u], phase[u]) /\ op[u].pc \in Steps
  BY DEF SharedTyped, OperationsSound, Sound, Operation
<1>3. op[u].pc \in {"idle", "unlocking", "deleting"} <=> ~ Occupied(op[u])
  BY <1>2 DEF Occupied, Steps
<1>4. ~ Free(u) \/ ~ Occupied(op[u]) BY DEF Free, Occupied
<1> QED BY <1>1, <1>2, <1>3, <1>4, LaterSound

LEMMA TicksSound ==
    ASSUME SharedTyped, TicksPass
    PROVE  SharedTyped'
<1>0. HashesSound /\ LeasesSound /\ OperationsSound /\ BootSound BY DEF SharedTyped
<1>1. /\ UNCHANGED <<leased, phase, boot>>
      /\ hash' = [p \in Proxies |-> Older(hash[p])]
      /\ op' = [u \in Solves |-> op'[u]]
  BY DEF TicksPass
<1>2. HashesSound' BY <1>0, <1>1, OlderAdvances DEF HashesSound, Sane
<1>3. LeasesSound' /\ BootSound' BY <1>0, <1>1 DEF LeasesSound, BootSound
<1>5. ASSUME NEW u \in Solves PROVE Sound(op'[u]) /\ Entitled(op'[u], phase'[u])
  <2>1. Sound(op[u]) /\ Entitled(op[u], phase[u]) BY <1>0 DEF OperationsSound
  <2>2. CASE ~ Occupied(op[u]) BY <2>1, <2>2, <1>1, TicksEach
  <2>3. CASE Occupied(op[u])
    <3>1. op[u].lag < MaxLag /\ op'[u] = Later(op[u]) BY <2>3, TicksEach
    <3> QED BY <2>1, <2>3, <3>1, <1>1, LaterSound
  <2> QED BY <2>2, <2>3
<1>6. OperationsSound' BY <1>1, <1>5 DEF OperationsSound, Sound
<1> QED BY <1>2, <1>3, <1>6 DEF SharedTyped

LEMMA SharedTypedStep ==
    ASSUME SharedTyped, [SharedNext]_sharedVars
    PROVE  SharedTyped'
<1>1. CASE UNCHANGED sharedVars
  BY <1>1 DEF sharedVars, lockVars, SharedTyped, HashesSound, LeasesSound,
              OperationsSound, BootSound
<1>2. 0 \in 0..MaxLag BY HealthAssumption
<1> QED BY <1>1, <1>2, ScriptsSound, BeginSound, LockedReadsSound, LockedWritesSound,
           LockedEndsSound, BootsSound, TicksSound DEF SharedNext

(* Every shared hash, and every copy of one that a worker still has to write *)
(* back, is a sound record: whatever overlaps, expires or boots.             *)
THEOREM SharedSoundness == SharedSpec => []SharedTyped
BY SharedTypedInit, SharedTypedStep, PTL DEF SharedSpec

(* Also with locks that expire and workers that boot among others, a proxy   *)
(* is burned exactly when the traffic its hash accounts for has used up the  *)
(* quota: lost updates lose the traffic and the verdict together.            *)
THEOREM SharedQuota == SharedSpec => []Contract!QuotaRetires
<1>1. SharedTyped => Contract!QuotaRetires
  BY DEF SharedTyped, HashesSound, Sane, Accounted, Contract!QuotaRetires
<1> QED BY <1>1, SharedSoundness, PTL

-----------------------------------------------------------------------------
(* The shared pool: what was computed still holds when it is written         *)

(* Whoever else holds copies is overtaken by a write that changes a hash, or *)
(* its copies are as right as they were.                                     *)
LEMMA OthersHold ==
    ASSUME Consistent, BootConsistent, NEW a,
           OvertakenBy(a) \ {a} \subseteq overtaken',
           \A v \in Solves \ {a} : op'[v] = op[v] /\ leased'[v] = leased[v],
           IF a = "boot" THEN ~ Booting' ELSE UNCHANGED boot,
           \A u \in Solves \cap {a} :
              op'[u].pc \in {"persisting", "writing"} /\ u \notin overtaken' =>
                  Faithful(op[u], leased[u])'
    PROVE  Consistent' /\ BootConsistent'
<1>1. ASSUME NEW v \in Solves \ {a}, op'[v].pc \in {"persisting", "writing"},
             v \notin overtaken'
      PROVE  Faithful(op[v], leased[v])'
  <2>1. op'[v] = op[v] /\ leased'[v] = leased[v] /\ v \notin OvertakenBy(a) BY <1>1
  <2>2. v \in Holding BY <1>1, <2>1 DEF Holding
  <2>3. v \notin overtaken /\ hash' = hash BY <2>1, <2>2 DEF OvertakenBy
  <2>4. Faithful(op[v], leased[v]) BY <1>1, <2>1, <2>3 DEF Consistent
  <2> QED BY <2>1, <2>3, <2>4 DEF Faithful, Reread
<1>2. Consistent' BY <1>1 DEF Consistent
<1>3. ASSUME Booting', "boot" \notin overtaken' PROVE (boot.copy = hash[boot.proxy])'
  <2>1. a # "boot" /\ UNCHANGED boot /\ Booting BY <1>3 DEF Booting
  <2>2. "boot" \in Holding BY <2>1 DEF Holding
  <2>3. "boot" \notin overtaken /\ hash' = hash BY <1>3, <2>1, <2>2 DEF OvertakenBy
  <2> QED BY <2>1, <2>3 DEF BootConsistent
<1> QED BY <1>2, <1>3 DEF BootConsistent

(* A script reads and writes in one step; only others hold copies.           *)
LEMMA ScriptsConsistent ==
    ASSUME SharedTyped, Consistent, BootConsistent, NEW u \in Solves, NEW lag,
           \/ \E kinds \in Asked : ScriptCheckout(u, kinds, lag)
           \/ \E outcome \in Outcomes, nbytes \in Sizes :
                 ScriptReport(u, outcome, nbytes, lag)
           \/ \E accepted \in BOOLEAN : ScriptFeedback(u, accepted, lag)
           \/ \E nbytes \in Sizes : ScriptBytes(u, nbytes)
    PROVE  Consistent' /\ BootConsistent'
<1>1. Free(u) /\ overtaken' = OvertakenBy(u) /\ UNCHANGED <<op, boot>>
  BY DEF ScriptCheckout, ScriptReport, ScriptFeedback, ScriptBytes, Scripts, ScriptOnly
<1>2. leased' = leased \/ \E p : leased' = [leased EXCEPT ![u] = p]
  BY DEF ScriptCheckout, ScriptReport, ScriptFeedback, ScriptBytes
<1>3. \A v \in Solves \ {u} : leased'[v] = leased[v]
  BY <1>2 DEF SharedTyped, LeasesSound
<1>4. op'[u].pc \notin {"persisting", "writing"} BY <1>1 DEF Free
<1>5. u # "boot" BY SharedAssumption
<1> QED BY <1>1, <1>3, <1>4, <1>5, OthersHold

(* Reads under the lock compute what the contract makes of the hashes.       *)
LEMMA ReadsConsistent ==
    ASSUME SharedTyped, Consistent, BootConsistent, NEW u \in Solves,
           \/ BeginAny(u) \/ AcquireLock(u) \/ ReadForCheckout(u) \/ ReadForReport(u)
           \/ ReleaseLock(u) \/ DeleteLock(u) \/ GivenUp(u)
    PROVE  Consistent' /\ BootConsistent'
<1>0. HashesSound /\ LeasesSound /\ OperationsSound /\ BootSound BY DEF SharedTyped
<1>1. UNCHANGED <<hash, leased, boot>> /\ overtaken \ {u} \subseteq overtaken'
  BY DEF BeginAny, Begin, AcquireLock, ReadForCheckout, ReadForReport, ReleaseLock,
         DeleteLock, GivenUp, LockedOnly, lockVars, Ends, OvertakenBy
<1>2. /\ op \in [Solves -> Operation] /\ op[u] \in Operation
      /\ Entitled(op[u], phase[u])
  BY <1>0 DEF OperationsSound
<1>3. ASSUME NEW o, Sets(u, o),
             o.pc \in {"persisting", "writing"} => Faithful(o, leased[u])
      PROVE  Consistent' /\ BootConsistent'
  <2>1. op'[u] = o /\ \A v \in Solves \ {u} : op'[v] = op[v]
    BY <1>2, <1>3 DEF Sets
  <2>2. op'[u].pc \in {"persisting", "writing"} => Faithful(op[u], leased[u])'
    BY <1>1, <1>3, <2>1 DEF Faithful, Reread
  <2>3. OvertakenBy(u) \ {u} \subseteq overtaken' BY <1>1 DEF OvertakenBy
  <2>4. u # "boot" BY SharedAssumption
  <2>5. \A v \in Solves \ {u} : op'[v] = op[v] /\ leased'[v] = leased[v] BY <1>1, <2>1
  <2> QED BY <1>1, <2>2, <2>3, <2>4, <2>5, OthersHold
<1>4. CASE BeginAny(u)
  <2>1. PICK does, kinds, outcome, nbytes :
           Sets(u, [Idle EXCEPT !.does = does, !.pc = "locking", !.kinds = kinds,
                                !.outcome = outcome, !.bytes = nbytes])
    BY <1>4 DEF BeginAny, Begin
  <2>2. PICK o : o = [Idle EXCEPT !.does = does, !.pc = "locking", !.kinds = kinds,
                                  !.outcome = outcome, !.bytes = nbytes]
    OBVIOUS
  <2>3. o.pc = "locking" BY <2>2 DEF Idle
  <2> QED BY <2>1, <2>2, <2>3, <1>3
<1>5. CASE AcquireLock(u)
  <2>1. PICK o : o = [op[u] EXCEPT !.pc = "reading"] OBVIOUS
  <2>2. o.pc = "reading" BY <1>2, <2>1 DEF Operation
  <2>3. Sets(u, o) BY <1>5, <2>1 DEF AcquireLock
  <2> QED BY <2>2, <2>3, <1>3
<1>6. CASE ReadForCheckout(u)
  <2> DEFINE judged == [p \in Proxies |-> Reviewed(hash[p], op[u].lag)]
             changed == {p \in Proxies : judged[p] # hash[p]}
             next == IF changed # {} THEN "persisting" ELSE "writing"
             o == [op[u] EXCEPT !.copy = judged, !.changed = changed, !.pc = next]
  <2>1. Sets(u, o) /\ op[u].does = "checkout" BY <1>6 DEF ReadForCheckout
  <2>2. /\ o.copy = judged /\ o.pc = next /\ o.does = "checkout"
        /\ o.changed = changed /\ o.lag = op[u].lag
    BY <1>2, <2>1 DEF Operation
  <2>3. \A p \in Proxies : judged[p] = Reviewed(hash[p], op[u].lag) OBVIOUS
  <2>4. \A p \in Proxies : p \notin changed => judged[p] = hash[p] OBVIOUS
  <2>5. next = "persisting" \/ (next = "writing" /\ changed = {}) OBVIOUS
  <2> HIDE DEF judged, changed, next, o
  <2>6. \A p \in Proxies :
           Reread(o, hash[p], o.copy[p], o.pc = "persisting" /\ p \in o.changed)
    BY <2>2, <2>3, <2>4, <2>5 DEF Reread
  <2>7. Faithful(o, leased[u]) BY <2>2, <2>6 DEF Faithful
  <2> QED BY <2>1, <2>7, <1>3
<1>7. CASE ReadForReport(u)
  <2> DEFINE p == leased[u]
             h == IF op[u].does = "bytes" THEN Carried(hash[p], op[u].bytes)
                  ELSE Reported(hash[p], op[u].outcome, op[u].bytes, 0)
             o == [op[u] EXCEPT !.copy[p] = h, !.lag = 0, !.pc = "writing"]
  <2>1. Sets(u, o) /\ op[u].does # "checkout" /\ op[u].pc = "reading"
    BY <1>7 DEF ReadForReport
  <2>2. p \in Proxies
    BY <1>0, <1>2, <2>1 DEF Entitled, Occupied, LeasesSound
  <2>3. /\ o.copy[p] = h /\ o.pc = "writing" /\ o.does = op[u].does
        /\ o.bytes = op[u].bytes /\ o.outcome = op[u].outcome /\ o.lag = 0
    BY <1>2, <2>2 DEF Operation
  <2>4. Faithful(o, p)
    <3> HIDE DEF o, p
    <3> QED BY <2>1, <2>3 DEF Faithful
  <2> HIDE DEF o, h
  <2> QED BY <2>1, <2>4, <1>3
<1>8. CASE ReleaseLock(u) \/ DeleteLock(u) \/ GivenUp(u)
  <2>1. PICK pc \in Ending : Sets(u, [Idle EXCEPT !.pc = pc])
    <3>1. \/ Sets(u, Idle) \/ Sets(u, [Idle EXCEPT !.pc = "unlocking"])
          \/ Sets(u, [Idle EXCEPT !.pc = "deleting"])
      BY <1>8 DEF ReleaseLock, DeleteLock, GivenUp
    <3> QED BY <3>1, IdleSound DEF Ending
  <2>2. PICK o : o = [Idle EXCEPT !.pc = pc] OBVIOUS
  <2>3. o.pc \notin {"persisting", "writing"} BY <2>2, IdleSound DEF Ending
  <2> QED BY <2>1, <2>2, <2>3, <1>3
<1> QED BY <1>4, <1>5, <1>6, <1>7, <1>8

(* Persisting a review leaves what the reservation will be based on; after   *)
(* the last write there is nothing left to be faithful to.                   *)
LEMMA WritesConsistent ==
    ASSUME SharedTyped, Consistent, BootConsistent, NEW u \in Solves,
           Persist(u) \/ Reserve(u) \/ WriteReport(u)
    PROVE  Consistent' /\ BootConsistent'
<1>0. HashesSound /\ LeasesSound /\ OperationsSound /\ BootSound BY DEF SharedTyped
<1>1. /\ UNCHANGED boot /\ u # "boot"
      /\ OvertakenBy(u) \ {u} \subseteq overtaken'
  BY SharedAssumption DEF Persist, Reserve, WriteReport, LockedOnly, Ends
<1>2. /\ op \in [Solves -> Operation] /\ op[u] \in Operation /\ Entitled(op[u], phase[u])
  BY <1>0 DEF OperationsSound
<1>3. ASSUME NEW o, Sets(u, o)
      PROVE  op'[u] = o /\ \A v \in Solves \ {u} : op'[v] = op[v]
  BY <1>2, <1>3 DEF Sets
<1>4. \A v \in Solves \ {u} : leased'[v] = leased[v]
  BY <1>0 DEF Persist, Reserve, WriteReport, LeasesSound
<1>5. CASE Persist(u)
  <2> DEFINE o == [op[u] EXCEPT !.pc = "writing"]
  <2>1. Sets(u, o) /\ op[u].pc = "persisting" /\ leased' = leased
        /\ overtaken \subseteq overtaken'
        /\ hash' = [p \in Proxies |-> IF p \in op[u].changed THEN op[u].copy[p] ELSE hash[p]]
    BY <1>5 DEF Persist, WriteBack, OvertakenBy
  <2>2. /\ o.copy = op[u].copy /\ o.pc = "writing" /\ o.does = "checkout"
        /\ o.lag = op[u].lag /\ op[u].does = "checkout"
    BY <1>2, <2>1 DEF Operation, Entitled
  <2> HIDE DEF o
  <2>3. op'[u] = o /\ \A v \in Solves \ {u} : op'[v] = op[v] BY <2>1, <1>3
  <2>4. ASSUME u \notin overtaken' PROVE Faithful(op[u], leased[u])'
    <3>1. Faithful(op[u], leased[u]) BY <2>1, <2>4 DEF Consistent
    <3>2. ASSUME NEW p \in Proxies
          PROVE  o.copy[p] = Reviewed(hash'[p], o.lag) /\ o.copy[p] = hash'[p]
      <4>1. Reread(op[u], hash[p], op[u].copy[p], p \in op[u].changed)
        BY <3>1, <2>1, <2>2 DEF Faithful
      <4>2. op[u].copy[p] = Reviewed(hash[p], op[u].lag)
            /\ (p \notin op[u].changed => op[u].copy[p] = hash[p])
        BY <4>1 DEF Reread
      <4>3. Sane(hash[p]) /\ op[u].lag \in 0..MaxLag
        BY <1>0, <1>2 DEF HashesSound, Operation
      <4>4. hash'[p] = op[u].copy[p] BY <4>2, <2>1
      <4> QED BY <4>2, <4>3, <4>4, <2>2, ReviewedSettles
    <3> QED BY <2>2, <2>3, <3>2 DEF Faithful, Reread
  <2> QED BY <1>1, <1>4, <2>3, <2>4, OthersHold
<1>6. CASE Reserve(u) \/ WriteReport(u)
  <2>1. Sets(u, [Idle EXCEPT !.pc = "unlocking"]) BY <1>6 DEF Reserve, WriteReport
  <2>2. PICK o : o = [Idle EXCEPT !.pc = "unlocking"] OBVIOUS
  <2>3. o.pc = "unlocking" BY <2>2 DEF Idle
  <2>4. op'[u] = o /\ \A v \in Solves \ {u} : op'[v] = op[v] BY <2>1, <2>2, <1>3
  <2> QED BY <1>1, <1>4, <2>3, <2>4, OthersHold
<1> QED BY <1>5, <1>6

(* A tick makes the hashes, the copies and the clock readings older          *)
(* together.                                                                 *)
LEMMA TicksConsistent ==
    ASSUME SharedTyped, Consistent, TicksPass
    PROVE  Consistent' /\ BootConsistent'
<1>0. HashesSound /\ LeasesSound /\ OperationsSound BY DEF SharedTyped
<1>1. /\ UNCHANGED <<leased, overtaken, boot>> /\ ~ Booting
      /\ hash' = [p \in Proxies |-> Older(hash[p])]
  BY DEF TicksPass, lockVars
<1>2. BootConsistent' BY <1>1 DEF BootConsistent, Booting
<1>3. ASSUME NEW u \in Solves, op[u].pc \in {"persisting", "writing"},
             Faithful(op[u], leased[u])
      PROVE  Faithful(op[u], leased[u])'
  <2> DEFINE o == op[u]
             q == leased[u]
  <2>1. /\ Sound(o) /\ o \in Operation /\ Entitled(o, phase[u]) /\ Occupied(o)
        /\ op'[u] = Later(o) /\ o.lag < MaxLag
    BY <1>0, <1>3, TicksEach DEF OperationsSound, Occupied
  <2>2. o.lag \in 0..MaxLag /\ o.outcome \in Outcomes /\ o.bytes \in Nat
    BY <2>1 DEF Operation
  <2>3. \A p \in Proxies : Sane(hash[p]) /\ hash'[p] = Older(hash[p])
    BY <1>0, <1>1 DEF HashesSound
  <2>4. /\ Later(o).lag = o.lag + 1 /\ Later(o).pc = o.pc /\ Later(o).does = o.does
        /\ Later(o).bytes = o.bytes /\ Later(o).outcome = o.outcome
        /\ Later(o).changed = o.changed
        /\ \A p \in Proxies : Later(o).copy[p] = Older(o.copy[p])
    BY <2>1, LaterSound
  <2>5. ASSUME o.does = "checkout", NEW p \in Proxies
        PROVE  Reread(Later(o), hash'[p], Later(o).copy[p],
                      o.pc = "persisting" /\ p \in o.changed)
    <3>1. Reread(o, hash[p], o.copy[p], o.pc = "persisting" /\ p \in o.changed)
      BY <1>3, <2>5 DEF Faithful
    <3>2. Reviewed(Older(hash[p]), o.lag + 1) = Older(Reviewed(hash[p], o.lag))
      BY <2>1, <2>2, <2>3, ReviewedOlder
    <3> QED BY <3>1, <3>2, <2>3, <2>4 DEF Reread
  <2>6. ASSUME o.does \in {"report", "feedback"}
        PROVE  Later(o).copy[q] = Reported(hash'[q], o.outcome, o.bytes, o.lag + 1)
    <3>1. q \in Proxies BY <1>0, <2>1, <2>6 DEF LeasesSound, Entitled
    <3>2. o.copy[q] = Reported(hash[q], o.outcome, o.bytes, o.lag)
      BY <1>3, <2>6 DEF Faithful
    <3> HIDE DEF o, q
    <3> QED BY <3>1, <3>2, <2>1, <2>2, <2>3, <2>4, ReportedOlder
  <2>7. ASSUME o.does = "bytes"
        PROVE  Later(o).copy[q] = Carried(hash'[q], o.bytes)
    <3>1. q \in Proxies BY <1>0, <2>1, <2>7 DEF LeasesSound, Entitled
    <3>2. o.copy[q] = Carried(hash[q], o.bytes) BY <1>3, <2>7 DEF Faithful
    <3> HIDE DEF o, q
    <3> QED BY <3>1, <3>2, <2>2, <2>3, <2>4, CarriedOlder
  <2> QED BY <2>1, <2>4, <2>5, <2>6, <2>7, <1>1 DEF Faithful
<1>4. \A u \in Solves : op'[u].pc = op[u].pc BY TicksEach
<1>5. Consistent' BY <1>1, <1>3, <1>4 DEF Consistent
<1> QED BY <1>2, <1>5

(* A boot that was not overtaken re-adds what is there.                      *)
LEMMA BootsConsistent ==
    ASSUME SharedTyped, Consistent, BootConsistent,
           LockExpires \/ AddWrites \/ \E p \in Proxies : AddReads(p)
    PROVE  Consistent' /\ BootConsistent'
<1>1. UNCHANGED <<op, leased>> BY DEF LockExpires, AddWrites, AddReads
<1>2. CASE LockExpires
  <2>1. UNCHANGED <<hash, overtaken, boot>> BY <1>2 DEF LockExpires, LockedOnly
  <2> QED BY <1>1, <2>1
          DEF Consistent, BootConsistent, Booting, Faithful, Reread
<1>3. CASE AddWrites
  <2>1. overtaken' = OvertakenBy("boot") \ {"boot"} /\ ~ Booting'
    BY <1>3 DEF AddWrites, Booting, NoBoot
  <2>2. Solves \cap {"boot"} = {} BY SharedAssumption
  <2> QED BY <1>1, <2>1, <2>2, OthersHold
<1>4. ASSUME NEW p \in Proxies, AddReads(p) PROVE Consistent' /\ BootConsistent'
  <2>1. UNCHANGED <<hash, overtaken>> /\ boot' = [proxy |-> p, copy |-> hash[p]]
    BY <1>4 DEF AddReads, lockVars
  <2>2. Consistent' BY <1>1, <2>1 DEF Consistent, Faithful, Reread
  <2>3. BootConsistent' BY <2>1 DEF BootConsistent
  <2> QED BY <2>2, <2>3
<1> QED BY <1>2, <1>3, <1>4

\* A step of a solve.
SolveStep(u) ==
    \/ \E lag \in 0..MaxLag :
          \/ \E kinds \in Asked : ScriptCheckout(u, kinds, lag)
          \/ \E outcome \in Outcomes, nbytes \in Sizes :
                ScriptReport(u, outcome, nbytes, lag)
          \/ \E accepted \in BOOLEAN : ScriptFeedback(u, accepted, lag)
    \/ \E nbytes \in Sizes : ScriptBytes(u, nbytes)
    \/ BeginAny(u) \/ AcquireLock(u)
    \/ ReadForCheckout(u) \/ Persist(u) \/ Reserve(u)
    \/ ReadForReport(u) \/ WriteReport(u) \/ ReleaseLock(u) \/ DeleteLock(u)
    \/ GivenUp(u)

LEMMA SharedInvStep ==
    ASSUME SharedInv, [SharedNext]_sharedVars
    PROVE  SharedInv'
<1>0. SharedTyped /\ Consistent /\ BootConsistent BY DEF SharedInv
<1>1. SharedTyped' BY <1>0, SharedTypedStep
<1>2. CASE UNCHANGED sharedVars
  BY <1>2, <1>0, <1>1
     DEF sharedVars, lockVars, SharedInv, Consistent, Faithful, Reread,
         BootConsistent, Booting
<1>3. ASSUME NEW u \in Solves, SolveStep(u) PROVE Consistent' /\ BootConsistent'
  <2>1. 0 \in 0..MaxLag BY HealthAssumption
  <2> QED BY <1>0, <1>3, <2>1, ScriptsConsistent, ReadsConsistent, WritesConsistent
          DEF SolveStep
<1>4. CASE LockExpires \/ AddWrites \/ \E p \in Proxies : AddReads(p)
  BY <1>0, <1>1, <1>4, BootsConsistent DEF SharedInv
<1>5. CASE TicksPass
  BY <1>0, <1>1, <1>5, TicksConsistent DEF SharedInv
<1> QED BY <1>1, <1>2, <1>3, <1>4, <1>5 DEF SharedNext, SolveStep, SharedInv

(* The invariant of the shared pool.                                         *)
THEOREM SharedInvariant == SharedSpec => []SharedInv
<1>1. SharedInit => SharedInv
  BY SharedTypedInit, IdleSound
     DEF SharedInit, SharedInv, Consistent, BootConsistent, Booting, NoBoot
<1>2. SharedInv /\ [SharedNext]_sharedVars => SharedInv' BY SharedInvStep
<1> QED BY <1>1, <1>2, PTL DEF SharedSpec

-----------------------------------------------------------------------------
(* The shared pool keeps the contract                                        *)

(* A script is one operation of the contract.                                *)
LEMMA ScriptsKeepContract ==
    ASSUME SharedTyped, NEW u \in Solves, NEW lag \in 0..MaxLag,
           \/ \E kinds \in Asked : ScriptCheckout(u, kinds, lag)
           \/ \E outcome \in Outcomes, nbytes \in Sizes :
                 ScriptReport(u, outcome, nbytes, lag)
           \/ \E accepted \in BOOLEAN : ScriptFeedback(u, accepted, lag)
           \/ \E nbytes \in Sizes : ScriptBytes(u, nbytes)
    PROVE  Contract!HealthNext
<1>0. HashesSound /\ LeasesSound BY DEF SharedTyped
<1>1. \A p \in Proxies : Sane(hash[p]) BY <1>0 DEF HashesSound
<1>2. ASSUME NEW kinds \in Asked, ScriptCheckout(u, kinds, lag)
      PROVE  (\E p \in Proxies : Contract!Lend(u, p, lag)) \/ Contract!Decline(u, lag)
  <2> DEFINE seen == [p \in Proxies |-> LuaReviewed(hash[p], lag)]
             reviewed == [p \in Proxies |-> Contract!Reviewed(hash[p], lag)]
             candidates == {p \in Proxies : LuaAvailable(seen[p]) /\ KindOf[p] \in kinds}
  <2>1. \A p \in Proxies : seen[p] = Reviewed(hash[p], lag) /\ Sane(seen[p])
    BY <1>1, ScriptReviews, ReviewedAdvances
  <2>2. seen = reviewed BY <2>1, ContractReviews
  <2>3. seen \in [Proxies -> Record] BY <2>1 DEF Sane
  <2>4. phase[u] = "new" BY <1>2 DEF ScriptCheckout
  <2>5. ASSUME NEW p \in candidates,
               hash' = [seen EXCEPT ![p].state = IF seen[p].ok = 0 THEN "probing" ELSE @],
               leased' = [leased EXCEPT ![u] = p],
               phase' = [phase EXCEPT ![u] = "using"]
        PROVE  Contract!Lend(u, p, lag)
    <3>1. p \in Proxies /\ MayServe(seen[p]) BY <2>1, <2>5, <1>1, ScriptReviews
    <3> HIDE DEF seen
    <3>2. hash' = [seen EXCEPT ![p] = Reserved(seen[p])]
      BY <2>3, <2>5, <3>1 DEF Reserved, Record
    <3>3. Contract!MayServe(reviewed[p]) /\ hash' = [reviewed EXCEPT ![p] = Contract!Reserved(@)]
      BY <2>2, <3>1, <3>2, ContractLends
    <3> QED BY <2>4, <2>5, <3>3 DEF Contract!Lend, Contract!To
  <2>6. ASSUME hash' = seen, phase' = [phase EXCEPT ![u] = "done"], UNCHANGED leased
        PROVE  Contract!Decline(u, lag)
    BY <2>2, <2>4, <2>6 DEF Contract!Decline, Contract!To
  <2>7. \/ \E p \in candidates :
             /\ hash' = [seen EXCEPT ![p].state = IF seen[p].ok = 0 THEN "probing" ELSE @]
             /\ leased' = [leased EXCEPT ![u] = p]
             /\ phase' = [phase EXCEPT ![u] = "using"]
        \/ hash' = seen /\ phase' = [phase EXCEPT ![u] = "done"] /\ UNCHANGED leased
    BY <1>2 DEF ScriptCheckout
  <2>8. candidates \subseteq Proxies OBVIOUS
  <2> HIDE DEF seen, reviewed, candidates
  <2> QED BY <2>5, <2>6, <2>7, <2>8
<1>3. ASSUME NEW outcome \in Outcomes, NEW nbytes \in Sizes,
             ScriptReport(u, outcome, nbytes, lag)
      PROVE  Contract!Report(u, outcome, nbytes, lag)
  <2>1. nbytes \in Nat /\ leased[u] \in Proxies /\ Sane(hash[leased[u]])
    BY <1>0, <1>3, HealthAssumption DEF ScriptReport, LeasesSound, HashesSound
  <2>2. LuaReported(hash[leased[u]], outcome, nbytes, lag)
          = Contract!Reported(hash[leased[u]], outcome, nbytes, lag)
    BY <2>1, ScriptReports, ContractReports
  <2> QED BY <2>2, <1>3 DEF ScriptReport, Contract!Report, Contract!To
<1>4. ASSUME NEW accepted \in BOOLEAN, ScriptFeedback(u, accepted, lag)
      PROVE  Contract!Feedback(u, accepted, lag)
  <2> DEFINE outcome == IF accepted THEN "success" ELSE "later"
  <2>1. 0 \in Nat /\ outcome \in Outcomes /\ leased[u] \in Proxies /\ Sane(hash[leased[u]])
    BY <1>0, <1>4 DEF ScriptFeedback, LeasesSound, HashesSound, Outcomes
  <2>2. hash' = [hash EXCEPT ![leased[u]] = LuaReported(@, outcome, 0, lag)]
        /\ phase[u] = "reported" /\ phase' = [phase EXCEPT ![u] = "done"]
        /\ UNCHANGED leased
    BY <1>4 DEF ScriptFeedback
  <2>3. LuaReported(hash[leased[u]], outcome, 0, lag)
          = Contract!Reported(hash[leased[u]], outcome, 0, lag)
    BY <2>1, ScriptReports, ContractReports
  <2> QED BY <2>2, <2>3 DEF Contract!Feedback, Contract!To
<1>5. ASSUME NEW nbytes \in Sizes, ScriptBytes(u, nbytes)
      PROVE  Contract!CarryBytes(u, nbytes)
  <2>1. nbytes \in Nat /\ leased[u] \in Proxies /\ Sane(hash[leased[u]])
        /\ "later" \in Outcomes
    BY <1>0, <1>5, HealthAssumption DEF ScriptBytes, LeasesSound, HashesSound, Outcomes
  <2>2. LuaCarried(hash[leased[u]], nbytes) = Contract!Carried(hash[leased[u]], nbytes)
    BY <2>1, ScriptReports, ContractReports
  <2> QED BY <2>2, <1>5 DEF ScriptBytes, Contract!CarryBytes
<1> QED BY <1>2, <1>3, <1>4, <1>5, ContractSets DEF Contract!HealthNext

(* A write of an operation that was not overtaken is one operation of the    *)
(* contract, on the hashes as they are when it is made, with the clock       *)
(* reading the operation took.                                               *)
LEMMA WritesKeepContract ==
    ASSUME SharedInv, NEW u \in Solves, u \notin overtaken,
           Persist(u) \/ Reserve(u) \/ WriteReport(u)
    PROVE  Contract!HealthNext
<1>0. HashesSound /\ LeasesSound /\ OperationsSound BY DEF SharedInv, SharedTyped
<1>1. op[u].pc \in {"persisting", "writing"} BY DEF Persist, Reserve, WriteReport
<1>2. Faithful(op[u], leased[u]) BY <1>1 DEF SharedInv, Consistent
<1>3. op[u] \in Operation /\ Entitled(op[u], phase[u]) /\ Occupied(op[u])
  BY <1>0, <1>1 DEF OperationsSound, Occupied
<1> DEFINE lag == op[u].lag
<1>4. lag \in 0..MaxLag BY <1>3 DEF Operation
<1>5. CASE Persist(u)
  <2>1. op[u].does = "checkout" /\ op[u].changed \in SUBSET Proxies
    BY <1>3, <1>5 DEF Persist, Entitled, Operation
  <2>2. ASSUME NEW p \in Proxies
        PROVE  /\ op[u].copy[p] = Contract!Reviewed(hash[p], lag)
               /\ p \notin op[u].changed => op[u].copy[p] = hash[p]
    <3>1. Reread(op[u], hash[p], op[u].copy[p], p \in op[u].changed)
      BY <1>2, <1>5, <2>1 DEF Persist, Faithful
    <3> QED BY <3>1, ContractReviews DEF Reread
  <2>3. Contract!Review(op[u].changed, lag)
    BY <1>5, <2>1, <2>2 DEF Persist, WriteBack, Contract!Review
  <2> QED BY <1>4, <2>1, <2>3 DEF Contract!HealthNext
<1>6. CASE Reserve(u)
  <2> DEFINE candidates == {p \in Proxies : MayServe(op[u].copy[p])
                                              /\ KindOf[p] \in op[u].kinds}
             reviewed == [p \in Proxies |-> Contract!Reviewed(hash[p], lag)]
  <2>1. op[u].does = "checkout" /\ op[u].pc = "writing" BY <1>6 DEF Reserve
  <2>2. phase[u] = "new" BY <1>3, <2>1 DEF Entitled
  <2>3. \A p \in Proxies : op[u].copy[p] = reviewed[p] /\ reviewed[p] = hash[p]
    <3> SUFFICES ASSUME NEW p \in Proxies
                 PROVE  op[u].copy[p] = reviewed[p] /\ reviewed[p] = hash[p]
      OBVIOUS
    <3>1. Reread(op[u], hash[p], op[u].copy[p], FALSE) BY <1>2, <2>1 DEF Faithful
    <3> QED BY <3>1, ContractReviews DEF Reread
  <2>4. reviewed = hash BY <2>3, <1>0 DEF HashesSound
  <2>5. ASSUME NEW p \in candidates,
               WriteBack({p}, [op[u].copy EXCEPT ![p] = Reserved(@)]),
               leased' = [leased EXCEPT ![u] = p], phase' = [phase EXCEPT ![u] = "using"]
        PROVE  Contract!Lend(u, p, lag)
    <3>1. p \in Proxies /\ MayServe(reviewed[p]) BY <2>3
    <3>2. Contract!MayServe(reviewed[p]) BY <3>1, ContractLends
    <3> DEFINE copy == [op[u].copy EXCEPT ![p] = Reserved(@)]
    <3>3. copy[p] = Reserved(op[u].copy[p])
      BY <1>3, <3>1 DEF Operation
    <3>4. WriteBack({p}, copy) BY <2>5
    <3> HIDE DEF copy, reviewed
    <3>5. hash' = [reviewed EXCEPT ![p] = Contract!Reserved(@)]
      BY <2>3, <2>4, <3>1, <3>3, <3>4, <1>0, ContractLends DEF WriteBack, HashesSound
    <3> QED BY <2>2, <2>5, <3>2, <3>5 DEF Contract!Lend, Contract!To, reviewed
  <2>6. ASSUME phase' = [phase EXCEPT ![u] = "done"], UNCHANGED <<hash, leased>>
        PROVE  Contract!Decline(u, lag)
    BY <2>2, <2>4, <2>6 DEF Contract!Decline, Contract!To
  <2>7. candidates \subseteq Proxies OBVIOUS
  <2>8. \/ \E p \in candidates :
             /\ WriteBack({p}, [op[u].copy EXCEPT ![p] = Reserved(@)])
             /\ leased' = [leased EXCEPT ![u] = p]
             /\ phase' = [phase EXCEPT ![u] = "using"]
        \/ phase' = [phase EXCEPT ![u] = "done"] /\ UNCHANGED <<hash, leased>>
    BY <1>6 DEF Reserve
  <2> HIDE DEF candidates
  <2> QED BY <1>4, <2>5, <2>6, <2>7, <2>8 DEF Contract!HealthNext
<1>7. CASE WriteReport(u)
  <2> DEFINE p == leased[u]
             h == op[u].copy[p]
  <2>1. op[u].pc = "writing" /\ op[u].does # "checkout" BY <1>7 DEF WriteReport
  <2>2. p \in Proxies /\ op[u].does \in {"report", "feedback", "bytes"}
    BY <1>0, <1>3, <2>1 DEF Entitled, LeasesSound
  <2>3. hash' = [hash EXCEPT ![p] = h] /\ UNCHANGED leased
    BY <1>0, <1>7, <2>2 DEF WriteReport, WriteBack, HashesSound
  <2>4. CASE op[u].does = "report"
    <3>1. phase[u] = "using" /\ op[u].bytes \in Sizes /\ op[u].outcome \in Outcomes
      BY <1>3, <2>4 DEF Entitled, Operation
    <3>2. h = Contract!Reported(hash[p], op[u].outcome, op[u].bytes, lag)
      BY <1>2, <2>1, <2>4, ContractReports DEF Faithful
    <3>3. phase' = [phase EXCEPT ![u] = "reported"] BY <1>7, <2>4 DEF WriteReport
    <3>4. Contract!Report(u, op[u].outcome, op[u].bytes, lag)
      BY <2>3, <3>1, <3>2, <3>3 DEF Contract!Report, Contract!To
    <3> QED BY <1>4, <3>1, <3>4, ContractSets DEF Contract!HealthNext
  <2>5. CASE op[u].does = "feedback"
    <3>1. phase[u] = "reported" /\ op[u].bytes = 0 /\ op[u].outcome \in {"success", "later"}
      BY <1>3, <2>5 DEF Entitled
    <3>2. h = Contract!Reported(hash[p], op[u].outcome, 0, lag)
      BY <1>2, <2>1, <2>5, <3>1, ContractReports DEF Faithful
    <3>3. phase' = [phase EXCEPT ![u] = "done"] BY <1>7, <2>5 DEF WriteReport
    <3>4. PICK accepted \in BOOLEAN :
             op[u].outcome = IF accepted THEN "success" ELSE "later"
      BY <3>1
    <3>5. Contract!Feedback(u, accepted, lag)
      BY <2>3, <3>1, <3>2, <3>3, <3>4 DEF Contract!Feedback, Contract!To
    <3> QED BY <1>4, <3>5 DEF Contract!HealthNext
  <2>6. CASE op[u].does = "bytes"
    <3>1. phase[u] = "using" /\ op[u].bytes \in Sizes /\ op[u].bytes > 0
      BY <1>3, <2>6 DEF Entitled
    <3>2. h = Contract!Carried(hash[p], op[u].bytes)
      BY <1>2, <2>1, <2>6, ContractReports DEF Faithful
    <3>3. phase' = phase BY <1>0, <1>7, <2>6 DEF WriteReport, LeasesSound
    <3>4. Contract!CarryBytes(u, op[u].bytes)
      BY <2>3, <3>1, <3>2, <3>3 DEF Contract!CarryBytes
    <3> QED BY <3>1, <3>4 DEF Contract!HealthNext
  <2> QED BY <2>2, <2>4, <2>5, <2>6
<1> QED BY <1>5, <1>6, <1>7

(* A write moves its operation on.                                           *)
LEMMA WritesMoveOn ==
    ASSUME SharedTyped, NEW u \in Solves, Persist(u) \/ Reserve(u) \/ WriteReport(u)
    PROVE  /\ op[u].pc \in {"persisting", "writing"} /\ op'[u].pc # op[u].pc
           /\ op'[u].pc \in {"writing", "unlocking"}
           /\ Persist(u) \/ op'[u].pc = "unlocking"
<1>1. op \in [Solves -> Operation] /\ op[u] \in Operation
  BY DEF SharedTyped, OperationsSound
<1>2. CASE Persist(u)
  <2>1. Sets(u, [op[u] EXCEPT !.pc = "writing"]) /\ op[u].pc = "persisting"
    BY <1>2 DEF Persist
  <2>2. op'[u] = [op[u] EXCEPT !.pc = "writing"] BY <1>1, <2>1 DEF Sets
  <2> QED BY <1>1, <1>2, <2>1, <2>2 DEF Operation
<1>3. CASE Reserve(u) \/ WriteReport(u)
  <2>1. Sets(u, [Idle EXCEPT !.pc = "unlocking"]) /\ op[u].pc = "writing"
    BY <1>3 DEF Reserve, WriteReport
  <2>2. op'[u] = [Idle EXCEPT !.pc = "unlocking"] BY <1>1, <2>1 DEF Sets
  <2>3. op'[u].pc = "unlocking" BY <2>2 DEF Idle
  <2> QED BY <2>1, <2>3
<1> QED BY <1>2, <1>3

(* Every other step leaves the hashes alone, or is a tick, or gives a solve  *)
(* up.                                                                       *)
LEMMA StepsKeepContract ==
    ASSUME SharedInv, SharedNext
    PROVE  Contract!HealthNext \/ OvertakenActs \/ UNCHANGED <<hash, leased, phase>>
<1>0. SharedTyped /\ BootConsistent BY DEF SharedInv
<1>1. ASSUME NEW u \in Solves, SolveStep(u)
      PROVE  Contract!HealthNext \/ OvertakenActs \/ UNCHANGED <<hash, leased, phase>>
  <2>1. 0 \in 0..MaxLag BY HealthAssumption
  <2>2. CASE \/ BeginAny(u) \/ AcquireLock(u) \/ ReadForCheckout(u) \/ ReadForReport(u)
             \/ ReleaseLock(u) \/ DeleteLock(u)
    BY <2>2 DEF BeginAny, Begin, AcquireLock, ReadForCheckout, ReadForReport,
                ReleaseLock, DeleteLock
  <2>3. CASE GivenUp(u)
    <3>1. phase[u] \in {"new", "using", "reported"}
      BY <2>3, <1>0 DEF GivenUp, SharedTyped, LeasesSound
    <3>2. Contract!Leave(u) BY <2>3, <3>1 DEF GivenUp, Contract!Leave, Contract!To
    <3> QED BY <3>2 DEF Contract!HealthNext
  <2>4. CASE Persist(u) \/ Reserve(u) \/ WriteReport(u)
    <3>1. CASE u \in overtaken
      <4>1. op'[u].pc # op[u].pc BY <1>0, <2>4, WritesMoveOn
      <4> QED BY <3>1, <4>1 DEF OvertakenActs
    <3>2. CASE u \notin overtaken BY <3>2, <2>4, WritesKeepContract
    <3> QED BY <3>1, <3>2
  <2> QED BY <1>0, <1>1, <2>1, <2>2, <2>3, <2>4, ScriptsKeepContract DEF SolveStep
<1>2. CASE LockExpires \/ \E p \in Proxies : AddReads(p)
  BY <1>2 DEF LockExpires, AddReads
<1>3. CASE AddWrites
  <2>1. /\ Booting /\ ~ Booting' /\ UNCHANGED <<leased, phase>>
        /\ WriteBack({boot.proxy}, [p \in Proxies |-> Preserved(boot.copy)])
    BY <1>3 DEF AddWrites, Booting, NoBoot
  <2>2. CASE "boot" \in overtaken BY <2>1, <2>2 DEF OvertakenActs
  <2>3. CASE "boot" \notin overtaken
    <3>1. boot.copy = hash[boot.proxy] BY <1>0, <2>1, <2>3 DEF BootConsistent
    <3>2. hash \in [Proxies -> Record] BY <1>0 DEF SharedTyped, HashesSound
    <3>3. hash' = hash BY <2>1, <3>1, <3>2 DEF WriteBack, Preserved
    <3> QED BY <2>1, <3>3
  <2> QED BY <2>2, <2>3
<1>4. CASE TicksPass
  <2>1. Contract!Tick BY <1>4, ContractLends DEF TicksPass, Contract!Tick
  <2> QED BY <2>1 DEF Contract!HealthNext
<1> QED BY <1>1, <1>2, <1>3, <1>4 DEF SharedNext, SolveStep

(* Scripts, locked operations, boots, lost and expired locks in any mixture: *)
(* the shared pool keeps the contract, but for the writes of an operation or *)
(* boot that another write overtook.                                         *)
THEOREM SharedKeepsContract == SharedSpec => ImplementsContract
<1>1. SharedInit => Contract!HealthInit BY DEF SharedInit
<1>2. SharedInv /\ [SharedNext]_sharedVars
        => [Contract!HealthNext \/ OvertakenActs]_<<hash, leased, phase>>
  BY StepsKeepContract DEF sharedVars
<1> QED BY <1>1, <1>2, SharedInvariant, PTL DEF SharedSpec, ImplementsContract

-----------------------------------------------------------------------------
(* Burned is final, but for the overtaken                                    *)

(* No operation of the contract brings a burned proxy back.                  *)
LEMMA ContractBurns ==
    ASSUME SharedTyped, Contract!HealthNext, NEW p \in Proxies, hash[p].state = "burned"
    PROVE  hash'[p].state = "burned"
<1>0. hash \in [Proxies -> Record] /\ \A q \in Proxies : Sane(hash[q])
      /\ \A u \in Solves : phase[u] \in {"using", "reported"} => leased[u] \in Proxies
  BY DEF SharedTyped, HashesSound, LeasesSound
<1>1. \A lag : Reviewed(hash[p], lag) = hash[p] BY DEF Reviewed
<1>2. ASSUME NEW q \in Proxies, NEW h, Advances(hash[q], h), hash' = [hash EXCEPT ![q] = h]
      PROVE  hash'[p].state = "burned"
  BY <1>0, <1>2 DEF Advances
<1>3. ASSUME NEW lag \in 0..MaxLag, NEW u \in Solves,
             \/ \E outcome \in Outcomes, nbytes \in Sizes :
                   Contract!Report(u, outcome, nbytes, lag)
             \/ \E accepted \in BOOLEAN : Contract!Feedback(u, accepted, lag)
      PROVE  hash'[p].state = "burned"
  <2>1. PICK outcome \in Outcomes, nbytes \in Nat :
           /\ phase[u] \in {"using", "reported"}
           /\ hash' = [hash EXCEPT ![leased[u]] =
                         Contract!Reported(hash[leased[u]], outcome, nbytes, lag)]
    <3>1. ASSUME NEW outcome \in Outcomes, NEW nbytes \in Sizes,
                 Contract!Report(u, outcome, nbytes, lag)
          PROVE  /\ phase[u] = "using" /\ nbytes \in Nat
                 /\ hash' = [hash EXCEPT ![leased[u]] =
                               Contract!Reported(hash[leased[u]], outcome, nbytes, lag)]
      BY <3>1, HealthAssumption DEF Contract!Report
    <3>2. ASSUME NEW accepted \in BOOLEAN, Contract!Feedback(u, accepted, lag)
          PROVE  \E outcome \in Outcomes :
                    /\ phase[u] = "reported"
                    /\ hash' = [hash EXCEPT ![leased[u]] =
                                  Contract!Reported(hash[leased[u]], outcome, 0, lag)]
      <4> DEFINE outcome == IF accepted THEN "success" ELSE "later"
      <4>1. outcome \in Outcomes BY DEF Outcomes
      <4> QED BY <3>2, <4>1 DEF Contract!Feedback
    <3>3. 0 \in Nat OBVIOUS
    <3> QED BY <1>3, <3>1, <3>2, <3>3
  <2>2. leased[u] \in Proxies BY <1>0, <2>1
  <2>3. Advances(hash[leased[u]], Reported(hash[leased[u]], outcome, nbytes, lag))
    BY <1>0, <2>2, ReportedAdvances
  <2> QED BY <1>2, <2>1, <2>2, <2>3, ContractReports
<1>4. ASSUME NEW u \in Solves, NEW nbytes \in Sizes, Contract!CarryBytes(u, nbytes)
      PROVE  hash'[p].state = "burned"
  <2>1. leased[u] \in Proxies /\ nbytes \in Nat
        /\ hash' = [hash EXCEPT ![leased[u]] = Contract!Carried(hash[leased[u]], nbytes)]
    BY <1>0, <1>4, HealthAssumption DEF Contract!CarryBytes
  <2>2. Advances(hash[leased[u]], Carried(hash[leased[u]], nbytes))
    BY <1>0, <2>1, CarriedAdvances
  <2> QED BY <1>2, <2>1, <2>2, ContractReports
<1>5. ASSUME NEW lag \in 0..MaxLag, NEW seen \in SUBSET Proxies, Contract!Review(seen, lag)
      PROVE  hash'[p].state = "burned"
  BY <1>1, <1>5, ContractReviews DEF Contract!Review
<1>6. ASSUME NEW lag \in 0..MaxLag, NEW u \in Solves, Contract!Decline(u, lag)
      PROVE  hash'[p].state = "burned"
  BY <1>1, <1>6, ContractReviews DEF Contract!Decline
<1>7. ASSUME NEW lag \in 0..MaxLag, NEW u \in Solves, NEW q \in Proxies,
             Contract!Lend(u, q, lag)
      PROVE  hash'[p].state = "burned"
  <2> DEFINE reviewed == [r \in Proxies |-> Contract!Reviewed(hash[r], lag)]
  <2>1. reviewed[p] = hash[p] BY <1>1, ContractReviews
  <2>2. MayServe(reviewed[q]) /\ hash' = [reviewed EXCEPT ![q] = Contract!Reserved(@)]
    BY <1>7, ContractLends DEF Contract!Lend
  <2>3. p # q BY <2>1, <2>2 DEF MayServe
  <2> QED BY <2>1, <2>2, <2>3
<1>8. ASSUME Contract!Tick PROVE hash'[p].state = "burned"
  <2>1. hash'[p] = Older(hash[p]) BY <1>8, ContractLends DEF Contract!Tick
  <2> QED BY <2>1, <1>0, OlderFields
<1>9. ASSUME NEW u \in Solves, Contract!Leave(u) PROVE hash'[p].state = "burned"
  BY <1>9 DEF Contract!Leave
<1> QED BY <1>3, <1>4, <1>5, <1>6, <1>7, <1>8, <1>9, ContractSets DEF Contract!HealthNext
(* The promise of build_proxy_pool, and what keeps it: a proxy burned on one *)
(* worker is brought back by nothing but a write that was overtaken.  Bytes  *)
(* and outcomes reported by other workers, late successes, reviews and the   *)
(* boot of a worker that read after it burned leave it burned.               *)
THEOREM BurnedButForTheOvertaken ==
    SharedSpec =>
        [][(\A p \in Proxies : hash[p].state = "burned" => hash'[p].state = "burned")
              \/ OvertakenActs]_<<hash, leased, phase>>
<1> DEFINE Burns == \A p \in Proxies : hash[p].state = "burned" => hash'[p].state = "burned"
<1>1. SharedInv /\ [SharedNext]_sharedVars => [Burns \/ OvertakenActs]_<<hash, leased, phase>>
  <2> SUFFICES ASSUME SharedInv, [SharedNext]_sharedVars,
                      ~ UNCHANGED <<hash, leased, phase>>, ~ OvertakenActs,
                      NEW p \in Proxies, hash[p].state = "burned"
               PROVE  hash'[p].state = "burned"
    OBVIOUS
  <2>1. SharedNext BY DEF sharedVars
  <2>2. Contract!HealthNext BY <2>1, StepsKeepContract
  <2> QED BY <2>2, ContractBurns DEF SharedInv
<1> QED BY <1>1, SharedInvariant, PTL DEF SharedSpec

-----------------------------------------------------------------------------
(* The lock excludes                                                         *)

(* Everything a solve does moves its own operation only; a script none.      *)
LEMMA SolvesMoveAlone ==
    ASSUME SharedTyped, NEW u \in Solves, SolveStep(u)
    PROVE  \A v \in Solves \ {u} : op'[v] = op[v]
<1>1. op \in [Solves -> Operation] BY DEF SharedTyped, OperationsSound
<1>2. op' = op \/ \E o : Sets(u, o)
  BY DEF SolveStep, ScriptCheckout, ScriptReport, ScriptFeedback, ScriptBytes, ScriptOnly,
         BeginAny, Begin, AcquireLock, ReadForCheckout, Persist, Reserve, ReadForReport,
         WriteReport, ReleaseLock, DeleteLock, GivenUp
<1> QED BY <1>1, <1>2 DEF Sets

(* Solve u's operation is where the lock has to be only if it was there      *)
(* before, or has just taken the lock or gone on without it.                 *)
LEMMA WhoBecomesCritical ==
    ASSUME SharedTyped, NEW u \in Solves, SolveStep(u)
    PROVE  /\ Critical' \subseteq Critical \/ AcquireLock(u)
           /\ Critical' \subseteq Critical \cup {u}
           /\ Reserve(u) \/ WriteReport(u) \/ GivenUp(u) => u \notin Critical'
           /\ ReleaseLock(u) \/ DeleteLock(u) => u \notin Critical
<1>0. op \in [Solves -> Operation] /\ op[u] \in Operation
  BY DEF SharedTyped, OperationsSound
<1>1. \A v \in Solves \ {u} : op'[v] = op[v] BY SolvesMoveAlone
<1>2. Critical' \subseteq Critical \cup {u} BY <1>1 DEF Critical
<1>3. ASSUME NEW o, Sets(u, o) PROVE op'[u] = o BY <1>0, <1>3 DEF Sets
<1>4. ASSUME op'[u].pc \notin {"reading", "persisting", "writing"} \/ u \in Critical
      PROVE  Critical' \subseteq Critical
  BY <1>2, <1>4 DEF Critical
<1>5. ASSUME NEW does, NEW kinds, NEW outcome, NEW nbytes, Begin(u, does, kinds, outcome, nbytes)
      PROVE  op'[u].pc = "locking"
  <2>1. PICK o : o = [Idle EXCEPT !.does = does, !.pc = "locking", !.kinds = kinds,
                                  !.outcome = outcome, !.bytes = nbytes]
    OBVIOUS
  <2>2. o.pc = "locking" BY <2>1 DEF Idle
  <2>3. Sets(u, o) BY <2>1, <1>5 DEF Begin
  <2> QED BY <2>2, <2>3, <1>3
<1>6. ASSUME ReleaseLock(u) \/ DeleteLock(u) \/ GivenUp(u)
      PROVE  op'[u].pc \in Ending
  <2>1. PICK pc \in Ending : Sets(u, [Idle EXCEPT !.pc = pc])
    <3>1. \/ Sets(u, Idle) \/ Sets(u, [Idle EXCEPT !.pc = "unlocking"])
          \/ Sets(u, [Idle EXCEPT !.pc = "deleting"])
      BY <1>6 DEF ReleaseLock, DeleteLock, GivenUp
    <3> QED BY <3>1, IdleSound DEF Ending
  <2> QED BY <2>1, <1>3, IdleSound
<1>7. ASSUME ReadForCheckout(u) \/ ReadForReport(u) PROVE u \in Critical
  BY <1>7 DEF ReadForCheckout, ReadForReport, Critical
<1>8. ASSUME Persist(u) \/ Reserve(u) \/ WriteReport(u)
      PROVE  u \in Critical /\ (Persist(u) \/ op'[u].pc = "unlocking")
  BY <1>8, WritesMoveOn DEF Critical
<1>9. ASSUME NEW lag,
             \/ \E kinds \in Asked : ScriptCheckout(u, kinds, lag)
             \/ \E outcome \in Outcomes, nbytes \in Sizes :
                   ScriptReport(u, outcome, nbytes, lag)
             \/ \E accepted \in BOOLEAN : ScriptFeedback(u, accepted, lag)
             \/ \E nbytes \in Sizes : ScriptBytes(u, nbytes)
      PROVE  Critical' \subseteq Critical
  BY <1>9 DEF ScriptCheckout, ScriptReport, ScriptFeedback, ScriptBytes, ScriptOnly, Critical
<1>10. ASSUME BeginAny(u) PROVE Critical' \subseteq Critical
  BY <1>4, <1>5, <1>10 DEF BeginAny
<1>11. Critical' \subseteq Critical \/ AcquireLock(u)
  BY <1>4, <1>6, <1>7, <1>8, <1>9, <1>10 DEF SolveStep, Ending
<1>12. Reserve(u) \/ WriteReport(u) \/ GivenUp(u) => u \notin Critical'
  <2>1. ASSUME Reserve(u) \/ WriteReport(u) PROVE op'[u].pc = "unlocking"
    BY <2>1, <1>0, <1>3, IdleSound DEF Reserve, WriteReport, Ending
  <2> QED BY <1>6, <2>1 DEF Critical, Ending
<1>13. ReleaseLock(u) \/ DeleteLock(u) => u \notin Critical
  BY DEF ReleaseLock, DeleteLock, Critical
<1> QED BY <1>2, <1>11, <1>12, <1>13

LEMMA LockExcludesStep ==
    ASSUME SharedTyped, LockExcludes, [SharedNext]_sharedVars
    PROVE  LockExcludes'
<1>0. "free" \notin Solves BY SharedAssumption
<1>1. ASSUME Critical' \subseteq Critical, UNCHANGED <<lock, lockless>>
      PROVE  LockExcludes'
  BY <1>1 DEF LockExcludes
<1>2. ASSUME Critical' \subseteq Critical, lockless' = lockless \cup (Critical \cap {lock})
      PROVE  LockExcludes'
  BY <1>2 DEF LockExcludes
<1>3. ASSUME NEW u \in Solves, SolveStep(u) PROVE LockExcludes'
  <2>1. /\ Critical' \subseteq Critical \/ AcquireLock(u)
        /\ Critical' \subseteq Critical \cup {u}
        /\ Reserve(u) \/ WriteReport(u) \/ GivenUp(u) => u \notin Critical'
        /\ ReleaseLock(u) \/ DeleteLock(u) => u \notin Critical
    BY <1>3, WhoBecomesCritical
  <2>0. lock = "free" => Critical \subseteq lockless
    BY <1>0 DEF LockExcludes, Critical
  <2>2. CASE AcquireLock(u)
    <3>1. \/ lockless' = lockless /\ lock = "free" /\ lock' = u
          \/ lockless' = lockless \cup {u} /\ lock' = lock
      BY <2>2 DEF AcquireLock
    <3>2. CASE lockless' = lockless /\ lock = "free" /\ lock' = u
      BY <2>0, <2>1, <3>2 DEF LockExcludes
    <3>3. CASE lockless' = lockless \cup {u} /\ lock' = lock
      BY <2>1, <3>3 DEF LockExcludes
    <3> QED BY <3>1, <3>2, <3>3
  <2>3. CASE ReleaseLock(u)
    <3>1. UNCHANGED lockless /\ (lock' = lock \/ (lock = u /\ lock' = "free"))
          /\ ~ AcquireLock(u)
      BY <2>3 DEF ReleaseLock, lockVars, AcquireLock
    <3> QED BY <2>1, <2>3, <3>1 DEF LockExcludes
  <2>4. CASE DeleteLock(u)
    BY <1>2, <2>1, <2>4 DEF DeleteLock, AcquireLock
  <2>5. CASE GivenUp(u)
    <3>1. lockless' = lockless \ {u} /\ (lock' = lock \/ lock = "free")
      BY <2>5 DEF GivenUp, Ends
    <3>2. Critical' \subseteq Critical BY <2>1, <2>5
    <3>3. u \notin Critical' BY <2>1, <2>5
    <3>4. CASE lock' = lock BY <3>1, <3>2, <3>3, <3>4 DEF LockExcludes
    <3>5. CASE lock = "free" BY <2>0, <3>1, <3>2, <3>3, <3>5 DEF LockExcludes
    <3> QED BY <3>1, <3>4, <3>5
  <2>6. CASE Reserve(u) \/ WriteReport(u)
    <3>1. lockless' = lockless \ {u} /\ lock' = lock
      BY <2>6 DEF Reserve, WriteReport, Ends
    <3>2. Critical' \subseteq Critical BY <2>1, <2>6
    <3> QED BY <2>1, <2>6, <3>1, <3>2 DEF LockExcludes
  <2>7. CASE /\ ~ AcquireLock(u) /\ ~ ReleaseLock(u) /\ ~ DeleteLock(u) /\ ~ GivenUp(u)
             /\ ~ Reserve(u) /\ ~ WriteReport(u)
    <3>1. UNCHANGED <<lock, lockless>>
      BY <1>3, <2>7 DEF SolveStep, ScriptCheckout, ScriptReport, ScriptFeedback, ScriptBytes,
            ScriptOnly, BeginAny, Begin, ReadForCheckout, Persist, ReadForReport, lockVars
    <3> QED BY <1>1, <2>1, <2>7, <3>1
  <2> QED BY <2>2, <2>3, <2>4, <2>5, <2>6, <2>7
<1>4. CASE LockExpires
  <2>1. Critical' = Critical /\ lockless' = lockless \cup (Critical \cap {lock})
    BY <1>4 DEF LockExpires, Critical
  <2> QED BY <1>2, <2>1
<1>5. CASE AddWrites \/ \E p \in Proxies : AddReads(p)
  <2>1. UNCHANGED <<op, lock, lockless>> BY <1>5 DEF AddWrites, AddReads, lockVars
  <2> QED BY <1>1, <2>1 DEF Critical
<1>6. CASE TicksPass
  <2>1. \A u \in Solves : op'[u].pc = op[u].pc BY <1>6, TicksEach
  <2>2. UNCHANGED <<lock, lockless>> BY <1>6 DEF TicksPass, lockVars
  <2> QED BY <1>1, <2>1, <2>2 DEF Critical
<1>7. CASE UNCHANGED sharedVars
  BY <1>1, <1>7 DEF sharedVars, lockVars, Critical
<1> QED BY <1>3, <1>4, <1>5, <1>6, <1>7 DEF SharedNext, SolveStep

(* Whatever expires, is given up or is released beside it: a fallback        *)
(* operation that got the lock and did not lose it to the TTL, or to the DEL *)
(* of a release that looked before it expired, excludes every other.         *)
THEOREM SharedExcludes == SharedSpec => []LockExcludes
<1>1. SharedInit => LockExcludes BY DEF SharedInit, LockExcludes, Critical, Idle
<1>2. SharedTyped /\ LockExcludes /\ [SharedNext]_sharedVars => LockExcludes'
  BY LockExcludesStep
<1> QED BY <1>1, <1>2, SharedSoundness, PTL DEF SharedSpec
=============================================================================
