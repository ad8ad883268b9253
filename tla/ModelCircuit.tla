------------------------------ MODULE ModelCircuit ------------------------------
(***************************************************************************)
(* Model calls and the circuit breaker of each backend:                    *)
(* src/src/parsing/model_call.py over src/src/assets/model_pool.py.        *)
(*                                                                         *)
(* An invocation i is one ModelInvoker.invoke (or one voting sample): it   *)
(* routes, passes the budget gate, calls a backend and on a connection     *)
(* error calls the other one.  Slots are reused, so i stands for any       *)
(* number of invocations one after the other.                              *)
(***************************************************************************)
EXTENDS Integers, FiniteSets

CONSTANTS Invocations,
          Threshold,     \* failure_threshold
          Slots,         \* Slots[b]: max_concurrency of backend b, 0 for no limit
          CloudEnabled   \* vision_cloud_enabled

Backends == {"local", "cloud"}

ASSUME CircuitAssumption ==
    /\ Threshold \in Nat \ {0}
    /\ Slots \in [Backends -> Nat]
    /\ CloudEnabled \in BOOLEAN

VARIABLES breaker,  \* the circuit-breaker fields of each ModelClient
          pc,       \* where each invocation stands
          backend,  \* the backend its current call goes to
          last,     \* whether that call is the last one it may make
          probe     \* probe_owner of that call

vars == <<breaker, pc, backend, last, probe>>

\* _circuit_state, _consecutive_failures (saturated at the threshold),
\* _half_open_in_flight, and whether _cooldown_until is still ahead.
Breaker == [state : {"closed", "open", "half_open"}, fails : 0..Threshold,
            probing : BOOLEAN, cooling : BOOLEAN]

InvocationPC == {"idle", "gating", "regating", "queued", "calling"}

TypeOK ==
    /\ breaker \in [Backends -> Breaker]
    /\ pc \in [Invocations -> InvocationPC]
    /\ backend \in [Invocations -> Backends]
    /\ last \in [Invocations -> BOOLEAN]
    /\ probe \in [Invocations -> BOOLEAN]

Init ==
    /\ breaker = [b \in Backends |->
                    [state |-> "closed", fails |-> 0, probing |-> FALSE,
                     cooling |-> FALSE]]
    /\ pc = [i \in Invocations |-> "idle"]
    /\ backend = [i \in Invocations |-> "local"]
    /\ last = [i \in Invocations |-> FALSE]
    /\ probe = [i \in Invocations |-> FALSE]

-----------------------------------------------------------------------------
(* The breaker of one backend, as a function of its fields *)

\* _before_call raises exactly when this is false.
Admits(f) == \/ f.state = "closed"
             \/ f.state = "open" /\ ~ f.cooling
             \/ f.state = "half_open" /\ ~ f.probing

\* The only call let through while the circuit is not closed is the probe.
Admitted(f) == IF f.state = "closed" THEN f
               ELSE [f EXCEPT !.state = "half_open", !.probing = TRUE]

\* _record_success
AfterSuccess(f) ==
    [state |-> "closed", fails |-> 0, probing |-> FALSE, cooling |-> FALSE]

\* Mutant: the circuit trips one failure too late.
TripsLate(f) ==
    LET n == f.fails + 1 IN
    IF f.state = "half_open" \/ n > Threshold
    THEN [state |-> "open", fails |-> Threshold, probing |-> FALSE, cooling |-> TRUE]
    ELSE [f EXCEPT !.fails = n, !.probing = FALSE]

\* _record_failure
AfterFailure(f) ==
    LET n == IF f.fails < Threshold THEN f.fails + 1 ELSE Threshold IN
    IF f.state = "half_open" \/ n >= Threshold
    THEN [state |-> "open", fails |-> n, probing |-> FALSE, cooling |-> TRUE]
    ELSE [f EXCEPT !.fails = n, !.probing = FALSE]

\* Mutant: nothing is done for a cancelled call, probe or not.
CancelIgnored(f, owner) == f

\* Cancellation counts against the backend only when the call was the probe.
AfterCancel(f, owner) == IF owner THEN AfterFailure(f) ELSE f

-----------------------------------------------------------------------------
(* One call: chat() or transcribe_audio() *)

Ends(i) ==
    /\ pc' = [pc EXCEPT ![i] = "idle"]
    /\ backend' = [backend EXCEPT ![i] = "local"]
    /\ last' = [last EXCEPT ![i] = FALSE]
    /\ probe' = [probe EXCEPT ![i] = FALSE]

\* The gate lets the call through to the semaphore; f are the breakers so far.
Enter(i, b, final, f) ==
    /\ Admits(f[b])
    /\ breaker' = [f EXCEPT ![b] = Admitted(@)]
    /\ pc' = [pc EXCEPT ![i] = "queued"]
    /\ backend' = [backend EXCEPT ![i] = b]
    /\ last' = [last EXCEPT ![i] = final]
    /\ probe' = [probe EXCEPT ![i] = Admitted(f[b]).state = "half_open"]

\* call_backend with nothing left to fall back to.
LastCall(i, b, f) ==
    \/ Enter(i, b, TRUE, f)
    \/ ~ Admits(f[b]) /\ Ends(i) /\ breaker' = f

\* _fallback_backend after a connection error of b: cloud falls back to local
\* at once, local to cloud only when enabled and the budget allows it.
Fallback(i, b, f) ==
    \/ b = "cloud" /\ LastCall(i, "local", f)
    \/ /\ b = "local" /\ CloudEnabled
       /\ pc' = [pc EXCEPT ![i] = "regating"]
       /\ breaker' = f
       /\ probe' = [probe EXCEPT ![i] = FALSE]
       /\ UNCHANGED <<backend, last>>
    \/ b = "local" /\ ~ CloudEnabled /\ Ends(i) /\ breaker' = f

\* _call_with_fallback: an open circuit is a connection error.
FirstCall(i, b, f) ==
    \/ Enter(i, b, FALSE, f)
    \/ ~ Admits(f[b]) /\ Fallback(i, b, f)

-----------------------------------------------------------------------------
(* One invocation *)

\* route: a bulk task, or a hard one without cloud, goes local ungated.
Invoke(i) ==
    /\ pc[i] = "idle"
    /\ \/ FirstCall(i, "local", breaker)
       \/ /\ CloudEnabled
          /\ pc' = [pc EXCEPT ![i] = "gating"]
          /\ UNCHANGED <<breaker, backend, last, probe>>

\* A voting sample calls the backend that served the first answer.
Sample(i) ==
    /\ pc[i] = "idle"
    /\ \E b \in Backends : (b = "cloud" => CloudEnabled) /\ LastCall(i, b, breaker)

\* guard_budget: a denied cloud call is downgraded to local.
Gated(i) ==
    /\ pc[i] = "gating"
    /\ \E b \in Backends : FirstCall(i, b, breaker)

\* budget_allows_cloud
Regated(i) ==
    /\ pc[i] = "regating"
    /\ \/ LastCall(i, "cloud", breaker)
       \/ Ends(i) /\ UNCHANGED breaker

Calling(b) == {i \in Invocations : pc[i] = "calling" /\ backend[i] = b}

GetSlot(i) ==
    /\ pc[i] = "queued"
    /\ \/ Slots[backend[i]] = 0
       \/ Cardinality(Calling(backend[i])) < Slots[backend[i]]
    /\ pc' = [pc EXCEPT ![i] = "calling"]
    /\ UNCHANGED <<breaker, backend, last, probe>>

Succeeds(i) ==
    /\ pc[i] = "calling"
    /\ breaker' = [breaker EXCEPT ![backend[i]] = AfterSuccess(@)]
    /\ Ends(i)

\* A connection error of a first call is retried on the other backend.
Disconnected(i) ==
    LET failed == [breaker EXCEPT ![backend[i]] = AfterFailure(@)] IN
    /\ pc[i] = "calling"
    /\ \/ last[i] /\ Ends(i) /\ breaker' = failed
       \/ ~ last[i] /\ Fallback(i, backend[i], failed)

\* Any other error counts the same and ends the invocation.
Errs(i) ==
    /\ pc[i] = "calling"
    /\ breaker' = [breaker EXCEPT ![backend[i]] = AfterFailure(@)]
    /\ Ends(i)

\* The solve is cancelled: a call queued for the semaphore or under way counts
\* only as the probe, a budget check leaves nothing behind.
Cancelled(i) ==
    /\ \/ /\ pc[i] \in {"queued", "calling"}
          /\ breaker' = [breaker EXCEPT ![backend[i]] = AfterCancel(@, probe[i])]
       \/ pc[i] \in {"gating", "regating"} /\ UNCHANGED breaker
    /\ Ends(i)

Lapse(b) ==
    /\ breaker[b].cooling
    /\ breaker' = [breaker EXCEPT ![b].cooling = FALSE]
    /\ UNCHANGED <<pc, backend, last, probe>>

Answers(i) == Succeeds(i) \/ Disconnected(i) \/ Errs(i)

Next ==
    \/ \E i \in Invocations :
          \/ Invoke(i) \/ Sample(i) \/ Gated(i) \/ Regated(i) \/ GetSlot(i)
          \/ Answers(i) \/ Cancelled(i)
    \/ \E b \in Backends : Lapse(b)

Spec == Init /\ [][Next]_vars

\* Every call is answered within its timeout, the budget check returns, and
\* the semaphore serves its waiters in turn.
FairSpec ==
    /\ Spec
    /\ \A i \in Invocations :
          /\ WF_vars(Gated(i) \/ Regated(i) \/ Answers(i))
          /\ SF_vars(GetSlot(i))

-----------------------------------------------------------------------------
Probing(b) == {i \in Invocations : pc[i] \in {"queued", "calling"}
                                   /\ backend[i] = b /\ probe[i]}

(* The half-open circuit rejects calls only while a probe is really out: no  *)
(* cancelled, failed or overtaken probe leaves _half_open_in_flight behind,  *)
(* which would reject every later call (chat: "a cancelled probe must        *)
(* actively re-open the breaker").                                           *)
LatchHasProbe ==
    \A b \in Backends :
        breaker[b].state = "half_open" => breaker[b].probing /\ Probing(b) # {}

(* Whatever the order in which concurrent calls succeed, fail and are        *)
(* cancelled, the circuit is closed only below the threshold, and an open    *)
(* one is waiting for its cooldown or ready for a probe.                     *)
ClosedBelowThreshold ==
    \A b \in Backends :
        /\ breaker[b].state = "closed" =>
              breaker[b].fails < Threshold /\ ~ breaker[b].cooling
        /\ breaker[b].cooling => breaker[b].state = "open"

(* A half-open circuit always leaves that state again.                       *)
HalfOpenResolves ==
    \A b \in Backends :
        breaker[b].state = "half_open" ~> breaker[b].state # "half_open"

(* While a probe is in flight no other call is let through (_before_call:    *)
(* "While that probe is in flight further calls are rejected").              *)
ProbeAlone ==
    [][\A i \in Invocations :
          (pc[i] # "queued" /\ pc'[i] = "queued") =>
              Probing(backend'[i]) \ {i} = {}]_vars
=============================================================================
