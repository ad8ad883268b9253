--------------------------- MODULE ModelCircuitProofs ---------------------------
(***************************************************************************)
(* The circuit breakers of ModelCircuit, for every number of concurrent    *)
(* invocations, threshold and concurrency limit.                           *)
(***************************************************************************)
EXTENDS ModelCircuit, TLAPS

\* The fields of one breaker agree with each other.
Coherent(f) ==
    /\ f.state = "closed" => f.fails < Threshold /\ ~ f.cooling
    /\ f.cooling => f.state = "open"
    /\ f.state = "half_open" => f.probing

Inv ==
    /\ TypeOK
    /\ \A b \in Backends : Coherent(breaker[b])
    /\ \A b \in Backends : breaker[b].state = "half_open" => Probing(b) # {}

\* The breakers f are sound even if invocation i, in the middle of its step,
\* is not counted among the probes.
Sound(f, i) ==
    /\ f \in [Backends -> Breaker]
    /\ \A b \in Backends : Coherent(f[b])
    /\ \A b \in Backends :
          f[b].state = "half_open" => \E j \in Probing(b) : j # i

-----------------------------------------------------------------------------
(* What the transitions of one breaker do to its fields *)

\* A success closes the circuit whatever it was.
LEMMA SuccessCloses ==
    ASSUME NEW f \in Breaker
    PROVE  /\ AfterSuccess(f) \in Breaker /\ Coherent(AfterSuccess(f))
           /\ AfterSuccess(f).state = "closed"
  BY CircuitAssumption DEF AfterSuccess, Breaker, Coherent

\* A failure never leaves the circuit half-open.
LEMMA FailureDecides ==
    ASSUME NEW f \in Breaker, Coherent(f)
    PROVE  /\ AfterFailure(f) \in Breaker /\ Coherent(AfterFailure(f))
           /\ AfterFailure(f).state # "half_open"
<1> DEFINE n == IF f.fails < Threshold THEN f.fails + 1 ELSE Threshold
<1>1. n \in 0..Threshold
  BY CircuitAssumption DEF Breaker
<1>2. CASE f.state = "half_open" \/ n >= Threshold
  BY <1>1, <1>2 DEF AfterFailure, Breaker, Coherent
<1>3. CASE ~ (f.state = "half_open" \/ n >= Threshold)
  <2>1. AfterFailure(f) = [f EXCEPT !.fails = n, !.probing = FALSE]
    BY <1>3 DEF AfterFailure
  <2>2. AfterFailure(f) \in Breaker
    BY <1>1, <2>1 DEF Breaker
  <2>3. /\ AfterFailure(f).state = f.state /\ AfterFailure(f).fails = n
        /\ AfterFailure(f).cooling = f.cooling
    BY <2>1 DEF Breaker
  <2>4. n < Threshold
    BY <1>1, <1>3, CircuitAssumption
  <2> HIDE DEF n
  <2> QED
    BY <1>3, <2>2, <2>3, <2>4 DEF Coherent
<1> QED
  BY <1>2, <1>3

\* An admitted call leaves the circuit closed or is its probe.
LEMMA AdmissionProbes ==
    ASSUME NEW f \in Breaker, Coherent(f), Admits(f)
    PROVE  /\ Admitted(f) \in Breaker /\ Coherent(Admitted(f))
           /\ Admitted(f).state \in {"closed", "half_open"}
<1>1. CASE f.state = "closed"
  BY <1>1 DEF Admitted
<1>2. CASE f.state # "closed"
  BY <1>2 DEF Admits, Admitted, Breaker, Coherent
<1> QED
  BY <1>1, <1>2

-----------------------------------------------------------------------------
(* The ends of a step *)

\* An invocation may end whenever the breakers are sound without it.
LEMMA EndingKeepsInv ==
    ASSUME Inv, NEW i \in Invocations, NEW f, Sound(f, i), Ends(i), breaker' = f
    PROVE  Inv'
<1>1. TypeOK'
  BY DEF Inv, TypeOK, Ends, Sound, InvocationPC, Backends
<1>2. \A b \in Backends : \A j \in Probing(b) : j # i => j \in Probing(b)'
  BY DEF Inv, TypeOK, Ends, Probing
<1> QED
  BY <1>1, <1>2 DEF Inv, Sound

\* An invocation the gate lets through to a half-open circuit is its probe.
LEMMA EnteringKeepsInv ==
    ASSUME Inv, NEW i \in Invocations, NEW b \in Backends,
           NEW final \in BOOLEAN, NEW f, Sound(f, i), Enter(i, b, final, f)
    PROVE  Inv'
<1>1. /\ Admitted(f[b]) \in Breaker /\ Coherent(Admitted(f[b]))
      /\ breaker' = [f EXCEPT ![b] = Admitted(@)]
  BY AdmissionProbes DEF Enter, Sound
<1>2. TypeOK'
  BY <1>1 DEF Inv, TypeOK, Enter, Sound, InvocationPC
<1>3. \A d \in Backends : \A j \in Probing(d) : j # i => j \in Probing(d)'
  BY DEF Inv, TypeOK, Enter, Probing
<1>4. Admitted(f[b]).state = "half_open" => i \in Probing(b)'
  BY DEF Inv, TypeOK, Enter, Probing
<1>5. \A d \in Backends : Coherent(breaker'[d])
  BY <1>1 DEF Sound
<1>6. ASSUME NEW d \in Backends, breaker'[d].state = "half_open"
      PROVE  Probing(d)' # {}
  <2>1. CASE d = b
    BY <1>1, <1>4, <1>6, <2>1 DEF Sound
  <2>2. CASE d # b
    BY <1>1, <1>3, <1>6, <2>2 DEF Sound
  <2> QED
    BY <2>1, <2>2
<1> QED
  BY <1>2, <1>5, <1>6 DEF Inv

\* The three ways an invocation goes on: a last call, a fallback, a first call.
LEMMA CallsKeepInv ==
    ASSUME Inv, NEW i \in Invocations, NEW f, Sound(f, i)
    PROVE  /\ \A b \in Backends : LastCall(i, b, f) => Inv'
           /\ \A b \in Backends : Fallback(i, b, f) => Inv'
           /\ \A b \in Backends : FirstCall(i, b, f) => Inv'
<1>1. \A b \in Backends : LastCall(i, b, f) => Inv'
  BY EndingKeepsInv, EnteringKeepsInv DEF LastCall
<1>2. ASSUME pc' = [pc EXCEPT ![i] = "regating"], breaker' = f,
             probe' = [probe EXCEPT ![i] = FALSE], UNCHANGED <<backend, last>>
      PROVE  Inv'
  <2>1. TypeOK'
    BY <1>2 DEF Inv, TypeOK, Sound, InvocationPC
  <2>2. \A b \in Backends : \A j \in Probing(b) : j # i => j \in Probing(b)'
    BY <1>2 DEF Inv, TypeOK, Probing
  <2> QED
    BY <1>2, <2>1, <2>2 DEF Inv, Sound
<1>3. \A b \in Backends : Fallback(i, b, f) => Inv'
  BY <1>1, <1>2, EndingKeepsInv DEF Fallback, Backends
<1>4. \A b \in Backends : FirstCall(i, b, f) => Inv'
  BY <1>3, EnteringKeepsInv DEF FirstCall
<1> QED
  BY <1>1, <1>3, <1>4

-----------------------------------------------------------------------------
\* Both circuits start closed.
LEMMA InvInit == Init => Inv
<1> SUFFICES ASSUME Init PROVE Inv
  OBVIOUS
<1>1. TypeOK
  BY CircuitAssumption DEF Init, TypeOK, Breaker, Backends, InvocationPC
<1> QED
  BY <1>1, CircuitAssumption DEF Init, Inv, Coherent

\* A call under way on b leaves sound breakers whichever way it ends.
LEMMA AnswerIsSound ==
    ASSUME Inv, NEW i \in Invocations, pc[i] \in {"queued", "calling"}
    PROVE  /\ Sound([breaker EXCEPT ![backend[i]] = AfterSuccess(@)], i)
           /\ Sound([breaker EXCEPT ![backend[i]] = AfterFailure(@)], i)
           /\ ~ probe[i] => Sound(breaker, i)
<1>1. backend[i] \in Backends /\ breaker \in [Backends -> Breaker]
  BY DEF Inv, TypeOK
<1>2. \A b \in Backends : b # backend[i] => i \notin Probing(b)
  BY DEF Probing
<1>3. \A b \in Backends :
         b # backend[i] /\ breaker[b].state = "half_open" => \E j \in Probing(b) : j # i
  BY <1>2 DEF Inv
<1>4. Sound([breaker EXCEPT ![backend[i]] = AfterSuccess(@)], i)
  BY <1>1, <1>3, SuccessCloses DEF Inv, Sound
<1>5. Sound([breaker EXCEPT ![backend[i]] = AfterFailure(@)], i)
  BY <1>1, <1>3, FailureDecides DEF Inv, Sound
<1>6. ~ probe[i] => Sound(breaker, i)
  BY <1>1 DEF Inv, Sound, Probing
<1> QED
  BY <1>4, <1>5, <1>6

\* Every step of an invocation, and every lapse of a cooldown, keeps Inv.
LEMMA InvStep == ASSUME Inv, [Next]_vars PROVE Inv'
<1>1. ASSUME NEW i \in Invocations, pc[i] \in {"idle", "gating", "regating"}
      PROVE  Sound(breaker, i)
  BY <1>1 DEF Inv, Sound, TypeOK, Probing
<1>2. ASSUME NEW i \in Invocations, Invoke(i) PROVE Inv'
  <2>1. Sound(breaker, i)
    BY <1>1, <1>2 DEF Invoke
  <2>2. CASE FirstCall(i, "local", breaker)
    BY <2>1, <2>2, CallsKeepInv DEF Backends
  <2>3. ASSUME pc[i] = "idle", pc' = [pc EXCEPT ![i] = "gating"],
               UNCHANGED <<breaker, backend, last, probe>>
        PROVE  Inv'
    <3>1. TypeOK'
      BY <2>3 DEF Inv, TypeOK, InvocationPC
    <3>2. \A b \in Backends : Probing(b)' = Probing(b)
      BY <2>3 DEF Inv, TypeOK, Probing
    <3> QED
      BY <2>3, <3>1, <3>2 DEF Inv
  <2> QED
    BY <1>2, <2>2, <2>3 DEF Invoke
<1>3. ASSUME NEW i \in Invocations, Sample(i) \/ Gated(i) PROVE Inv'
  BY <1>1, <1>3, CallsKeepInv DEF Sample, Gated
<1>4. ASSUME NEW i \in Invocations, Regated(i) PROVE Inv'
  BY <1>1, <1>4, CallsKeepInv, EndingKeepsInv DEF Regated, Backends
<1>5. ASSUME NEW i \in Invocations, GetSlot(i) PROVE Inv'
  <2>1. TypeOK'
    BY <1>5 DEF GetSlot, Inv, TypeOK, InvocationPC
  <2>2. \A b \in Backends : Probing(b)' = Probing(b)
    BY <1>5 DEF GetSlot, Inv, TypeOK, Probing
  <2> QED
    BY <1>5, <2>1, <2>2 DEF GetSlot, Inv
<1>6. ASSUME NEW i \in Invocations, Answers(i) PROVE Inv'
  <2>1. pc[i] = "calling" /\ backend[i] \in Backends
    BY <1>6 DEF Answers, Succeeds, Disconnected, Errs, Inv, TypeOK
  <2>2. CASE Succeeds(i) \/ Errs(i)
    BY <2>1, <2>2, AnswerIsSound, EndingKeepsInv DEF Succeeds, Errs
  <2>3. CASE Disconnected(i)
    BY <2>1, <2>3, AnswerIsSound, EndingKeepsInv, CallsKeepInv DEF Disconnected
  <2> QED
    BY <1>6, <2>2, <2>3 DEF Answers
<1>7. ASSUME NEW i \in Invocations, Cancelled(i) PROVE Inv'
  <2>1. CASE pc[i] \in {"gating", "regating"}
    BY <1>1, <1>7, <2>1, EndingKeepsInv DEF Cancelled
  <2>2. CASE pc[i] \in {"queued", "calling"} /\ probe[i]
    <3>1. breaker' = [breaker EXCEPT ![backend[i]] = AfterFailure(@)] /\ Ends(i)
      BY <1>7, <2>2 DEF Cancelled, AfterCancel
    <3> QED
      BY <2>2, <3>1, AnswerIsSound, EndingKeepsInv
  <2>3. CASE pc[i] \in {"queued", "calling"} /\ ~ probe[i]
    <3>1. breaker' = breaker /\ Ends(i)
      BY <1>7, <2>3 DEF Cancelled, AfterCancel, Inv, TypeOK
    <3> QED
      BY <2>3, <3>1, AnswerIsSound, EndingKeepsInv
  <2> QED
    BY <1>7, <2>1, <2>2, <2>3 DEF Cancelled
<1>8. ASSUME NEW b \in Backends, Lapse(b) PROVE Inv'
  <2>1. /\ breaker' \in [Backends -> Breaker]
        /\ \A d \in Backends : /\ breaker'[d].state = breaker[d].state
                               /\ Coherent(breaker'[d])
    BY <1>8, ZenonT(30) DEF Lapse, Inv, TypeOK, Breaker, Coherent
  <2>2. \A d \in Backends : Probing(d)' = Probing(d)
    BY <1>8 DEF Lapse, Probing
  <2> QED
    BY <1>8, <2>1, <2>2 DEF Lapse, Inv, TypeOK
<1>9. CASE UNCHANGED vars
  BY <1>9 DEF vars, Inv, TypeOK, Probing
<1> QED
  BY <1>2, <1>3, <1>4, <1>5, <1>6, <1>7, <1>8, <1>9 DEF Next

\* Inv is an invariant of every behaviour.
LEMMA InvAlways == Spec => []Inv
  BY InvInit, InvStep, PTL DEF Spec

(* Every variable keeps its type, in particular no breaker ever reaches a   *)
(* state _before_call does not know.                                        *)
THEOREM CircuitTypeOK == Spec => []TypeOK
<1>1. Inv => TypeOK
  BY DEF Inv
<1> QED
  BY <1>1, InvAlways, PTL

(* However many calls overlap a probe, a half-open circuit always has a     *)
(* probe out: the in-flight flag is never left behind by a cancelled or     *)
(* overtaken one, so the breaker cannot reject calls forever.               *)
THEOREM HalfOpenHasProbe == Spec => []LatchHasProbe
<1>1. Inv => LatchHasProbe
  BY DEF Inv, LatchHasProbe, Coherent
<1> QED
  BY <1>1, InvAlways, PTL

(* A circuit is closed only below the failure threshold, in every           *)
(* interleaving of successes, failures and cancellations.                   *)
THEOREM ClosedIsBelowThreshold == Spec => []ClosedBelowThreshold
<1>1. Inv => ClosedBelowThreshold
  BY DEF Inv, ClosedBelowThreshold, Coherent
<1> QED
  BY <1>1, InvAlways, PTL
=============================================================================
