----------------------------- MODULE MCModelCircuit -----------------------------
(* Two backends, the cloud one limited to one call at a time.                *)
EXTENDS ModelCircuit, TLC

mcSlots == [local |-> 0, cloud |-> 1]
symInvocations == Permutations(Invocations)
=============================================================================
