----------------------------- MODULE MCSessionPool -----------------------------
(* A pool of two sessions: prewarm's two calls, then solvers of two egress   *)
(* identities.                                                               *)
EXTENDS SessionPool, TLC

symCalls == Permutations(Users) \cup Permutations(Warmers)
=============================================================================
