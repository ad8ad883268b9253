------------------------------ MODULE MCChallenge ------------------------------
(***************************************************************************)
(* Challenge for TLC: a solve of tier 1, two attempts, two rounds of a grid *)
(* and votes of two samples, so that a vote may miss its quorum, a grid be*)
(* reloaded and a second attempt meet what the first one left.              *)
(***************************************************************************)
EXTENDS Challenge

=============================================================================
