------------------------------ MODULE MCLifespan ------------------------------
(* Every runtime, every installation, and up to two failures on the way.   *)
EXTENDS Lifespan
=============================================================================
