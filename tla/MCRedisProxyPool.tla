--------------------------- MODULE MCRedisProxyPool ---------------------------
(* Solves of two workers, each with its own pool, on one shared inventory of *)
(* one kind (the kinds are told apart in MCProxyPool).                       *)
EXTENDS RedisProxyPool, TLC

mcKindOf == [p \in Proxies |-> "residential"]
mcPoolOf == [u \in Solves |-> u]
symmetry == Permutations(Solves) \cup Permutations(Proxies)
=============================================================================
