----------------------------- MODULE MCIdempotency -----------------------------
(* Two workers on one Redis store; every request carries the same key, with *)
(* equal, different or unknown payload fingerprints.  Three requests meet   *)
(* on the key itself, so those are of tasks that end at once.               *)
EXTENDS TaskManager, TLC

Ask(worker, payload, egress) ==
    [worker |-> worker, client |-> "alice", key |-> "k", payload |-> payload,
     egress |-> egress]
mcShapes ==
    {Ask("w1", "p", "task"), Ask("w2", "p", "unsupported"), Ask("w2", "q", "task"),
     Ask("w1", "none", "pool")}
mcRetryShapes == {Ask("w1", "p", "unsupported"), Ask("w2", "q", "unsupported")}
mcPools == {"vision", "proxyless", "task", "pool"}
mcPoolSize == [p \in mcPools |-> 1]
mcCategoryBudget == [browser |-> 3, vision |-> 1]
mcNoOutages == {}
symRequests == Permutations(Requests)
=============================================================================
