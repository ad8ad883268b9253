---------------------------- MODULE MCTaskLifecycle ----------------------------
(* One worker: admission, budget, semaphores, expiry, shutdown and the two  *)
(* mirrors of each record, while any backend may fail.                      *)
EXTENDS TaskManager, TLC

Ask(client, key, egress) ==
    [worker |-> "w1", client |-> client, key |-> key, payload |-> "none",
     egress |-> egress]
mcShapes == {Ask("alice", "k", "auto"), Ask("bob", "nokey", "vision")}
mcPools == {"vision", "proxyless", "task", "pool"}
mcPoolSize == [p \in mcPools |-> 1]
mcCategoryBudget == [browser |-> 3, vision |-> 1]
mcAllOutages == {"budget", "claim", "write"}
symRequests == Permutations(Requests)
=============================================================================
