----------------------------- MODULE MCRedisLedger -----------------------------
(* Two workers, two tasks and an index with room for one of them: every      *)
(* record of the other task evicts, and a tie of scores is possible.         *)
EXTENDS RedisLedger, TLC

symmetry == Permutations(Workers) \cup Permutations(Tasks)
=============================================================================
