----------------------------- MODULE RankedIndex -----------------------------
(***************************************************************************)
(* The capped Redis index of ledger.py and accounting.py: a sorted set     *)
(* (score; 0 for no member) whose lowest ranks a writer evicts in two      *)
(* round trips, ZRANGE and then the removal.  Equal scores rank in an      *)
(* order the callers do not choose.                                        *)
(***************************************************************************)
EXTENDS Integers, FiniteSets

Members(score) == {m \in DOMAIN score : score[m] > 0}

\* The sets that may be the n lowest ranks.
LowestRanks(score, n) ==
    {S \in SUBSET Members(score) :
        /\ Cardinality(S) = n \/ (S = Members(score) /\ Cardinality(S) < n)
        /\ \A in \in S, out \in Members(score) \ S : score[in] <= score[out]}

\* Mutant: no spare candidate beside the protected one.
VictimsOfExact(score, overflow, protect) ==
    {S \ {protect} : S \in LowestRanks(score, overflow)}

\* _evict_stale_tasks, _evict_lowest: one candidate more than needed is read, the
\* member just written is left out and the lowest `overflow` of the rest go.
VictimsOf(score, overflow, protect) ==
    UNION {LowestRanks([m \in S \ {protect} |-> score[m]], overflow) :
              S \in LowestRanks(score, overflow + 1)}

Overflow(score, limit) == Cardinality(Members(score)) - limit
=============================================================================
