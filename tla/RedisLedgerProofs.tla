--------------------------- MODULE RedisLedgerProofs ---------------------------
(***************************************************************************)
(* Proofs about the shared ledger, for any number of workers, tasks, sinks *)
(* and records and any bounds of its indexes.                              *)
(*                                                                         *)
(* Three arguments, one after the other.  Verdicts: a claim makes its      *)
(* worker the only one to tell the sinks of a task.  Migration: a worker   *)
(* that alone finds the legacy counter moves it before anyone records.     *)
(* Eviction: whoever wrote last knows of the whole excess, so whatever the *)
(* others evict meanwhile, what it is about to evict is enough.            *)
(***************************************************************************)
EXTENDS RedisLedger, FiniteSetTheorems, TLAPS

Telling == {"sync", "fan"}
Migrating == {"readNew", "copy", "drop"}
Steps == {"idle", "first", "record", "trim", "evict", "count", "rank", "forget",
          "lookup", "get", "setnx"} \cup Telling \cup Migrating

Keys == Tasks \cup Sides

Calls == [at : Steps, op : {"record", "report"}, task : Tasks \cup {"none"},
          seen : Nat, gone : SUBSET Keys]

Types ==
    /\ old \in Nat \cup {Absent} /\ total \in Nat \cup {Absent}
    /\ blob \in [Tasks -> Nat] /\ score \in [Tasks -> Nat]
    /\ claimed \subseteq Tasks /\ writes \in [Sides -> Nat]
    /\ migrated \subseteq Workers
    /\ call \in [Workers -> Calls]
    /\ \A w \in Workers : call[w].at # "idle" => call[w].task \in Tasks
    /\ heard \in [Tasks -> [Sinks -> Nat]]
    /\ history \in [records : Nat, finders : Nat, failures : Nat]

\* At most one worker tells the sinks of a task, once, after it has claimed it.
Verdicts ==
    /\ \A t \in Tasks, s \in Sinks :
          heard[t][s] <= 1 /\ (heard[t][s] > 0 => t \in claimed)
    /\ \A w \in Workers : At(w, "sync") \/ At(w, "fan") =>
          /\ call[w].task \in claimed
          /\ \A s \in Sinks : heard[call[w].task][s] = 0
    /\ \A v, w \in Workers :
          call[v].at \in Telling /\ call[w].at \in Telling /\ v # w =>
             call[v].task # call[w].task

\* Before the legacy counter is moved nobody records; the one who moves it has read it.
Migration ==
    history.finders <= 1 /\ history.failures = 0 =>
        \/ /\ old = Legacy /\ total = Absent /\ history.records = 0 /\ migrated = {}
           /\ \A w \in Workers : call[w].at \in {"idle", "first", "readNew", "copy"}
           /\ \A w \in Workers : call[w].at \in Migrating =>
                 /\ call[w].seen = Legacy /\ history.finders = 1
                 /\ \A v \in Workers : call[v].at \in Migrating => v = w
        \/ /\ old = Absent /\ Value(total) = Legacy + history.records
           /\ \A w \in Workers : call[w].at \notin Migrating

\* Someone has the excess of an index in hand: to pick as many members, or to evict
\* members it has picked that are still there.
InHand(calls, index, limit, picking, evicting) ==
    Overflow(index, limit) > 0 =>
        \E w \in Workers :
            \/ calls[w].at = picking /\ calls[w].seen >= Overflow(index, limit)
            \/ /\ calls[w].at = evicting
               /\ Cardinality(calls[w].gone \cap Members(index)) >= Overflow(index, limit)

Eviction ==
    history.failures = 0 =>
        /\ InHand(call, score, MaxIndex, "trim", "evict")
        /\ InHand(call, writes, MaxBuckets, "rank", "forget")

IInv == Types /\ Verdicts /\ Migration /\ Eviction

-----------------------------------------------------------------------------
(* The ranked index                                                          *)

(* What is picked are members of the index.                                  *)
LEMMA VictimsAreMembers ==
    ASSUME NEW f, NEW k, NEW p, NEW V \in VictimsOf(f, k, p)
    PROVE  V \subseteq Members(f)
<1>1. PICK S \in LowestRanks(f, k + 1) : V \in LowestRanks([m \in S \ {p} |-> f[m]], k)
  BY DEF VictimsOf
<1>2. S \subseteq Members(f) BY DEF LowestRanks
<1>3. Members([m \in S \ {p} |-> f[m]]) \subseteq S BY DEF Members
<1> QED BY <1>1, <1>2, <1>3 DEF LowestRanks

(* The victims a writer picks, the lowest k but for the protected member,    *)
(* are members, and as many as the index is over its limit.                  *)
LEMMA VictimsSuffice ==
    ASSUME NEW f, IsFiniteSet(Members(f)), NEW k \in Nat, NEW p,
           NEW V \in VictimsOf(f, k, p),
           NEW limit \in Nat \ {0}, k >= Overflow(f, limit)
    PROVE  V \subseteq Members(f) /\ Cardinality(V) >= Overflow(f, limit)
<1> DEFINE M == Members(f)
<1>1. PICK S \in LowestRanks(f, k + 1) : V \in LowestRanks([m \in S \ {p} |-> f[m]], k)
  BY DEF VictimsOf
<1>2. S \subseteq M /\ (Cardinality(S) = k + 1 \/ S = M)
  BY DEF LowestRanks
<1>3. Members([m \in S \ {p} |-> f[m]]) = S \ {p}
  BY <1>2 DEF Members
<1>4. V \subseteq S \ {p} /\ (Cardinality(V) = k \/ V = S \ {p})
  BY <1>1, <1>3 DEF LowestRanks
<1>5. IsFiniteSet(S) /\ Cardinality(S) \in Nat /\ Cardinality(M) \in Nat
  BY <1>2, FS_Subset, FS_CardinalityType
<1>6. Cardinality(S \ {p}) >= Cardinality(S) - 1 /\ Cardinality(S \ {p}) \in Nat
  <2>1. /\ IsFiniteSet(S \ {p})
        /\ Cardinality(S \ {p}) = IF p \in S THEN Cardinality(S) - 1 ELSE Cardinality(S)
    BY <1>5, FS_RemoveElement
  <2>2. Cardinality(S \ {p}) \in Nat BY <2>1, FS_CardinalityType
  <2> QED BY <2>1, <2>2, <1>5
<1>7. Cardinality(V) \in Nat
  BY <1>4, <1>5, FS_Subset, FS_CardinalityType
<1>8. Cardinality(S) >= Overflow(f, limit) + 1
  BY <1>2, <1>5 DEF Overflow
<1>9. Overflow(f, limit) \in Int BY <1>5 DEF Overflow
<1> QED BY <1>2, <1>4, <1>5, <1>6, <1>7, <1>8, <1>9

(* Eviction takes away no more from what another writer has picked than      *)
(* from the index.                                                           *)
LEMMA EvictionCounts ==
    ASSUME NEW M, IsFiniteSet(M), NEW G, NEW H
    PROVE  /\ Cardinality(M \ G) = Cardinality(M) - Cardinality(G \cap M)
           /\ Cardinality(H \cap (M \ G)) >= Cardinality(H \cap M) - Cardinality(G \cap M)
           /\ Cardinality(M \ G) <= Cardinality(M)
           /\ {Cardinality(M), Cardinality(M \ G), Cardinality(G \cap M),
               Cardinality(H \cap M), Cardinality(H \cap (M \ G))} \subseteq Nat
<1>1. /\ IsFiniteSet(M \ G) /\ IsFiniteSet(G \cap M) /\ IsFiniteSet(H \cap M)
      /\ IsFiniteSet(H \cap (M \ G))
  BY FS_Subset
<1>2. /\ Cardinality(M) \in Nat /\ Cardinality(M \ G) \in Nat /\ Cardinality(G \cap M) \in Nat
      /\ Cardinality(H \cap M) \in Nat /\ Cardinality(H \cap (M \ G)) \in Nat
  BY <1>1, FS_CardinalityType
<1>3. Cardinality(M) = Cardinality(M \ G) + Cardinality(G \cap M)
  <2> DEFINE A == M \ G
  <2> DEFINE B == G \cap M
  <2>1. M = A \cup B /\ A \cap B = {} OBVIOUS
  <2> HIDE DEF A, B
  <2>2. Cardinality(A \cup B) = Cardinality(A) + Cardinality(B) - Cardinality(A \cap B)
    BY <1>1, FS_Union DEF A, B
  <2>3. Cardinality(A \cap B) = 0 BY <2>1, FS_EmptySet
  <2>4. Cardinality(A) \in Nat /\ Cardinality(B) \in Nat BY <1>2 DEF A, B
  <2>5. Cardinality(M) = Cardinality(A) + Cardinality(B) BY <2>1, <2>2, <2>3, <2>4
  <2> QED BY <2>5 DEF A, B
<1>4. Cardinality(H \cap M) <= Cardinality(H \cap (M \ G)) + Cardinality(G \cap M)
  <2> DEFINE A == H \cap (M \ G)
  <2> DEFINE B == G \cap M
  <2>1. H \cap M \subseteq A \cup B OBVIOUS
  <2>2. /\ IsFiniteSet(A \cup B)
        /\ Cardinality(A \cup B) = Cardinality(A) + Cardinality(B) - Cardinality(A \cap B)
    BY <1>1, FS_Union
  <2>3. Cardinality(A \cap B) \in Nat BY <1>1, FS_Intersection, FS_CardinalityType
  <2>4. Cardinality(H \cap M) <= Cardinality(A \cup B) BY <2>1, <2>2, FS_Subset
  <2> QED BY <2>2, <2>3, <2>4, <1>2
<1> QED BY <1>2, <1>3, <1>4

-----------------------------------------------------------------------------
(* Types                                                                     *)

\* What a step of worker w does to its call, and to no other.
Moved(w, step, seen, gone) ==
    /\ call' \in [Workers -> Calls]
    /\ call'[w].at = step /\ call'[w].seen = seen /\ call'[w].gone = gone
    /\ call'[w].task = call[w].task /\ call'[w].op = call[w].op
    /\ \A v \in Workers \ {w} : call'[v] = call[v]

Idled(w) ==
    /\ call' \in [Workers -> Calls] /\ call'[w].at = "idle"
    /\ \A v \in Workers \ {w} : call'[v] = call[v]

(* A step on to another round trip changes the call of its worker alone.     *)
LEMMA StepMoves ==
    ASSUME Types, NEW w \in Workers, NEW step \in Steps, NEW seen \in Nat,
           NEW gone \in SUBSET Keys, Step(w, step, seen, gone)
    PROVE  Moved(w, step, seen, gone)
<1> DEFINE c == [call[w] EXCEPT !.at = step, !.seen = seen, !.gone = gone]
<1>1. call \in [Workers -> Calls] BY DEF Types
<1>2. /\ c \in Calls /\ c.at = step /\ c.seen = seen /\ c.gone = gone
      /\ c.task = call[w].task /\ c.op = call[w].op
  BY <1>1 DEF Calls
<1>3. call' = [call EXCEPT ![w] = c] BY DEF Step
<1> HIDE DEF c
<1> QED BY <1>1, <1>2, <1>3 DEF Moved

(* The same with nothing to carry along.                                     *)
LEMMA GotoMoves ==
    ASSUME Types, NEW w \in Workers, NEW step \in Steps, Goto(w, step)
    PROVE  Moved(w, step, 0, {})
BY StepMoves DEF Goto

(* A call that returns leaves its worker idle.                               *)
LEMMA ReturnIdles ==
    ASSUME Types, NEW w \in Workers, Return(w)
    PROVE  Idled(w)
<1>1. call \in [Workers -> Calls] BY DEF Types
<1>2. Nothing \in Calls /\ Nothing.at = "idle" BY DEF Nothing, Calls, Steps
<1> QED BY <1>1, <1>2 DEF Return, Idled

(* An index has finitely many members.                                       *)
LEMMA IndexFinite ==
    ASSUME NEW S, IsFiniteSet(S), NEW f \in [S -> Nat], NEW limit \in Nat
    PROVE  IsFiniteSet(Members(f)) /\ Members(f) \subseteq S /\ Overflow(f, limit) \in Int
<1>1. Members(f) \subseteq S BY DEF Members
<1>2. IsFiniteSet(Members(f)) BY <1>1, FS_Subset
<1>3. Cardinality(Members(f)) \in Nat BY <1>2, FS_CardinalityType
<1> QED BY <1>1, <1>2, <1>3 DEF Overflow

(* There are two buckets.                                                    *)
LEMMA SidesFinite == IsFiniteSet(Sides)
<1>1. IsFiniteSet({"opt"}) BY FS_Singleton
<1>2. IsFiniteSet({"opt"} \cup {"real"}) BY <1>1, FS_AddElement
<1>3. Sides = {"opt"} \cup {"real"} BY DEF Sides
<1> QED BY <1>2, <1>3

\* A worker goes on to the call's own business.
Proceeds(w) == Moved(w, "record", 0, {}) \/ Moved(w, "lookup", 0, {})

(* Where the steps of the migration lead.                                    *)
LEMMA MigrationMoves ==
    ASSUME Types, NEW w \in Workers
    PROVE  /\ SkipMigration(w) \/ WriteNew(w) \/ MigrationFails(w) => Proceeds(w)
           /\ ReadOld(w) => Moved(w, "readNew", old, {})
           /\ ReadNew(w) => \/ total = Absent /\ Moved(w, "copy", call[w].seen, {})
                            \/ total # Absent /\ Moved(w, "drop", call[w].seen, {})
<1>s. {"record", "lookup", "readNew", "copy", "drop"} \subseteq Steps
  BY DEF Steps, Telling, Migrating
<1>c. call[w].seen \in Nat /\ {} \in SUBSET Keys BY DEF Types, Calls
<1>1. ASSUME Goto(w, Body(call[w].op)) PROVE Proceeds(w)
  <2>1. Body(call[w].op) \in {"record", "lookup"} BY DEF Body
  <2> QED BY <1>1, <1>s, <2>1, GotoMoves DEF Proceeds
<1>2. SkipMigration(w) \/ WriteNew(w) \/ MigrationFails(w) => Proceeds(w)
  BY <1>1 DEF SkipMigration, WriteNew, MigrationFails
<1>3. ReadOld(w) => Moved(w, "readNew", old, {})
  <2> SUFFICES ASSUME ReadOld(w) PROVE Moved(w, "readNew", old, {}) OBVIOUS
  <2>1. old \in Nat BY DEF ReadOld, Types
  <2> QED BY <1>s, <1>c, <2>1, StepMoves DEF ReadOld
<1>4. ReadNew(w) => \/ total = Absent /\ Moved(w, "copy", call[w].seen, {})
                    \/ total # Absent /\ Moved(w, "drop", call[w].seen, {})
  BY <1>s, <1>c, StepMoves DEF ReadNew
<1> QED BY <1>2, <1>3, <1>4

(* Where a record and its eviction lead.                                     *)
LEMMA RecordMoves ==
    ASSUME Types, NEW w \in Workers
    PROVE  /\ RecordPipeline(w) =>
                 /\ score' \in [Tasks -> Nat]
                 /\ \/ Overflow(score', MaxIndex) > 0
                       /\ Moved(w, "trim", Overflow(score', MaxIndex), {})
                    \/ Overflow(score', MaxIndex) <= 0 /\ Moved(w, "count", 0, {})
           /\ PickStale(w) =>
                 \E gone \in VictimsOf(score, call[w].seen, call[w].task) :
                    \/ gone = {} /\ Moved(w, "count", 0, {})
                    \/ gone \in SUBSET Keys /\ Moved(w, "evict", 0, gone)
           /\ EvictStale(w) => Moved(w, "count", 0, {})
<1>s. {"trim", "count", "evict"} \subseteq Steps BY DEF Steps
<1>c. call[w].seen \in Nat /\ {} \in SUBSET Keys BY DEF Types, Calls
<1>1. ASSUME RecordPipeline(w)
      PROVE  /\ score' \in [Tasks -> Nat]
             /\ \/ Overflow(score', MaxIndex) > 0
                   /\ Moved(w, "trim", Overflow(score', MaxIndex), {})
                \/ Overflow(score', MaxIndex) <= 0 /\ Moved(w, "count", 0, {})
  <2>1. score' \in [Tasks -> Nat]
    <3>1. history.records \in Nat /\ score \in [Tasks -> Nat] BY DEF Types
    <3>2. PICK clock \in {history.records + 1, (history.records + 1) - 1} \ {0} :
            score' = [score EXCEPT ![call[w].task] = clock]
      BY <1>1, Zenon DEF RecordPipeline
    <3>3. clock \in Nat BY <3>1, <3>2
    <3> QED BY <3>1, <3>2, <3>3
  <2>2. Overflow(score', MaxIndex) \in Int
    BY <2>1, IndexFinite, LedgerAssumption
  <2>3. CASE Overflow(score', MaxIndex) > 0
    <3>1. Step(w, "trim", Overflow(score', MaxIndex), {}) BY <1>1, <2>3 DEF RecordPipeline
    <3>2. Overflow(score', MaxIndex) \in Nat BY <2>2, <2>3
    <3> HIDE DEF Overflow
    <3> QED BY <3>1, <3>2, <2>1, <2>3, <1>s, <1>c, StepMoves
  <2>4. CASE ~ (Overflow(score', MaxIndex) > 0)
    <3>1. Goto(w, "count") BY <1>1, <2>4 DEF RecordPipeline
    <3> QED BY <3>1, <2>1, <2>2, <2>4, <1>s, GotoMoves
  <2> QED BY <2>3, <2>4
<1>2. ASSUME PickStale(w)
      PROVE  \E gone \in VictimsOf(score, call[w].seen, call[w].task) :
                    \/ gone = {} /\ Moved(w, "count", 0, {})
                    \/ gone \in SUBSET Keys /\ Moved(w, "evict", 0, gone)
  <2>1. PICK gone \in VictimsOf(score, call[w].seen, call[w].task) :
          IF gone = {} THEN Goto(w, "count") ELSE Step(w, "evict", 0, gone)
    BY <1>2 DEF PickStale
  <2>2. gone \in SUBSET Keys
    <3>1. Members(score) \subseteq Tasks BY DEF Types, Members
    <3>2. gone \subseteq Members(score) BY VictimsAreMembers
    <3> QED BY <3>1, <3>2 DEF Keys
  <2>3. \/ gone = {} /\ Moved(w, "count", 0, {})
        \/ gone \in SUBSET Keys /\ Moved(w, "evict", 0, gone)
    BY <2>1, <2>2, <1>s, GotoMoves, StepMoves
  <2> QED BY <2>3
<1>3. ASSUME EvictStale(w) PROVE Moved(w, "count", 0, {})
  BY <1>3, <1>s, GotoMoves DEF EvictStale
<1> QED BY <1>1, <1>2, <1>3

(* Where the accounting and its eviction lead.                               *)
LEMMA CountMoves ==
    ASSUME Types, NEW w \in Workers
    PROVE  /\ Push(w) =>
                 /\ writes' \in [Sides -> Nat]
                 /\ \/ Overflow(writes', MaxBuckets) > 0
                       /\ Moved(w, "rank", Overflow(writes', MaxBuckets), {})
                    \/ Overflow(writes', MaxBuckets) <= 0 /\ Idled(w)
           /\ PickLowest(w) =>
                 \E gone \in VictimsOf(writes, call[w].seen, Side(w)) :
                    \/ gone = {} /\ Idled(w)
                    \/ gone \in SUBSET Keys /\ Moved(w, "forget", 0, gone)
           /\ ForgetLowest(w) => Idled(w)
<1>s. {"rank", "forget"} \subseteq Steps BY DEF Steps
<1>c. call[w].seen \in Nat /\ {} \in SUBSET Keys BY DEF Types, Calls
<1>1. ASSUME Push(w)
      PROVE  /\ writes' \in [Sides -> Nat]
             /\ \/ Overflow(writes', MaxBuckets) > 0
                   /\ Moved(w, "rank", Overflow(writes', MaxBuckets), {})
                \/ Overflow(writes', MaxBuckets) <= 0 /\ Idled(w)
  <2>1. writes' \in [Sides -> Nat]
    <3>1. Side(w) \in Sides BY DEF Side, Sides
    <3>2. writes \in [Sides -> Nat] BY DEF Types
    <3>3. writes' = [writes EXCEPT ![Side(w)] = @ + 1] BY <1>1 DEF Push
    <3> HIDE DEF Side
    <3> QED BY <3>1, <3>2, <3>3
  <2>2. Overflow(writes', MaxBuckets) \in Int
    BY <2>1, IndexFinite, SidesFinite, LedgerAssumption
  <2>3. CASE Overflow(writes', MaxBuckets) > 0
    <3>1. Step(w, "rank", Overflow(writes', MaxBuckets), {}) BY <1>1, <2>3 DEF Push
    <3>2. Overflow(writes', MaxBuckets) \in Nat BY <2>2, <2>3
    <3> QED BY <3>1, <3>2, <2>1, <2>3, <1>s, <1>c, StepMoves
  <2>4. CASE ~ (Overflow(writes', MaxBuckets) > 0)
    <3>1. Return(w) BY <1>1, <2>4 DEF Push
    <3> QED BY <3>1, <2>1, <2>2, <2>4, ReturnIdles
  <2> QED BY <2>3, <2>4
<1>2. ASSUME PickLowest(w)
      PROVE  \E gone \in VictimsOf(writes, call[w].seen, Side(w)) :
                    \/ gone = {} /\ Idled(w)
                    \/ gone \in SUBSET Keys /\ Moved(w, "forget", 0, gone)
  <2>1. PICK gone \in VictimsOf(writes, call[w].seen, Side(w)) :
          IF gone = {} THEN Return(w) ELSE Step(w, "forget", 0, gone)
    BY <1>2 DEF PickLowest
  <2>2. gone \in SUBSET Keys
    <3>1. Members(writes) \subseteq Sides BY DEF Types, Members
    <3>2. gone \subseteq Members(writes) BY VictimsAreMembers
    <3> QED BY <3>1, <3>2 DEF Keys
  <2>3. \/ gone = {} /\ Idled(w)
        \/ gone \in SUBSET Keys /\ Moved(w, "forget", 0, gone)
    BY <2>1, <2>2, <1>s, ReturnIdles, StepMoves
  <2> QED BY <2>3
<1>3. ASSUME ForgetLowest(w) PROVE Idled(w)
  BY <1>3, ReturnIdles DEF ForgetLowest
<1> QED BY <1>1, <1>2, <1>3

(* Where a report, a failure and a crash lead.                               *)
LEMMA ReportMoves ==
    ASSUME Types, NEW w \in Workers
    PROVE  /\ CallFails(w) \/ Crash(w) => Idled(w)
           /\ Lookup(w) => Idled(w) \/ Moved(w, "get", 0, {})
           /\ ClaimGet(w) => Idled(w) \/ \E seen \in Nat : Moved(w, "setnx", seen, {})
           /\ ClaimSet(w) => \/ call[w].task \in claimed /\ Idled(w)
                             \/ /\ call[w].task \notin claimed
                                /\ Moved(w, "sync", call[w].seen, {})
           /\ SyncBlob(w) => Moved(w, "fan", 0, {})
           /\ FanOut(w) => Idled(w) \/ Moved(w, "count", 0, {})
<1>s. {"get", "setnx", "sync", "fan", "count"} \subseteq Steps BY DEF Steps, Telling
<1>c. call[w].seen \in Nat /\ {} \in SUBSET Keys BY DEF Types, Calls
<1>1. CallFails(w) \/ Crash(w) => Idled(w) BY ReturnIdles DEF CallFails, Crash
<1>2. Lookup(w) => Idled(w) \/ Moved(w, "get", 0, {})
  BY <1>s, ReturnIdles, GotoMoves DEF Lookup
<1>3. ClaimGet(w) => Idled(w) \/ \E seen \in Nat : Moved(w, "setnx", seen, {})
  <2> SUFFICES ASSUME ClaimGet(w), ~ Idled(w)
               PROVE  \E seen \in Nat : Moved(w, "setnx", seen, {})
    OBVIOUS
  <2>1. Step(w, "setnx", blob[call[w].task], {}) BY ReturnIdles DEF ClaimGet
  <2>2. blob[call[w].task] \in Nat BY DEF ClaimGet, Types, At
  <2> QED BY <2>1, <2>2, <1>s, <1>c, StepMoves
<1>4. ClaimSet(w) => \/ call[w].task \in claimed /\ Idled(w)
                     \/ /\ call[w].task \notin claimed
                        /\ Moved(w, "sync", call[w].seen, {})
  BY <1>s, <1>c, ReturnIdles, StepMoves DEF ClaimSet
<1>5. SyncBlob(w) => Moved(w, "fan", 0, {}) BY <1>s, GotoMoves DEF SyncBlob
<1>6. FanOut(w) => Idled(w) \/ Moved(w, "count", 0, {})
  BY <1>s, ReturnIdles, GotoMoves DEF FanOut
<1> QED BY <1>1, <1>2, <1>3, <1>4, <1>5, <1>6

(* Wherever they lead, the calls keep their types and their tasks.           *)
LEMMA CallsTyped ==
    ASSUME Types, NEW w \in Workers,
           \/ Idled(w)
           \/ \E step, seen, gone :
                 Moved(w, step, seen, gone) /\ call[w].at # "idle"
    PROVE  /\ call' \in [Workers -> Calls]
           /\ \A v \in Workers : call'[v].at # "idle" => call'[v].task \in Tasks
BY DEF Types, Idled, Moved

(* Every step keeps the types.                                               *)
LEMMA TypesStep == Types /\ Next => Types'
<1> SUFFICES ASSUME Types, NEW w \in Workers,
                    \/ Arrive(w)
                    \/ SkipMigration(w) \/ ReadOld(w) \/ ReadNew(w) \/ WriteNew(w)
                    \/ MigrationFails(w)
                    \/ RecordPipeline(w) \/ PickStale(w) \/ EvictStale(w)
                    \/ Push(w) \/ PickLowest(w) \/ ForgetLowest(w) \/ CallFails(w)
                    \/ Lookup(w) \/ ClaimGet(w) \/ ClaimSet(w) \/ SyncBlob(w) \/ FanOut(w)
                    \/ Crash(w)
             PROVE  Types'
  BY DEF Next
<1>h. /\ history.records \in Nat /\ history.finders \in Nat /\ history.failures \in Nat
      /\ history \in [records : Nat, finders : Nat, failures : Nat]
  BY DEF Types
<1>f. Fails => history' \in [records : Nat, finders : Nat, failures : Nat]
  <2>1. history.failures + 1 \in Nat BY <1>h
  <2> QED BY <2>1, <1>h DEF Fails
<1>1. CASE Arrive(w)
  <2>1. PICK t \in Tasks, op \in {"record", "report"} :
          call' = [call EXCEPT ![w] = [Nothing EXCEPT
                    !.at = IF w \in migrated THEN Body(op) ELSE "first", !.op = op, !.task = t]]
    BY <1>1 DEF Arrive
  <2>2. PICK at \in {"record", "lookup", "first"} :
          at = IF w \in migrated THEN Body(op) ELSE "first"
    BY DEF Body
  <2> DEFINE c == [Nothing EXCEPT !.at = at, !.op = op, !.task = t]
  <2>3. c \in Calls /\ c.task = t
    <3>1. Nothing \in Calls BY DEF Nothing, Calls, Steps
    <3>2. at \in Steps BY DEF Steps
    <3> QED BY <3>1, <3>2 DEF Calls
  <2>4. call' = [call EXCEPT ![w] = c] BY <2>1, <2>2
  <2> HIDE DEF c
  <2> QED BY <2>3, <2>4, <1>1 DEF Arrive, Types, redisVars
<1>2. CASE SkipMigration(w) \/ ReadNew(w)
  BY <1>2, MigrationMoves, CallsTyped
     DEF SkipMigration, ReadNew, At, Proceeds, Types, redisVars
<1>3. CASE ReadOld(w)
  <2>1. history' \in [records : Nat, finders : Nat, failures : Nat]
    <3>1. history.finders + 1 \in Nat BY <1>h
    <3> QED BY <3>1, <1>h, <1>3 DEF ReadOld
  <2> QED BY <1>3, <2>1, MigrationMoves, CallsTyped DEF ReadOld, At, Types, redisVars
<1>4. CASE WriteNew(w)
  <2>1. call[w].seen \in Nat BY DEF Types, Calls
  <2> QED BY <1>4, <2>1, MigrationMoves, CallsTyped DEF WriteNew, At, Proceeds, Types
<1>5. CASE MigrationFails(w)
  BY <1>5, <1>f, MigrationMoves, CallsTyped DEF MigrationFails, At, Proceeds, Types, redisVars
<1>6. CASE RecordPipeline(w)
  <2>1. PICK n \in Nat : n = history.records + 1 BY <1>h
  <2>2. history' \in [records : Nat, finders : Nat, failures : Nat]
        /\ blob' \in [Tasks -> Nat]
    BY <1>6, <1>h, <2>1 DEF RecordPipeline, Types
  <2>3. total' \in Nat BY <1>6 DEF RecordPipeline, Value, Types
  <2>4. call' \in [Workers -> Calls]
        /\ \A v \in Workers : call'[v].at # "idle" => call'[v].task \in Tasks
    BY <1>6, RecordMoves, CallsTyped DEF RecordPipeline, At
  <2> QED BY <1>6, <2>2, <2>3, <2>4, RecordMoves DEF RecordPipeline, Types
<1>7. CASE PickStale(w)
  BY <1>7, RecordMoves, CallsTyped DEF PickStale, At, Types, redisVars
<1>8. CASE EvictStale(w)
  BY <1>8, RecordMoves, CallsTyped DEF EvictStale, At, Types
<1>9. CASE Push(w)
  BY <1>9, CountMoves, CallsTyped DEF Push, At, Types
<1>10. CASE PickLowest(w)
  BY <1>10, CountMoves, CallsTyped DEF PickLowest, At, Types, redisVars
<1>11. CASE ForgetLowest(w)
  BY <1>11, CountMoves, CallsTyped DEF ForgetLowest, At, Types
<1>12. CASE CallFails(w)
  BY <1>12, <1>f, ReportMoves, CallsTyped DEF CallFails, Types, redisVars
<1>13. CASE Lookup(w) \/ ClaimGet(w)
  BY <1>13, ReportMoves, CallsTyped DEF Lookup, ClaimGet, At, Types, redisVars
<1>14. CASE ClaimSet(w)
  <2>1. call[w].task \in Tasks BY <1>14 DEF ClaimSet, At, Types
  <2> QED BY <1>14, <2>1, ReportMoves, CallsTyped DEF ClaimSet, At, Types
<1>15. CASE SyncBlob(w)
  <2>1. call[w].seen \in Nat BY DEF Types, Calls
  <2> QED BY <1>15, <2>1, ReportMoves, CallsTyped DEF SyncBlob, At, Types
<1>16. CASE FanOut(w)
  <2>1. PICK reached \in SUBSET Sinks :
          heard' = [heard EXCEPT ![call[w].task] =
                      [s \in Sinks |-> @[s] + (IF s \in reached THEN 1 ELSE 0)]]
    BY <1>16 DEF FanOut
  <2>2. heard' \in [Tasks -> [Sinks -> Nat]]
    <3> DEFINE told == [s \in Sinks |-> heard[call[w].task][s] + (IF s \in reached THEN 1 ELSE 0)]
    <3>1. call[w].task \in Tasks /\ heard \in [Tasks -> [Sinks -> Nat]]
      BY <1>16 DEF FanOut, At, Types
    <3>2. told \in [Sinks -> Nat] BY <3>1
    <3>3. heard' = [heard EXCEPT ![call[w].task] = told] BY <2>1, <3>1
    <3> HIDE DEF told
    <3> QED BY <3>1, <3>2, <3>3
  <2> QED BY <1>16, <2>2, ReportMoves, CallsTyped DEF FanOut, At, Types, redisVars
<1>17. CASE Crash(w)
  BY <1>17, <1>f, ReportMoves, CallsTyped DEF Crash, Types, redisVars
<1> QED BY <1>1, <1>2, <1>3, <1>4, <1>5, <1>6, <1>7, <1>8, <1>9, <1>10, <1>11, <1>12,
           <1>13, <1>14, <1>15, <1>16, <1>17

-----------------------------------------------------------------------------
(* Verdicts                                                                  *)

(* The claim is set if absent: its winner alone goes on to the sinks, and a  *)
(* second one of the same task finds it.                                     *)
LEMMA VerdictsStep == Types /\ Verdicts /\ Next => Verdicts'
<1> SUFFICES ASSUME Types, Verdicts, NEW w \in Workers,
                    \/ Arrive(w)
                    \/ SkipMigration(w) \/ ReadOld(w) \/ ReadNew(w) \/ WriteNew(w)
                    \/ MigrationFails(w)
                    \/ RecordPipeline(w) \/ PickStale(w) \/ EvictStale(w)
                    \/ Push(w) \/ PickLowest(w) \/ ForgetLowest(w) \/ CallFails(w)
                    \/ Lookup(w) \/ ClaimGet(w) \/ ClaimSet(w) \/ SyncBlob(w) \/ FanOut(w)
                    \/ Crash(w)
             PROVE  Verdicts'
  BY DEF Next
<1> USE DEF Telling
<1>q. ASSUME UNCHANGED <<claimed, heard>>, call'[w].at \notin Telling,
             \A v \in Workers \ {w} : call'[v] = call[v]
      PROVE  Verdicts'
  BY <1>q DEF Verdicts, At
<1>1. CASE Arrive(w)
  <2>1. call'[w].at \notin Telling /\ \A v \in Workers \ {w} : call'[v] = call[v]
    <3>1. PICK at \in {"record", "lookup", "first"}, op \in {"record", "report"}, t \in Tasks :
            call' = [call EXCEPT ![w] = [Nothing EXCEPT !.at = at, !.op = op, !.task = t]]
      BY <1>1 DEF Arrive, Body
    <3>2. call \in [Workers -> Calls] BY DEF Types
    <3>3. [Nothing EXCEPT !.at = at, !.op = op, !.task = t].at = at BY DEF Nothing
    <3> QED BY <3>1, <3>2, <3>3
  <2> QED BY <2>1, <1>1, <1>q DEF Arrive, redisVars
<1>2. CASE SkipMigration(w) \/ ReadOld(w) \/ ReadNew(w) \/ WriteNew(w) \/ MigrationFails(w)
  <2>1. call'[w].at \notin Telling /\ \A v \in Workers \ {w} : call'[v] = call[v]
    BY <1>2, MigrationMoves DEF Moved, Proceeds
  <2>2. UNCHANGED <<claimed, heard>>
    BY <1>2 DEF SkipMigration, ReadOld, ReadNew, WriteNew, MigrationFails, redisVars
  <2> QED BY <2>1, <2>2, <1>q
<1>3. CASE RecordPipeline(w) \/ PickStale(w) \/ EvictStale(w)
  <2>1. call'[w].at \notin Telling /\ \A v \in Workers \ {w} : call'[v] = call[v]
    BY <1>3, RecordMoves DEF Moved
  <2>2. UNCHANGED <<claimed, heard>>
    BY <1>3 DEF RecordPipeline, PickStale, EvictStale, redisVars
  <2> QED BY <2>1, <2>2, <1>q
<1>4. CASE Push(w) \/ PickLowest(w) \/ ForgetLowest(w)
  <2>1. call'[w].at \notin Telling /\ \A v \in Workers \ {w} : call'[v] = call[v]
    BY <1>4, CountMoves DEF Moved, Idled
  <2>2. UNCHANGED <<claimed, heard>>
    BY <1>4 DEF Push, PickLowest, ForgetLowest, redisVars
  <2> QED BY <2>1, <2>2, <1>q
<1>5. CASE CallFails(w) \/ Crash(w) \/ Lookup(w) \/ ClaimGet(w)
  <2>1. call'[w].at \notin Telling /\ \A v \in Workers \ {w} : call'[v] = call[v]
    BY <1>5, ReportMoves DEF Moved, Idled
  <2>2. UNCHANGED <<claimed, heard>>
    BY <1>5 DEF CallFails, Crash, Lookup, ClaimGet, redisVars
  <2> QED BY <2>1, <2>2, <1>q
<1>6. CASE ClaimSet(w)
  <2> DEFINE t == call[w].task
  <2>1. t \in Tasks /\ claimed' = claimed \cup {t} /\ heard' = heard
    BY <1>6 DEF ClaimSet, At, Types
  <2>2. CASE t \in claimed /\ Idled(w)
    <3>1. claimed' = claimed BY <2>1, <2>2
    <3> QED BY <3>1, <2>1, <2>2, <1>q DEF Idled
  <2>3. CASE t \notin claimed /\ Moved(w, "sync", call[w].seen, {})
    <3>1. \A s \in Sinks : heard[t][s] = 0
      BY <2>1, <2>3 DEF Verdicts, Types
    <3>2. \A v \in Workers : call[v].at \in Telling => call[v].task # t
      BY <2>3 DEF Verdicts, At
    <3> QED BY <3>1, <3>2, <2>1, <2>3 DEF Verdicts, Moved, At
  <2> QED BY <2>2, <2>3, <1>6, ReportMoves
<1>7. CASE SyncBlob(w)
  <2>1. Moved(w, "fan", 0, {}) BY <1>7, ReportMoves
  <2>2. At(w, "sync") /\ UNCHANGED <<claimed, heard>> BY <1>7 DEF SyncBlob
  <2> QED BY <2>1, <2>2 DEF Verdicts, Moved, At
<1>8. CASE FanOut(w)
  <2> DEFINE t == call[w].task
  <2>1. /\ At(w, "fan") /\ t \in Tasks /\ t \in claimed /\ claimed' = claimed
        /\ \A s \in Sinks : heard[t][s] = 0
    BY <1>8 DEF FanOut, redisVars, Types, At, Verdicts
  <2>2. /\ call'[w].at \notin Telling
        /\ \A v \in Workers \ {w} : call'[v] = call[v]
    BY <1>8, ReportMoves DEF Idled, Moved
  <2>3. /\ \A s \in Sinks : heard'[t][s] \in {0, 1}
        /\ \A u \in Tasks \ {t} : heard'[u] = heard[u]
    <3>1. PICK reached \in SUBSET Sinks :
            heard' = [heard EXCEPT ![t] =
                        [s \in Sinks |-> @[s] + (IF s \in reached THEN 1 ELSE 0)]]
      BY <1>8 DEF FanOut
    <3>2. heard \in [Tasks -> [Sinks -> Nat]] BY DEF Types
    <3>3. \A s \in Sinks : heard'[t][s] = heard[t][s] + (IF s \in reached THEN 1 ELSE 0)
      BY <2>1, <3>1, <3>2
    <3> QED BY <2>1, <3>1, <3>2, <3>3
  <2>4. \A v \in Workers : call'[v].at \in Telling => call'[v].task # t
    BY <2>1, <2>2 DEF Verdicts, At
  <2>5. \A u \in Tasks, s \in Sinks :
          heard'[u][s] <= 1 /\ (heard'[u][s] > 0 => u \in claimed')
    BY <2>1, <2>3 DEF Verdicts
  <2>6. \A v \in Workers : call'[v].at \in Telling =>
          call'[v].task \in claimed' /\ \A s \in Sinks : heard'[call'[v].task][s] = 0
    BY <2>1, <2>2, <2>3, <2>4 DEF Verdicts, At, Types
  <2> QED BY <2>2, <2>5, <2>6 DEF Verdicts, At
<1> QED BY <1>1, <1>2, <1>3, <1>4, <1>5, <1>6, <1>7, <1>8

-----------------------------------------------------------------------------
(* Migration                                                                 *)

(* As long as one worker at most has found the legacy counter and nothing    *)
(* has failed: before the move nobody gets past the migration, and after it  *)
(* nobody finds anything to move.                                            *)
LEMMA MigrationStep == Types /\ Migration /\ Next => Migration'
<1> SUFFICES ASSUME Types, Migration, NEW w \in Workers,
                    \/ Arrive(w)
                    \/ SkipMigration(w) \/ ReadOld(w) \/ ReadNew(w) \/ WriteNew(w)
                    \/ MigrationFails(w)
                    \/ RecordPipeline(w) \/ PickStale(w) \/ EvictStale(w)
                    \/ Push(w) \/ PickLowest(w) \/ ForgetLowest(w) \/ CallFails(w)
                    \/ Lookup(w) \/ ClaimGet(w) \/ ClaimSet(w) \/ SyncBlob(w) \/ FanOut(w)
                    \/ Crash(w),
                    history'.finders <= 1, history'.failures = 0
             PROVE  \/ /\ old' = Legacy /\ total' = Absent /\ history'.records = 0 /\ migrated' = {}
                       /\ \A v \in Workers : call'[v].at \in {"idle", "first", "readNew", "copy"}
                       /\ \A v \in Workers : call'[v].at \in Migrating =>
                             /\ call'[v].seen = Legacy /\ history'.finders = 1
                             /\ \A u \in Workers : call'[u].at \in Migrating => u = v
                    \/ /\ old' = Absent /\ Value(total)' = Legacy + history'.records
                       /\ \A v \in Workers : call'[v].at \notin Migrating
  BY DEF Next, Migration
<1> USE DEF Migrating
<1> DEFINE Before ==
      /\ old = Legacy /\ total = Absent /\ history.records = 0 /\ migrated = {}
      /\ \A v \in Workers : call[v].at \in {"idle", "first", "readNew", "copy"}
      /\ \A v \in Workers : call[v].at \in Migrating =>
            /\ call[v].seen = Legacy /\ history.finders = 1
            /\ \A u \in Workers : call[u].at \in Migrating => u = v
<1> DEFINE After ==
      /\ old = Absent /\ Value(total) = Legacy + history.records
      /\ \A v \in Workers : call[v].at \notin Migrating
<1> SUFFICES Before' \/ After'
  OBVIOUS
<1>h. history.records \in Nat /\ history.finders \in Nat /\ history.failures \in Nat
      /\ history \in [records : Nat, finders : Nat, failures : Nat] /\ Legacy \in Nat
  BY LedgerAssumption DEF Types
<1>c. ~ Fails
  BY <1>h DEF Fails
<1>p. history.finders <= history'.finders /\ history.failures = 0
  <2>1. UNCHANGED history \/ ReadOld(w) \/ RecordPipeline(w)
    BY <1>c DEF Arrive, SkipMigration, ReadNew, WriteNew, MigrationFails, PickStale,
       EvictStale, Push, PickLowest, ForgetLowest, CallFails, Lookup, ClaimGet, ClaimSet,
       SyncBlob, FanOut, Crash
  <2>2. CASE UNCHANGED history BY <2>2, <1>h
  <2>3. CASE ReadOld(w)
    <3>1. history'.finders = history.finders + 1 /\ history'.failures = history.failures
      BY <2>3, <1>h DEF ReadOld
    <3> QED BY <3>1, <1>h
  <2>4. CASE RecordPipeline(w)
    <3>1. history'.finders = history.finders /\ history'.failures = history.failures
      BY <2>4, <1>h DEF RecordPipeline
    <3> QED BY <3>1, <1>h
  <2> QED BY <2>1, <2>2, <2>3, <2>4
<1>b. Before \/ After
  <2>1. history' \in [records : Nat, finders : Nat, failures : Nat]
    BY TypesStep DEF Next, Types
  <2>2. history.finders <= 1 BY <2>1, <1>h, <1>p
  <2> QED BY <2>2, <1>p DEF Migration
<1>a. Legacy # Absent BY <1>h DEF Absent
<1>1. CASE Arrive(w)
  <2>1. PICK op \in {"record", "report"}, t \in Tasks :
          call' = [call EXCEPT ![w] = [Nothing EXCEPT
                    !.at = IF w \in migrated THEN Body(op) ELSE "first", !.op = op, !.task = t]]
    BY <1>1 DEF Arrive
  <2>2. call \in [Workers -> Calls] BY DEF Types
  <2>3. /\ call'[w].at = IF w \in migrated THEN Body(op) ELSE "first"
        /\ \A v \in Workers \ {w} : call'[v] = call[v]
    BY <2>1, <2>2 DEF Nothing
  <2>4. Body(op) \in {"record", "lookup"} BY DEF Body
  <2>5. UNCHANGED <<old, total, migrated, history>> BY <1>1 DEF Arrive, redisVars
  <2>6. CASE Before
    <3>1. call'[w].at = "first" BY <2>3, <2>6
    <3> QED BY <3>1, <2>3, <2>5, <2>6
  <2>7. CASE After
    <3>1. call'[w].at \notin Migrating BY <2>3, <2>4
    <3> QED BY <3>1, <2>3, <2>5, <2>7 DEF Value
  <2> QED BY <2>6, <2>7, <1>b
<1>2. CASE SkipMigration(w)
  <2>1. After BY <1>2, <1>a, <1>b DEF SkipMigration
  <2>2. call'[w].at \notin Migrating /\ \A v \in Workers \ {w} : call'[v] = call[v]
    BY <1>2, MigrationMoves DEF Moved, Proceeds
  <2> QED BY <2>1, <2>2, <1>2 DEF SkipMigration, redisVars, Value
<1>3. CASE ReadOld(w)
  <2>1. Before BY <1>3, <1>b DEF ReadOld
  <2>2. history'.finders = history.finders + 1 /\ history'.records = history.records
    BY <1>3, <1>h DEF ReadOld
  <2>3. history'.finders = 1 /\ history.finders # 1 BY <2>2, <1>h
  <2>4. \A v \in Workers : call[v].at \notin Migrating BY <2>1, <2>3
  <2>5. Moved(w, "readNew", old, {}) BY <1>3, MigrationMoves
  <2> QED BY <2>1, <2>2, <2>3, <2>4, <2>5, <1>3 DEF ReadOld, redisVars, Moved
<1>4. CASE ReadNew(w)
  <2>1. Before BY <1>4, <1>b DEF ReadNew, At
  <2>2. Moved(w, "copy", call[w].seen, {}) BY <2>1, <1>4, MigrationMoves
  <2>3. UNCHANGED <<old, total, migrated, history>> /\ call[w].at = "readNew"
    BY <1>4 DEF ReadNew, redisVars, At
  <2> QED BY <2>1, <2>2, <2>3 DEF Moved
<1>5. CASE WriteNew(w)
  <2>1. Before BY <1>5, <1>b DEF WriteNew, At
  <2>2. call[w].at = "copy" /\ call[w].seen = Legacy BY <2>1, <1>5 DEF WriteNew, At
  <2>3. old' = Absent /\ total' = Legacy /\ history' = history
    BY <2>2, <1>5 DEF WriteNew, At
  <2>4. \A v \in Workers \ {w} : call[v].at \notin Migrating BY <2>1, <2>2
  <2>5. call'[w].at \notin Migrating /\ \A v \in Workers \ {w} : call'[v] = call[v]
    BY <1>5, MigrationMoves DEF Moved, Proceeds
  <2> QED BY <2>1, <2>3, <2>4, <2>5, <1>a, <1>h DEF Value
<1>6. ASSUME RecordPipeline(w) \/ PickStale(w) \/ EvictStale(w)
             \/ Push(w) \/ PickLowest(w) \/ ForgetLowest(w)
             \/ Lookup(w) \/ ClaimGet(w) \/ ClaimSet(w) \/ SyncBlob(w) \/ FanOut(w)
      PROVE  Before' \/ After'
  <2>1. After
    BY <1>6, <1>b DEF At, RecordPipeline, PickStale, EvictStale, Push, PickLowest,
       ForgetLowest, Lookup, ClaimGet, ClaimSet, SyncBlob, FanOut
  <2>2. call'[w].at \notin Migrating /\ \A v \in Workers \ {w} : call'[v] = call[v]
    BY <1>6, RecordMoves, CountMoves, ReportMoves DEF Moved, Idled
  <2>3. CASE RecordPipeline(w)
    <3>1. total' = Value(total) + 1 /\ old' = old BY <2>3 DEF RecordPipeline
    <3>2. history'.records = history.records + 1 BY <2>3, <1>h DEF RecordPipeline
    <3>3. Value(total)' = Value(total) + 1
      BY <3>1, <2>1, <1>h DEF Value, Absent
    <3> QED BY <3>1, <3>2, <3>3, <2>1, <2>2, <1>h
  <2>4. CASE ~ RecordPipeline(w)
    <3>1. UNCHANGED <<old, total, history>>
      BY <2>4, <1>6 DEF redisVars, PickStale, EvictStale, Push, PickLowest,
         ForgetLowest, Lookup, ClaimGet, ClaimSet, SyncBlob, FanOut
    <3> QED BY <3>1, <2>1, <2>2 DEF Value
  <2> QED BY <2>3, <2>4
<1> QED BY <1>1, <1>2, <1>3, <1>4, <1>5, <1>6, <1>c DEF MigrationFails, CallFails, Crash

-----------------------------------------------------------------------------
(* Eviction                                                                  *)

(* A step of a worker that neither picks nor evicts leaves the excess in     *)
(* the hands it was in.                                                      *)
LEMMA HandStays ==
    ASSUME NEW C, NEW D, NEW w \in Workers, \A v \in Workers \ {w} : D[v] = C[v],
           NEW f, NEW limit, NEW picking, NEW evicting,
           InHand(C, f, limit, picking, evicting), C[w].at \notin {picking, evicting}
    PROVE  InHand(D, f, limit, picking, evicting)
BY DEF InHand

(* A worker that had the excess in hand picks enough of the members.         *)
LEMMA HandPicks ==
    ASSUME NEW C \in [Workers -> Calls], NEW D, NEW w \in Workers,
           \A v \in Workers \ {w} : D[v] = C[v],
           NEW S, IsFiniteSet(S), NEW f \in [S -> Nat], NEW limit \in Nat \ {0},
           NEW picking, NEW evicting,
           InHand(C, f, limit, picking, evicting),
           C[w].at = picking, picking # evicting,
           NEW p, NEW V \in VictimsOf(f, C[w].seen, p),
           V = {} \/ (D[w].at = evicting /\ D[w].gone = V)
    PROVE  InHand(D, f, limit, picking, evicting)
<1> SUFFICES ASSUME Overflow(f, limit) > 0
             PROVE  \E u \in Workers :
                      \/ D[u].at = picking /\ D[u].seen >= Overflow(f, limit)
                      \/ /\ D[u].at = evicting
                         /\ Cardinality(D[u].gone \cap Members(f)) >= Overflow(f, limit)
  BY DEF InHand
<1>1. PICK u \in Workers :
        \/ C[u].at = picking /\ C[u].seen >= Overflow(f, limit)
        \/ /\ C[u].at = evicting
           /\ Cardinality(C[u].gone \cap Members(f)) >= Overflow(f, limit)
  BY DEF InHand
<1>2. CASE u # w BY <1>1, <1>2
<1>3. CASE u = w
  <2>1. IsFiniteSet(Members(f)) /\ Overflow(f, limit) \in Int BY IndexFinite
  <2>2. C[w].seen \in Nat /\ C[w].seen >= Overflow(f, limit) BY <1>1, <1>3 DEF Calls
  <2>3. V \subseteq Members(f) /\ Cardinality(V) >= Overflow(f, limit)
    BY <2>1, <2>2, VictimsSuffice
  <2>4. V # {} BY <2>1, <2>3, FS_EmptySet
  <2>5. V \cap Members(f) = V BY <2>3
  <2> QED BY <2>3, <2>4, <2>5
<1> QED BY <1>2, <1>3

\* g is the index f without some members.
Without(f, gone, g) == \A m \in DOMAIN f : g[m] = IF m \in gone THEN 0 ELSE f[m]

(* A worker that evicts what it picked ends the excess it had in hand, or    *)
(* leaves another one's hand full enough.                                    *)
LEMMA HandEvicts ==
    ASSUME NEW C \in [Workers -> Calls], NEW D, NEW w \in Workers,
           \A v \in Workers \ {w} : D[v] = C[v],
           NEW S, IsFiniteSet(S), NEW f \in [S -> Nat], NEW g \in [S -> Nat],
           NEW limit \in Nat \ {0},
           NEW picking, NEW evicting,
           InHand(C, f, limit, picking, evicting),
           C[w].at = evicting, picking # evicting,
           Without(f, C[w].gone, g)
    PROVE  InHand(D, g, limit, picking, evicting)
<1> DEFINE M == Members(f)
           G == C[w].gone
<1>1. IsFiniteSet(M) /\ Members(g) = M \ G
  BY IndexFinite, SMTT(30) DEF Members, Without
<1> SUFFICES ASSUME Overflow(g, limit) > 0
             PROVE  \E u \in Workers :
                      \/ D[u].at = picking /\ D[u].seen >= Overflow(g, limit)
                      \/ /\ D[u].at = evicting
                         /\ Cardinality(D[u].gone \cap (M \ G)) >= Overflow(g, limit)
  BY <1>1 DEF InHand
<1> HIDE DEF G
<1> HIDE DEF M
<1>2. /\ Cardinality(M \ G) = Cardinality(M) - Cardinality(G \cap M)
      /\ Cardinality(M) \in Nat /\ Cardinality(M \ G) \in Nat /\ Cardinality(G \cap M) \in Nat
  BY <1>1, EvictionCounts
<1>3. Overflow(f, limit) = Cardinality(M) - limit /\ Overflow(g, limit) = Cardinality(M \ G) - limit
  BY <1>1 DEF Overflow, M
<1>4. Overflow(f, limit) > 0 BY <1>2, <1>3
<1>5. PICK u \in Workers :
        \/ C[u].at = picking /\ C[u].seen >= Overflow(f, limit)
        \/ /\ C[u].at = evicting
           /\ Cardinality(C[u].gone \cap M) >= Overflow(f, limit)
  BY <1>4 DEF InHand, M
<1>6. u # w
  <2> SUFFICES ASSUME u = w PROVE FALSE OBVIOUS
  <2>1. Cardinality(G \cap M) >= Overflow(f, limit) BY <1>5 DEF G
  <2> QED BY <2>1, <1>2, <1>3
<1>7. D[u] = C[u] BY <1>6
<1>8. CASE C[u].at = picking /\ C[u].seen >= Overflow(f, limit)
  <2>1. C[u].seen \in Nat BY DEF Calls
  <2>2. C[u].seen >= Overflow(g, limit) BY <2>1, <1>8, <1>2, <1>3
  <2> QED BY <2>2, <1>7, <1>8
<1>9. CASE /\ C[u].at = evicting
           /\ Cardinality(C[u].gone \cap M) >= Overflow(f, limit)
  <2> DEFINE H == C[u].gone
  <2> HIDE DEF H
  <2>1. /\ Cardinality(H \cap (M \ G)) >= Cardinality(H \cap M) - Cardinality(G \cap M)
        /\ Cardinality(H \cap M) \in Nat /\ Cardinality(H \cap (M \ G)) \in Nat
    BY <1>1, EvictionCounts
  <2>2. Cardinality(H \cap M) >= Overflow(f, limit) BY <1>9 DEF H
  <2>3. Cardinality(H \cap (M \ G)) >= Overflow(g, limit)
    BY <2>1, <2>2, <1>2, <1>3
  <2> QED BY <2>3, <1>7, <1>9 DEF H
<1> QED BY <1>5, <1>8, <1>9

(* A writer whose change makes an index too long holds the whole excess.     *)
LEMMA HandFills ==
    ASSUME NEW D, NEW w \in Workers, NEW f, NEW limit, NEW picking, NEW evicting,
           \/ D[w].at = picking /\ D[w].seen = Overflow(f, limit) /\ Overflow(f, limit) \in Int
           \/ Overflow(f, limit) <= 0 /\ Overflow(f, limit) \in Int
    PROVE  InHand(D, f, limit, picking, evicting)
<1> DEFINE o == Overflow(f, limit)
<1> HIDE DEF o
<1>1. o \in Int /\ ((D[w].at = picking /\ D[w].seen = o) \/ o <= 0) BY DEF o
<1>2. o > 0 => \E u \in Workers : D[u].at = picking /\ D[u].seen >= o BY <1>1
<1> QED BY <1>2 DEF InHand, o

(* As long as no round trip fails, whatever the interleaving of the writers. *)
LEMMA EvictionStep == Types /\ Eviction /\ Next => Eviction'
<1> SUFFICES ASSUME Types, Eviction, NEW w \in Workers,
                    \/ Arrive(w)
                    \/ SkipMigration(w) \/ ReadOld(w) \/ ReadNew(w) \/ WriteNew(w)
                    \/ MigrationFails(w)
                    \/ RecordPipeline(w) \/ PickStale(w) \/ EvictStale(w)
                    \/ Push(w) \/ PickLowest(w) \/ ForgetLowest(w) \/ CallFails(w)
                    \/ Lookup(w) \/ ClaimGet(w) \/ ClaimSet(w) \/ SyncBlob(w) \/ FanOut(w)
                    \/ Crash(w),
                    history'.failures = 0
             PROVE  /\ InHand(call', score', MaxIndex, "trim", "evict")
                    /\ InHand(call', writes', MaxBuckets, "rank", "forget")
  BY DEF Next, Eviction
<1>h. history.failures \in Nat
      /\ history \in [records : Nat, finders : Nat, failures : Nat]
  BY DEF Types
<1>c. ~ Fails
  BY <1>h DEF Fails
<1>p. history.failures = 0
  <2>1. UNCHANGED history \/ ReadOld(w) \/ RecordPipeline(w)
    BY <1>c DEF Arrive, SkipMigration, ReadNew, WriteNew, MigrationFails, PickStale,
       EvictStale, Push, PickLowest, ForgetLowest, CallFails, Lookup, ClaimGet, ClaimSet,
       SyncBlob, FanOut, Crash
  <2>2. CASE UNCHANGED history BY <2>2
  <2>3. CASE ReadOld(w) \/ RecordPipeline(w)
    BY <2>3, <1>h DEF ReadOld, RecordPipeline
  <2> QED BY <2>1, <2>2, <2>3
<1>b. /\ InHand(call, score, MaxIndex, "trim", "evict")
      /\ InHand(call, writes, MaxBuckets, "rank", "forget")
  BY <1>p DEF Eviction
<1>t. /\ call \in [Workers -> Calls]
      /\ score \in [Tasks -> Nat] /\ writes \in [Sides -> Nat]
      /\ IsFiniteSet(Tasks) /\ IsFiniteSet(Sides)
      /\ MaxIndex \in Nat \ {0} /\ MaxBuckets \in Nat \ {0}
  BY LedgerAssumption, SidesFinite DEF Types
<1>s. ASSUME \A v \in Workers \ {w} : call'[v] = call[v], score' = score,
             call[w].at \notin {"trim", "evict"}
      PROVE  InHand(call', score', MaxIndex, "trim", "evict")
  BY <1>s, <1>b, HandStays
<1>w. ASSUME \A v \in Workers \ {w} : call'[v] = call[v], writes' = writes,
             call[w].at \notin {"rank", "forget"}
      PROVE  InHand(call', writes', MaxBuckets, "rank", "forget")
  BY <1>w, <1>b, HandStays
<1>1. CASE Arrive(w)
  <2>1. \A v \in Workers \ {w} : call'[v] = call[v]
    BY <1>1, <1>t DEF Arrive
  <2> QED BY <2>1, <1>1, <1>s, <1>w DEF Arrive, At, redisVars
<1>2. CASE SkipMigration(w) \/ ReadOld(w) \/ ReadNew(w) \/ WriteNew(w)
  <2>1. \A v \in Workers \ {w} : call'[v] = call[v]
    BY <1>2, MigrationMoves DEF Moved, Proceeds
  <2>2. UNCHANGED <<score, writes>> /\ call[w].at \in Migrating \cup {"first"}
    BY <1>2 DEF SkipMigration, ReadOld, ReadNew, WriteNew, redisVars, At, Migrating
  <2> QED BY <2>1, <2>2, <1>s, <1>w DEF Migrating
<1>3. CASE RecordPipeline(w)
  <2>1. /\ score' \in [Tasks -> Nat]
        /\ \/ Overflow(score', MaxIndex) > 0
              /\ Moved(w, "trim", Overflow(score', MaxIndex), {})
           \/ Overflow(score', MaxIndex) <= 0 /\ Moved(w, "count", 0, {})
    BY <1>3, RecordMoves
  <2>2. Overflow(score', MaxIndex) \in Int BY <2>1, <1>t, IndexFinite
  <2>3. InHand(call', score', MaxIndex, "trim", "evict")
    BY <2>1, <2>2, HandFills DEF Moved
  <2> QED BY <2>1, <2>3, <1>3, <1>w DEF RecordPipeline, At, Moved
<1>4. CASE PickStale(w)
  <2>1. PICK gone \in VictimsOf(score, call[w].seen, call[w].task) :
          \/ gone = {} /\ Moved(w, "count", 0, {})
          \/ gone \in SUBSET Keys /\ Moved(w, "evict", 0, gone)
    BY <1>4, RecordMoves
  <2>2. call[w].at = "trim" /\ UNCHANGED <<score, writes>>
    BY <1>4 DEF PickStale, At, redisVars
  <2>3. \A v \in Workers \ {w} : call'[v] = call[v] BY <2>1 DEF Moved
  <2>4. gone = {} \/ (call'[w].at = "evict" /\ call'[w].gone = gone) BY <2>1 DEF Moved
  <2>5. InHand(call', score, MaxIndex, "trim", "evict")
    BY <2>2, <2>3, <2>4, <1>b, <1>t, HandPicks
  <2> QED BY <2>2, <2>3, <2>5, <1>w
<1>5. CASE EvictStale(w)
  <2>1. /\ call[w].at = "evict" /\ writes' = writes
        /\ score' \in [Tasks -> Nat]
        /\ Without(score, call[w].gone, score')
    BY <1>t, <1>5 DEF Without, EvictStale, At
  <2>2. \A v \in Workers \ {w} : call'[v] = call[v] BY <1>5, RecordMoves DEF Moved
  <2>3. InHand(call', score', MaxIndex, "trim", "evict")
    BY <2>1, <2>2, <1>b, <1>t, HandEvicts
  <2> QED BY <2>1, <2>2, <2>3, <1>w
<1>6. CASE Push(w)
  <2>1. /\ writes' \in [Sides -> Nat]
        /\ \/ Overflow(writes', MaxBuckets) > 0
              /\ Moved(w, "rank", Overflow(writes', MaxBuckets), {})
           \/ Overflow(writes', MaxBuckets) <= 0 /\ Idled(w)
    BY <1>6, CountMoves
  <2>2. Overflow(writes', MaxBuckets) \in Int BY <2>1, <1>t, IndexFinite
  <2>3. InHand(call', writes', MaxBuckets, "rank", "forget")
    BY <2>1, <2>2, HandFills DEF Moved
  <2> QED BY <2>1, <2>3, <1>6, <1>s DEF Push, At, Moved, Idled
<1>7. CASE PickLowest(w)
  <2>1. PICK gone \in VictimsOf(writes, call[w].seen, Side(w)) :
          \/ gone = {} /\ Idled(w)
          \/ gone \in SUBSET Keys /\ Moved(w, "forget", 0, gone)
    BY <1>7, CountMoves
  <2>2. call[w].at = "rank" /\ UNCHANGED <<score, writes>>
    BY <1>7 DEF PickLowest, At, redisVars
  <2>3. \A v \in Workers \ {w} : call'[v] = call[v] BY <2>1 DEF Moved, Idled
  <2>4. gone = {} \/ (call'[w].at = "forget" /\ call'[w].gone = gone) BY <2>1 DEF Moved
  <2>5. InHand(call', writes, MaxBuckets, "rank", "forget")
    BY <2>2, <2>3, <2>4, <1>b, <1>t, HandPicks
  <2> QED BY <2>2, <2>3, <2>5, <1>s
<1>8. CASE ForgetLowest(w)
  <2>1. /\ call[w].at = "forget" /\ score' = score
        /\ writes' \in [Sides -> Nat]
        /\ Without(writes, call[w].gone, writes')
    BY <1>t, <1>8 DEF Without, ForgetLowest, At
  <2>2. \A v \in Workers \ {w} : call'[v] = call[v] BY <1>8, CountMoves DEF Idled
  <2>3. InHand(call', writes', MaxBuckets, "rank", "forget")
    BY <2>1, <2>2, <1>b, <1>t, HandEvicts
  <2> QED BY <2>1, <2>2, <2>3, <1>s
<1>9. CASE Lookup(w) \/ ClaimGet(w) \/ ClaimSet(w) \/ SyncBlob(w) \/ FanOut(w)
  <2>1. \A v \in Workers \ {w} : call'[v] = call[v]
    BY <1>9, ReportMoves DEF Moved, Idled
  <2>2. /\ UNCHANGED <<score, writes>>
        /\ call[w].at \in {"lookup", "get", "setnx", "sync", "fan"}
    BY <1>9 DEF Lookup, ClaimGet, ClaimSet, SyncBlob, FanOut, redisVars, At
  <2> QED BY <2>1, <2>2, <1>s, <1>w
<1> QED BY <1>1, <1>2, <1>3, <1>4, <1>5, <1>6, <1>7, <1>8, <1>9, <1>c
        DEF MigrationFails, CallFails, Crash

-----------------------------------------------------------------------------
(* The invariant and the properties it implies                               *)

(* Nothing is indexed and nobody is on a call.                               *)
LEMMA InitOK == Init => IInv
<1> SUFFICES ASSUME Init PROVE IInv OBVIOUS
<1>1. Nothing \in Calls /\ Nothing.at = "idle" BY DEF Nothing, Calls, Steps
<1>2. Types
  <2>1. call \in [Workers -> Calls] /\ \A w \in Workers : call[w].at = "idle"
    BY <1>1 DEF Init
  <2> QED BY <2>1, LedgerAssumption DEF Init, Types, Absent
<1>3. \A w \in Workers : call[w].at = "idle" BY <1>1 DEF Init
<1>4. Verdicts BY <1>3 DEF Init, Verdicts, At, Telling
<1>5. Migration
  <2>1. history.records = 0 BY DEF Init
  <2> QED BY <2>1, <1>3 DEF Init, Migration, Migrating
<1>6. Eviction
  <2>1. Members(score) = {} /\ Members(writes) = {} BY DEF Init, Members
  <2>2. ~ (Overflow(score, MaxIndex) > 0) /\ ~ (Overflow(writes, MaxBuckets) > 0)
    BY <2>1, FS_EmptySet, LedgerAssumption DEF Overflow
  <2> QED BY <2>2 DEF Eviction, InHand
<1> QED BY <1>2, <1>4, <1>5, <1>6 DEF IInv

(* Every step keeps it.                                                      *)
LEMMA StepOK == IInv /\ [Next]_vars => IInv'
<1> SUFFICES ASSUME IInv, [Next]_vars PROVE IInv' OBVIOUS
<1>1. CASE Next
  BY <1>1, TypesStep, VerdictsStep, MigrationStep, EvictionStep DEF IInv
<1>2. CASE UNCHANGED vars
  BY <1>2 DEF vars, redisVars, IInv, Types, Verdicts, At, Migration, Value, Eviction
<1> QED BY <1>1, <1>2

(* The inductive invariant of the shared ledger holds throughout.            *)
THEOREM LedgerInvariant == Spec => []IInv
<1> QED BY InitOK, StepOK, PTL DEF Spec

(* No sink ever hears two callers' verdicts on one task.                     *)
THEOREM OneVerdictWins == Spec => []OneVerdictPerTask
<1>1. IInv => OneVerdictPerTask BY DEF IInv, Verdicts, OneVerdictPerTask
<1> QED BY <1>1, LedgerInvariant, PTL

(* The migration loses and repeats no spend: as long as one worker at most   *)
(* finds the legacy counter and no round trip fails, the two counters add up *)
(* to the legacy spend and every record since.                               *)
THEOREM MigratedSpendAddsUp == Spec => []SpendAddsUp
<1>1. IInv => SpendAddsUp
  <2> SUFFICES ASSUME IInv, history.finders <= 1, history.failures = 0
               PROVE  Value(old) + Value(total) = Legacy + history.records
    BY DEF SpendAddsUp
  <2>1. history.records \in Nat BY DEF IInv, Types
  <2>2. CASE old = Legacy /\ total = Absent /\ history.records = 0
    <3>1. Value(old) = Legacy /\ Value(total) = 0
      BY <2>2, LedgerAssumption DEF Value, Absent
    <3> QED BY <3>1, <2>2, LedgerAssumption
  <2>3. CASE old = Absent /\ Value(total) = Legacy + history.records
    <3>1. Value(old) = 0 BY <2>3 DEF Value
    <3> QED BY <3>1, <2>1, <2>3, LedgerAssumption
  <2> QED BY <2>2, <2>3 DEF IInv, Migration
<1> QED BY <1>1, LedgerInvariant, PTL

(* Once no writer is behind with its eviction, both indexes are within their *)
(* bounds.                                                                   *)
THEOREM IndexesCatchUp == Spec => []IndexCatchesUp
<1>1. IInv => IndexCatchesUp
  <2> SUFFICES ASSUME IInv, history.failures = 0,
                      \A w \in Workers : call[w].at \notin {"trim", "evict", "rank", "forget"}
               PROVE  Overflow(score, MaxIndex) <= 0 /\ Overflow(writes, MaxBuckets) <= 0
    BY DEF IndexCatchesUp
  <2>1. Overflow(score, MaxIndex) \in Int /\ Overflow(writes, MaxBuckets) \in Int
    BY IndexFinite, SidesFinite, LedgerAssumption DEF IInv, Types
  <2>2. ~ (Overflow(score, MaxIndex) > 0) /\ ~ (Overflow(writes, MaxBuckets) > 0)
    BY DEF IInv, Eviction, InHand
  <2> QED BY <2>1, <2>2
<1> QED BY <1>1, LedgerInvariant, PTL
=============================================================================
