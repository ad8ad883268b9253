--------------------------- MODULE SessionPoolProofs ---------------------------
(***************************************************************************)
(* Proofs about SessionPool for every set of calls, size and bound.        *)
(*                                                                         *)
(* The inductive invariant has two halves.  Ownership says which calls and *)
(* which part of the pool a session belongs to, without counting.  Counts  *)
(* is the arithmetic of permits and slots; it needs Ownership to know that *)
(* a session that enters one set was not already in another.               *)
(***************************************************************************)
EXTENDS SessionPool, FiniteSetTheorems, TLAPS

Tracked == inUse \cup Idle
Opened(s) == ctx[s] # "unopened"

Types ==
    /\ inUse \subseteq Calls /\ doomed \subseteq Calls
    /\ depth \in [Calls -> Nat]
    /\ pc \in [Calls -> CallPC]
    /\ key \in [Calls -> Keys]
    /\ has \in [Calls -> Calls \cup {NoSession}]
    /\ ctx \in [Calls -> {"unopened", "open", "closed"}]
    /\ solves \in [Calls -> 0..MaxSolves] /\ rep \in [Calls -> 0..20]
    /\ closer \in {"no", "closing", "closed"}
    /\ warmupFailed \in BOOLEAN /\ reports \in 0..MaxReports

\* A call that has built nothing yet names no session.
NotYetBuilt ==
    /\ \A c \in Calls :
          pc[c] \in {"new", "waiting", "evicting", "building"} => ~ Opened(c)
    /\ \A s \in Calls : ~ Opened(s) => solves[s] = 0

\* Whoever closes a context closes one the pool no longer tracks.
ClosingUntracked ==
    /\ \A c \in Calls : pc[c] \in {"evicting", "retiring"} =>
          has[c] \in Calls /\ Opened(has[c]) /\ has[c] \notin Tracked
    /\ \A s \in doomed : Opened(s) /\ s \notin Tracked

UsersOpened ==
    \A c \in Calls : pc[c] = "using" => has[c] \in Calls /\ Opened(has[c])

SolvesLeft == \A s \in Tracked : solves[s] < MaxSolves

Ownership ==
    /\ Types
    /\ inUse \cap Idle = {}
    /\ NotYetBuilt /\ ClosingUntracked /\ UsersOpened /\ SolvesLeft
    /\ TrackedContextsOpen
    /\ SessionServesItsCaller

Counts ==
    /\ permits \in Nat /\ creating \in Nat /\ owed \in Nat
    /\ closer = "no" => owed = 0
    /\ creating = Cardinality(Building)
    /\ PermitsConserved
    /\ LiveBounded

IInv == Ownership /\ Counts
-----------------------------------------------------------------------------
(* Ownership *)

\* Nothing is owned before the first checkout.
LEMMA OwnershipInit == Init => Ownership
<1> SUFFICES ASSUME Init PROVE Ownership
  OBVIOUS
<1>1. Idle = {} /\ Tracked = {}
  BY DEF Init, Idle, Tracked
<1>2. Types
  <2>1. /\ solves \in [Calls -> 0..MaxSolves] /\ rep \in [Calls -> 0..20]
        /\ reports \in 0..MaxReports /\ depth \in [Calls -> Nat]
    BY PoolAssumption DEF Init
  <2>2. pc \in [Calls -> CallPC] /\ key \in [Calls -> Keys]
    BY PoolAssumption DEF Init, CallPC
  <2> QED
    BY <2>1, <2>2 DEF Init, Types
<1>3. NotYetBuilt /\ ClosingUntracked /\ UsersOpened
  BY DEF Init, NotYetBuilt, ClosingUntracked, UsersOpened, Opened
<1>4. SolvesLeft /\ TrackedContextsOpen /\ SessionServesItsCaller
  BY <1>1 DEF Init, SolvesLeft, TrackedContextsOpen, SessionServesItsCaller, Tracked
<1> QED
  BY <1>1, <1>2, <1>3, <1>4 DEF Ownership

\* A turn of checkout's loop, by a call that waits or has just closed the
\* session it evicted.
LEMMA ChooseOwnership ==
    ASSUME Ownership, NEW c \in Calls, Choose(c),
           \/ pc[c] = "waiting" /\ ctx' = ctx
           \/ pc[c] = "evicting" /\ ctx' = [ctx EXCEPT ![has[c]] = "closed"],
           UNCHANGED <<key, solves, rep, doomed, closer, warmupFailed, reports>>
    PROVE  Ownership'
<1> USE DEF Ownership, Opened, Tracked
<1>1. /\ \A s \in Calls : Opened(s)' <=> Opened(s)
      /\ \A s \in Tracked : ctx'[s] = ctx[s]
      /\ ctx' \in [Calls -> {"unopened", "open", "closed"}]
  BY DEF Types, ClosingUntracked, Idle
<1>2. CASE Reuse(c)
  <2> PICK s \in Latest(key[c]) : Take(c, s, "using") /\ inUse' = inUse \cup {s}
    BY <1>2 DEF Reuse
  <2>1. s \in Idle /\ s \in Calls /\ key[s] = key[c]
    BY DEF Latest, Bucket, Idle
  <2>2. Idle' = Idle \ {s}
    BY <2>1 DEF Take, Idle, Types
  <2>3. Types'
    BY <1>1, <2>1 DEF Take, Types, CallPC
  <2>4. Tracked' = Tracked
    BY <2>1, <2>2
  <2>5. NotYetBuilt' /\ ClosingUntracked' /\ UsersOpened'
    BY <1>1, <2>1, <2>4 DEF Take, Types, NotYetBuilt, ClosingUntracked, UsersOpened, TrackedContextsOpen
  <2>6. SolvesLeft' /\ TrackedContextsOpen'
    BY <1>1, <2>4 DEF SolvesLeft, TrackedContextsOpen, Types
  <2>7. SessionServesItsCaller'
    BY <2>1, <2>2 DEF Take, SessionServesItsCaller, Types
  <2> QED
    BY <2>1, <2>2, <2>3, <2>5, <2>6, <2>7
<1>3. ASSUME NEW s \in Idle, Take(c, s, "evicting"), UNCHANGED inUse
      PROVE  Ownership'
  <2>1. s \in Calls /\ s \notin inUse
    BY DEF Idle
  <2>2. Idle' = Idle \ {s}
    BY <1>3, <2>1 DEF Take, Idle, Types
  <2>3. Types'
    BY <1>1, <1>3, <2>1 DEF Take, Types, CallPC
  <2>4. Tracked' = Tracked \ {s}
    BY <1>3, <2>1, <2>2
  <2>5. NotYetBuilt' /\ ClosingUntracked' /\ UsersOpened'
    BY <1>1, <1>3, <2>1, <2>4 DEF Take, Types, NotYetBuilt, ClosingUntracked, UsersOpened, TrackedContextsOpen
  <2>6. SolvesLeft' /\ TrackedContextsOpen'
    BY <1>1, <2>4 DEF SolvesLeft, TrackedContextsOpen, Types
  <2>7. SessionServesItsCaller'
    BY <1>3, <2>1, <2>2 DEF Take, SessionServesItsCaller, Types
  <2> QED
    BY <1>3, <2>1, <2>2, <2>3, <2>5, <2>6, <2>7
<1>4. CASE StartBuild(c)
  <2>1. Idle' = Idle /\ inUse' = inUse
    BY <1>4 DEF StartBuild, Idle
  <2>2. Types'
    BY <1>1, <1>4 DEF StartBuild, Types, CallPC
  <2>3. NotYetBuilt' /\ ClosingUntracked' /\ UsersOpened'
    BY <1>1, <1>4, <2>1 DEF StartBuild, Types, NotYetBuilt, ClosingUntracked, UsersOpened
  <2>4. SolvesLeft' /\ TrackedContextsOpen'
    BY <1>1, <2>1 DEF SolvesLeft, TrackedContextsOpen, Types
  <2>5. SessionServesItsCaller'
    BY <1>4, <2>1 DEF StartBuild, SessionServesItsCaller, Types
  <2> QED
    BY <2>1, <2>2, <2>3, <2>4, <2>5
<1>5. CASE DropStale(c)
  BY <1>3, <1>5 DEF DropStale, Latest, Bucket
<1>6. CASE EvictOther(c)
  BY <1>3, <1>6 DEF EvictOther, WorstIdle
<1> QED
  BY <1>2, <1>4, <1>5, <1>6 DEF Choose

\* Where each session stands and what the conjuncts of Ownership read does
\* not change: for the actions that leave the tracked sets alone.
LEMMA SameStockOwnership ==
    ASSUME Ownership, Types', UNCHANGED <<inUse, depth, key, solves>>,
           \A s \in Calls : Opened(s)' <=> Opened(s),
           \A s \in Tracked : ctx'[s] = ctx[s],
           doomed' \subseteq doomed,
           \A c \in Calls : \/ pc'[c] = pc[c] /\ has'[c] = has[c]
                            \/ pc'[c] = "done"
    PROVE  Ownership'
<1> USE DEF Ownership, Opened, Tracked
<1>1. Idle' = Idle
  BY DEF Idle
<1>2. NotYetBuilt' /\ ClosingUntracked' /\ UsersOpened'
  BY <1>1 DEF NotYetBuilt, ClosingUntracked, UsersOpened, Types
<1>3. SolvesLeft' /\ TrackedContextsOpen'
  BY <1>1 DEF SolvesLeft, TrackedContextsOpen
<1>4. SessionServesItsCaller'
  BY <1>1 DEF SessionServesItsCaller
<1> QED
  BY <1>1, <1>2, <1>3, <1>4

\* A released session leaves its call for the idle stock or for its closing.
LEMMA ReleaseOwnership ==
    ASSUME Ownership, NEW c \in Calls, NEW success \in BOOLEAN, Release(c, success)
    PROVE  Ownership'
<1> USE DEF Ownership, Opened, Tracked
<1> DEFINE s == has[c]
<1>1. /\ s \in inUse /\ s \in Calls /\ s \notin Idle /\ ctx[s] = "open"
      /\ solves[s] < MaxSolves /\ pc[c] = "using"
  BY DEF Release, Types, SolvesLeft, TrackedContextsOpen
<1>2. /\ inUse' = inUse \ {s} /\ UNCHANGED <<key, ctx, doomed, closer, warmupFailed, reports>>
      /\ solves' = [solves EXCEPT ![s] = @ + 1]
      /\ rep' = [rep EXCEPT ![s] = Nudged(@, success)]
  BY DEF Release, closeVars
<1>3. solves' \in [Calls -> 0..MaxSolves] /\ rep' \in [Calls -> 0..20]
  <2>1. Nudged(rep[s], success) \in 0..20
    BY <1>1 DEF Nudged, Types
  <2>2. solves[s] + 1 \in 0..MaxSolves
    BY <1>1, PoolAssumption DEF Types
  <2> QED
    BY <1>1, <1>2, <2>1, <2>2 DEF Types
<1>4. CASE pc' = [pc EXCEPT ![c] = "retiring"] /\ UNCHANGED <<depth, has>>
  <2>1. Idle' = Idle
    BY <1>4 DEF Idle
  <2>2. Types'
    BY <1>2, <1>3, <1>4 DEF Types, CallPC
  <2>3. NotYetBuilt' /\ ClosingUntracked' /\ UsersOpened'
    BY <1>1, <1>2, <1>4, <2>1 DEF NotYetBuilt, ClosingUntracked, UsersOpened, Types
  <2>4. SolvesLeft' /\ TrackedContextsOpen'
    BY <1>1, <1>2, <1>4, <2>1 DEF SolvesLeft, TrackedContextsOpen, Types, Idle
  <2>5. SessionServesItsCaller'
    BY <1>1, <1>2, <1>4, <2>1 DEF SessionServesItsCaller, Types
  <2> QED
    BY <1>2, <2>1, <2>2, <2>3, <2>4, <2>5
<1>5. ASSUME solves[s] + 1 < MaxSolves, MakeIdle(s), GiveUp(c)
      PROVE  Ownership'
  <2>1. Idle' = Idle \cup {s}
    BY <1>1, <1>5 DEF MakeIdle, Idle, Types
  <2>2. Types'
    BY <1>1, <1>2, <1>3, <1>5 DEF MakeIdle, GiveUp, Types, CallPC
  <2>3. Tracked' = Tracked
    BY <1>1, <1>2, <2>1
  <2>4. NotYetBuilt' /\ ClosingUntracked' /\ UsersOpened'
    BY <1>1, <1>2, <1>5, <2>3 DEF GiveUp, NotYetBuilt, ClosingUntracked, UsersOpened, Types
  <2>5. SolvesLeft' /\ TrackedContextsOpen'
    BY <1>1, <1>2, <1>5, <2>3 DEF SolvesLeft, TrackedContextsOpen, Types, Idle
  <2>6. SessionServesItsCaller'
    BY <1>1, <1>2, <1>5, <2>1 DEF GiveUp, SessionServesItsCaller, Types
  <2> QED
    BY <1>1, <1>2, <2>1, <2>2, <2>4, <2>5, <2>6
<1>6. PICK low \in BelowThreshold(rep'[s]), expired \in BOOLEAN :
         \/ /\ Retires(s, low, expired)
            /\ pc' = [pc EXCEPT ![c] = "retiring"]
            /\ UNCHANGED <<permits, depth, has>>
         \/ /\ ~ Retires(s, low, expired)
            /\ MakeIdle(s)
            /\ GiveUp(c)
  BY DEF Release
<1>7. ~ Retires(s, low, expired) => solves[s] + 1 < MaxSolves
  BY <1>1, PoolAssumption DEF Retires, Types
<1> QED
  BY <1>4, <1>5, <1>6, <1>7

\* A session enters the pool as the open, unused session of its own builder.
LEMMA BuiltOwnership ==
    ASSUME Ownership, NEW c \in Calls, Built(c)
    PROVE  Ownership'
<1> USE DEF Ownership, Opened, Tracked
<1>1. ~ Opened(c) /\ c \notin Tracked /\ c \notin doomed /\ solves[c] = 0
  BY DEF Built, NotYetBuilt, TrackedContextsOpen, ClosingUntracked
<1>2. Idle' = Idle
  BY DEF Built, Idle
<1>3. Types'
  BY DEF Built, Types, CallPC, sessionVars, closeVars
<1>4. NotYetBuilt' /\ ClosingUntracked' /\ UsersOpened'
  BY <1>1, <1>2 DEF Built, Types, sessionVars, closeVars, NotYetBuilt,
                    ClosingUntracked, UsersOpened
<1>5. SolvesLeft' /\ TrackedContextsOpen'
  BY <1>1, <1>2, PoolAssumption
  DEF Built, Types, sessionVars, SolvesLeft, TrackedContextsOpen, Idle
<1>6. SessionServesItsCaller'
  BY <1>1, <1>2 DEF Built, Types, UsersOpened, SessionServesItsCaller
<1> QED
  BY <1>1, <1>2, <1>3, <1>4, <1>5, <1>6 DEF Built

\* Actions of the calls that end without touching the tracked sets.
LEMMA EndingOwnership ==
    ASSUME Ownership, NEW c \in Calls,
           \/ BuildFails(c) \/ CancelWaiting(c) \/ CancelClosing(c)
           \/ ReleaseUnknown(c) \/ RetirementDone(c)
    PROVE  Ownership'
<1> USE DEF Ownership, Opened, Tracked
<1> USE DEF GiveUp, stockVars, callVars, sessionVars, closeVars
<1>1. Types'
  BY DEF Types, CallPC, BuildFails, CancelWaiting, CancelClosing,
         ReleaseUnknown, RetirementDone
<1>2. /\ UNCHANGED <<inUse, depth, key, solves, doomed>>
      /\ \A d \in Calls : \/ pc'[d] = pc[d] /\ has'[d] = has[d]
                          \/ pc'[d] = "done"
  BY DEF Types, BuildFails, CancelWaiting, CancelClosing, ReleaseUnknown,
         RetirementDone
<1>3. /\ \A s \in Calls : Opened(s)' <=> Opened(s)
      /\ \A s \in Tracked : ctx'[s] = ctx[s]
  <2>1. CASE BuildFails(c) \/ CancelWaiting(c) \/ ReleaseUnknown(c)
    BY <2>1 DEF BuildFails, CancelWaiting, ReleaseUnknown
  <2>2. CASE CancelClosing(c) \/ RetirementDone(c)
    BY <2>2 DEF Types, ClosingUntracked, CancelClosing, RetirementDone, Idle
  <2> QED
    BY <2>1, <2>2
<1> QED
  BY <1>1, <1>2, <1>3, SameStockOwnership

\* close_all hands every tracked session over to the closer, and nowhere else.
LEMMA CloseOwnership ==
    ASSUME Ownership, CloseAll \/ CloseAllEnds \/ \E s \in Calls : CloseNext(s)
    PROVE  Ownership'
<1> USE DEF Ownership, Opened, Tracked
<1>1. CASE CloseAll
  <2>1. inUse' = {} /\ Idle' = {} /\ doomed' = Tracked
    BY <1>1 DEF CloseAll, Idle
  <2>2. UNCHANGED <<callVars, ctx, sessionVars>>
    BY <1>1 DEF CloseAll
  <2>3. Types'
    BY <1>1 DEF CloseAll, Types, Idle, callVars, sessionVars
  <2>4. NotYetBuilt' /\ ClosingUntracked' /\ UsersOpened'
    BY <2>1, <2>2 DEF NotYetBuilt, ClosingUntracked, UsersOpened, callVars,
                      sessionVars, TrackedContextsOpen
  <2>5. SolvesLeft' /\ TrackedContextsOpen' /\ SessionServesItsCaller'
    BY <2>1, <2>2 DEF SolvesLeft, TrackedContextsOpen, SessionServesItsCaller,
                      callVars
  <2> QED
    BY <2>1, <2>3, <2>4, <2>5
<1>2. CASE CloseAllEnds
  <2>1. UNCHANGED <<inUse, depth, key, solves, doomed, ctx, pc, has>>
    BY <1>2 DEF CloseAllEnds, stockVars, callVars, sessionVars
  <2>2. Types'
    BY <1>2 DEF CloseAllEnds, Types, stockVars, callVars, sessionVars
  <2> QED
    BY <2>1, <2>2, SameStockOwnership
<1>3. ASSUME NEW s \in Calls, CloseNext(s)
      PROVE  Ownership'
  <2> USE DEF stockVars, callVars, sessionVars
  <2>1. Types'
    BY <1>3 DEF CloseNext, Types
  <2>2. UNCHANGED <<inUse, depth, key, solves, pc, has>> /\ doomed' \subseteq doomed
    BY <1>3 DEF CloseNext
  <2>3. /\ \A t \in Calls : Opened(t)' <=> Opened(t)
        /\ \A t \in Tracked : ctx'[t] = ctx[t]
    BY <1>3 DEF CloseNext, Types, ClosingUntracked, Idle
  <2> QED
    BY <2>1, <2>2, <2>3, SameStockOwnership
<1> QED
  BY <1>1, <1>2, <1>3

\* Ownership is inductive by itself.
LEMMA OwnershipStep == ASSUME Ownership, [Next]_vars PROVE Ownership'
<1> USE DEF Ownership
<1>1. ASSUME NEW c \in Calls, NEW k \in Keys, Begin(c, k)
      PROVE  Ownership'
  <2> USE DEF stockVars, sessionVars, closeVars, Tracked, Opened
  <2>1. Idle' = Idle
    BY <1>1 DEF Begin, Idle
  <2>2. ~ Opened(c) /\ c \notin Tracked
    BY <1>1 DEF Begin, NotYetBuilt, TrackedContextsOpen
  <2>3. Types'
    BY <1>1 DEF Begin, Types, CallPC
  <2>4. NotYetBuilt' /\ ClosingUntracked' /\ UsersOpened' /\ SolvesLeft'
        /\ TrackedContextsOpen'
    BY <1>1, <2>1 DEF Begin, Types, NotYetBuilt, ClosingUntracked, UsersOpened,
                      SolvesLeft, TrackedContextsOpen
  <2>5. SessionServesItsCaller'
    BY <1>1, <2>1, <2>2 DEF Begin, Types, UsersOpened, SessionServesItsCaller
  <2> QED
    BY <1>1, <2>1, <2>3, <2>4, <2>5 DEF Begin
<1>2. ASSUME NEW c \in Calls, Acquire(c) \/ EvictionDone(c)
      PROVE  Ownership'
  BY <1>2, ChooseOwnership DEF Acquire, EvictionDone, sessionVars, closeVars
<1>3. ASSUME NEW s \in Calls, NEW success \in BOOLEAN, ReportOutcome(s, success)
      PROVE  Ownership'
  <2> USE DEF stockVars, callVars, closeVars
  <2>1. Nudged(rep[s], success) \in 0..20
    BY DEF Nudged, Types
  <2>2. Types'
    BY <1>3, <2>1, PoolAssumption DEF ReportOutcome, Types
  <2>3. UNCHANGED <<inUse, depth, key, solves, ctx, doomed, pc, has>>
    BY <1>3 DEF ReportOutcome
  <2>4. \A t \in Calls : Opened(t)' <=> Opened(t)
    BY <2>3 DEF Opened
  <2> QED
    BY <2>2, <2>3, <2>4, SameStockOwnership
<1>4. CASE UNCHANGED vars
  <2> USE DEF vars, stockVars, callVars, sessionVars, closeVars
  <2>1. Types'
    BY <1>4 DEF Types
  <2>2. \A t \in Calls : Opened(t)' <=> Opened(t)
    BY <1>4 DEF Opened
  <2>3. UNCHANGED <<inUse, depth, key, solves, ctx, doomed, pc, has>>
    BY <1>4
  <2> QED
    BY <2>1, <2>2, <2>3, SameStockOwnership
<1> QED
  BY <1>1, <1>2, <1>3, <1>4, BuiltOwnership, EndingOwnership, ReleaseOwnership,
     CloseOwnership
  DEF Next, Quiescent

-----------------------------------------------------------------------------
(* Counts *)

\* The sets Counts counts are finite.
LEMMA FiniteStock ==
    ASSUME Types
    PROVE  /\ \A S \in {inUse, Idle, Holding, Building} :
                 IsFiniteSet(S) /\ Cardinality(S) \in Nat
           /\ \A c \in Calls : /\ IsFiniteSet(Holding \ {c})
                               /\ Cardinality(Holding \ {c}) \in Nat
<1>1. IsFiniteSet(Calls)
  BY FS_Union, PoolAssumption DEF Calls
<1>2. /\ \A S \in {inUse, Idle, Holding, Building} : S \subseteq Calls
      /\ \A c \in Calls : Holding \ {c} \subseteq Calls
  BY DEF Types, Idle, Holding, Building
<1> QED
  BY <1>1, <1>2, FS_Subset, FS_CardinalityType

\* A turn of the loop turns the permit the call has in hand into one held by
\* the call or by the session it takes, and keeps within the slots.
LEMMA ChooseCounts ==
    ASSUME Ownership, Counts, NEW c \in Calls, Choose(c),
           pc[c] \in {"waiting", "evicting"},
           Cardinality(Holding \ {c}) + Cardinality(inUse) < Size
    PROVE  /\ creating' \in Nat /\ creating' = Cardinality(Building')
           /\ LiveBounded'
           /\ Cardinality(Holding') + Cardinality(inUse')
                 = Cardinality(Holding \ {c}) + Cardinality(inUse) + 1
<1> USE DEF Ownership
<1> DEFINE H == Holding \ {c}
<1>1. /\ IsFiniteSet(inUse) /\ IsFiniteSet(Idle) /\ IsFiniteSet(H) /\ IsFiniteSet(Building)
      /\ {Cardinality(inUse), Cardinality(Idle), Cardinality(H),
          Cardinality(Building), Size} \subseteq Nat
      /\ Cardinality(H \cup {c}) = Cardinality(H) + 1
  <2>1. \A S \in {inUse, Idle, Building} : IsFiniteSet(S) /\ Cardinality(S) \in Nat
    BY FiniteStock
  <2>2. IsFiniteSet(H) /\ Cardinality(H) \in Nat /\ c \notin H
    BY FiniteStock
  <2> QED
    BY <2>1, <2>2, FS_AddElement, PoolAssumption, ZenonT(30)
<1>2. c \notin Building /\ Building \subseteq H
  BY DEF Building, Holding
<1>3. Cardinality(Building) <= Cardinality(H)
  BY <1>1, <1>2, FS_Subset
<1>4. /\ creating = Cardinality(Building)
      /\ Cardinality(inUse) + Cardinality(Building) + Cardinality(Idle) <= Size
  BY DEF Counts, LiveBounded
<1>5. ASSUME NEW s \in Idle, Take(c, s, "using"), inUse' = inUse \cup {s}
      PROVE  /\ Cardinality(inUse') = Cardinality(inUse) + 1
             /\ Cardinality(Idle') = Cardinality(Idle) - 1
             /\ Holding' = H /\ Building' = Building /\ creating' = creating
  <2>1. Idle' = Idle \ {s} /\ s \notin inUse
    BY <1>5 DEF Take, Idle, Types
  <2>2. Holding' = H /\ Building' = Building /\ creating' = creating
    BY <1>5 DEF Take, Holding, Building, CallPC, Types
  <2> QED
    BY <1>1, <1>5, <2>1, <2>2, FS_AddElement, FS_RemoveElement
<1>6. ASSUME NEW s \in Idle, Take(c, s, "evicting"), UNCHANGED inUse
      PROVE  /\ inUse' = inUse
             /\ Cardinality(Idle') = Cardinality(Idle) - 1
             /\ Holding' = H \cup {c} /\ Building' = Building
             /\ creating' = creating
  <2>1. Idle' = Idle \ {s}
    BY <1>6 DEF Take, Idle, Types
  <2>2. Holding' = H \cup {c} /\ Building' = Building /\ creating' = creating
    BY <1>6 DEF Take, Holding, Building, CallPC, Types
  <2> QED
    BY <1>1, <1>6, <2>1, <2>2, FS_RemoveElement
<1>7. CASE Reuse(c)
  <2>1. PICK s \in Idle : Take(c, s, "using") /\ inUse' = inUse \cup {s}
    BY <1>7 DEF Reuse, Latest, Bucket
  <2>2. /\ Cardinality(inUse') = Cardinality(inUse) + 1
        /\ Cardinality(Idle') = Cardinality(Idle) - 1
        /\ Holding' = H /\ Building' = Building /\ creating' = creating
    BY <1>5, <2>1
  <2> QED
    BY <1>1, <1>4, <2>2 DEF LiveBounded
<1>8. CASE DropStale(c) \/ EvictOther(c)
  <2>1. PICK s \in Idle : Take(c, s, "evicting") /\ UNCHANGED inUse
    BY <1>8 DEF DropStale, EvictOther, Latest, Bucket, WorstIdle
  <2>2. /\ inUse' = inUse
        /\ Cardinality(Idle') = Cardinality(Idle) - 1
        /\ Holding' = H \cup {c} /\ Building' = Building
        /\ creating' = creating
    BY <1>6, <2>1
  <2> QED
    BY <1>1, <1>4, <2>2 DEF LiveBounded
<1>9. CASE StartBuild(c)
  <2>1. Idle' = Idle /\ inUse' = inUse /\ creating' = creating + 1
    BY <1>9 DEF StartBuild, Idle
  <2>2. Holding' = H \cup {c} /\ Building' = Building \cup {c}
    BY <1>9 DEF StartBuild, Holding, Building, CallPC, Types
  <2>3. Cardinality(Building') = Cardinality(Building) + 1
    BY <1>1, <1>2, <2>2, FS_AddElement
  <2>4. CASE Live < Size
    BY <1>1, <1>4, <2>1, <2>2, <2>3, <2>4, PoolAssumption DEF LiveBounded, Live
  \* The branch that builds because nothing is idle: the permits bound it.
  <2>5. CASE Idle = {}
    <3>1. Cardinality(Idle) = 0
      BY <2>5, FS_EmptySet
    <3>2. Cardinality(inUse) + Cardinality(Building) + 1 <= Size
      BY <1>1, <1>3, PoolAssumption
    <3> QED
      BY <1>1, <1>4, <2>1, <2>2, <2>3, <3>1, <3>2, PoolAssumption DEF LiveBounded
  <2> QED
    BY <1>9, <2>4, <2>5 DEF StartBuild
<1> QED
  BY <1>7, <1>8, <1>9 DEF Choose

\* The pool starts with every permit free and no session.
LEMMA CountsInit == Init => Counts
<1> SUFFICES ASSUME Init PROVE Counts
  OBVIOUS
<1>1. inUse = {} /\ Idle = {} /\ Holding = {} /\ Building = {}
  BY DEF Init, Idle, Holding, Building
<1> QED
  BY <1>1, FS_EmptySet, PoolAssumption DEF Init, Counts, PermitsConserved, LiveBounded

\* The numbers of Counts before a step, in a form the steps below can cite.
LEMMA CountFacts ==
    ASSUME Ownership, Counts
    PROVE  /\ IsFiniteSet(inUse) /\ IsFiniteSet(Idle)
           /\ IsFiniteSet(Holding) /\ IsFiniteSet(Building)
           /\ {Cardinality(inUse), Cardinality(Idle), Cardinality(Holding),
               Cardinality(Building), permits, creating, owed, Size} \subseteq Nat
           /\ creating = Cardinality(Building)
           /\ permits + Cardinality(Holding) + Cardinality(inUse) + owed = Size
           /\ Cardinality(inUse) + Cardinality(Building) + Cardinality(Idle) <= Size
<1>1. \A S \in {inUse, Idle, Holding, Building} :
         IsFiniteSet(S) /\ Cardinality(S) \in Nat
  BY FiniteStock DEF Ownership
<1> QED
  BY <1>1, PoolAssumption DEF Counts, PermitsConserved, LiveBounded

\* Taking a session or a build slot spends the permit in hand, whether it was
\* just acquired or kept across an eviction.
LEMMA TakingCounts ==
    ASSUME Ownership, Counts, NEW c \in Calls, Acquire(c) \/ EvictionDone(c)
    PROVE  Counts'
<1> DEFINE H == Holding \ {c}
<1>1. /\ Choose(c) /\ pc[c] \in {"waiting", "evicting"}
      /\ UNCHANGED <<owed, closer>>
  BY DEF Acquire, EvictionDone, closeVars
<1>2. Cardinality(H) \in Nat
  BY FiniteStock DEF Ownership
<1>3. permits' \in Nat /\ permits' + Cardinality(H) + 1 + Cardinality(inUse) + owed = Size
  <2>1. CASE Acquire(c)
    <3>1. H = Holding
      BY <2>1 DEF Acquire, Holding
    <3>2. permits > 0 /\ permits' = permits - 1
      BY <2>1 DEF Acquire
    <3> QED
      BY <3>1, <3>2, CountFacts
  <2>2. CASE EvictionDone(c)
    <3>1. c \in Holding /\ permits' = permits
      BY <2>2 DEF EvictionDone, Holding
    <3>2. Cardinality(H) = Cardinality(Holding) - 1
      BY <3>1, CountFacts, FS_RemoveElement
    <3> QED
      BY <3>1, <3>2, CountFacts
  <2> QED
    BY <2>1, <2>2
<1>4. Cardinality(H) + Cardinality(inUse) < Size
  BY <1>2, <1>3, CountFacts
<1>5. /\ creating' \in Nat /\ creating' = Cardinality(Building')
      /\ LiveBounded'
      /\ Cardinality(Holding') + Cardinality(inUse')
            = Cardinality(H) + Cardinality(inUse) + 1
  BY <1>1, <1>4, ChooseCounts
<1>6. Types' => Cardinality(Holding') \in Nat /\ Cardinality(inUse') \in Nat
  <2> SUFFICES ASSUME Types' PROVE Cardinality(Holding') \in Nat /\ Cardinality(inUse') \in Nat
    OBVIOUS
  <2>1. Holding' \subseteq Calls /\ inUse' \subseteq Calls
    BY DEF Holding, Types
  <2>2. IsFiniteSet(Calls)
    BY FS_Union, PoolAssumption DEF Calls
  <2> QED
    BY <2>1, <2>2, FS_Subset, FS_CardinalityType
<1>7. Types'
  BY OwnershipStep DEF Ownership, Next
<1>8. PermitsConserved'
  BY <1>1, <1>2, <1>3, <1>5, <1>6, <1>7, CountFacts DEF PermitsConserved
<1> QED
  BY <1>1, <1>3, <1>5, <1>8 DEF Counts

\* A built context's permit passes from the call to its session.
LEMMA BuiltCounts ==
    ASSUME Ownership, Counts, NEW c \in Calls, Built(c)
    PROVE  Counts'
<1>1. c \in Holding /\ c \in Building /\ c \notin inUse
  BY DEF Built, Holding, Building, Ownership, NotYetBuilt, TrackedContextsOpen,
         Opened
<1>2. /\ Holding' = Holding \ {c} /\ Building' = Building \ {c}
      /\ inUse' = inUse \cup {c} /\ Idle' = Idle
  BY DEF Built, Holding, Building, Idle, Ownership, Types
<1>3. /\ Cardinality(Holding') = Cardinality(Holding) - 1
      /\ Cardinality(Building') = Cardinality(Building) - 1
      /\ Cardinality(inUse') = Cardinality(inUse) + 1
      /\ Cardinality(Idle') = Cardinality(Idle)
  BY <1>1, <1>2, CountFacts, FS_AddElement, FS_RemoveElement
<1>4. Cardinality(Building) > 0
  BY <1>1, CountFacts, FS_EmptySet
<1>5. creating' = creating - 1 /\ UNCHANGED <<permits, owed, closer>>
  BY <1>4, CountFacts DEF Built, Minus1, closeVars
<1> QED
  BY <1>3, <1>4, <1>5, CountFacts DEF Counts, PermitsConserved, LiveBounded

\* A call that fails, is cancelled or has retired its session returns its permit.
LEMMA ReturningCounts ==
    ASSUME Ownership, Counts, NEW c \in Calls,
           BuildFails(c) \/ CancelClosing(c) \/ RetirementDone(c)
    PROVE  Counts'
<1> USE DEF stockVars, closeVars
<1>1. /\ c \in Holding /\ GiveUp(c)
      /\ inUse' = inUse /\ Idle' = Idle /\ UNCHANGED <<owed, closer>>
  BY DEF BuildFails, CancelClosing, RetirementDone, Holding, Idle
<1>2. Holding' = Holding \ {c} /\ Building' = Building \ {c} /\ permits' = permits + 1
  BY <1>1 DEF GiveUp, Holding, Building, Ownership, Types
<1>3. /\ Cardinality(Holding') = Cardinality(Holding) - 1
      /\ Cardinality(Building')
            = IF c \in Building THEN Cardinality(Building) - 1
                                ELSE Cardinality(Building)
  BY <1>1, <1>2, CountFacts, FS_RemoveElement
<1>4. Cardinality(Building') \in Nat /\ Cardinality(Building') <= Cardinality(Building)
      /\ creating' = Cardinality(Building')
  <2>1. CASE BuildFails(c)
    <3>1. c \in Building
      BY <2>1 DEF BuildFails, Building
    <3>2. Cardinality(Building) > 0
      BY <3>1, CountFacts, FS_EmptySet
    <3> QED
      BY <2>1, <3>1, <3>2, <1>3, CountFacts DEF BuildFails, Minus1
  <2>2. CASE CancelClosing(c) \/ RetirementDone(c)
    <3>1. c \notin Building /\ creating' = creating
      BY <2>2 DEF CancelClosing, RetirementDone, Building
    <3> QED
      BY <3>1, <1>3, CountFacts
  <2> QED
    BY <2>1, <2>2
<1> QED
  BY <1>1, <1>2, <1>3, <1>4, CountFacts DEF Counts, PermitsConserved, LiveBounded

\* A release frees its permit at once, or keeps it for the closing of the session.
LEMMA ReleaseCounts ==
    ASSUME Ownership, Counts, NEW c \in Calls, NEW success \in BOOLEAN,
           Release(c, success)
    PROVE  Counts'
<1> DEFINE s == has[c]
<1>1. /\ s \in inUse /\ s \in Calls /\ s \notin Idle
      /\ c \notin Holding /\ c \notin Building
      /\ inUse' = inUse \ {s} /\ UNCHANGED <<creating, owed, closer>>
  BY DEF Release, Ownership, Types, Holding, Building, closeVars
<1>2. Cardinality(inUse') = Cardinality(inUse) - 1 /\ Cardinality(inUse) > 0
  <2>1. IsFiniteSet(inUse) /\ Cardinality(inUse) \in Nat
    BY CountFacts
  <2>2. Cardinality(inUse) > 0
    BY <1>1, <2>1, FS_EmptySet
  <2>3. Cardinality(inUse \ {s}) = Cardinality(inUse) - 1
    BY <1>1, <2>1, FS_RemoveElement
  <2> QED
    BY <1>1, <2>2, <2>3
<1>3. ASSUME pc' = [pc EXCEPT ![c] = "retiring"], UNCHANGED <<permits, depth, has>>
      PROVE  Counts'
  <2>1. Holding' = Holding \cup {c} /\ Building' = Building /\ Idle' = Idle
    BY <1>1, <1>3 DEF Holding, Building, Idle, Ownership, Types
  <2>2. Cardinality(Holding') = Cardinality(Holding) + 1
    BY <1>1, <2>1, CountFacts, FS_AddElement
  <2> QED
    BY <1>1, <1>2, <1>3, <2>1, <2>2, CountFacts
    DEF Counts, PermitsConserved, LiveBounded
<1>4. ASSUME MakeIdle(s), GiveUp(c)
      PROVE  Counts'
  <2>1. /\ Holding' = Holding /\ Building' = Building
        /\ Idle' = Idle \cup {s} /\ permits' = permits + 1
    BY <1>1, <1>4 DEF MakeIdle, GiveUp, Holding, Building, Idle, Ownership, Types
  <2>2. Cardinality(Idle') = Cardinality(Idle) + 1
    BY <1>1, <2>1, CountFacts, FS_AddElement
  <2> QED
    BY <1>1, <1>2, <2>1, <2>2, CountFacts
    DEF Counts, PermitsConserved, LiveBounded
<1> QED
  BY <1>3, <1>4 DEF Release

\* close_all turns the permits of the sessions it takes into its own debt.
LEMMA CloseAllCounts ==
    ASSUME Ownership, Counts, CloseAll \/ CloseAllEnds
    PROVE  Counts'
<1>1. Holding' = Holding /\ Building' = Building /\ creating' = creating
  BY DEF CloseAll, CloseAllEnds, Holding, Building, callVars, stockVars
<1>2. CASE CloseAll
  <2>1. inUse' = {} /\ Idle' = {} /\ owed' = Cardinality(inUse) /\ permits' = permits
        /\ owed = 0 /\ closer' # "no"
    BY <1>2 DEF CloseAll, Idle, Counts
  <2> QED
    BY <1>1, <2>1, CountFacts, FS_EmptySet DEF Counts, PermitsConserved, LiveBounded
<1>3. CASE CloseAllEnds
  <2>1. inUse' = inUse /\ Idle' = Idle /\ owed' = 0 /\ permits' = permits + owed
    BY <1>3 DEF CloseAllEnds, Idle, stockVars
  <2> QED
    BY <1>1, <2>1, CountFacts DEF Counts, PermitsConserved, LiveBounded
<1> QED
  BY <1>2, <1>3

\* Counts reads nothing but these variables and sets.
LEMMA SameCounts ==
    ASSUME Ownership, Counts, UNCHANGED <<permits, stockVars, owed, closer>>,
           Holding' = Holding, Building' = Building
    PROVE  Counts'
<1>1. Idle' = Idle /\ inUse' = inUse /\ creating' = creating
  BY DEF stockVars, Idle
<1> QED
  BY <1>1 DEF Counts, PermitsConserved, LiveBounded

\* Counts is inductive relative to Ownership.
LEMMA CountsStep == ASSUME Ownership, Counts, [Next]_vars PROVE Counts'
<1> USE DEF callVars, closeVars
<1>1. ASSUME NEW c \in Calls, NEW k \in Keys, Begin(c, k)
      PROVE  Counts'
  <2>1. Holding' = Holding /\ Building' = Building
    BY <1>1 DEF Begin, Holding, Building, Ownership, Types
  <2> QED
    BY <1>1, <2>1, SameCounts DEF Begin
<1>2. ASSUME NEW c \in Calls, CancelWaiting(c) \/ ReleaseUnknown(c)
      PROVE  Counts'
  <2>1. Holding' = Holding /\ Building' = Building
    BY <1>2 DEF CancelWaiting, ReleaseUnknown, Holding, Building, Ownership, Types
  <2> QED
    BY <1>2, <2>1, SameCounts DEF CancelWaiting, ReleaseUnknown
<1>3. ASSUME NEW s \in Calls,
             CloseNext(s) \/ \E success \in BOOLEAN : ReportOutcome(s, success)
      PROVE  Counts'
  <2>1. Holding' = Holding /\ Building' = Building
    BY <1>3 DEF CloseNext, ReportOutcome, Holding, Building
  <2> QED
    BY <1>3, <2>1, SameCounts DEF CloseNext, ReportOutcome
<1>4. CASE UNCHANGED vars
  <2>1. Holding' = Holding /\ Building' = Building
    BY <1>4 DEF vars, Holding, Building
  <2> QED
    BY <1>4, <2>1, SameCounts DEF vars
<1> QED
  BY <1>1, <1>2, <1>3, <1>4, TakingCounts, BuiltCounts, ReturningCounts,
     ReleaseCounts, CloseAllCounts
  DEF Next, Quiescent

-----------------------------------------------------------------------------
(* The theorems *)

(* The inductive invariant holds of every behaviour of the pool.            *)
THEOREM PoolInvariant == Spec => []IInv
<1>1. Init => IInv
  BY OwnershipInit, CountsInit DEF IInv
<1>2. IInv /\ [Next]_vars => IInv'
  BY OwnershipStep, CountsStep DEF IInv
<1> QED
  BY <1>1, <1>2, PTL DEF Spec

(* Every variable of the pool has its type: in particular the semaphore is  *)
(* never released beyond Size and no session does more than MaxSolves.      *)
THEOREM PoolTypeOK == Spec => []TypeOK
<1>1. IInv => TypeOK
  <2> SUFFICES ASSUME Ownership, Counts PROVE TypeOK
    BY DEF IInv
  <2>1. permits \in 0..Size /\ creating \in 0..Size /\ owed \in 0..Size
    BY CountFacts
  <2> QED
    BY <2>1 DEF Ownership, Types, TypeOK
<1> QED
  BY <1>1, PoolInvariant, PTL

(* checkout, release, failures, cancellations and close_all neither lose nor *)
(* duplicate a permit, for every size and every set of calls.                *)
THEOREM PermitsAreConserved == Spec => []PermitsConserved
<1>1. IInv => PermitsConserved
  BY DEF IInv, Counts
<1> QED
  BY <1>1, PoolInvariant, PTL

(* Sessions in use, being built and idle never exceed size together.        *)
THEOREM LiveSessionsAreBounded == Spec => []LiveBounded
<1>1. IInv => LiveBounded
  BY DEF IInv, Counts
<1> QED
  BY <1>1, PoolInvariant, PTL

(* A session in use serves one call, and only of its own egress bucket.     *)
THEOREM SessionsAreExclusive == Spec => []SessionServesItsCaller
<1>1. IInv => SessionServesItsCaller
  BY DEF IInv, Ownership
<1> QED
  BY <1>1, PoolInvariant, PTL

(* The pool never hands out or keeps a context it has begun to close.       *)
THEOREM TrackedContextsStayOpen == Spec => []TrackedContextsOpen
<1>1. IInv => TrackedContextsOpen
  BY DEF IInv, Ownership
<1> QED
  BY <1>1, PoolInvariant, PTL
=============================================================================
