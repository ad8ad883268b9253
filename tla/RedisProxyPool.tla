---------------------------- MODULE RedisProxyPool ----------------------------
(***************************************************************************)
(* The proxy pool several workers share in Redis: class RedisProxyPool of  *)
(* src/src/assets/proxy_pool.py.                                           *)
(*                                                                         *)
(* A pool whose Redis takes EVAL runs checkout, report and report_bytes as *)
(* one script each.  Once an EVAL was rejected, the pool of that worker    *)
(* takes a lock instead, reads whole hashes, computes in Python and writes *)
(* whole hashes back.  A worker that boots re-adds its inventory by a read *)
(* and a write, without the lock.  (set_geo writes fields that no operation*)
(* here looks at; it is left out.)                                         *)
(***************************************************************************)
EXTENDS ProxyHealth

CONSTANTS Pools,     \* the workers' instances of the pool
          PoolOf,    \* PoolOf[u]: the one solve u runs with
          MaxLost,   \* bound on the locks that expire or are not waited for
          MaxBoots   \* bound on re-added proxies

ASSUME SharedAssumption ==
    /\ PoolOf \in [Solves -> Pools]
    /\ MaxLost \in Nat /\ MaxBoots \in Nat
    /\ Solves \cap {"free", "boot"} = {}

VARIABLES evalSupported,  \* evalSupported[c]: pool c has had no EVAL rejected
          hash,       \* hash[p]: the health fields of {prefix}:p:{id}
          leased, phase,
          lock,       \* the solve whose operation owns {prefix}:lock, or none
          op,         \* op[u]: the locked operation of solve u, see Idle
          lost,       \* locks lost so far
          lockless,   \* for the properties only: whose operation lost or never got the lock
          overtaken,  \* for the properties only: whose copies another's write made out of date
          boot,       \* the add() under way: what it read of which proxy
          boots

lockVars == <<lost, lockless, overtaken>>
sharedVars == <<evalSupported, hash, leased, phase, lock, op, lockVars, boot, boots>>

\* The contract, whose Python helpers the fallback path shares with the
\* in-memory pool (_proxy_available).
Contract == INSTANCE ProxyContract WITH
                health <- hash, lent <- leased, stage <- phase

\* An operation: what it does, where it stands, the age of its clock reading,
\* its copies of the hashes and which of them it has to write back.
Idle == [does |-> "nothing", pc |-> "idle", lag |-> 0, kinds |-> {},
         outcome |-> "later", bytes |-> 0,
         copy |-> [p \in Proxies |-> Fresh], changed |-> {}]
NoBoot == [proxy |-> NoProxy, copy |-> Fresh]

Steps == {"idle", "locking", "reading", "persisting", "writing", "unlocking", "deleting"}

SharedTypeOK ==
    /\ evalSupported \in [Pools -> BOOLEAN]
    /\ Contract!HealthTypeOK
    /\ lock \in Solves \cup {"free"} /\ lost \in 0..MaxLost
    /\ lockless \subseteq Solves /\ overtaken \subseteq Solves \cup {"boot"}
    /\ \A u \in Solves :
          /\ op[u].pc \in Steps /\ op[u].lag \in 0..MaxLag
          /\ op[u].copy \in [Proxies -> Record] /\ op[u].changed \subseteq Proxies
    /\ boot.proxy \in Proxies \cup {NoProxy} /\ boots \in 0..MaxBoots

SharedInit ==
    /\ evalSupported = [c \in Pools |-> TRUE]
    /\ Contract!HealthInit
    /\ lock = "free" /\ op = [u \in Solves |-> Idle]
    /\ lost = 0 /\ lockless = {} /\ overtaken = {}
    /\ boot = NoBoot /\ boots = 0

Free(u) == op[u].pc = "idle"
Booting == boot.proxy # NoProxy

\* Who has read hashes and is yet to write them back.
Holding == {u \in Solves : op[u].pc \in {"persisting", "writing"}}
             \cup (IF Booting THEN {"boot"} ELSE {})

\* Who is overtaken once a's write has landed, if it changed anything.
OvertakenBy(a) ==
    IF hash' = hash THEN overtaken ELSE overtaken \cup (Holding \ {a})

-----------------------------------------------------------------------------
(* The scripts, each one step *)

\* Mutant: the counters of a poor record outlive the cooldown they earned.
LuaReviewedUnreset(h, lag) ==
    LET poor == h.ok + h.fail >= MinSamples
                  /\ h.ok * RateDen < RateNum * (h.ok + h.fail)
    IN  IF h.state = "cooldown" /\ h.rest + lag <= 0
        THEN [h EXCEPT !.state = "healthy", !.streak = 0]
        ELSE IF h.state \notin {"burned", "cooldown"} /\ poor
        THEN [h EXCEPT !.state = "cooldown", !.rest = Cooldown - lag]
        ELSE h

\* _CHECKOUT_LUA on one hash: fields that changed are written back at once.
LuaReviewed(h, lag) ==
    LET poor == h.ok + h.fail >= MinSamples
                  /\ h.ok * RateDen < RateNum * (h.ok + h.fail)
    IN  IF h.state = "burned" THEN h
        ELSE IF h.state = "cooldown"
        THEN IF h.rest + lag > 0 THEN h
             ELSE [h EXCEPT !.state = "healthy", !.streak = 0,
                            !.ok = IF poor THEN 0 ELSE @,
                            !.fail = IF poor THEN 0 ELSE @]
        ELSE IF poor THEN [h EXCEPT !.state = "cooldown", !.rest = Cooldown - lag]
        ELSE h

LuaAvailable(h) == h.state \notin {"burned", "cooldown"}

Scripts(u) == evalSupported[PoolOf[u]] /\ Free(u)
ScriptOnly(u) == /\ overtaken' = OvertakenBy(u)
                 /\ UNCHANGED <<evalSupported, lock, op, lost, lockless, boot, boots>>

ScriptCheckout(u, kinds, lag) ==
    LET seen == [p \in Proxies |-> LuaReviewed(hash[p], lag)]
        candidates == {p \in Proxies : LuaAvailable(seen[p]) /\ KindOf[p] \in kinds}
    IN
    /\ Scripts(u) /\ phase[u] = "new"
    /\ \/ \E p \in candidates :  \* the best by rank, see ProxyPool
             /\ hash' = [seen EXCEPT ![p].state = IF seen[p].ok = 0 THEN "probing" ELSE @]
             /\ leased' = [leased EXCEPT ![u] = p]
             /\ phase' = [phase EXCEPT ![u] = "using"]
       \/ /\ candidates = {}
          /\ hash' = seen
          /\ phase' = [phase EXCEPT ![u] = "done"]
          /\ UNCHANGED leased
    /\ ScriptOnly(u)

LuaBurns(h) ==
    IF MaxBytes > 0 /\ h.bytes >= MaxBytes THEN [h EXCEPT !.state = "burned"] ELSE h

\* _REPORT_LUA
LuaReported(h, outcome, nbytes, lag) ==
    LET g == [h EXCEPT !.bytes = @ + nbytes]
        counted ==
          IF outcome = "success"
          THEN [g EXCEPT !.ok = @ + 1, !.streak = 0, !.state = IF @ # "burned" THEN "healthy" ELSE @]
          ELSE IF outcome = "transport"
          THEN LET failed == [g EXCEPT !.fail = @ + 1, !.streak = @ + 1] IN
               IF failed.streak >= MaxFails
               THEN [failed EXCEPT !.state = "cooldown", !.rest = Cooldown - lag]
               ELSE failed
          ELSE g
    IN  LuaBurns(counted)

ScriptReport(u, outcome, nbytes, lag) ==
    /\ Scripts(u) /\ phase[u] = "using"
    /\ hash' = [hash EXCEPT ![leased[u]] = LuaReported(@, outcome, nbytes, lag)]
    /\ phase' = [phase EXCEPT ![u] = "reported"]
    /\ UNCHANGED leased /\ ScriptOnly(u)

ScriptFeedback(u, accepted, lag) ==
    /\ Scripts(u) /\ phase[u] = "reported"
    /\ hash' = [hash EXCEPT ![leased[u]] =
                  LuaReported(@, IF accepted THEN "success" ELSE "later", 0, lag)]
    /\ phase' = [phase EXCEPT ![u] = "done"]
    /\ UNCHANGED leased /\ ScriptOnly(u)

\* _REPORT_BYTES_LUA
LuaCarried(h, nbytes) == LuaBurns([h EXCEPT !.bytes = @ + nbytes])

\* Bound, here and in Begin: no metering past the quota.
ScriptBytes(u, nbytes) ==
    /\ Scripts(u) /\ phase[u] = "using" /\ nbytes > 0 /\ hash[leased[u]].bytes < MaxBytes
    /\ hash' = [hash EXCEPT ![leased[u]] = LuaCarried(@, nbytes)]
    /\ UNCHANGED <<leased, phase>> /\ ScriptOnly(u)

-----------------------------------------------------------------------------
(* The fallback path *)

LockedOnly == UNCHANGED <<evalSupported, boot, boots>>
Ends(u) == /\ lockless' = lockless \ {u} /\ overtaken' = OvertakenBy(u) \ {u}
           /\ UNCHANGED lost
Sets(u, o) == op' = [op EXCEPT ![u] = o]

\* The EVAL of this operation, or an earlier one of its pool, was rejected.
Begin(u, does, kinds, outcome, nbytes) ==
    /\ Free(u)
    /\ phase[u] = IF does = "checkout" THEN "new"
                  ELSE IF does = "feedback" THEN "reported" ELSE "using"
    /\ does = "bytes" => nbytes > 0 /\ hash[leased[u]].bytes < MaxBytes
    /\ Sets(u, [Idle EXCEPT !.does = does, !.pc = "locking", !.kinds = kinds,
                            !.outcome = outcome, !.bytes = nbytes])
    /\ evalSupported' = [evalSupported EXCEPT ![PoolOf[u]] = FALSE]
    /\ UNCHANGED <<hash, leased, phase, lock, lockVars, boot, boots>>

BeginAny(u) ==
    \/ \E kinds \in Asked : Begin(u, "checkout", kinds, "later", 0)
    \/ \E outcome \in Outcomes, nbytes \in Sizes :
          Begin(u, "report", {}, outcome, nbytes)
    \/ \E outcome \in {"success", "later"} : Begin(u, "feedback", {}, outcome, 0)
    \/ \E nbytes \in Sizes : Begin(u, "bytes", {}, "later", nbytes)

\* Bound, here and in AddReads: boots and lost locks are not mixed.
Loses == lost < MaxLost /\ boots = 0 /\ lost' = lost + 1

\* Operations between taking the lock and giving it back.
Critical == {u \in Solves : op[u].pc \in {"reading", "persisting", "writing"}}

\* _acquire_lock: SET NX until it succeeds, or go on with an empty token.
AcquireLock(u) ==
    /\ op[u].pc = "locking"
    /\ \/ lock = "free" /\ lock' = u /\ UNCHANGED <<lost, lockless>>
       \/ lock # "free" /\ Loses /\ lockless' = lockless \cup {u} /\ UNCHANGED lock
    /\ Sets(u, [op[u] EXCEPT !.pc = "reading"])
    /\ UNCHANGED <<hash, leased, phase, overtaken>> /\ LockedOnly

\* The key's TTL runs out, under the operation or after one that left it behind.
LockExpires ==
    /\ lock # "free"
    /\ IF Free(lock) THEN UNCHANGED lost ELSE Loses
    /\ lock' = "free" /\ lockless' = lockless \cup (Critical \cap {lock})
    /\ UNCHANGED <<hash, leased, phase, op, overtaken>> /\ LockedOnly

\* Read every hash and judge it, as of the time the checkout began.
ReadForCheckout(u) ==
    LET o == op[u]
        judged == [p \in Proxies |-> Reviewed(hash[p], o.lag)]
        changed == {p \in Proxies : judged[p] # hash[p]}
    IN
    /\ o.pc = "reading" /\ o.does = "checkout"
    /\ Sets(u, [o EXCEPT !.copy = judged, !.changed = changed,
                         !.pc = IF changed # {} THEN "persisting" ELSE "writing"])
    /\ UNCHANGED <<hash, leased, phase, lock, lockVars>> /\ LockedOnly

\* Whole hashes go back.
WriteBack(ps, copy) ==
    hash' = [p \in Proxies |-> IF p \in ps THEN copy[p] ELSE hash[p]]

Persist(u) ==
    /\ op[u].pc = "persisting"
    /\ WriteBack(op[u].changed, op[u].copy)
    /\ Sets(u, [op[u] EXCEPT !.pc = "writing"])
    /\ overtaken' = OvertakenBy(u)
    /\ UNCHANGED <<leased, phase, lock, lost, lockless>> /\ LockedOnly

Reserve(u) ==
    LET o == op[u]
        candidates == {p \in Proxies : MayServe(o.copy[p])
                                         /\ KindOf[p] \in o.kinds}
    IN
    /\ o.pc = "writing" /\ o.does = "checkout"
    /\ \/ \E p \in candidates :
             /\ WriteBack({p}, [o.copy EXCEPT ![p] = Reserved(@)])
             /\ leased' = [leased EXCEPT ![u] = p]
             /\ phase' = [phase EXCEPT ![u] = "using"]
       \/ /\ candidates = {}
          /\ phase' = [phase EXCEPT ![u] = "done"]
          /\ UNCHANGED <<hash, leased>>
    /\ Sets(u, [Idle EXCEPT !.pc = "unlocking"])
    /\ UNCHANGED lock /\ LockedOnly /\ Ends(u)

\* _report_locked and _report_bytes_locked up to the write.
ReadForReport(u) ==
    LET o == op[u]  p == leased[u]
        h == IF o.does = "bytes" THEN Carried(hash[p], o.bytes)
             ELSE Reported(hash[p], o.outcome, o.bytes, 0)
    IN
    /\ o.pc = "reading" /\ o.does # "checkout"
    /\ Sets(u, [o EXCEPT !.copy[p] = h, !.lag = 0, !.pc = "writing"])
    /\ UNCHANGED <<hash, leased, phase, lock, lockVars>> /\ LockedOnly

WriteReport(u) ==
    /\ op[u].pc = "writing" /\ op[u].does # "checkout"
    /\ WriteBack({leased[u]}, op[u].copy)
    /\ phase' = [phase EXCEPT ![u] =
                   CASE op[u].does = "report" -> "reported"
                     [] op[u].does = "feedback" -> "done"
                     [] op[u].does = "bytes" -> @]
    /\ Sets(u, [Idle EXCEPT !.pc = "unlocking"])
    /\ UNCHANGED <<leased, lock>> /\ LockedOnly /\ Ends(u)

\* Mutant: the lock is deleted without a look at whose it is.
ReleaseAnyLock(u) ==
    /\ op[u].pc = "unlocking"
    /\ lock' = "free"
    /\ Sets(u, Idle)
    /\ UNCHANGED <<hash, leased, phase, lockVars>> /\ LockedOnly

\* _release_lock: one EVAL that deletes the lock if it is its own; where that
\* is rejected, a GET ...
ReleaseLock(u) ==
    /\ op[u].pc = "unlocking"
    /\ \/ /\ lock' = IF lock = u THEN "free" ELSE lock
          /\ Sets(u, Idle)
       \/ /\ Sets(u, IF lock = u THEN [Idle EXCEPT !.pc = "deleting"] ELSE Idle)
          /\ UNCHANGED lock
    /\ UNCHANGED <<hash, leased, phase, lockVars>> /\ LockedOnly

\* ... and a DEL, of whatever lock is there by then.
DeleteLock(u) ==
    /\ op[u].pc = "deleting"
    /\ lock' = "free" /\ lockless' = lockless \cup (Critical \cap {lock})
    /\ Sets(u, Idle)
    /\ UNCHANGED <<hash, leased, phase, lost, overtaken>> /\ LockedOnly

\* The solve is cancelled.  From reading on, the operation still releases in its
\* finally; waiting for the lock or releasing it, it stops there, and a SET that
\* went out leaves the lock to its TTL.
GivenUp(u) ==
    /\ phase[u] # "done"
    /\ phase' = [phase EXCEPT ![u] = "done"]
    /\ Sets(u, IF op[u].pc \in {"reading", "persisting", "writing"}
               THEN [Idle EXCEPT !.pc = "unlocking"] ELSE Idle)
    /\ \/ UNCHANGED lock
       \/ op[u].pc = "locking" /\ lock = "free" /\ lock' = u
    /\ UNCHANGED <<hash, leased>> /\ LockedOnly /\ Ends(u)

-----------------------------------------------------------------------------
(* add, time *)

\* add: load what Redis has of the proxy ...
AddReads(p) ==
    /\ ~ Booting /\ boots < MaxBoots /\ lost = 0
    /\ boot' = [proxy |-> p, copy |-> hash[p]]
    /\ boots' = boots + 1
    /\ UNCHANGED <<evalSupported, hash, leased, phase, lock, op, lockVars>>

\* _preserve_health: the history survives the upsert.
Preserved(copy) == copy

\* ... and write the entry back, history included.
AddWrites ==
    /\ Booting
    /\ WriteBack({boot.proxy}, [p \in Proxies |-> Preserved(boot.copy)])
    /\ boot' = NoBoot
    /\ overtaken' = OvertakenBy("boot") \ {"boot"}
    /\ UNCHANGED <<evalSupported, leased, phase, lock, op, lost, lockless, boots>>

\* A tick later, an operation's clock reading is older, and so are its copies.
Later(o) ==
    [o EXCEPT !.lag = @ + 1, !.copy = [p \in Proxies |-> Older(o.copy[p])]]

\* Everything that is a point in time moves closer; a clock reading gets older.
\* Bounds: an operation takes less than MaxLag + 1 ticks, a boot none.
TicksPass ==
    /\ ~ Booting
    /\ \A u \in Solves : Free(u) \/ op[u].lag < MaxLag
    /\ hash' = [p \in Proxies |-> Older(hash[p])]
    /\ op' = [u \in Solves |->
                IF op[u].pc \in {"idle", "unlocking", "deleting"} THEN op[u]
                ELSE Later(op[u])]
    /\ UNCHANGED <<evalSupported, leased, phase, lock, lockVars, boot, boots>>

SharedNext ==
    \/ \E u \in Solves :
          \/ \E lag \in 0..MaxLag :
                \/ \E kinds \in Asked : ScriptCheckout(u, kinds, lag)
                \/ \E outcome \in Outcomes, nbytes \in Sizes :
                      ScriptReport(u, outcome, nbytes, lag)
                \/ \E accepted \in BOOLEAN : ScriptFeedback(u, accepted, lag)
          \/ \E nbytes \in Sizes : ScriptBytes(u, nbytes)
          \/ BeginAny(u) \/ AcquireLock(u)
          \/ ReadForCheckout(u) \/ Persist(u) \/ Reserve(u)
          \/ ReadForReport(u) \/ WriteReport(u) \/ ReleaseLock(u) \/ DeleteLock(u)
          \/ GivenUp(u)
    \/ LockExpires
    \/ (\E p \in Proxies : AddReads(p)) \/ AddWrites
    \/ TicksPass

SharedSpec == SharedInit /\ [][SharedNext]_sharedVars

-----------------------------------------------------------------------------
\* One who was overtaken moves on: a solve's operation, or a boot.
OvertakenActs ==
    \/ \E u \in overtaken \cap Solves : op'[u].pc # op[u].pc
    \/ "boot" \in overtaken /\ ~ Booting'

(* Scripts and locked fallback, mixed as the workers' pools come to it, keep *)
(* the contract of the pool: every change to a shared hash is one review,    *)
(* loan, report or metering of the contract, with a clock reading at most    *)
(* MaxLag old (RedisProxyPool: "health transitions, ranking and the          *)
(* reservation write happen atomically").  The exceptions are the writes of  *)
(* an operation or of a boot that was overtaken: one that read, and then a   *)
(* script, a boot or an operation without the lock changed a hash before it  *)
(* wrote.  Such a write may undo, but what follows keeps the contract again. *)
ImplementsContract ==
    /\ Contract!HealthInit
    /\ [][Contract!HealthNext \/ OvertakenActs]_<<hash, leased, phase>>

(* A fallback operation that got the lock owns it up to its last write, and  *)
(* so excludes every other that got it, whatever ended without the lock or   *)
(* was cancelled around it (_release_lock: "Only DEL if the value matches -- *)
(* avoids releasing someone else's lock if ours expired mid-operation").     *)
(* Two things take it away: its own TTL, and the DEL of a release without    *)
(* EVAL whose lock expired after its GET, which the code accepts there.      *)
LockExcludes == \A u \in Critical \ lockless : lock = u

(* Burned is final across workers and across boots (build_proxy_pool: "a     *)
(* proxy that burned on worker A isn't retried by worker B").  A boot that   *)
(* read before the proxy burned brings it back.                              *)
BurnedStaysBurned == Contract!BurnedIsFinal
=============================================================================
