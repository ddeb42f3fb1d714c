------------------------- MODULE AggregateCacheProofs -------------------------
(***************************************************************************)
(* Proofs about AggregateCache, for any number of shards, handlers,        *)
(* pollers, calls and faults, also when endpoints disappear unsynced.      *)
(***************************************************************************)
EXTENDS AggregateCache, TLAPS

-----------------------------------------------------------------------------
(* The inductive invariant.                                                *)

\* Who holds AggregateCache.lock for reading and the informer's lock; users
\* that got further than GetAggregateInformer made the informer exist.
LockShape ==
  /\ \A u \in Users :
       /\ u \in readers <=> upc[u] \in {"lock", "loop", "cleanup", "poll"}
       /\ upc[u] # "idle" => informer
  /\ \A h \in Handlers : upc[h] # "poll" /\ (ilock = h <=> upc[h] \in {"loop", "cleanup"})
  /\ ilock = Worker <=> wpc = "register"

\* The shard the worker is about is known to the aggregate or not.
WorkerShape ==
  /\ skips \in Nat
  /\ wpc # "idle" => wshard \in Shards
  /\ wpc \in {"removeLock", "addNotify", "added", "register"} => wshard \in caches
  /\ wpc \in {"addLock", "removeNotify", "removed"} => wshard \notin caches

\* What AddEventHandler has done for a handler that is not yet tracked.
HandlerShape ==
  \A h \in Handlers :
    /\ h \in handlers => upc[h] = "done"
    /\ upc[h] = "lock" => visit[h] = caches
    /\ upc[h] = "loop" =>
         /\ visit[h] \subseteq caches /\ regs[h] = caches \ visit[h]
         /\ \A s \in Shards : count[h][s] = IF s \in regs[h] THEN 1 ELSE 0
    /\ upc[h] = "cleanup" =>
         /\ visit[h] \subseteq caches
         /\ \A s \in Shards :
              /\ s \in visit[h] => count[h][s] = 1
              /\ s \notin visit[h] => count[h][s] = 0 \/ s \in leaked[h]
    /\ upc[h] = "failed" =>
         \A s \in Shards : count[h][s] = 0 \/ s \in leaked[h]
    /\ upc[h] \notin {"loop", "cleanup", "failed", "done"} =>
         regs[h] = {} /\ \A s \in Shards : count[h][s] = 0

\* A tracked handler lags behind the caches by the worker's shard at most.
TrackedShape ==
  \A h \in handlers :
    /\ regs[h] \subseteq
         caches \union (IF wpc \in {"removeNotify", "removed"} THEN {wshard} ELSE {})
    /\ skips = 0 => \A s \in caches :
         \/ s \in regs[h] /\ count[h][s] > 0
         \/ wpc \in {"addNotify", "added", "register"} /\ s = wshard

IInv == TypeOK /\ LockShape /\ WorkerShape /\ HandlerShape /\ TrackedShape

LEMMA InitInv == Init => IInv
<1> SUFFICES ASSUME Init PROVE IInv
  OBVIOUS
<1> USE NamesAssumption DEF Init, Users
<1>1. TypeOK
  BY DEF TypeOK
<1>2. LockShape /\ WorkerShape
  BY DEF LockShape, WorkerShape
<1>3. HandlerShape /\ TrackedShape
  BY DEF HandlerShape, TrackedShape
<1> QED
  BY <1>1, <1>2, <1>3 DEF IInv

-----------------------------------------------------------------------------
(* Each step keeps each part.                                              *)

LEMMA CountUp ==
  ASSUME NEW f \in [Shards -> Nat], NEW s \in Shards
  PROVE  [f EXCEPT ![s] = @ + 1] \in [Shards -> Nat]
OBVIOUS

LEMMA CleanupFacts ==
  ASSUME HandlerShape, NEW h \in Handlers, NEW s \in Shards,
         upc[h] = "cleanup", s \in visit[h]
  PROVE  count[h][s] = 1 /\ h \notin handlers
BY DEF HandlerShape

LEMMA TypeStep == IInv /\ Next => TypeOK'
<1> SUFFICES ASSUME IInv, Next PROVE TypeOK'
  OBVIOUS
<1> USE NamesAssumption DEF IInv, TypeOK, HandlerShape, Users, userVars
<1>1. ASSUME NEW s \in Shards, ShardStarts(s)
      PROVE  TypeOK'
  BY <1>1 DEF ShardStarts
<1>2. ASSUME NEW s \in Shards, ShardSyncs(s)
      PROVE  TypeOK'
  BY <1>2 DEF ShardSyncs
<1>3. ASSUME NEW s \in Shards, CallAdd(s)
      PROVE  TypeOK'
  BY <1>3 DEF CallAdd
<1>4. ASSUME NEW s \in Shards, CallRemove(s)
      PROVE  TypeOK'
  BY <1>4 DEF CallRemove
<1>5. CASE StoreCache
  <2>1. \A h \in Handlers : [count[h] EXCEPT ![wshard] = 0] \in [Shards -> Nat]
    OBVIOUS
  <2>2. count' \in [Handlers -> [Shards -> Nat]]
    BY <1>5, <2>1 DEF StoreCache
  <2>3. wshard \in Shards
    BY <1>5 DEF StoreCache, WorkerShape
  <2> QED
    BY <1>5, <2>2, <2>3 DEF StoreCache
<1>6. CASE DeleteCache
  BY <1>6 DEF DeleteCache
<1>7. CASE NoInformer
  BY <1>7 DEF NoInformer
<1>8. CASE NotifyAdded
  BY <1>8 DEF NotifyAdded
<1>9. CASE RegisterAll
  <2>1. wshard \in Shards
    BY <1>9 DEF RegisterAll, RegisterExcept, WorkerShape
  <2>2. \A h \in Handlers : [count[h] EXCEPT ![wshard] = @ + 1] \in [Shards -> Nat]
    BY <2>1, CountUp
  <2>3. count' \in [Handlers -> [Shards -> Nat]]
    BY <1>9, <2>2 DEF RegisterAll, RegisterExcept
  <2> QED
    BY <1>9, <2>1, <2>3 DEF RegisterAll, RegisterExcept
<1>10. CASE SkipShard
  BY <1>10 DEF SkipShard
<1>11. CASE NotifyRemoved
  BY <1>11 DEF NotifyRemoved
<1>12. ASSUME NEW u \in Users, GetAggregateInformer(u)
      PROVE  TypeOK'
  BY <1>12 DEF GetAggregateInformer
<1>13. ASSUME NEW u \in Users, RLockCaches(u)
      PROVE  TypeOK'
  BY <1>13 DEF RLockCaches
<1>14. ASSUME NEW h \in Handlers, LockInformer(h)
      PROVE  TypeOK'
  BY <1>14 DEF LockInformer
<1>15. ASSUME NEW h \in Handlers, NEW s \in Shards, RegisterOne(h, s)
      PROVE  TypeOK'
  BY <1>15 DEF RegisterOne
<1>16. ASSUME NEW h \in Handlers, AddHandlerFails(h)
      PROVE  TypeOK'
  BY <1>16 DEF AddHandlerFails
<1>17. ASSUME NEW h \in Handlers, TrackHandler(h)
      PROVE  TypeOK'
  BY <1>17 DEF TrackHandler
<1>18. ASSUME NEW u \in Users, NEW s \in Shards, PollShard(u, s)
      PROVE  TypeOK'
  BY <1>18 DEF PollShard
<1>19. ASSUME NEW u \in Users, PollReturns(u)
      PROVE  TypeOK'
  BY <1>19 DEF PollReturns
<1>20. CASE RLockInformers
  BY <1>20 DEF RLockInformers
<1>21. CASE RegisterSome
  <2> PICK failed \in SUBSET handlers \ {{}} : RegisterExcept(failed)
    BY <1>21 DEF RegisterSome
  <2>1. wshard \in Shards
    BY DEF RegisterExcept, WorkerShape
  <2>2. \A h \in Handlers : [count[h] EXCEPT ![wshard] = @ + 1] \in [Shards -> Nat]
    BY <2>1, CountUp
  <2>3. count' \in [Handlers -> [Shards -> Nat]]
    BY <2>2 DEF RegisterExcept
  <2> QED
    BY <1>21, <2>1, <2>3 DEF RegisterSome, RegisterExcept
<1>22. ASSUME NEW h \in Handlers, NEW s \in Shards, Unregister(h, s)
      PROVE  TypeOK'
  <2>1. count[h] \in [Shards -> Nat] /\ count[h][s] = 1
    BY <1>22, CleanupFacts DEF Unregister
  <2>2. [count[h] EXCEPT ![s] = @ - 1] \in [Shards -> Nat]
    BY <2>1
  <2>3. count' \in [Handlers -> [Shards -> Nat]]
    BY <1>22, <2>2 DEF Unregister
  <2> QED
    BY <1>22, <2>3 DEF Unregister
<1>23. ASSUME NEW h \in Handlers, NEW s \in Shards, UnregisterFails(h, s)
      PROVE  TypeOK'
  BY <1>23 DEF UnregisterFails
<1>24. ASSUME NEW h \in Handlers, CleanupReturns(h)
      PROVE  TypeOK'
  BY <1>24 DEF CleanupReturns
<1>25. ASSUME NEW u \in Users, PollFails(u)
      PROVE  TypeOK'
  BY <1>25 DEF PollFails
<1> QED
  BY <1>1, <1>2, <1>3, <1>4, <1>5, <1>6, <1>7, <1>8, <1>9, <1>10, <1>11, <1>12, <1>13, <1>14, <1>15, <1>16, <1>17, <1>18, <1>19,
     <1>20, <1>21, <1>22, <1>23, <1>24, <1>25
  DEF Next, WorkerStep, UserStep, Faults

LEMMA LockShapeStep == IInv /\ Next => LockShape'
<1> SUFFICES ASSUME IInv, Next PROVE LockShape'
  OBVIOUS
<1> USE NamesAssumption DEF IInv, LockShape, TypeOK, Users, userVars
<1>1. ASSUME NEW s \in Shards, ShardStarts(s)
      PROVE  LockShape'
  BY <1>1 DEF ShardStarts
<1>2. ASSUME NEW s \in Shards, ShardSyncs(s)
      PROVE  LockShape'
  BY <1>2 DEF ShardSyncs
<1>3. ASSUME NEW s \in Shards, CallAdd(s)
      PROVE  LockShape'
  BY <1>3 DEF CallAdd
<1>4. ASSUME NEW s \in Shards, CallRemove(s)
      PROVE  LockShape'
  BY <1>4 DEF CallRemove
<1>5. CASE StoreCache
  BY <1>5 DEF StoreCache
<1>6. CASE DeleteCache
  BY <1>6 DEF DeleteCache
<1>7. CASE NoInformer
  BY <1>7 DEF NoInformer
<1>8. CASE NotifyAdded
  BY <1>8 DEF NotifyAdded
<1>9. CASE RegisterAll
  BY <1>9 DEF RegisterAll, RegisterExcept
<1>10. CASE SkipShard
  BY <1>10 DEF SkipShard
<1>11. CASE NotifyRemoved
  BY <1>11 DEF NotifyRemoved
<1>12. ASSUME NEW u \in Users, GetAggregateInformer(u)
      PROVE  LockShape'
  BY <1>12 DEF GetAggregateInformer
<1>13. ASSUME NEW u \in Users, RLockCaches(u)
      PROVE  LockShape'
  BY <1>13 DEF RLockCaches
<1>14. ASSUME NEW h \in Handlers, LockInformer(h)
      PROVE  LockShape'
  BY <1>14 DEF LockInformer
<1>15. ASSUME NEW h \in Handlers, NEW s \in Shards, RegisterOne(h, s)
      PROVE  LockShape'
  BY <1>15 DEF RegisterOne
<1>16. ASSUME NEW h \in Handlers, AddHandlerFails(h)
      PROVE  LockShape'
  BY <1>16 DEF AddHandlerFails
<1>17. ASSUME NEW h \in Handlers, TrackHandler(h)
      PROVE  LockShape'
  BY <1>17 DEF TrackHandler
<1>18. ASSUME NEW u \in Users, NEW s \in Shards, PollShard(u, s)
      PROVE  LockShape'
  BY <1>18 DEF PollShard
<1>19. ASSUME NEW u \in Users, PollReturns(u)
      PROVE  LockShape'
  BY <1>19 DEF PollReturns
<1>20. CASE RLockInformers
  BY <1>20 DEF RLockInformers
<1>21. CASE RegisterSome
  BY <1>21 DEF RegisterSome, RegisterExcept
<1>22. ASSUME NEW h \in Handlers, NEW s \in Shards, Unregister(h, s)
      PROVE  LockShape'
  BY <1>22 DEF Unregister
<1>23. ASSUME NEW h \in Handlers, NEW s \in Shards, UnregisterFails(h, s)
      PROVE  LockShape'
  BY <1>23 DEF UnregisterFails
<1>24. ASSUME NEW h \in Handlers, CleanupReturns(h)
      PROVE  LockShape'
  BY <1>24 DEF CleanupReturns
<1>25. ASSUME NEW u \in Users, PollFails(u)
      PROVE  LockShape'
  BY <1>25 DEF PollFails
<1> QED
  BY <1>1, <1>2, <1>3, <1>4, <1>5, <1>6, <1>7, <1>8, <1>9, <1>10, <1>11, <1>12, <1>13, <1>14, <1>15, <1>16, <1>17, <1>18, <1>19,
     <1>20, <1>21, <1>22, <1>23, <1>24, <1>25
  DEF Next, WorkerStep, UserStep, Faults

LEMMA WorkerShapeStep == IInv /\ Next => WorkerShape'
<1> SUFFICES ASSUME IInv, Next PROVE WorkerShape'
  OBVIOUS
<1> USE NamesAssumption DEF IInv, WorkerShape, TypeOK, userVars
<1>1. ASSUME NEW s \in Shards, ShardStarts(s)
      PROVE  WorkerShape'
  BY <1>1 DEF ShardStarts
<1>2. ASSUME NEW s \in Shards, ShardSyncs(s)
      PROVE  WorkerShape'
  BY <1>2 DEF ShardSyncs
<1>3. ASSUME NEW s \in Shards, CallAdd(s)
      PROVE  WorkerShape'
  BY <1>3 DEF CallAdd
<1>4. ASSUME NEW s \in Shards, CallRemove(s)
      PROVE  WorkerShape'
  BY <1>4 DEF CallRemove
<1>5. CASE StoreCache
  BY <1>5 DEF StoreCache
<1>6. CASE DeleteCache
  BY <1>6 DEF DeleteCache
<1>7. CASE NoInformer
  BY <1>7 DEF NoInformer
<1>8. CASE NotifyAdded
  BY <1>8 DEF NotifyAdded
<1>9. CASE RegisterAll
  BY <1>9 DEF RegisterAll, RegisterExcept
<1>10. CASE SkipShard
  BY <1>10 DEF SkipShard
<1>11. CASE NotifyRemoved
  BY <1>11 DEF NotifyRemoved
<1>12. ASSUME NEW u \in Users, GetAggregateInformer(u)
      PROVE  WorkerShape'
  BY <1>12 DEF GetAggregateInformer
<1>13. ASSUME NEW u \in Users, RLockCaches(u)
      PROVE  WorkerShape'
  BY <1>13 DEF RLockCaches
<1>14. ASSUME NEW h \in Handlers, LockInformer(h)
      PROVE  WorkerShape'
  BY <1>14 DEF LockInformer
<1>15. ASSUME NEW h \in Handlers, NEW s \in Shards, RegisterOne(h, s)
      PROVE  WorkerShape'
  BY <1>15 DEF RegisterOne
<1>16. ASSUME NEW h \in Handlers, AddHandlerFails(h)
      PROVE  WorkerShape'
  BY <1>16 DEF AddHandlerFails
<1>17. ASSUME NEW h \in Handlers, TrackHandler(h)
      PROVE  WorkerShape'
  BY <1>17 DEF TrackHandler
<1>18. ASSUME NEW u \in Users, NEW s \in Shards, PollShard(u, s)
      PROVE  WorkerShape'
  BY <1>18 DEF PollShard
<1>19. ASSUME NEW u \in Users, PollReturns(u)
      PROVE  WorkerShape'
  BY <1>19 DEF PollReturns
<1>20. CASE RLockInformers
  BY <1>20 DEF RLockInformers
<1>21. CASE RegisterSome
  BY <1>21 DEF RegisterSome, RegisterExcept
<1>22. ASSUME NEW h \in Handlers, NEW s \in Shards, Unregister(h, s)
      PROVE  WorkerShape'
  BY <1>22 DEF Unregister
<1>23. ASSUME NEW h \in Handlers, NEW s \in Shards, UnregisterFails(h, s)
      PROVE  WorkerShape'
  BY <1>23 DEF UnregisterFails
<1>24. ASSUME NEW h \in Handlers, CleanupReturns(h)
      PROVE  WorkerShape'
  BY <1>24 DEF CleanupReturns
<1>25. ASSUME NEW u \in Users, PollFails(u)
      PROVE  WorkerShape'
  BY <1>25 DEF PollFails
<1> QED
  BY <1>1, <1>2, <1>3, <1>4, <1>5, <1>6, <1>7, <1>8, <1>9, <1>10, <1>11, <1>12, <1>13, <1>14, <1>15, <1>16, <1>17, <1>18, <1>19,
     <1>20, <1>21, <1>22, <1>23, <1>24, <1>25
  DEF Next, WorkerStep, UserStep, Faults

LEMMA HandlerShapeStep == IInv /\ Next => HandlerShape'
<1> SUFFICES ASSUME IInv, Next PROVE HandlerShape'
  OBVIOUS
<1> USE NamesAssumption DEF IInv, HandlerShape, LockShape, TypeOK, Users, userVars
<1>1. ASSUME NEW s \in Shards, ShardStarts(s)
      PROVE  HandlerShape'
  BY <1>1 DEF ShardStarts
<1>2. ASSUME NEW s \in Shards, ShardSyncs(s)
      PROVE  HandlerShape'
  BY <1>2 DEF ShardSyncs
<1>3. ASSUME NEW s \in Shards, CallAdd(s)
      PROVE  HandlerShape'
  BY <1>3 DEF CallAdd
<1>4. ASSUME NEW s \in Shards, CallRemove(s)
      PROVE  HandlerShape'
  BY <1>4 DEF CallRemove
<1>5. CASE StoreCache
  BY <1>5 DEF StoreCache
<1>6. CASE DeleteCache
  BY <1>6 DEF DeleteCache
<1>7. CASE NoInformer
  BY <1>7 DEF NoInformer
<1>8. CASE NotifyAdded
  BY <1>8 DEF NotifyAdded
<1>9. CASE RegisterAll
  BY <1>9 DEF RegisterAll, RegisterExcept
<1>10. CASE SkipShard
  BY <1>10 DEF SkipShard
<1>11. CASE NotifyRemoved
  BY <1>11 DEF NotifyRemoved
<1>12. ASSUME NEW u \in Users, GetAggregateInformer(u)
      PROVE  HandlerShape'
  BY <1>12 DEF GetAggregateInformer
<1>13. ASSUME NEW u \in Users, RLockCaches(u)
      PROVE  HandlerShape'
  BY <1>13 DEF RLockCaches
<1>14. ASSUME NEW h \in Handlers, LockInformer(h)
      PROVE  HandlerShape'
  BY <1>14 DEF LockInformer
<1>15. ASSUME NEW h \in Handlers, NEW s \in Shards, RegisterOne(h, s)
      PROVE  HandlerShape'
  BY <1>15 DEF RegisterOne
<1>16. ASSUME NEW h \in Handlers, AddHandlerFails(h)
      PROVE  HandlerShape'
  BY <1>16 DEF AddHandlerFails
<1>17. ASSUME NEW h \in Handlers, TrackHandler(h)
      PROVE  HandlerShape'
  BY <1>17 DEF TrackHandler
<1>18. ASSUME NEW u \in Users, NEW s \in Shards, PollShard(u, s)
      PROVE  HandlerShape'
  BY <1>18 DEF PollShard
<1>19. ASSUME NEW u \in Users, PollReturns(u)
      PROVE  HandlerShape'
  BY <1>19 DEF PollReturns
<1>20. CASE RLockInformers
  BY <1>20 DEF RLockInformers
<1>21. CASE RegisterSome
  BY <1>21 DEF RegisterSome, RegisterExcept
<1>22. ASSUME NEW h \in Handlers, NEW s \in Shards, Unregister(h, s)
      PROVE  HandlerShape'
  <2>1. /\ upc[h] = "cleanup" /\ s \in visit[h] /\ count[h][s] = 1
        /\ h \notin handlers
    BY <1>22, CleanupFacts DEF Unregister
  <2>2. \A g \in Handlers \ {h} : count'[g] = count[g] /\ visit'[g] = visit[g]
    BY <1>22 DEF Unregister
  <2>3. /\ count'[h][s] = 0 /\ visit'[h] = visit[h] \ {s}
        /\ \A z \in Shards \ {s} : count'[h][z] = count[h][z]
    BY <1>22, <2>1 DEF Unregister
  <2>4. UNCHANGED <<caches, handlers, regs, upc, leaked>>
    BY <1>22 DEF Unregister
  <2>5. ASSUME NEW z \in Shards
        PROVE  /\ z \in visit'[h] => count'[h][z] = 1
               /\ z \notin visit'[h] => count'[h][z] = 0 \/ z \in leaked[h]
    BY <2>1, <2>3
  <2>6. visit'[h] \subseteq caches
    BY <2>1, <2>3
  <2> QED
    BY <2>1, <2>2, <2>4, <2>5, <2>6
<1>23. ASSUME NEW h \in Handlers, NEW s \in Shards, UnregisterFails(h, s)
      PROVE  HandlerShape'
  BY <1>23 DEF UnregisterFails
<1>24. ASSUME NEW h \in Handlers, CleanupReturns(h)
      PROVE  HandlerShape'
  BY <1>24 DEF CleanupReturns
<1>25. ASSUME NEW u \in Users, PollFails(u)
      PROVE  HandlerShape'
  BY <1>25 DEF PollFails
<1> QED
  BY <1>1, <1>2, <1>3, <1>4, <1>5, <1>6, <1>7, <1>8, <1>9, <1>10, <1>11, <1>12, <1>13, <1>14, <1>15, <1>16, <1>17, <1>18, <1>19,
     <1>20, <1>21, <1>22, <1>23, <1>24, <1>25
  DEF Next, WorkerStep, UserStep, Faults

LEMMA TrackedShapeStep == IInv /\ Next => TrackedShape'
<1> SUFFICES ASSUME IInv, Next PROVE TrackedShape'
  OBVIOUS
<1> USE NamesAssumption DEF IInv, TrackedShape, HandlerShape, LockShape, WorkerShape, TypeOK,
      Users, userVars
<1>1. ASSUME NEW s \in Shards, ShardStarts(s)
      PROVE  TrackedShape'
  BY <1>1 DEF ShardStarts
<1>2. ASSUME NEW s \in Shards, ShardSyncs(s)
      PROVE  TrackedShape'
  BY <1>2 DEF ShardSyncs
<1>3. ASSUME NEW s \in Shards, CallAdd(s)
      PROVE  TrackedShape'
  BY <1>3 DEF CallAdd
<1>4. ASSUME NEW s \in Shards, CallRemove(s)
      PROVE  TrackedShape'
  BY <1>4 DEF CallRemove
<1>5. CASE StoreCache
  BY <1>5 DEF StoreCache
<1>6. CASE DeleteCache
  BY <1>6 DEF DeleteCache
<1>7. CASE NoInformer
  BY <1>7 DEF NoInformer
<1>8. CASE NotifyAdded
  BY <1>8 DEF NotifyAdded
<1>9. CASE RegisterAll
  BY <1>9 DEF RegisterAll, RegisterExcept
<1>10. CASE SkipShard
  BY <1>10 DEF SkipShard
<1>11. CASE NotifyRemoved
  BY <1>11 DEF NotifyRemoved
<1>12. ASSUME NEW u \in Users, GetAggregateInformer(u)
      PROVE  TrackedShape'
  BY <1>12 DEF GetAggregateInformer
<1>13. ASSUME NEW u \in Users, RLockCaches(u)
      PROVE  TrackedShape'
  BY <1>13 DEF RLockCaches
<1>14. ASSUME NEW h \in Handlers, LockInformer(h)
      PROVE  TrackedShape'
  BY <1>14 DEF LockInformer
<1>15. ASSUME NEW h \in Handlers, NEW s \in Shards, RegisterOne(h, s)
      PROVE  TrackedShape'
  BY <1>15 DEF RegisterOne
<1>16. ASSUME NEW h \in Handlers, AddHandlerFails(h)
      PROVE  TrackedShape'
  BY <1>16 DEF AddHandlerFails
<1>17. ASSUME NEW h \in Handlers, TrackHandler(h)
      PROVE  TrackedShape'
  BY <1>17 DEF TrackHandler
<1>18. ASSUME NEW u \in Users, NEW s \in Shards, PollShard(u, s)
      PROVE  TrackedShape'
  BY <1>18 DEF PollShard
<1>19. ASSUME NEW u \in Users, PollReturns(u)
      PROVE  TrackedShape'
  BY <1>19 DEF PollReturns
<1>20. CASE RLockInformers
  BY <1>20 DEF RLockInformers
<1>21. CASE RegisterSome
  BY <1>21 DEF RegisterSome, RegisterExcept
<1>22. ASSUME NEW h \in Handlers, NEW s \in Shards, Unregister(h, s)
      PROVE  TrackedShape'
  BY <1>22 DEF Unregister
<1>23. ASSUME NEW h \in Handlers, NEW s \in Shards, UnregisterFails(h, s)
      PROVE  TrackedShape'
  BY <1>23 DEF UnregisterFails
<1>24. ASSUME NEW h \in Handlers, CleanupReturns(h)
      PROVE  TrackedShape'
  BY <1>24 DEF CleanupReturns
<1>25. ASSUME NEW u \in Users, PollFails(u)
      PROVE  TrackedShape'
  BY <1>25 DEF PollFails
<1> QED
  BY <1>1, <1>2, <1>3, <1>4, <1>5, <1>6, <1>7, <1>8, <1>9, <1>10, <1>11, <1>12, <1>13, <1>14, <1>15, <1>16, <1>17, <1>18, <1>19,
     <1>20, <1>21, <1>22, <1>23, <1>24, <1>25
  DEF Next, WorkerStep, UserStep, Faults

-----------------------------------------------------------------------------
(* The theorems.                                                           *)

LEMMA InductiveInvariant == Spec => []IInv
<1>1. IInv /\ [Next]_vars => IInv'
  <2> SUFFICES ASSUME IInv, [Next]_vars PROVE IInv'
    OBVIOUS
  <2>1. CASE Next
    BY <2>1, TypeStep, LockShapeStep, WorkerShapeStep, HandlerShapeStep,
       TrackedShapeStep DEF IInv
  <2>2. CASE UNCHANGED vars
    BY <2>2 DEF vars, userVars, IInv, TypeOK, LockShape, WorkerShape,
       HandlerShape, TrackedShape
  <2> QED
    BY <2>1, <2>2
<1> QED
  BY <1>1, InitInv, PTL DEF Spec

\* Every variable of the aggregate cache keeps its type; in particular no
\* handler is removed from a shard more often than it was added to it.
THEOREM AggregateTypeCorrect == Spec => []TypeOK
<1>1. IInv => TypeOK
  BY DEF IInv
<1> QED
  BY <1>1, InductiveInvariant, PTL

\* When the worker is idle and onCacheAdded left nothing out, every tracked handler is
\* registered with every current shard (aggregate_informer.go:31-32), in
\* whatever order handlers and shards were added.
THEOREM HandlersGetAllShards == Spec => []AllShardsRegistered
<1>1. IInv => AllShardsRegistered
  BY DEF IInv, TrackedShape, AllShardsRegistered
<1> QED
  BY <1>1, InductiveInvariant, PTL

\* When the worker is idle, tracked handlers have registrations of current
\* shards only (aggregate.go:73-84).
THEOREM RegistrationsEndWithShards == Spec => []NoStaleRegistration
<1>1. IInv => NoStaleRegistration
  BY DEF IInv, TrackedShape, NoStaleRegistration
<1> QED
  BY <1>1, InductiveInvariant, PTL

\* The handler of a failed AddEventHandler is not tracked and is registered
\* with a current shard only where its removal failed
\* (aggregate_informer.go:87-99, 113-121).
THEOREM FailuresAreCleanedUp == Spec => []FailedHandlerUnregistered
<1>1. IInv => FailedHandlerUnregistered
  BY DEF IInv, TypeOK, HandlerShape, FailedHandlerUnregistered
<1> QED
  BY <1>1, InductiveInvariant, PTL
=============================================================================
