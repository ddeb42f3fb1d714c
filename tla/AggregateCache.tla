---------------------------- MODULE AggregateCache ----------------------------
(***************************************************************************)
(* The view across shards (pkg/cache/aggregate.go, aggregate_informer.go): *)
(* the endpoint worker registers and unregisters the cache of a shard      *)
(* while users add event handlers to the aggregate informer of one object  *)
(* type or ask whether it has synced.  Every lock is modelled:             *)
(* AggregateCache.lock, informersLock and the informer's lock; Go's        *)
(* RWMutex lets no new reader in while a writer waits.                     *)
(***************************************************************************)
EXTENDS Integers, FiniteSets

CONSTANTS
  Shards,      \* ids of caches (endpoint URLs)
  Handlers,    \* users, each adding one event handler
  Pollers,     \* users calling HasSynced
  Worker,      \* the endpoint worker
  None,        \* nobody, or no shard
  Unsynced,    \* whether an endpoint may disappear before it has synced
  MaxOps,      \* bound: AddCache and RemoveCache calls
  MaxFaults,   \* bound: calls of AddEventHandler that fail
  MaxSkips     \* bound: calls of onCacheAdded that left a handler out

ASSUME BoundsAssumption == {MaxOps, MaxFaults, MaxSkips} \subseteq Nat
ASSUME UnsyncedAssumption == Unsynced \in BOOLEAN
ASSUME NamesAssumption ==
  Worker # None /\ {Worker, None} \intersect (Handlers \union Pollers) = {}

VARIABLES
  caches,     \* AggregateCache.caches: ids registered
  running,    \* shards whose wildcard cache has been started
  synced,     \* shards whose informer has synced
  informer,   \* AggregateCache.informers has the informer of the type
  readers,    \* holders of AggregateCache.lock for reading
  ilock,      \* holder of the informer's lock
  handlers,   \* the informer's handler entries
  regs,       \* handlerEntry.registrations: the ids of a handler's entry
  count,      \* how often a handler is registered with a shard's informer
  wpc,        \* where the worker is
  wshard,     \* the shard the worker adds or removes
  upc,        \* where every user is
  visit,      \* shards the user's loop has still to visit
  leaked,     \* shards where the clean-up of a handler failed
  ops, faults, skips

userVars == <<upc, visit, leaked>>
vars == <<caches, running, synced, informer, readers, ilock, handlers, regs, count, wpc,
          wshard, userVars, ops, faults, skips>>

Users == Handlers \union Pollers

Init ==
  /\ caches = {} /\ running = {} /\ synced = {} /\ informer = FALSE
  /\ readers = {} /\ ilock = None
  /\ handlers = {}
  /\ regs = [h \in Handlers |-> {}]
  /\ count = [h \in Handlers |-> [s \in Shards |-> 0]]
  /\ wpc = "idle" /\ wshard = None
  /\ upc = [u \in Users |-> "idle"]
  /\ visit = [u \in Users |-> {}]
  /\ leaked = [h \in Handlers |-> {}]
  /\ ops = 0 /\ faults = 0 /\ skips = 0

\* The goroutine of watchedEndpoint.start starts the shard's cache, which may
\* be after AddCache.
ShardStarts(s) ==
  /\ s \in caches /\ s \notin running
  /\ running' = running \union {s}
  /\ UNCHANGED <<caches, synced, informer, readers, ilock, handlers, regs, count,
                 wpc, wshard, userVars, ops, faults, skips>>

\* GetSharedInformer (wildcard.go:134-179) waits, with a context that is never
\* done, until the informer of a started cache has synced.
InformerReturned(s) == s \in synced \/ s \notin running

\* The worker has cancelled the shard's watcher and with it its cache.
Cancelled(s) == wpc \in {"removeLock", "removeNotify", "removed"} /\ wshard = s

\* The informer of a shard in use syncs; that of a cancelled shard
\* never does.
ShardSyncs(s) ==
  /\ s \in running /\ s \notin synced
  /\ ~Cancelled(s)
  /\ synced' = synced \union {s}
  /\ UNCHANGED <<caches, running, informer, readers, ilock, handlers, regs, count, wpc,
                 wshard, userVars, ops, faults, skips>>

-----------------------------------------------------------------------------
(* Faulty variants of actions below.  No specification uses them: each is  *)
(* a plausible mistake that one of the properties has to detect.           *)

\* The early return keeps the informer's lock.
SkipShardLocked ==
  /\ wpc = "register" /\ skips < MaxSkips
  /\ skips' = skips + 1
  /\ wpc' = "idle" /\ wshard' = None
  /\ UNCHANGED <<caches, running, synced, informer, readers, ilock, handlers,
                 regs, count, userVars, ops, faults>>

\* The entries of a removed shard stay.
NotifyRemovedForgotten ==
  /\ wpc = "removed" /\ ilock = None
  /\ wpc' = "idle" /\ wshard' = None
  /\ UNCHANGED <<caches, running, synced, informer, readers, ilock, handlers,
                 regs, count, userVars, ops, faults, skips>>

\* The shards are copied and the lock released before they are visited.
RLockCachesCopy(u) ==
  /\ upc[u] = "rlock"
  /\ wpc \notin {"addLock", "removeLock"}
  /\ visit' = [visit EXCEPT ![u] = caches]
  /\ upc' = [upc EXCEPT ![u] = IF u \in Handlers THEN "lock" ELSE "poll"]
  /\ UNCHANGED <<caches, running, synced, informer, readers, ilock, handlers,
                 regs, count, wpc, wshard, leaked, ops, faults, skips>>

\* What a failed AddEventHandler does, with the shards it cleans up left to
\* choose.
FailWith(h, cleaned) ==
  /\ upc[h] = "loop" /\ visit[h] # {}
  /\ faults < MaxFaults
  /\ faults' = faults + 1
  /\ visit' = [visit EXCEPT ![h] = cleaned]
  /\ upc' = [upc EXCEPT ![h] = "cleanup"]
  /\ UNCHANGED <<caches, running, synced, informer, readers, ilock, handlers,
                 regs, count, wpc, wshard, leaked, ops, skips>>

\* All shards are cleaned up, registered or not.
AddHandlerFailsAll(h) == FailWith(h, caches)

\* Nothing is cleaned up.
AddHandlerFailsNone(h) == FailWith(h, {})

\* The read lock of the caches is kept.
TrackHandlerLocked(h) ==
  /\ upc[h] = "loop" /\ visit[h] = {}
  /\ handlers' = handlers \union {h}
  /\ ilock' = None
  /\ upc' = [upc EXCEPT ![h] = "done"]
  /\ UNCHANGED <<caches, running, synced, informer, readers, regs, count, wpc,
                 wshard, visit, leaked, ops, faults, skips>>

-----------------------------------------------------------------------------
(* The worker: AddCache and RemoveCache.                                   *)

\* AddCache, called with a new cache for the shard, waits for the lock.
CallAdd(s) ==
  /\ wpc = "idle" /\ s \notin caches /\ ops < MaxOps
  /\ ops' = ops + 1
  /\ wshard' = s /\ wpc' = "addLock"
  /\ UNCHANGED <<caches, running, synced, informer, readers, ilock, handlers, regs,
                 count, userVars, faults, skips>>

\* we.cancel() and then RemoveCache, which waits for the lock.
CallRemove(s) ==
  /\ wpc = "idle" /\ s \in caches /\ ops < MaxOps
  /\ Unsynced \/ s \in synced
  /\ ops' = ops + 1
  /\ wshard' = s /\ wpc' = "removeLock"
  /\ UNCHANGED <<caches, running, synced, informer, readers, ilock, handlers, regs,
                 count, userVars, faults, skips>>

\* caches[id] = c under the lock; the new cache has its own informers, on
\* which nothing is registered yet.
StoreCache ==
  /\ wpc = "addLock" /\ readers = {}
  /\ caches' = caches \union {wshard}
  /\ running' = running \ {wshard}
  /\ synced' = synced \ {wshard}
  /\ count' = [h \in Handlers |-> [count[h] EXCEPT ![wshard] = 0]]
  /\ wpc' = "addNotify"
  /\ UNCHANGED <<informer, readers, ilock, handlers, regs, wshard, userVars,
                 ops, faults, skips>>

\* delete(caches, id) under the lock.
DeleteCache ==
  /\ wpc = "removeLock" /\ readers = {}
  /\ caches' = caches \ {wshard}
  /\ wpc' = "removeNotify"
  /\ UNCHANGED <<running, synced, informer, readers, ilock, handlers, regs, count,
                 wshard, userVars, ops, faults, skips>>

\* Nobody asked for an aggregate informer: nothing to notify.
NoInformer ==
  /\ wpc \in {"addNotify", "removeNotify"} /\ ~informer
  /\ wpc' = "idle" /\ wshard' = None
  /\ UNCHANGED <<caches, running, synced, informer, readers, ilock, handlers, regs,
                 count, userVars, ops, faults, skips>>

\* informersLock.RLock(), held until the informers are notified.
RLockInformers ==
  /\ wpc \in {"addNotify", "removeNotify"} /\ informer
  /\ wpc' = IF wpc = "addNotify" THEN "added" ELSE "removed"
  /\ UNCHANGED <<caches, running, synced, informer, readers, ilock, handlers, regs,
                 count, wshard, userVars, ops, faults, skips>>

\* onCacheAdded takes the informer's lock and asks the cache for the shared
\* informer.
NotifyAdded ==
  /\ wpc = "added" /\ ilock = None
  /\ ilock' = Worker
  /\ wpc' = "register"
  /\ UNCHANGED <<caches, running, synced, informer, readers, handlers, regs, count,
                 wshard, userVars, ops, faults, skips>>

\* GetSharedInformer returns once the shard's informer has synced; the
\* handlers known by now are registered, except those with which
\* AddEventHandlerWithResyncPeriod fails: "continue".
RegisterExcept(failed) ==
  /\ wpc = "register" /\ InformerReturned(wshard)
  /\ count' = [h \in Handlers |-> IF h \in handlers \ failed
                 THEN [count[h] EXCEPT ![wshard] = @ + 1] ELSE count[h]]
  /\ regs' = [h \in Handlers |-> IF h \in handlers \ failed
                THEN regs[h] \union {wshard} ELSE regs[h]]
  /\ ilock' = None
  /\ wpc' = "idle" /\ wshard' = None
  /\ UNCHANGED <<caches, running, synced, informer, readers, handlers, userVars,
                 ops, faults>>

RegisterAll == RegisterExcept({}) /\ UNCHANGED skips

RegisterSome ==
  /\ skips < MaxSkips
  /\ skips' = skips + 1
  /\ \E failed \in SUBSET handlers \ {{}} : RegisterExcept(failed)

\* GetSharedInformer fails: "skip silently".
SkipShard ==
  /\ wpc = "register" /\ skips < MaxSkips
  /\ skips' = skips + 1
  /\ ilock' = None
  /\ wpc' = "idle" /\ wshard' = None
  /\ UNCHANGED <<caches, running, synced, informer, readers, handlers, regs, count,
                 userVars, ops, faults>>

\* onCacheRemoved forgets the registrations, under the informer's lock.
NotifyRemoved ==
  /\ wpc = "removed" /\ ilock = None
  /\ regs' = [h \in Handlers |-> IF h \in handlers
                THEN regs[h] \ {wshard} ELSE regs[h]]
  /\ wpc' = "idle" /\ wshard' = None
  /\ UNCHANGED <<caches, running, synced, informer, readers, ilock, handlers, count,
                 userVars, ops, faults, skips>>

-----------------------------------------------------------------------------
(* Users.                                                                  *)

\* GetAggregateInformer needs informersLock for writing, which the worker
\* holds for reading while it waits for an informer's lock and notifies it.
GetAggregateInformer(u) ==
  /\ upc[u] = "idle"
  /\ wpc \notin {"added", "removed", "register"}
  /\ informer' = TRUE
  /\ upc' = [upc EXCEPT ![u] = "rlock"]
  /\ UNCHANGED <<caches, running, synced, readers, ilock, handlers, regs, count, wpc,
                 wshard, visit, leaked, ops, faults, skips>>

\* a.cache.lock.RLock(): refused while the worker holds or waits for it.
RLockCaches(u) ==
  /\ upc[u] = "rlock"
  /\ wpc \notin {"addLock", "removeLock"}
  /\ readers' = readers \union {u}
  /\ visit' = [visit EXCEPT ![u] = caches]
  /\ upc' = [upc EXCEPT ![u] = IF u \in Handlers THEN "lock" ELSE "poll"]
  /\ UNCHANGED <<caches, running, synced, informer, ilock, handlers, regs, count, wpc,
                 wshard, leaked, ops, faults, skips>>

\* AddEventHandler takes the informer's lock.
LockInformer(h) ==
  /\ upc[h] = "lock" /\ ilock = None
  /\ ilock' = h
  /\ upc' = [upc EXCEPT ![h] = "loop"]
  /\ UNCHANGED <<caches, running, synced, informer, readers, handlers, regs, count, wpc,
                 wshard, visit, leaked, ops, faults, skips>>

\* GetSharedInformer returns when the shard has synced; the handler is
\* registered with its informer.
RegisterOne(h, s) ==
  /\ upc[h] = "loop" /\ s \in visit[h] /\ InformerReturned(s)
  /\ count' = [count EXCEPT ![h][s] = @ + 1]
  /\ regs' = [regs EXCEPT ![h] = @ \union {s}]
  /\ visit' = [visit EXCEPT ![h] = @ \ {s}]
  /\ UNCHANGED <<caches, running, synced, informer, readers, ilock, handlers, wpc,
                 wshard, upc, leaked, ops, faults, skips>>

\* GetSharedInformer or the registration fails for one shard:
\* cleanupRegistrations visits the others, under both locks.
AddHandlerFails(h) ==
  /\ upc[h] = "loop" /\ visit[h] # {}
  /\ faults < MaxFaults
  /\ faults' = faults + 1
  /\ visit' = [visit EXCEPT ![h] = regs[h] \intersect caches]
  /\ upc' = [upc EXCEPT ![h] = "cleanup"]
  /\ UNCHANGED <<caches, running, synced, informer, readers, ilock, handlers, regs,
                 count, wpc, wshard, leaked, ops, skips>>

\* The clean-up waits for the shard to sync as the loop did.
Unregister(h, s) ==
  /\ upc[h] = "cleanup" /\ s \in visit[h] /\ InformerReturned(s)
  /\ count' = [count EXCEPT ![h][s] = @ - 1]
  /\ visit' = [visit EXCEPT ![h] = @ \ {s}]
  /\ UNCHANGED <<caches, running, synced, informer, readers, ilock, handlers, regs,
                 wpc, wshard, upc, leaked, ops, faults, skips>>

\* GetSharedInformer or RemoveEventHandler fails; the error is ignored.
UnregisterFails(h, s) ==
  /\ upc[h] = "cleanup" /\ s \in visit[h]
  /\ leaked' = [leaked EXCEPT ![h] = @ \union {s}]
  /\ visit' = [visit EXCEPT ![h] = @ \ {s}]
  /\ UNCHANGED <<caches, running, synced, informer, readers, ilock, handlers, regs,
                 count, wpc, wshard, upc, ops, faults, skips>>

\* The entry is dropped, the error returned and both locks are released.
CleanupReturns(h) ==
  /\ upc[h] = "cleanup" /\ visit[h] = {}
  /\ regs' = [regs EXCEPT ![h] = {}]
  /\ ilock' = None
  /\ readers' = readers \ {h}
  /\ upc' = [upc EXCEPT ![h] = "failed"]
  /\ UNCHANGED <<caches, running, synced, informer, handlers, count, wpc, wshard,
                 visit, leaked, ops, faults, skips>>

\* The entry is appended and both locks are released.
TrackHandler(h) ==
  /\ upc[h] = "loop" /\ visit[h] = {}
  /\ handlers' = handlers \union {h}
  /\ ilock' = None
  /\ readers' = readers \ {h}
  /\ upc' = [upc EXCEPT ![h] = "done"]
  /\ UNCHANGED <<caches, running, synced, informer, regs, count, wpc, wshard, visit, leaked, ops,
                 faults, skips>>

\* HasSynced visits the shards under the read lock; getting the informer of
\* a started cache that has not synced blocks there.
PollShard(u, s) ==
  /\ upc[u] = "poll" /\ s \in visit[u] /\ s \in synced
  /\ visit' = [visit EXCEPT ![u] = @ \ {s}]
  /\ UNCHANGED <<caches, running, synced, informer, readers, ilock, handlers, regs,
                 count, wpc, wshard, upc, leaked, ops, faults, skips>>

\* All shards have synced, or one has not even started: HasSynced returns.
PollReturns(u) ==
  /\ upc[u] = "poll"
  /\ visit[u] = {} \/ \E s \in visit[u] : s \notin running
  /\ readers' = readers \ {u}
  /\ visit' = [visit EXCEPT ![u] = {}]
  /\ upc' = [upc EXCEPT ![u] = "done"]
  /\ UNCHANGED <<caches, running, synced, informer, ilock, handlers, regs, count, wpc,
                 wshard, leaked, ops, faults, skips>>

\* The informer of a shard cannot be had: HasSynced returns.
PollFails(u) ==
  /\ upc[u] = "poll" /\ visit[u] # {}
  /\ readers' = readers \ {u}
  /\ visit' = [visit EXCEPT ![u] = {}]
  /\ upc' = [upc EXCEPT ![u] = "done"]
  /\ UNCHANGED <<caches, running, synced, informer, ilock, handlers, regs, count, wpc,
                 wshard, leaked, ops, faults, skips>>

-----------------------------------------------------------------------------
WorkerStep ==
  \/ StoreCache \/ DeleteCache \/ NoInformer \/ RLockInformers
  \/ NotifyAdded \/ RegisterAll \/ NotifyRemoved

UserStep(u) ==
  \/ RLockCaches(u)
  \/ u \in Handlers /\ (\/ LockInformer(u) \/ TrackHandler(u) \/ CleanupReturns(u)
                        \/ \E s \in Shards : RegisterOne(u, s) \/ Unregister(u, s))
  \/ (\E s \in Shards : PollShard(u, s)) \/ PollReturns(u)

Faults ==
  \/ SkipShard \/ RegisterSome
  \/ \E h \in Handlers :
       AddHandlerFails(h) \/ \E s \in Shards : UnregisterFails(h, s)
  \/ \E u \in Users : PollFails(u)

Next ==
  \/ \E s \in Shards : ShardStarts(s) \/ ShardSyncs(s) \/ CallAdd(s) \/ CallRemove(s)
  \/ WorkerStep
  \/ \E u \in Users : GetAggregateInformer(u) \/ UserStep(u)
  \/ Faults

Spec == Init /\ [][Next]_vars

\* Goroutines run, caches start, and the shards in use sync.  No failure is
\* fair: nobody counts on one to get out of a wait.
FairSpec ==
  /\ Spec
  /\ WF_vars(WorkerStep)
  /\ \A u \in Users : WF_vars(UserStep(u))
  /\ \A s \in Shards : WF_vars(ShardStarts(s)) /\ WF_vars(ShardSyncs(s))

-----------------------------------------------------------------------------
(* Properties.                                                             *)

\* Every variable has its type.
TypeOK ==
  /\ caches \subseteq Shards /\ running \subseteq Shards /\ synced \subseteq Shards
  /\ informer \in BOOLEAN
  /\ readers \subseteq Users
  /\ ilock \in Handlers \union {Worker, None}
  /\ handlers \subseteq Handlers
  /\ regs \in [Handlers -> SUBSET Shards]
  /\ count \in [Handlers -> [Shards -> Nat]]
  /\ wpc \in {"idle", "addLock", "removeLock", "addNotify", "removeNotify",
              "added", "removed", "register"}
  /\ wshard \in Shards \union {None}
  /\ upc \in [Users -> {"idle", "rlock", "lock", "loop", "cleanup", "poll",
                        "failed", "done"}]
  /\ visit \in [Users -> SUBSET Shards]
  /\ leaked \in [Handlers -> SUBSET Shards]

\* A handler "receives events from all current and future shards"
\* (aggregate_informer.go:31-32): whenever the worker has finished a call,
\* every tracked handler is registered with every current shard, in whatever
\* order AddEventHandler, AddCache and RemoveCache interleaved, unless
\* onCacheAdded could not get the informer of a shard or add a handler to it
\* (aggregate_informer.go:128-138), which it does not report.
AllShardsRegistered ==
  wpc = "idle" /\ skips = 0 =>
    \A h \in handlers : \A s \in caches : s \in regs[h] /\ count[h][s] > 0

\* Registrations do not outlive their shard (aggregate.go:73-84): a tracked
\* handler has entries for current shards only, so that HasSynced of a
\* registration never waits for a removed shard.
NoStaleRegistration ==
  wpc = "idle" => \A h \in handlers : regs[h] \subseteq caches

\* A failed AddEventHandler leaves no more behind than the errors that
\* cleanupRegistrations ignores (aggregate_informer.go:87-99, 113-121): its
\* handler is not tracked, so that no later shard gets it, and it is registered
\* with a current shard only if removing it there failed.  The registrations
\* that stay are those: no caller has a handle on them.
FailedHandlerUnregistered ==
  \A h \in Handlers : upc[h] = "failed" =>
    h \notin handlers /\ \A s \in caches : count[h][s] > 0 => s \in leaked[h]

\* AddCache and RemoveCache return (aggregate.go:59-84): the endpoint worker
\* is not held up for ever by the users' locks, so that handlers "will
\* automatically be registered with new shards as they are added"
\* (provider.go:217-222).
WorkerReturns == wpc # "idle" ~> wpc = "idle"

\* AddEventHandler and HasSynced return (aggregate.go:89-105,
\* aggregate_informer.go:75-174), in whatever order the three locks are taken.
UsersReturn == \A u \in Users : upc[u] = "rlock" ~> upc[u] \in {"done", "failed"}
=============================================================================
