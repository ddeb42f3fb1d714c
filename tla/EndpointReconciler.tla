------------------------- MODULE EndpointReconciler -------------------------
(***************************************************************************)
(* The reconciliation of watched endpoints (pkg/provider/provider.go):     *)
(* Provider.Start wires informer events of one endpoint slice into a       *)
(* rate-limited work queue, and one worker goroutine                       *)
(* (processNextEndpointSlice) starts a watcher for every URL the slice     *)
(* lists and stops the watchers of the URLs it no longer lists.            *)
(*                                                                         *)
(* What the watchers do with the objects behind their endpoint is the      *)
(* subject of ClusterEngagement; here a watcher is an identity whose       *)
(* context is live or cancelled.                                           *)
(***************************************************************************)
EXTENDS Integers, Sequences, FiniteSets

CONSTANTS
  URLs,        \* virtual workspace URLs an endpoint slice can list
  UrlLists,    \* contents of a well-formed slice: sequences of URLs
  NoSlice,     \* the slice object does not exist (Get returns NotFound)
  Malformed,   \* the slice exists, ExtractURLsFromEndpointSlice fails on it
  NoURL,       \* no watcher is being stopped
  MaxChanges,  \* bound: how often the slice object changes
  MaxFaults    \* bound: how many Get and watchEndpointFunc calls fail

ASSUME UrlListsAssumption == UrlLists \subseteq Seq(URLs)
ASSUME SliceMarksAssumption ==
  /\ NoSlice \notin UrlLists
  /\ Malformed \notin UrlLists
  /\ NoSlice # Malformed
ASSUME NoURLAssumption == NoURL \notin URLs
ASSUME BoundsAssumption == MaxChanges \in Nat /\ MaxFaults \in Nat

VARIABLES
  slice,      \* the slice in the informer's store: what cache.Get reads
  events,     \* notifications of the event handler not yet delivered
  main,       \* where Provider.Start is
  ctxDone,    \* Start's context is cancelled
  dirty,      \* queue: the key is in the dirty set
  delayed,    \* queue: an AddRateLimited timer is pending
  backedOff,  \* queue: the rate limiter remembers failures of the key
  shutdown,   \* queue: ShutDown was called
  pc,         \* where the worker goroutine is
  snap,       \* worker: the object it read
  idx,        \* worker: loop index into the URLs of snap
  errs,       \* worker: some endpoint or the read failed in this pass
  left,       \* worker: watched URLs still to be stopped in this pass
  victim,     \* worker: the URL whose watcher was just cancelled
  watched,    \* p.watchedEndpoints: the watcher of a URL, 0 for none
  caches,     \* p.aggregateCache: the watcher whose cache is registered
  live,       \* watchers whose context is not cancelled
  nextId,     \* identity of the next watcher
  changes,    \* changes of the slice so far
  faults      \* failures so far

envVars    == <<slice, events, changes>>
mainVars   == <<main, ctxDone>>
queueVars  == <<dirty, delayed, backedOff, shutdown>>
passVars   == <<snap, idx, errs, left, victim>>
fleetVars  == <<watched, caches, live, nextId>>
vars == <<envVars, mainVars, queueVars, pc, passVars, fleetVars, faults>>

Slices == UrlLists \union {NoSlice, Malformed}

\* The URLs in a slice's list (duplicates collapse).
Listed(s) == {s[i] : i \in DOMAIN s}

\* slices.Contains(urls, u) for the object the worker holds; a deleted
\* slice lists nothing.
Wants(s, u) == s \in UrlLists /\ u \in Listed(s)

WatchedURLs == {u \in URLs : watched[u] # 0}

Processing == pc \notin {"off", "wait", "exited"}

-----------------------------------------------------------------------------
(* Faulty variants of actions below.  No specification uses them: each is  *)
(* a plausible mistake that one of the properties has to detect.           *)

\* The loop starts one too low.
ReadSliceFromZero ==
  /\ pc = "read" /\ slice \in UrlLists
  /\ snap' = slice
  /\ idx' = 0
  /\ errs' = FALSE
  /\ pc' = "start"
  /\ UNCHANGED <<envVars, mainVars, queueVars, left, victim, fleetVars, faults>>

\* The error is logged and the key forgotten: no retry.
FinishKeyNoRetry ==
  /\ pc = "finish"
  /\ backedOff' = FALSE
  /\ pc' = "done"
  /\ UNCHANGED <<envVars, mainVars, dirty, delayed, shutdown, passVars,
                 fleetVars, faults>>

\* A failed start leaves its context behind.
WatchFailsNoCancel ==
  /\ pc = "starting"
  /\ faults < MaxFaults
  /\ faults' = faults + 1
  /\ errs' = TRUE
  /\ idx' = idx + 1
  /\ pc' = "start"
  /\ UNCHANGED <<envVars, mainVars, queueVars, snap, left, victim, fleetVars>>

\* The URL is forgotten and its cache stays registered.
DropCacheOnlyDeletes ==
  /\ pc = "drop"
  /\ watched' = [watched EXCEPT ![victim] = 0]
  /\ victim' = NoURL
  /\ pc' = "stop"
  /\ UNCHANGED <<envVars, mainVars, queueVars, snap, idx, errs, left, caches,
                 live, nextId, faults>>

\* URLs after the first failure are taken for unlisted.
BeginPruneAfterError ==
  /\ pc = "start" /\ idx > Len(snap)
  /\ left' = {u \in WatchedURLs : errs \/ ~Wants(snap, u)}
  /\ pc' = "stop"
  /\ UNCHANGED <<envVars, mainVars, queueVars, snap, idx, errs, victim,
                 fleetVars, faults>>

\* Done forgets that the key got dirty during the pass.
DoneKeyDropsDirty ==
  /\ pc = "done"
  /\ dirty' = FALSE
  /\ pc' = "wait"
  /\ UNCHANGED <<envVars, mainVars, delayed, backedOff, shutdown, passVars,
                 fleetVars, faults>>

\* The watcher's context is not derived from the provider's.
BeginWatchDetached ==
  /\ pc = "start" /\ idx <= Len(snap)
  /\ watched[snap[idx]] = 0
  /\ live' = live \union {nextId}
  /\ nextId' = nextId + 1
  /\ pc' = "starting"
  /\ UNCHANGED <<envVars, mainVars, queueVars, passVars, watched, caches,
                 faults>>

-----------------------------------------------------------------------------
Init ==
  /\ slice \in Slices
  /\ events = 0 /\ changes = 0 /\ faults = 0
  /\ main = "new" /\ ctxDone = FALSE
  /\ dirty = FALSE /\ delayed = FALSE /\ backedOff = FALSE /\ shutdown = FALSE
  /\ pc = "off"
  /\ snap = NoSlice /\ idx = 1 /\ errs = FALSE /\ left = {} /\ victim = NoURL
  /\ watched = [u \in URLs |-> 0]
  /\ caches = [u \in URLs |-> 0]
  /\ live = {}
  /\ nextId = 1

-----------------------------------------------------------------------------
(* The endpoint slice and its informer.                                    *)

\* The informer's store takes a new version of the slice; a registered
\* handler gets a notification later, on the handler's own goroutine.
ChangeSlice(s) ==
  /\ changes < MaxChanges
  /\ s # slice
  /\ slice' = s
  /\ changes' = changes + 1
  /\ events' = IF main = "running" THEN events + 1 ELSE events
  /\ UNCHANGED <<mainVars, queueVars, pc, passVars, fleetVars, faults>>

\* AddFunc, UpdateFunc and DeleteFunc all enqueue the slice's key.  Left out: a
\* deletion that comes as a DeletedFinalStateUnknown, for which DeleteFunc's
\* assertion to client.Object panics and ends the program (provider.go:273).
Enqueue ==
  /\ events > 0
  /\ events' = events - 1
  /\ dirty' = (dirty \/ ~shutdown)
  /\ UNCHANGED <<slice, changes, mainVars, delayed, backedOff, shutdown, pc,
                 passVars, fleetVars, faults>>

\* The delay of AddRateLimited has passed; the queue adds the key.
DelayPasses ==
  /\ delayed /\ ~shutdown
  /\ delayed' = FALSE
  /\ dirty' = TRUE
  /\ UNCHANGED <<envVars, mainVars, backedOff, shutdown, pc, passVars,
                 fleetVars, faults>>

-----------------------------------------------------------------------------
(* Provider.Start.                                                         *)

\* Registering the handler replays an existing slice; the two goroutines
\* are spawned and Start blocks in p.cache.Start.
StartProvider ==
  /\ main = "new"
  /\ main' = "running"
  /\ pc' = "wait"
  /\ events' = IF slice = NoSlice THEN 0 ELSE 1
  /\ UNCHANGED <<slice, changes, ctxDone, queueVars, passVars, fleetVars,
                 faults>>

\* GetInformer fails (before the deferred ShutDown exists) or
\* AddEventHandler fails (after).
StartReturnsEarly ==
  /\ main = "new"
  /\ main' = "returned"
  /\ ctxDone' = TRUE
  /\ shutdown' \in BOOLEAN
  /\ UNCHANGED <<envVars, dirty, delayed, backedOff, pc, passVars, fleetVars,
                 faults>>

\* The caller's context is cancelled, and with it every watcher's.
CancelContext ==
  /\ ~ctxDone
  /\ ctxDone' = TRUE
  /\ live' = {}
  /\ UNCHANGED <<envVars, main, queueVars, pc, passVars, watched, caches,
                 nextId, faults>>

\* go func() { <-ctx.Done(); p.queue.ShutDown() }()
QueueShutDown ==
  /\ ctxDone /\ pc # "off" /\ ~shutdown
  /\ shutdown' = TRUE
  /\ UNCHANGED <<envVars, mainVars, dirty, delayed, backedOff, pc, passVars,
                 fleetVars, faults>>

\* p.cache.Start returns: its context was cancelled, or it failed by itself;
\* the deferred RemoveEventHandler drops what was not delivered.
CacheStartReturns ==
  /\ main = "running"
  /\ main' = "unregistered"
  /\ events' = 0
  /\ UNCHANGED <<slice, changes, ctxDone, queueVars, pc, passVars, fleetVars,
                 faults>>

\* defer p.queue.ShutDown()
DeferredShutDown ==
  /\ main = "unregistered"
  /\ main' = "queueDown"
  /\ shutdown' = TRUE
  /\ UNCHANGED <<envVars, ctxDone, dirty, delayed, backedOff, pc, passVars,
                 fleetVars, faults>>

\* defer cancel()
DeferredCancel ==
  /\ main = "queueDown"
  /\ main' = "returned"
  /\ ctxDone' = TRUE
  /\ live' = {}
  /\ UNCHANGED <<envVars, queueVars, pc, passVars, watched, caches, nextId,
                 faults>>

-----------------------------------------------------------------------------
(* The worker: for p.processNextEndpointSlice(ctx, aware) {}.              *)

\* key, shutdown := p.queue.Get() returns the key.
GetKey ==
  /\ pc = "wait" /\ dirty
  /\ dirty' = FALSE
  /\ pc' = "read"
  /\ UNCHANGED <<envVars, mainVars, delayed, backedOff, shutdown, passVars,
                 fleetVars, faults>>

\* p.queue.Get() reports shutdown once the queue is empty.
WorkerExits ==
  /\ pc = "wait" /\ ~dirty /\ shutdown
  /\ pc' = "exited"
  /\ UNCHANGED <<envVars, mainVars, queueVars, passVars, fleetVars, faults>>

\* p.cache.Get fails with an error other than NotFound.
ReadFails ==
  /\ pc = "read"
  /\ faults < MaxFaults
  /\ faults' = faults + 1
  /\ errs' = TRUE
  /\ pc' = "finish"
  /\ UNCHANGED <<envVars, mainVars, queueVars, snap, idx, left, victim,
                 fleetVars>>

\* p.cache.Get says NotFound: stopAllWatchedEndpoints.
ReadNotFound ==
  /\ pc = "read" /\ slice = NoSlice
  /\ snap' = NoSlice
  /\ errs' = FALSE
  /\ left' = WatchedURLs
  /\ pc' = "stop"
  /\ UNCHANGED <<envVars, mainVars, queueVars, idx, victim, fleetVars, faults>>

\* endpointSliceUpdate returns before it touches a watcher.
ReadMalformed ==
  /\ pc = "read" /\ slice = Malformed
  /\ snap' = Malformed
  /\ errs' = TRUE
  /\ pc' = "finish"
  /\ UNCHANGED <<envVars, mainVars, queueVars, idx, left, victim, fleetVars,
                 faults>>

\* endpointSliceUpdate enters its first loop with the URLs of its copy.
ReadSlice ==
  /\ pc = "read" /\ slice \in UrlLists
  /\ snap' = slice
  /\ idx' = 1
  /\ errs' = FALSE
  /\ pc' = "start"
  /\ UNCHANGED <<envVars, mainVars, queueVars, left, victim, fleetVars, faults>>

\* if _, ok := p.watchedEndpoints[url]; ok { continue }
SkipWatched ==
  /\ pc = "start" /\ idx <= Len(snap)
  /\ watched[snap[idx]] # 0
  /\ idx' = idx + 1
  /\ UNCHANGED <<envVars, mainVars, queueVars, pc, snap, errs, left, victim,
                 fleetVars, faults>>

\* watchEndpointFunc derives the watcher's context; under a cancelled parent
\* it is cancelled from the start.
BeginWatch ==
  /\ pc = "start" /\ idx <= Len(snap)
  /\ watched[snap[idx]] = 0
  /\ live' = IF ctxDone THEN live ELSE live \union {nextId}
  /\ nextId' = nextId + 1
  /\ pc' = "starting"
  /\ UNCHANGED <<envVars, mainVars, queueVars, passVars, watched, caches,
                 faults>>

\* NewWildcardCache or start fails: the watcher is cancelled, the error is
\* collected, and the loop goes on with the next URL.
WatchFails ==
  /\ pc = "starting"
  /\ faults < MaxFaults
  /\ faults' = faults + 1
  /\ live' = live \ {nextId - 1}
  /\ errs' = TRUE
  /\ idx' = idx + 1
  /\ pc' = "start"
  /\ UNCHANGED <<envVars, mainVars, queueVars, snap, left, victim, watched,
                 caches, nextId>>

\* p.watchedEndpoints[url] = we; p.aggregateCache.AddCache(url, ...)
WatchSucceeds ==
  /\ pc = "starting"
  /\ watched' = [watched EXCEPT ![snap[idx]] = nextId - 1]
  /\ caches' = [caches EXCEPT ![snap[idx]] = nextId - 1]
  /\ idx' = idx + 1
  /\ pc' = "start"
  /\ UNCHANGED <<envVars, mainVars, queueVars, snap, errs, left, victim, live,
                 nextId, faults>>

\* The second loop visits the watched URLs the slice no longer lists.
BeginPrune ==
  /\ pc = "start" /\ idx > Len(snap)
  /\ left' = {u \in WatchedURLs : ~Wants(snap, u)}
  /\ pc' = "stop"
  /\ UNCHANGED <<envVars, mainVars, queueVars, snap, idx, errs, victim,
                 fleetVars, faults>>

\* we.cancel(), in either stopping loop (map iteration order is arbitrary).
CancelWatcher(u) ==
  /\ pc = "stop" /\ u \in left
  /\ live' = live \ {watched[u]}
  /\ left' = left \ {u}
  /\ victim' = u
  /\ pc' = "drop"
  /\ UNCHANGED <<envVars, mainVars, queueVars, snap, idx, errs, watched,
                 caches, nextId, faults>>

\* p.aggregateCache.RemoveCache(watchedURL), and the delete that only
\* endpointSliceUpdate has.
DropCache ==
  /\ pc = "drop"
  /\ caches' = [caches EXCEPT ![victim] = 0]
  /\ watched' = IF snap = NoSlice THEN watched
                ELSE [watched EXCEPT ![victim] = 0]
  /\ victim' = NoURL
  /\ pc' = "stop"
  /\ UNCHANGED <<envVars, mainVars, queueVars, snap, idx, errs, left, live,
                 nextId, faults>>

\* stopAllWatchedEndpoints ends with a fresh map.
EndStop ==
  /\ pc = "stop" /\ left = {}
  /\ watched' = IF snap = NoSlice THEN [u \in URLs |-> 0] ELSE watched
  /\ pc' = "finish"
  /\ UNCHANGED <<envVars, mainVars, queueVars, passVars, caches, live, nextId,
                 faults>>

\* AddRateLimited after an error (ignored by a queue that is shut down),
\* Forget otherwise.
FinishKey ==
  /\ pc = "finish"
  /\ backedOff' = errs
  /\ delayed' = (delayed \/ (errs /\ ~shutdown))
  /\ pc' = "done"
  /\ UNCHANGED <<envVars, mainVars, dirty, shutdown, passVars, fleetVars,
                 faults>>

\* defer p.queue.Done(key): a key that got dirty meanwhile is queued again.
DoneKey ==
  /\ pc = "done"
  /\ pc' = "wait"
  /\ UNCHANGED <<envVars, mainVars, queueVars, passVars, fleetVars, faults>>

-----------------------------------------------------------------------------
Worker ==
  \/ GetKey \/ WorkerExits
  \/ ReadFails \/ ReadNotFound \/ ReadMalformed \/ ReadSlice
  \/ SkipWatched \/ BeginWatch \/ WatchFails \/ WatchSucceeds
  \/ BeginPrune \/ (\E u \in URLs : CancelWatcher(u)) \/ DropCache \/ EndStop
  \/ FinishKey \/ DoneKey

Unwind == DeferredShutDown \/ DeferredCancel

Next ==
  \/ \E s \in Slices : ChangeSlice(s)
  \/ Enqueue \/ DelayPasses
  \/ StartProvider \/ StartReturnsEarly \/ CancelContext \/ QueueShutDown
  \/ CacheStartReturns \/ Unwind
  \/ Worker

Spec == Init /\ [][Next]_vars

\* Goroutines are scheduled, timers expire, the informer delivers, calls
\* return.  Nothing makes the slice change, the caller cancel or
\* p.cache.Start fail; once its context is cancelled p.cache.Start returns.
Fairness ==
  /\ WF_vars(Worker)
  /\ WF_vars(Enqueue)
  /\ WF_vars(DelayPasses)
  /\ WF_vars(QueueShutDown)
  /\ WF_vars(ctxDone /\ CacheStartReturns)
  /\ WF_vars(Unwind)

FairSpec == Spec /\ Fairness

-----------------------------------------------------------------------------
(* Properties.                                                             *)

\* Every variable has its type.
TypeOK ==
  /\ slice \in Slices /\ snap \in Slices
  /\ events \in Nat /\ changes \in Nat /\ faults \in Nat
  /\ main \in {"new", "running", "unregistered", "queueDown", "returned"}
  /\ ctxDone \in BOOLEAN
  /\ dirty \in BOOLEAN /\ delayed \in BOOLEAN
  /\ backedOff \in BOOLEAN /\ shutdown \in BOOLEAN
  /\ pc \in {"off", "wait", "read", "start", "starting", "stop", "drop",
             "finish", "done", "exited"}
  /\ idx \in Nat \ {0}
  /\ errs \in BOOLEAN
  /\ left \subseteq URLs
  /\ victim \in URLs \union {NoURL}
  /\ watched \in [URLs -> Nat] /\ caches \in [URLs -> Nat]
  /\ live \subseteq Nat
  /\ nextId \in Nat \ {0}

\* The provider is running: started, not cancelled, not unwinding.
Active == main = "running" /\ ~ctxDone

\* Nothing is on its way to the worker and the worker waits for a key.
Settled ==
  /\ Active
  /\ pc = "wait"
  /\ ~dirty /\ ~delayed /\ events = 0

\* No update is lost (provider.go:247-251, 302-334): whenever nothing is
\* pending any more the watched URLs are exactly those of the slice as it is
\* now, however its changes, failed starts and retries interleaved with the
\* worker's pass, and the next failure starts with a fresh backoff.
NoLostUpdate ==
  Settled => /\ slice # Malformed
             /\ \A u \in URLs : (watched[u] # 0) <=> Wants(slice, u)
             /\ ~backedOff

\* The URL's watcher is stopped in the running pass.
BeingStopped(u) ==
  \/ pc = "drop" /\ u = victim
  \/ pc \in {"stop", "drop"} /\ snap = NoSlice /\ u \notin left

\* No watcher leaks and none is shared (provider.go:343-376, 400-422): a live
\* context belongs to the one URL it is recorded under or to the start in
\* progress, and a recorded watcher is live unless its pass is stopping it or
\* the provider's context is done.
NoOrphanWatcher ==
  /\ \A w \in live : \/ pc = "starting" /\ w = nextId - 1
                     \/ \E u \in URLs : watched[u] = w
  /\ \A u \in URLs : watched[u] # 0 =>
        watched[u] \in live \/ BeingStopped(u) \/ ctxDone
  /\ \A u, v \in URLs : watched[u] # 0 /\ watched[u] = watched[v] => u = v

\* The aggregate cache follows the watchers (provider.go:360-361, 371-372,
\* 381): it serves a URL from the recorded watcher's cache and from no other,
\* and lacks one only while stopAllWatchedEndpoints is under way.
AggregateMatchesWatched ==
  \A u \in URLs : \/ caches[u] = watched[u]
                  \/ caches[u] = 0 /\ BeingStopped(u)

\* "endpoints that did start are kept" (provider.go:336-338): a step cancels a
\* running watcher or forgets its URL only if the slice the worker read does
\* not list the URL or the provider stops, never because another endpoint or
\* a read failed or because the URL is listed twice.
StopsOnlyUnlisted ==
  \A u \in URLs :
    /\ watched[u] \in live /\ watched[u] \notin live'
         => ctxDone' \/ ~Wants(snap, u)
    /\ watched[u] # 0 /\ watched'[u] # watched[u]
         => watched'[u] = 0 /\ ~Wants(snap, u)

\* Every step of the provider keeps the endpoints the slice still lists
\* (endpointSliceUpdate, provider.go:336-376).
KeepsListedEndpoints == [][StopsOnlyUnlisted]_vars

\* The retry promised at provider.go:247-251: once the slice stops changing
\* and endpoints stop failing, the watched URLs become those of the slice and
\* stay so, unless the provider stops or the slice cannot be parsed.
EventuallyReconciled ==
  <>[](Active /\ slice # Malformed =>
         \A u \in URLs : (watched[u] # 0) <=> Wants(slice, u))

\* Start's goroutines end (provider.go:286-294): after the context is
\* cancelled the worker leaves its loop, also when it was retrying or in the
\* middle of a pass, and no watcher it started survives.
ShutdownEndsWorker ==
  (ctxDone /\ pc # "off") ~> (pc = "exited" /\ live = {})

\* The provider implements EndpointService (provider.go:336-384): however
\* passes, retries, failures and shutdown interleave, the aggregate cache gains
\* and loses one endpoint at a time, always as the slice the worker last read
\* demands, and a slice that cannot be parsed changes nothing.
Service == INSTANCE EndpointService WITH
  published <- slice, view <- snap, served <- {u \in URLs : caches[u] # 0}

\* The refinement as a property of every behaviour (provider.go:336-384).
ServesTheSlice == Service!Spec

=============================================================================
