# TLA+ models of the kcp multicluster-provider

This directory models the core of `kcp-dev/multicluster-provider`: how a
provider turns the endpoint URLs of an endpoint slice into watched endpoints,
how the watched endpoints turn objects into engaged clusters, and the shared
parts they use (aggregate cache, cluster-scoped cache reads, event recorders),
plus the test environment: its control plane, the sharded test server and the
workspace fixtures. `PROJECT.json` lists every
run, what it checks, which definition models which lines, the hazards the
properties are aimed at, and the proved theorems.

## 1. The system

| Component | State | Operations | Talks to |
|---|---|---|---|
| Endpoint slice reconciliation, `pkg/provider/provider.go:169-422` | `watchedEndpoints`, work queue, context | informer events enqueue the slice's key; one worker reads the slice, starts a watcher per new URL, cancels the watchers of unlisted URLs, retries on error | aggregate cache (AddCache/RemoveCache), watchers (context) |
| Cluster engagement, `provider.go:423-560` | per endpoint: informer store and index; shared: `p.Clusters` | AddFunc/UpdateFunc engage the object's cluster, DeleteFunc disengages it when the endpoint's index has no object of it left | recorder manager, lifecycle handlers, multicluster manager |
| Event recorders, `pkg/events/recorder` | map cluster -> provider, lazily started broadcasters, `stopped` flag | GetProvider, StopProvider, Stop, Eventf | API server (sink) |
| Aggregate cache, `pkg/cache/aggregate*.go` | map id -> cache, informers, handler entries | AddCache, RemoveCache, GetAggregateInformer, AddEventHandler, HasSynced | wildcard caches, endpoint worker, users |
| Wildcard and scoped cache, `pkg/cache/{wildcard,cache,forked_cache_reader,indexes}.go` | one indexer for all clusters, index tracker | Get, List, IndexField, scoped event handlers | informers, engaged clusters |
| Scoped cluster, `pkg/cache/cluster.go` | clients | Start ends with the endpoint's context | engagement |
| URL extraction, readiness filter, `pkg/provider/{urls,condition}.go` | none | pure functions | reconciliation, engagement |
| Path store, path-aware provider, `path-aware/provider.go`, `pkg/paths/paths.go` | path -> cluster, set of registered paths | OnAdd/OnUpdate/OnDelete, Get | called by engagement's callbacks |
| apiexport, initializingworkspaces | none | configure the generic provider | |
| Cluster-aware client, `client/client.go` | cluster -> client | Cluster | |
| Test environment, `envtest/server.go`, `envtest/internal/{controlplane,process}` | `process.State`, root directory, certificates, `Config` | Start with retries, Stop; an existing kcp instead | kcp processes |
| Process arguments, `envtest/internal/process/arguments.go` | flag -> configured values | Set, Append, AppendNoDefaults, Enable, Disable, AsStrings | control plane |
| Sharded test server, `envtest/sharded.go` | subprocess and its group, log file, `waitDone`, `config` | Start, waitReady, Stop | processes, work directory |
| Workspace fixtures, `envtest/{workspaces,eventually}.go` | counter of the shards' turns, a registered deletion per workspace | create with retries, wait for the phase and for access, delete | kcp API of the server |
| Port reservation, `envtest/internal/addr` | files | Suggest | control plane |
| Certificates, command, examples | none | | |

What is hard here, and so what the models concentrate on: informer callbacks
of several endpoints run concurrently with each other and with the
reconciliation that cancels them; check and act are separate steps
(`provider.go:513-518`, `:540-557`, `aggregate.go:60-69`); failures are retried
in one place and only logged in another; locks are held across calls that wait
for a remote server (`aggregate_informer.go:76`, `forked_recorder.go:90`);
contexts end while all this goes on; processes are replaced by new ones on the
same port and directory; requests are sent again when their answers are lost,
and time out while they are under way.

What makes each component correct:

* reconciliation: after any sequence of slice changes and failures the watched
  URLs become those of the slice; nothing listed is stopped because something
  else failed; every watcher context has an owner that will cancel it; the
  aggregate cache knows exactly the watched endpoints; shutdown ends it all.
* engagement: clusters with a ready object are engaged, clusters without
  objects are not; recorders and handlers follow the engagement.
* recorders: no event after shutdown (a panic), no double stop, no lost
  provider, no call that never returns.
* aggregate cache: handlers get events of all current shards and of no others;
  failed registrations leave nothing; no deadlock of users and worker.
* scoped reads: a cluster's reader sees this cluster's objects only and all
  of them.
* path-awareness: a workspace path finds the cluster that has it, whatever had
  it before.
* test control plane: no process is lost, restarts work, calls return,
  temporary data is removed.
* sharded server: whoever wins the race of readiness, exit and timeouts, no
  server is left behind and the calls return.
* fixtures: workspaces do not outlive their tests and are spread over the
  shards, also when the server dies under them.

## 2. Modules and how they correspond to the code

Every module has a section "Faulty variants": operators that no specification
uses, each a plausible mistake in one action. `PROJECT.json` pairs each
property with one of them; replacing the action by its variant makes TLC find
the property violated, which shows that the property can fail.

**EndpointReconciler** (core). `main` is where `Provider.Start` is, `pc` where
the worker goroutine is, `dirty/delayed/backedOff/shutdown` the rate-limited
queue for the single key, `slice/events` the informer's store and undelivered
notifications. A pass is `GetKey`, then `ReadSlice` / `ReadNotFound` /
`ReadMalformed` / `ReadFails`, the loop over the URLs (`SkipWatched`,
`BeginWatch`, `WatchSucceeds`, `WatchFails`), `BeginPrune`, the loop that stops
watchers (`CancelWatcher`, `DropCache`, `EndStop`), `FinishKey` (Forget or
AddRateLimited) and `DoneKey`. Watchers are numbered; `live` holds those whose
context is not cancelled. Shutdown is `CancelContext`, `QueueShutDown`,
`CacheStartReturns`, `DeferredShutDown`, `DeferredCancel`. The slice may be absent,
unparsable or list URLs, also the same URL twice.

**EndpointService** is what the reconciliation promises, without worker, queue,
watchers and retries: a slice that changes, the slice as last looked at, and the
set of endpoints served, which gains or loses one endpoint at a time and only as
that slice says. EndpointReconciler instantiates it with `published <- slice`,
`view <- snap` and `served <-` the URLs that have a cache in the aggregate;
`ServesTheSlice` is its specification under this mapping. A pass's starting,
failing and retrying are stutters, `ReadSlice` and its variants are `Look`,
`WatchSucceeds` is `Serve`, `DropCache` is `Withdraw`.

**EndpointObjects**. The pure functions that read unstructured objects, as
operators: both URL extractors, the initializing provider's URL filter and
`ConditionReadyFunc`, including where a malformed item makes them fail and where
a match comes first. `MCEndpointReconciler` compares them with declarative
definitions for all lists of up to three items, and takes its URL lists from
them; these are assumptions that TLC evaluates at the start of `reconcile`. No
property of a run depends on their detail.

**ClusterEngagement**. One callback goroutine per endpoint; each call into
shared state is one step (`CheckCluster`, `GetRecorder`, `Engage`, `RunHooks`;
`ClusterGone`, `StopRecorder`, `RemoveCluster`, `RunDeleteHooks`), so callbacks
of two endpoints interleave between them. The fleet records who engaged a
cluster: `Reap` removes it when that endpoint's context ends. Endpoints come and
go by passes of the reconciliation, in its order: `NewPass` lists URLs, the
missing watchers are started (`StartWatcher`, or `StartFails`, which leaves the
URL to a later pass), and only then are the watchers of unlisted URLs cancelled
(`CancelWatcher`), all while callbacks run. Informers
(external) may skip intermediate states and may resync periodically. An object
is absent, unready or ready; for a provider without filter every object counts
as ready. Recorders are generation numbers per cluster. The end of the provider
is part of it: its context ends or its cache returns (`ContextEnds`,
`CacheReturns`), and `StopRecorders` stops the recorder manager without waiting
for callbacks; `late` remembers the endpoints that still had one to run then,
which may create a recorder that nobody stops.

**RecorderManager**. Callers of the manager, the goroutine of every
`Provider.Stop`, emitters, and the sink. The provider's RWMutex is modelled
with its writer preference, the manager's mutex by its holder. `StopReturns` is
the `select` over the goroutine's end and the caller's context. An event counts
as handed over when the recorder's method is called under the read lock; whether
client-go's recorder of the new events API hands it to the broadcaster in that
call or in a goroutine of its own is outside the model.

**AggregateCache**. The endpoint worker adds and removes shards, users add
handlers or poll `HasSynced`. `AggregateCache.lock`, `informersLock` and the
informer's lock are modelled with who waits for whom; `GetSharedInformer` of a
started cache blocks until the shard has synced, as controller-runtime's
`GetInformer` does. `regs` is what a handler entry remembers, `count` what is
really registered with the shard's informer. A failing `AddEventHandler` undoes
its registrations one by one (`Unregister`, which may wait for a sync as well),
and each removal may fail and be ignored (`UnregisterFails`, remembered in
`leaked`). `onCacheAdded` may skip the shard (`SkipShard`) or some handlers
(`RegisterSome`).

**CacheReader**. Keys are sequences of tokens, so that joining strings with
separators is concatenation and a value that contains separators is several
tokens. `Get`, `List`, `ByIndexes`, `Candidates` are the reader's functions;
`FieldKeys` is what the index function of `IndexField` returns, wrapped by the
one of controller-runtime (external). The loop of `ByIndexes` over the
requirements is written in closed form: what is left after the first n of them,
and the first n at which an index is missing or nothing is left. State: the store, the tracker and the
indexes, callers of `IndexField`, and what handlers on scoped informers were
told. Properties compare the reads with a plain filter over the store.

**PathAware**. The hooks of the one `pathHandler` run on the callback goroutine
of every endpoint; each write is a step (`AddPath`, `MarkPath`; `RemovePath`,
`UnmarkPath`), after the step of the callback that calls them (`Engage`,
`RemoveCluster`). `DeleteFunc`'s check may fail before it, which leaves the
cluster engaged and stored (`LookupFails`). One object stands for a cluster; it is ready or not and may be
annotated with its path later. The server (external) gives a path to one
existing cluster at a time. An informer delivers changes in order while its
watch holds; after a break the relist announces listed objects first and
deletions last, as `DeltaFIFO.Replace` does. `Get` is the lookup.

**ControlPlane**. The test's goroutine in `Environment.Start/Stop`, `Kcp`,
`Shard` and `process.State`; numbered attempts, each with a kcp process
(external: boots, ends, crashes), the goroutine in `Cmd.Wait` and the health
check's poller. All attempts share one port, because ports are chosen once, so
a health check is answered by whichever process serves. Directories are
numbered; `state.cleaning` is `DirNeedsCleaning`. `Signal` fails only for a
process that `Wait` has reaped (`SignalFails`; a failing SIGKILL changes nothing
but the error). After kcp is up,
`Environment.Start` still adds its user and waits for the default namespace,
and may fail there. With `useExistingKcp` it only loads a `Config`, whose host
it must not have scoped already. The test calls Stop before it calls Start
again.

**Arguments**. The flags of a kcp process as functions from flags to what was
configured. A slice is a set of at most one sequence, because the code tells
nil from empty. `MCControlPlane` states what the comments promise (defaults are
passed unless replaced, Append appends to whatever there is, the last of Set,
Enable and Disable decides) as assumptions that TLC evaluates over all short
sequences of calls; no property of a run depends on them.

**ShardedServer**. `pc` is where the test's goroutine is in Start or Stop;
`leader` is the process sharded-test-server and `group` the processes it
launched (external: they boot, end, crash, ignore SIGTERM), `waitDone` what the
goroutine in `Wait` closes. `waitReady` is `Stat`, then one of `Tick` and
`StartGivesUp`; the cases of its select that return an error differ in the
error only and are one action. `readyFile` may be there from an earlier server.

**WorkspaceFixture**. One `step` per fixture, the Create in flight as a
`request` that the server may carry out, refuse or lose the answer of, and that
outlives the fixture's timeout because `Eventually` runs its condition in a
goroutine. `unseen` counts workspaces no fixture knows of. A `require` that
fails inside a polled condition ends that goroutine only (state `"stuck"`), and
one failing Get is enough. A fixture in `Located` has an explicit location as its
last option: it uses up a turn of the shards without a workspace on that shard
(`void`). `deletion` is how the cleanup's Delete went wrong: an error fails the
test, Forbidden is ignored.

**ShardedSuite** composes the two: the fixtures see the API server up when the
sharded server serves, the number of shards is the server's, the tests run
while the Sharded is up, and the suite stops the server when its tests are
done.

The TLAPS proofs about a module `M` are in `MProofs`: **EndpointReconcilerProofs**,
**ClusterEngagementProofs**, **RecorderManagerProofs**, **AggregateCacheProofs**,
**CacheReaderProofs**, **PathAwareProofs**, **ControlPlaneProofs** and
**ShardedSuiteProofs** (section 5). The `MC*` modules give the constants for TLC.

## 3. Runs

All runs switch TLC's deadlock check off: a provider with nothing to do waits
for events, and the bounded environment runs out of changes.

| Run | Shows | Bounds |
|---|---|---|
| `reconcile` | `NoLostUpdate`, `NoOrphanWatcher`, `AggregateMatchesWatched`, `KeepsListedEndpoints`, `EventuallyReconciled`, `ShutdownEndsWorker`, `TypeOK`, and `ServesTheSlice`: it implements EndpointService | 2 URLs, lists of up to 2 URLs with a duplicate, absent and unparsable slice; 2 changes, 1 failure |
| `engage_overlap` | `EngagedWhenQuiet`: two endpoints that expose the same cluster agree in the end | 2 running endpoints, 2 objects of one cluster, 2 changes, 1 failed index lookup |
| `engage_heal` | `NoGhostCluster`, `EventuallyEngaged`, `EventuallyDisengaged`, `TypeOK`; `RecordersFollowClusters` and `HooksMatchEndpoints`, which speak of one endpoint without failures and of the end of the provider | 2 endpoints that come and go, 1 object, 2 changes, 1 pass with other URLs, 1 failed engagement, 1 cancellation of an endpoint or of the provider, resync |
| `engage_replaced` (violation) | `EngagedWhenQuiet` fails when an endpoint URL is replaced | 1 pass, 1 cancellation |
| `recorder` | `NoEventAfterShutdown`, `MapHoldsTheUnstopped`, `StopsOnce`, `EverythingReturns`, `StopHonoursContext`, `TypeOK` | 2 callers, 2 emitters, 2 clusters, 2 providers, 2 events |
| `aggregate` | `AllShardsRegistered`, `NoStaleRegistration`, `FailedHandlerUnregistered`, `WorkerReturns`, `UsersReturn`, `TypeOK` | 2 shards, 2 handlers, 1 poller, 3 worker calls (add, remove, add again), 1 failing registration with any removals failing, 1 skipped shard or handler; shards sync before they go |
| `aggregate_unsynced_removed` (violation) | `WorkerReturns` fails when an endpoint disappears before its informer has synced | 2 shards, 1 handler |
| `control_plane` | `NoForgottenProcess`, `SafeRestart`, `StopCleansUp` (for a Start that needed no second try), `EveryCallReturns` | 2 starts of 2 tries, 3 processes, 2 failures |
| `sharded_suite` | `NoServerLeftBehind`, `WorkspacesCleanedUp`, `SpreadEvenly`, `CallsReturn` | 2 shards, 2 fixtures (one named, one initializing and with an explicit location last), 1 fault of the server, 1 workspace of unseen answer each |
| `cache_reader` | `ReadsSeeOwnCluster` (Get and List), `IndexedOnce`, `HandlersSeeOwnCluster` | 2 clusters, 5 object versions, 2 fields, selectors of up to 2 requirements, 2 undelivered events |
| `path_aware` | `RegisteredPathsAreStored`, `EventuallyResolved` | 1 endpoint, 2 clusters with the same path one after the other, 4 changes, 1 broken watch, 1 failed engagement, 1 failed check of a deletion |
| `path_aware_shards` (violation) | `RegisteredPathsAreStored` fails with two endpoints | 2 endpoints with a cluster each, 2 changes |

Why the bounds are enough: each hazard needs at most two actors of a kind and
two changes (something happens, and happens again while the first is being
handled), and the proofs cover the safety properties for any number of them.
One failure suffices for a retry that runs into a changed slice. `engage_overlap` needs
two objects because DeleteFunc keeps a cluster as long as its index has one.
`recorder` has a second provider so that a cluster's recorder is created again
after it was stopped. Three processes give a restart after a failed try.
`cache_reader` has a namespace named like a cluster and a field value that
starts with a cluster's name, the only ways in which keys could be confused.
`sharded_suite` has a fixture of each kind, so that both paths through the
waits and both answers to a repeated Create happen, and one fault, so that the
server dies at any point of Start, of the tests or of Stop.

Every bound of the environment is a constant named `Max...` and limits changes,
faults or calls only, never a step of the code that handles them.
(`MaxTries` of ControlPlane is the code's own `maxRetries`, 5, at 2.)

### Fairness

* `EndpointReconciler!FairSpec`: weak fairness of the worker, of informer
  deliveries, of the queue's timers and of the shutdown steps: goroutines are
  scheduled, timers fire. Changes, failures and cancellation of the context
  happen or not.
* `ClusterEngagement!FairSpec`: weak fairness of informers catching up, of
  callbacks, and of the resync. The resync is controller-runtime's default
  (`SyncPeriod`, 10 hours); without it the properties do not hold, which is
  what `engage_replaced` shows.
* `RecorderManager!FairSpec`: goroutines only. `EverythingReturns` takes a
  working API server as its hypothesis (`SinkWorks`), `StopHonoursContext` does
  not.
* `PathAware!FairSpec`: callbacks, relists and the resync, as for
  ClusterEngagement.
* `AggregateCache!FairSpec`: goroutines, and shards in use sync.
* `ControlPlane!FairSpec`: only the test's own calls, justified by their
  timeouts; kcp processes owe nothing.
* `ShardedSuite!FairSpec`: the steps of Start and Stop and of the goroutine in
  `Wait` (weak); the select of `waitReady` does not pass over a timer that has
  fired for ever (strong, because each tick disables it for a moment); the
  kernel ends a killed process. Of a fixture, its timeouts, its cleanup and
  `WorkspaceShardOrDie`: that List has no deadline of its own, so this assumes
  that the server answers or the connection breaks. Readiness of the server,
  answers to Create and phases of workspaces are not assumed.
* `ClusterEngagement` also has weak fairness of `StopRecorders`, the goroutine
  that ends `Provider.Start`.

## 4. Findings

1. `engage_replaced`: a slice replaces one URL by another that exposes the same
   cluster. The pass starts the new endpoint (`provider.go:346-362`) and then
   cancels the old one (`:365-373`). The new one's callback, before that or
   shortly after it, finds the cluster still engaged under the old context and
   does nothing (`:540`); the cluster is dropped when its Start, under that
   context, has returned. It is engaged again only by the next resync or change.
2. `aggregate_unsynced_removed`: `AddEventHandler` waits for a shard's sync
   under `AggregateCache.lock` (`aggregate_informer.go:76`); if the endpoint
   disappears first, `RemoveCache` blocks the reconciliation for ever.
3. `path_aware_shards`: when a path moves to a cluster on another shard, the
   old cluster's `OnDelete` can run between the two writes of the new one's
   `OnAdd` (`path-aware/provider.go:107-108`). The path is then registered but
   not stored, `OnUpdate` skips it, and `Get` by path fails for an engaged
   cluster until it is deleted.

The models contain further disagreements that no run singles out: a failed
engagement is only logged (`provider.go:461`; `EngageFails`, healed by a
resync); cancelling an endpoint leaves its clusters' recorders running until
the provider ends (`provider.go:370`, against the comment at `:146`; this is why
the recorder properties speak of one endpoint); `onCacheAdded` skips a shard, or a handler it cannot add, silently
(`aggregate_informer.go:128`, `:137`; `SkipShard`, `RegisterSome`);
`cleanupRegistrations` ignores its errors, so a handler whose registration was
refused may stay registered with a shard (`:116-117`, `UnregisterFails`), which is
all that `FailedHandlerUnregistered` allows; a deletion whose index check fails is
dropped (`provider.go:501-511`, `LookupFails`), so the cluster stays engaged, and
found by its path, which `EventuallyResolved` excepts and the runs of
`EventuallyDisengaged` and `NoGhostCluster` exclude; a failed `IndexField` is remembered as
done (`wildcard.go:216`, `AddIndexFails`); `Shard.Stop` and `Config` panic after
certain partial failures (state `"panicked"` of ControlPlane). After a failed
try the temporary root directory is taken for the user's and is not removed
(`shard.go:182`, against `:90`), which is why `StopCleansUp` speaks of a Start
without a second try. A `Config` refused because its host is scoped is kept, and
the next Start accepts it (`server.go:187`). When `Environment.Start` fails
after kcp is up, kcp runs until a Stop (`server.go:242`). The 10 seconds of
`provider.go:236` are derived from a context that has usually ended. A flag that
nobody configured and whose default list is empty is not passed, although
`arguments.go:112` says that every default flag is present.

In the sharded suite: Start trusts a `ready-to-test` that an earlier server left
(`sharded.go:178`); when the leader ends by itself, Stop signals nobody, so the
rest of its process group may live on (`sharded.go:216`), which is why
`NoServerLeftBehind` speaks of the leader; a Create whose answer is lost or late
leaves a workspace that no test deletes (`workspaces.go:169`); a single failed
Get inside a polled condition condemns the fixture to its timeout
(`workspaces.go:191`); a workspace whose Delete is forbidden stays although the
test passes (`workspaces.go:183`); an explicit location after
`WithSpreadAcrossShards` uses up a turn, so the workspaces that are left may be
uneven by the number of such turns.

## 5. Proofs

Every invariant and action property of the passing runs is also a theorem, for
every value of the constants. Each proof module defines the inductive invariant
`IInv` its theorems need, has a lemma per part of it (or per group of actions)
that says which steps preserve it and why, and derives the properties from it.
The parts were checked with TLC on the instances of section 3 before they were
proved.

| Module | Theorem | Statement |
|---|---|---|
| EndpointReconcilerProofs | `TypeCorrect` | `Spec => []TypeOK` |
| | `NoUpdateIsLost` | `Spec => []NoLostUpdate` |
| | `WatchersAreOwned` | `Spec => []NoOrphanWatcher` |
| | `AggregateFollowsWatchers` | `Spec => []AggregateMatchesWatched` |
| | `ListedEndpointsAreKept` | `Spec => KeepsListedEndpoints` (action property) |
| | `ReconcilerImplementsService` | `Spec => ServesTheSlice` (refinement of EndpointService) |
| ClusterEngagementProofs | `EngagementTypeCorrect` | `Spec => []TypeOK` |
| | `NoGhostUntilLookupFails` | `Spec => [](budget.lookup = 0 => NoGhostCluster)` |
| | `NoGhosts` | `Spec => []NoGhostCluster` if `MaxLookupFaults = 0` |
| | `EngagedUntilDisturbed` | `Spec => [](budget.cancels = 0 /\ budget.engage = 0 => EngagedWhenQuiet)` |
| | `ExposedClustersAreEngaged` | `Spec => []EngagedWhenQuiet` if `MaxCancels = MaxEngageFaults = 0` |
| | `RecordersFollow` | `Spec => []RecordersFollowClusters` |
| | `HooksMatchUntilLookupFails` | `Spec => [](budget.lookup = 0 => HooksMatchEndpoints)` |
| | `HooksMatch` | `Spec => []HooksMatchEndpoints` if `MaxLookupFaults = 0` |
| RecorderManagerProofs | `RecorderTypeCorrect` | `Spec => []TypeOK` |
| | `EventsComeBeforeShutdown` | `Spec => []NoEventAfterShutdown` |
| | `ManagerHoldsTheUnstopped` | `Spec => []MapHoldsTheUnstopped` |
| | `ProvidersStopOnce` | `Spec => StopsOnce` (action property) |
| AggregateCacheProofs | `AggregateTypeCorrect` | `Spec => []TypeOK` |
| | `HandlersGetAllShards` | `Spec => []AllShardsRegistered` |
| | `RegistrationsEndWithShards` | `Spec => []NoStaleRegistration` |
| | `FailuresAreCleanedUp` | `Spec => []FailedHandlerUnregistered` |
| CacheReaderProofs | `ReadersSeeTheirCluster` | `Spec => []ReadsSeeOwnCluster` |
| | `IndexesAreAddedOnce` | `Spec => []IndexedOnce` |
| | `HandlersSeeTheirCluster` | `Spec => []HandlersSeeOwnCluster` |
| PathAwareProofs | `SetAndStoreAgree` | `Spec => []RegisteredPathsAreStored` if `PathsStayHome` |
| ControlPlaneProofs | `NoProcessIsForgotten` | `Spec => []NoForgottenProcess` |
| | `RestartsAreSafe` | `Spec => []SafeRestart` |
| | `StopsCleanUp` | `Spec => []StopCleansUp` |
| ShardedSuiteProofs | `ServerIsNotLeftBehind` | `Spec => []NoServerLeftBehind` |
| | `AnsweredWorkspacesAreCleanedUp` | `Spec => []WorkspacesCleanedUp` |
| | `WorkspacesAreSpread` | `Spec => []SpreadEvenly` |

### Assumptions and hypotheses

The assumptions on constants are named in the modules that declare them, and TLC
evaluates them on every run: bounds are naturals; marks such as `NoEntry`,
`NoCluster`, `None`, `Worker` and `Star` are different from the values they stand
beside (nil and the wildcard are no cluster, URL or goroutine); functions such as
`ClusterOf`, `Home` and `PathOf` have their types; an informer's objects, a
path-aware provider's clusters and a test's fixtures are finite sets, because a
resync lists them in a sequence and fixtures are counted.

Some theorems have a hypothesis of their own, and each is needed:

* `MaxLookupFaults = 0` (`NoGhosts`, `HooksMatch`): a `DeleteFunc` whose index
  lookup fails gives up and nobody comes back (`provider.go:501-511`). The forms
  with `budget.lookup = 0` say the same up to the first such failure of any
  behaviour.
* `MaxCancels = MaxEngageFaults = 0` (`ExposedClustersAreEngaged`): with a
  cancellation the run `engage_replaced` refutes the property, and a failed
  engagement is only logged. After these the clusters heal by the resync
  (`EventuallyEngaged`, liveness). Lookup failures, endpoints that start later
  and resyncs are allowed.
* `PathsStayHome` (`SetAndStoreAgree`): clusters that use a path one after the
  other are behind one endpoint. Without it `path_aware_shards` refutes the
  property. Different paths may be behind any number of endpoints.

### EndpointReconciler

None of its properties is inductive. `IInv` adds to `TypeOK`:

* `Unstarted`: before the worker exists nothing is watched, so the pass
  variables mean nothing yet;
* `PassShape`: what the worker's local state means at each place, in
  particular that URLs still to be stopped are watched and not listed, which
  is why a listed endpoint is never stopped;
* `Ownership`: every live watcher belongs to one URL or to the start in
  progress, identities are below `nextId`, two URLs never share a watcher, and
  the aggregate's entry of a URL is its watcher except between cancellation
  and removal;
* `Progress`: when no event, key or timer is pending, the pass in progress
  works on the current slice, has started everything up to its index (or
  recorded an error, which will queue the key again), and still has on its
  list what must be stopped. This is what turns "nothing pending" into "the
  watched URLs are those of the slice".

The refinement shows, action by action and under `IInv`, which step of
EndpointService each step is, or that it is a stutter; `PassShape` is what makes
`WatchSucceeds` a `Serve` (the URL is listed and not served) and `DropCache` a
`Withdraw`.

### ClusterEngagement

The properties speak of endpoints that are done; the invariant says what is
still on its way until then.

* `QueueShape`: a notification is a deletion exactly if it says that the object
  is gone, and for every queued notification there is one behind it, or itself,
  that says what the store has now (`CatchesUp`). `PlaceShape`: a callback is
  where its event leads to, and a watcher that was never started has seen
  nothing. `FleetShape`: who engaged a cluster was started.
* `GhostShape`: a cluster engaged by w is in the index of w, or one of its
  deletions is still queued at w; at `deleteHooks` the cluster is already out of
  the fleet. It is kept because a deletion that is handled either finds the index
  non-empty or goes on to remove the cluster, and because an object that engages
  its cluster is still stored or its deletion is queued (`ServedOrDue`,
  `ServedOrDueStays`).
* `EngagedShape`: if a cluster is not engaged and endpoints run, one of them
  *will* engage it: it is about to, or has still to look at every ready object it
  stores of the cluster. The difficult step is `RemoveCluster`, which removes a
  cluster whoever engaged it: there the remover itself is the witness, because
  its index was empty when it looked and what came since is queued behind
  (`RemovalShape`).
* `EndShape`: after an end of the provider that found every endpoint done,
  nothing happens any more.
* `FreshShape`, `SoloRecorders`, `SoloHooks`: as long as only one endpoint was
  ever started, a cluster that is being engaged is not in the fleet, its recorder
  is the last one made, a recorder lives only for a cluster in the fleet or about
  to be, and the handlers know of exactly the engaged clusters but for the hook
  in progress.
* `BudgetShape`: faults stay within their bounds, which links the two forms of
  the theorems above.

One family of lemmas (`SyncAppends`, `ResyncFills`, `CallbackMoves`,
`GoesOnEffect`, `ReturnsEffect`, `OtherSteps`) reduces the 23 actions to the few
things that happen to a queue, and the others (`PlaceSteps`, `FleetSteps`,
`RecorderSteps`, `LifeSteps`, `HookSteps`) name the steps that can disturb a
variable; the proofs of the parts have one case for each of these.

### RecorderManager

`LockHeld`: who holds the manager's lock is inside GetProvider, StopProvider or
Stop. `MapShape`: a provider is in the map exactly if nobody has begun to stop
it, or the caller that did still holds the lock. `StopShape`: the provider's
write lock, `shut`, `stopped` and the queue at each place of its `Stop`; the
write lock excludes readers. `EmitShape`: readers are the emitters between RLock
and RUnlock. An emitter that found `stopped` unset thus keeps the shutdown
waiting, hence `NoEventAfterShutdown`; and a provider leaves the map under the
lock under which its Stop began, hence `StopsOnce`.

### AggregateCache

`LockShape` ties the locks to the users' and the worker's places; `WorkerShape`
says whether the worker's shard is already (or still) in the map;
`HandlerShape`: during `AddEventHandler` the handler is registered with exactly
the shards already visited, once each, during its cleanup with those not yet
visited and those whose removal failed, and the read lock keeps the set of caches
fixed; `TrackedShape`: a tracked handler lags behind the caches by at most the
worker's shard. At rest the lag is empty.

### CacheReader

Most of this is about the operators. `StoreKeyInjective`, `KeyPartsInjective` and
`KeyFindsScope`: the store's keys and the index keys of cluster, namespace and
field value determine their parts, although values may contain separators.
`GetIsScoped`, `ByIndexesIsScoped` (selectors of any length) and `ListIsScoped`
derive what the reads return, in any state, for any store and any set of
indexes. The invariant is needed for the rest: `AddShape` (a caller between its
two steps owns its field), and `StoreShape`, `EventShape`, `ViewShape` (the last
notification about an object says what the store has; a handler agrees with the
store on objects nothing is queued about).

### PathAware

`CallbackShape`: between the two writes of a hook the first is done;
`PathShape`: set and store differ only in the path of such a hook. With
`PathsStayHome` no second hook on that path can be running, as the notifications
of an endpoint are about its own clusters (`TypeShape`).

### ControlPlane

`ProcessShape`, `WaitShape`: attempts to come have no process, `Wait` returns
after the exit, and the process Stop waits for was sent SIGTERM. A Start that
panicked in `Config` is exempt from `NoForgottenProcess`: nothing stops kcp then. `RootDirShape`: a
remembered root directory is that of the State and exists, and Stop forgets a
temporary one before it removes it. `FirstTryShape`: without a failed try there
is at most the State's directory, which Stop will remove. `ExistingShape`: an
Environment on an existing kcp launches nothing.

### ShardedSuite

`ServerInv`: a running leader is always held by the Sharded (`HandleHeld`),
`waitDone` is closed only for one that has ended, and the log and the handle are
as each place of Start and Stop says (`CallShape`); Stop lets go of the handle
only after `waitDone`. `FixtureInv` adds the functions' types to
`WorkspacesCleanedUp`; a fixture's step disturbs its own entries only, and kcp's
steps never bring a workspace back that is gone. `SpreadInv`: the counter is in
the middle of some round, the shards up to `counter % ShardNames` have been given
one turn more, and a fixture that has not begun has no location.
`NextRemainder` is the arithmetic of the modulus.

### Only model-checked

All liveness (`EventuallyReconciled`, `ShutdownEndsWorker`, `EventuallyEngaged`,
`EventuallyDisengaged`, `EverythingReturns`, `StopHonoursContext`,
`WorkerReturns`, `UsersReturn`, `EveryCallReturns`, `CallsReturn`,
`EventuallyResolved`): fairness and ENABLED are outside the prover. The
comparisons of the pure functions of EndpointObjects and Arguments with their
declarative definitions, which are inductions over lists.

## 6. Not modelled

The cluster client (double-checked locking around one map); port reservation
between test processes (ControlPlane takes its outcome: a port, chosen once, or
none); certificates' contents; REST configuration, deep copies and conversions;
the command and the examples, which wire flags and managers.
`AggregateCache.List` and a registration's `HasSynced` read without changing
state. The cache reader's branch for an indexer without cluster indexes is
unreachable with `NewWildcardCache`. `ConditionEvaluator` of the fixtures only
reads an object. Which error `Sharded.Start` and `Stop` return, and the wording
of failures, are left out, as is Ginkgo's panic when `FailNow` is called on a
goroutine of its own (the fixtures are modelled for `testing.T`). A deletion of
the endpoint slice that the informer missed and reports as
`DeletedFinalStateUnknown` panics in the log line of `DeleteFunc`
(`provider.go:273` asserts `client.Object`, although `enqueue` at `:254-261` would
handle it) and ends the program; EndpointReconciler has deletions that were seen.

## 7. Plan

Done, in this order: EndpointReconciler with proofs, ClusterEngagement,
RecorderManager, AggregateCache, CacheReader, ControlPlane, PathAware,
EndpointObjects; then EndpointService with the refinement and its proof,
ShardedServer, WorkspaceFixture and ShardedSuite with proofs, Arguments, the end
of the provider in ClusterEngagement, and the existing kcp and the late failures
of Start in ControlPlane; then the proofs of RecorderManager, ControlPlane,
AggregateCache, CacheReader, PathAware and ClusterEngagement, and of the
spreading over shards.

Next modules:

1. `ProviderSystem`: EndpointReconciler and ClusterEngagement composed, so that
   `NewPass`, `StartFails` and the retries of ClusterEngagement are those of the
   work queue.
2. `PortManager`: the reservation files shared by test processes.

Next proofs: facts about the operators of Arguments and EndpointObjects that do
not need an induction (`Passed` after `Set`, `Enable` and `Disable`; where
`ConditionReadyFunc` finds its match); action properties of ClusterEngagement
(which step may take a cluster from the fleet).
