-------------------------- MODULE ClusterEngagement --------------------------
(***************************************************************************)
(* What the watched endpoints do (watchedEndpoint.start and .update,       *)
(* pkg/provider/provider.go:441-560): the informer of every endpoint calls *)
(* AddFunc, UpdateFunc and DeleteFunc on a goroutine of its own, and these *)
(* engage a logical cluster in the shared p.Clusters when an object of it  *)
(* shows up and disengage it when the endpoint's last object of it is      *)
(* gone, with a per-cluster event recorder from the shared recorder        *)
(* manager and the lifecycle handlers called along the way.                *)
(*                                                                         *)
(* Each call into shared state (p.Clusters, the recorder manager, the      *)
(* handlers) is a step of its own, so the callbacks of two endpoints and   *)
(* the cancellation of an endpoint interleave between them.                *)
(***************************************************************************)
EXTENDS Integers, Sequences, FiniteSets, SequencesExt

CONSTANTS
  Watchers,          \* watchedEndpoint instances, each of one URL
  Initial,           \* the ones running at first
  Objects,           \* objects to watch (APIBindings, LogicalClusters)
  Clusters,          \* logical clusters
  ClusterOf,         \* logicalcluster.From: [Objects -> Clusters]
  NoEntry,           \* p.Clusters has no such cluster
  Resyncs,           \* whether the informers' periodic resync happens
  MaxChanges,        \* bound: changes of objects on the server
  MaxPasses,         \* bound: changes of the slice that are reconciled
  MaxCancels,        \* bound: watchers, or the provider, cancelled
  MaxEngageFaults,   \* bound: failures of recorder, NewCluster and Add
  MaxLookupFaults    \* bound: failures of the index lookup in DeleteFunc

ASSUME WatchersAssumption == Initial \subseteq Watchers
ASSUME ObjectsAssumption == IsFiniteSet(Objects)
ASSUME ClusterOfAssumption == ClusterOf \in [Objects -> Clusters]
ASSUME NoEntryAssumption == NoEntry \notin [by : Watchers, rec : Nat]
ASSUME BoundsAssumption ==
  /\ {MaxChanges, MaxPasses, MaxCancels, MaxEngageFaults, MaxLookupFaults}
       \subseteq Nat
  /\ Resyncs \in BOOLEAN

VARIABLES
  server,    \* state of every object behind the endpoints
  wstate,    \* a watcher is "new", "running" or "cancelled"
  store,     \* the indexer of every watcher's informer
  pending,   \* notifications each watcher's handler has not handled yet
  pc,        \* where each watcher's callback is
  rec,       \* the recorder generation held by a callback, 0 when none is
  fleet,     \* p.Clusters: who engaged a cluster and with which recorder
  recGen,    \* recorder manager: generations created per cluster
  recLive,   \* recorder manager: the last generation is in the map
  hooks,     \* clusters the lifecycle handlers have been told of
  provider,  \* what Provider.Start does: "runs", "returns", "stopped"
  late,      \* watchers not done when the recorder manager was stopped
  listed,    \* watchers of the URLs in the slice that is being reconciled
  budget     \* faults, changes, passes and cancellations so far

ending == <<provider, late>>
control == <<ending, listed>>
vars == <<server, wstate, store, pending, pc, rec, fleet, recGen, recLive,
          hooks, control, budget>>

\* A filtered provider engages ready objects only; without filters every
\* object counts as ready.
ObjectStates == {"absent", "unready", "ready"}
Accepts(state) == state = "ready"

Running(w) == wstate[w] = "running"
Idle(w) == pc[w] = "idle"
Drained(w) == Idle(w) /\ pending[w] = <<>>

\* The event in a watcher's hands and the cluster it is about.
Event(w) == Head(pending[w])
ClusterIn(w) == ClusterOf[Event(w).obj]

\* IndexKeys(ClusterIndexName, c) of the watcher's informer.
IndexKeys(w, c) == {o \in Objects : ClusterOf[o] = c /\ store[w][o] # "absent"}

Spend(what, bound) ==
  /\ budget[what] < bound
  /\ budget' = [budget EXCEPT ![what] = @ + 1]

\* A callback goes on at another place, or returns and the next event's turn
\* comes.
Goto(w, place) == pc' = [pc EXCEPT ![w] = place]

Return(w) ==
  /\ Goto(w, "idle")
  /\ pending' = [pending EXCEPT ![w] = Tail(@)]

-----------------------------------------------------------------------------
(* Faulty variants of actions below.  No specification uses them: each is  *)
(* a plausible mistake that one of the properties has to detect.           *)

\* Removing the handler takes the event from a running callback.
DropPendingAnytime(w) ==
  /\ wstate[w] = "cancelled" /\ pending[w] # <<>>
  /\ pending' = [pending EXCEPT ![w] = <<>>]
  /\ UNCHANGED <<control, server, wstate, store, pc, rec, fleet, recGen,
                 recLive, hooks, budget>>

\* Only AddFunc engages.
CheckClusterOnAdd(w) ==
  /\ Idle(w) /\ pending[w] # <<>>
  /\ Event(w).kind # "delete" /\ Accepts(Event(w).state)
  /\ Goto(w, IF fleet[ClusterIn(w)] = NoEntry /\ Event(w).kind = "add"
             THEN "recorder" ELSE "hooks")
  /\ UNCHANGED <<control, server, wstate, store, pending, rec, fleet, recGen,
                 recLive, hooks, budget>>

\* The manager hands out the provider it stopped.
GetRecorderStopped(w) ==
  /\ pc[w] = "recorder"
  /\ LET c == ClusterIn(w)
     IN  /\ recGen' = IF recGen[c] > 0 THEN recGen
                      ELSE [recGen EXCEPT ![c] = @ + 1]
         /\ recLive' = IF recGen[c] > 0 THEN recLive
                       ELSE [recLive EXCEPT ![c] = TRUE]
         /\ rec' = [rec EXCEPT ![w] = recGen'[c]]
  /\ Goto(w, "engage")
  /\ UNCHANGED <<control, server, wstate, store, pending, fleet, hooks, budget>>

\* Any deletion disengages the cluster.
ClusterGoneUnchecked(w) ==
  /\ Idle(w) /\ pending[w] # <<>> /\ Event(w).kind = "delete"
  /\ Goto(w, "stopRecorder")
  /\ UNCHANGED <<control, server, wstate, store, pending, rec, fleet, recGen,
                 recLive, hooks, budget>>

\* The recorder stays.
StopRecorderForgotten(w) ==
  /\ pc[w] = "stopRecorder"
  /\ Goto(w, "remove")
  /\ UNCHANGED <<control, server, wstate, store, pending, rec, fleet, recGen,
                 recLive, hooks, budget>>

\* The cluster stays.
RemoveClusterForgotten(w) ==
  /\ pc[w] = "remove"
  /\ Goto(w, "deleteHooks")
  /\ UNCHANGED <<control, server, wstate, store, pending, rec, fleet, recGen,
                 recLive, hooks, budget>>

\* The handlers are not told.
RemoveClusterReturns(w) ==
  /\ pc[w] = "remove"
  /\ fleet' = [fleet EXCEPT ![ClusterIn(w)] = NoEntry]
  /\ Return(w)
  /\ UNCHANGED <<control, server, wstate, store, rec, recGen, recLive, hooks,
                 budget>>

-----------------------------------------------------------------------------
Init ==
  /\ server \in [Objects -> ObjectStates]
  /\ wstate = [w \in Watchers |-> IF w \in Initial THEN "running" ELSE "new"]
  /\ store = [w \in Watchers |-> [o \in Objects |-> "absent"]]
  /\ pending = [w \in Watchers |-> <<>>]
  /\ pc = [w \in Watchers |-> "idle"]
  /\ rec = [w \in Watchers |-> 0]
  /\ fleet = [c \in Clusters |-> NoEntry]
  /\ recGen = [c \in Clusters |-> 0]
  /\ recLive = [c \in Clusters |-> FALSE]
  /\ hooks = {}
  /\ provider = "runs" /\ late = {} /\ listed = Initial
  /\ budget = [changes |-> 0, passes |-> 0, cancels |-> 0, engage |-> 0,
               lookup |-> 0]

-----------------------------------------------------------------------------
(* The objects, the informers and the reconciliation of endpoints.         *)

\* An object is created, changes or is deleted on the server.
ServerChange(o, state) ==
  /\ Spend("changes", MaxChanges)
  /\ state # server[o]
  /\ server' = [server EXCEPT ![o] = state]
  /\ UNCHANGED <<control, wstate, store, pending, pc, rec, fleet, recGen,
                 recLive, hooks>>

\* The informer's store catches up with one object and the handler gets an
\* event; a relist skips intermediate states.
Sync(w, o) ==
  /\ Running(w)
  /\ store[w][o] # server[o]
  /\ store' = [store EXCEPT ![w][o] = server[o]]
  /\ pending' = [pending EXCEPT ![w] = Append(@,
       [kind |-> IF server[o] = "absent" THEN "delete"
                 ELSE IF store[w][o] = "absent" THEN "add" ELSE "update",
        obj |-> o, state |-> server[o]])]
  /\ UNCHANGED <<control, server, wstate, pc, rec, fleet, recGen, recLive,
                 hooks, budget>>

\* The periodic resync repeats every stored object as an update.
Resync(w) ==
  /\ Resyncs
  /\ Running(w) /\ Drained(w)
  /\ LET stored == SetToSeq({o \in Objects : store[w][o] # "absent"})
     IN  /\ stored # <<>>
         /\ pending' = [pending EXCEPT ![w] = [i \in DOMAIN stored |->
              [kind |-> "update", obj |-> stored[i],
               state |-> store[w][stored[i]]]]]
  /\ UNCHANGED <<control, server, wstate, store, pc, rec, fleet, recGen,
                 recLive, hooks, budget>>

\* endpointSliceUpdate begins a pass over other URLs, after the last pass has
\* come to its end.  A URL that was dropped gets a new watcher.
NewPass(urls) ==
  /\ Spend("passes", MaxPasses)
  /\ provider # "stopped"
  /\ \A w \in Watchers : IF w \in listed THEN wstate[w] # "new" ELSE ~Running(w)
  /\ urls # listed /\ \A w \in urls : wstate[w] # "cancelled"
  /\ listed' = urls
  /\ UNCHANGED <<ending, server, wstate, store, pending, pc, rec, fleet, recGen,
                 recLive, hooks>>

\* First the pass starts the watchers that are missing: newWatchedEndpoint,
\* start.  Under a context that has ended its informer never gets an object.
StartWatcher(w) ==
  /\ w \in listed /\ wstate[w] = "new" /\ provider # "stopped"
  /\ wstate' = [wstate EXCEPT ![w] = "running"]
  /\ UNCHANGED <<control, server, store, pending, pc, rec, fleet, recGen,
                 recLive, hooks, budget>>

\* A start fails and is left to a later pass.
StartFails(w) ==
  /\ w \in listed /\ wstate[w] = "new" /\ provider # "stopped"
  /\ listed' = listed \ {w}
  /\ UNCHANGED <<ending, server, wstate, store, pending, pc, rec, fleet, recGen,
                 recLive, hooks, budget>>

\* Then it calls we.cancel() of the watchers whose URL is not listed;
\* stopAllWatchedEndpoints is a pass without URLs.
CancelWatcher(w) ==
  /\ Running(w) /\ w \notin listed
  /\ \A v \in listed : wstate[v] # "new"
  /\ Spend("cancels", MaxCancels)
  /\ wstate' = [wstate EXCEPT ![w] = "cancelled"]
  /\ UNCHANGED <<control, server, store, pending, pc, rec, fleet, recGen,
                 recLive, hooks>>

\* defer informer.RemoveEventHandler(handler): undelivered events are gone;
\* the callback in progress goes on.
DropPending(w) ==
  /\ wstate[w] = "cancelled" /\ Idle(w) /\ pending[w] # <<>>
  /\ pending' = [pending EXCEPT ![w] = <<>>]
  /\ UNCHANGED <<control, server, wstate, store, pc, rec, fleet, recGen,
                 recLive, hooks, budget>>

\* p.Clusters drops a cluster whose Start returned: it was engaged under the
\* context of a watcher that is cancelled (cluster.go:192-195).
Reap(c) ==
  /\ fleet[c] # NoEntry
  /\ wstate[fleet[c].by] = "cancelled"
  /\ fleet' = [fleet EXCEPT ![c] = NoEntry]
  /\ UNCHANGED <<control, server, wstate, store, pending, pc, rec, recGen,
                 recLive, hooks, budget>>

-----------------------------------------------------------------------------
(* The end of Provider.Start, which waits for no callback.                 *)

\* The context of every watcher, all derived from that of Start, ends.
ContextEnds ==
  wstate' = [w \in Watchers |-> IF Running(w) THEN "cancelled" ELSE wstate[w]]

\* p.cache.Start returns: its context was cancelled, or else it failed.
CacheReturns ==
  /\ provider = "runs"
  /\ Spend("cancels", MaxCancels)
  /\ provider' = "returns"
  /\ ContextEnds \/ UNCHANGED wstate
  /\ UNCHANGED <<server, store, pending, pc, rec, fleet, recGen, recLive, hooks,
                 late, listed>>

\* The deferred recorderManager.Stop, and after it the deferred cancel.
StopRecorders ==
  /\ provider = "returns"
  /\ recLive' = [c \in Clusters |-> FALSE]
  /\ late' = {w \in Watchers : Running(w) \/ ~Drained(w)}
  /\ provider' = "stopped"
  /\ ContextEnds
  /\ UNCHANGED <<server, store, pending, pc, rec, fleet, recGen, hooks, listed,
                 budget>>

-----------------------------------------------------------------------------
(* AddFunc and UpdateFunc.                                                 *)

\* The filter refuses the object: nothing else happens.
FilterRejects(w) ==
  /\ Idle(w) /\ pending[w] # <<>>
  /\ Event(w).kind # "delete" /\ ~Accepts(Event(w).state)
  /\ Return(w)
  /\ UNCHANGED <<control, server, wstate, store, rec, fleet, recGen, recLive,
                 hooks, budget>>

\* update asks p.Clusters.Get whether the cluster is known; a known one is
\* left alone, whoever engaged it.
CheckCluster(w) ==
  /\ Idle(w) /\ pending[w] # <<>>
  /\ Event(w).kind # "delete" /\ Accepts(Event(w).state)
  /\ Goto(w, IF fleet[ClusterIn(w)] = NoEntry THEN "recorder" ELSE "hooks")
  /\ UNCHANGED <<control, server, wstate, store, pending, rec, fleet, recGen,
                 recLive, hooks, budget>>

\* recorderManager.GetProvider returns the cluster's recorder or makes one.
GetRecorder(w) ==
  /\ pc[w] = "recorder"
  /\ LET c == ClusterIn(w)
     IN  /\ recGen' = IF recLive[c] THEN recGen
                      ELSE [recGen EXCEPT ![c] = @ + 1]
         /\ recLive' = [recLive EXCEPT ![c] = TRUE]
         /\ rec' = [rec EXCEPT ![w] = recGen'[c]]
  /\ Goto(w, "engage")
  /\ UNCHANGED <<control, server, wstate, store, pending, fleet, hooks, budget>>

\* NewCluster and p.Clusters.Add: the library refuses a name it has.
Engage(w) ==
  /\ pc[w] = "engage"
  /\ LET c == ClusterIn(w)
     IN  fleet' = IF fleet[c] # NoEntry THEN fleet
                  ELSE [fleet EXCEPT ![c] = [by |-> w, rec |-> rec[w]]]
  /\ Goto(w, "hooks")
  /\ rec' = [rec EXCEPT ![w] = 0]
  /\ UNCHANGED <<control, server, wstate, store, pending, recGen, recLive,
                 hooks, budget>>

\* GetProvider, NewCluster or Add fails: update returns the error and the
\* callback logs it.
EngageFails(w) ==
  /\ pc[w] \in {"recorder", "engage"}
  /\ Spend("engage", MaxEngageFaults)
  /\ Goto(w, "hooks")
  /\ rec' = [rec EXCEPT ![w] = 0]
  /\ UNCHANGED <<control, server, wstate, store, pending, fleet, recGen,
                 recLive, hooks>>

\* Handlers.RunOnAdd or RunOnUpdate, whatever update returned.
RunHooks(w) ==
  /\ pc[w] = "hooks"
  /\ hooks' = hooks \union {ClusterIn(w)}
  /\ Return(w)
  /\ UNCHANGED <<control, server, wstate, store, rec, fleet, recGen, recLive,
                 budget>>

-----------------------------------------------------------------------------
(* DeleteFunc.                                                             *)

\* GetSharedInformer or IndexKeys fails: the callback gives up.
LookupFails(w) ==
  /\ Idle(w) /\ pending[w] # <<>> /\ Event(w).kind = "delete"
  /\ Spend("lookup", MaxLookupFaults)
  /\ Return(w)
  /\ UNCHANGED <<control, server, wstate, store, rec, fleet, recGen, recLive,
                 hooks>>

\* The index still holds objects of the cluster: keep it.
ClusterStillServed(w) ==
  /\ Idle(w) /\ pending[w] # <<>> /\ Event(w).kind = "delete"
  /\ IndexKeys(w, ClusterIn(w)) # {}
  /\ Return(w)
  /\ UNCHANGED <<control, server, wstate, store, rec, fleet, recGen, recLive,
                 hooks, budget>>

\* The index is empty at this moment; the rest follows without a lock.
ClusterGone(w) ==
  /\ Idle(w) /\ pending[w] # <<>> /\ Event(w).kind = "delete"
  /\ IndexKeys(w, ClusterIn(w)) = {}
  /\ Goto(w, "stopRecorder")
  /\ UNCHANGED <<control, server, wstate, store, pending, rec, fleet, recGen,
                 recLive, hooks, budget>>

\* recorderManager.StopProvider.
StopRecorder(w) ==
  /\ pc[w] = "stopRecorder"
  /\ recLive' = [recLive EXCEPT ![ClusterIn(w)] = FALSE]
  /\ Goto(w, "remove")
  /\ UNCHANGED <<control, server, wstate, store, pending, rec, fleet, recGen,
                 hooks, budget>>

\* p.Clusters.Remove, whoever engaged the cluster.
RemoveCluster(w) ==
  /\ pc[w] = "remove"
  /\ fleet' = [fleet EXCEPT ![ClusterIn(w)] = NoEntry]
  /\ Goto(w, "deleteHooks")
  /\ UNCHANGED <<control, server, wstate, store, pending, rec, recGen, recLive,
                 hooks, budget>>

\* Handlers.RunOnDelete.
RunDeleteHooks(w) ==
  /\ pc[w] = "deleteHooks"
  /\ hooks' = hooks \ {ClusterIn(w)}
  /\ Return(w)
  /\ UNCHANGED <<control, server, wstate, store, rec, fleet, recGen, recLive,
                 budget>>

-----------------------------------------------------------------------------
\* The steps of a callback other than its injected failures.
Callback(w) ==
  \/ FilterRejects(w) \/ CheckCluster(w) \/ GetRecorder(w) \/ Engage(w)
  \/ RunHooks(w)
  \/ ClusterStillServed(w) \/ ClusterGone(w) \/ StopRecorder(w)
  \/ RemoveCluster(w) \/ RunDeleteHooks(w)

Next ==
  \/ \E o \in Objects, state \in ObjectStates : ServerChange(o, state)
  \/ \E w \in Watchers :
       \/ \E o \in Objects : Sync(w, o)
       \/ Resync(w) \/ DropPending(w)
       \/ StartWatcher(w) \/ StartFails(w) \/ CancelWatcher(w)
       \/ Callback(w) \/ EngageFails(w) \/ LookupFails(w)
  \/ \E urls \in SUBSET Watchers : NewPass(urls)
  \/ \E c \in Clusters : Reap(c)
  \/ CacheReturns \/ StopRecorders

Spec == Init /\ [][Next]_vars

\* Informers catch up, callbacks are scheduled and return, a stopped cluster
\* is dropped, the resync period passes again and again, and Start returns.
Fairness ==
  /\ \A w \in Watchers : /\ \A o \in Objects : WF_vars(Sync(w, o))
                         /\ WF_vars(Callback(w))
                         /\ WF_vars(Resync(w))
                         /\ WF_vars(DropPending(w))
  /\ \A c \in Clusters : WF_vars(Reap(c))
  /\ WF_vars(StopRecorders)

FairSpec == Spec /\ Fairness

-----------------------------------------------------------------------------
(* Properties.                                                             *)

\* Every variable has its type.
TypeOK ==
  /\ server \in [Objects -> ObjectStates]
  /\ wstate \in [Watchers -> {"new", "running", "cancelled"}]
  /\ store \in [Watchers -> [Objects -> ObjectStates]]
  /\ \A w \in Watchers : \A i \in DOMAIN pending[w] :
       pending[w][i] \in [kind : {"add", "update", "delete"}, obj : Objects,
                          state : ObjectStates]
  /\ pc \in [Watchers -> {"idle", "recorder", "engage", "hooks",
                          "stopRecorder", "remove", "deleteHooks"}]
  /\ \A w \in Watchers : pc[w] # "idle" => pending[w] # <<>>
  /\ rec \in [Watchers -> Nat]
  /\ fleet \in [Clusters -> [by : Watchers, rec : Nat] \union {NoEntry}]
  /\ recGen \in [Clusters -> Nat] /\ recLive \in [Clusters -> BOOLEAN]
  /\ hooks \subseteq Clusters
  /\ provider \in {"runs", "returns", "stopped"} /\ late \subseteq Watchers
  /\ listed \subseteq Watchers

\* The informers have caught up, no callback runs or waits, and no dead
\* cluster awaits its removal.
Quiet ==
  /\ \A w \in Watchers : Drained(w) /\ (Running(w) => store[w] = server)
  /\ \A c \in Clusters : fleet[c] # NoEntry => Running(fleet[c].by)

\* An engageable object of the cluster is in a running watcher's store.
Exposed(c) ==
  \E w \in Watchers, o \in Objects :
    Running(w) /\ ClusterOf[o] = c /\ Accepts(store[w][o])

\* "yields each logical cluster exposed via a virtual workspace as a cluster"
\* (provider.go:130-132): when the callbacks have handled everything, a
\* cluster with a ready object behind a running endpoint is engaged.
EngagedWhenQuiet == Quiet => \A c \in Clusters : Exposed(c) => fleet[c] # NoEntry

\* No ghost cluster (DeleteFunc, provider.go:484-520): a cluster engaged by a
\* running endpoint whose handler has nothing left to handle still has an
\* object in that endpoint's index, although the index is checked before, and
\* the cluster removed after, other endpoints' callbacks ran.
NoGhostCluster ==
  \A c \in Clusters :
    fleet[c] # NoEntry /\ Running(fleet[c].by) /\ Drained(fleet[c].by)
      => IndexKeys(fleet[c].by, c) # {}

\* There has been one endpoint only and no engagement failed.  A cancelled
\* endpoint and a failed engagement leave the recorder behind, and two
\* endpoints that expose one cluster share its recorder.
Undisturbed ==
  /\ budget.engage = 0 /\ provider = "runs"
  /\ \E w \in Watchers : Running(w) /\ \A v \in Watchers \ {w} : wstate[v] = "new"

\* A callback is between stopping the cluster's recorder and removing it.
Disengaging(c) ==
  \E w \in Watchers : pc[w] = "remove" /\ ClusterIn(w) = c

\* With one endpoint an engaged cluster has a recorder that still records
\* (provider.go:517-518, 544-555): nothing stops it but a callback about to
\* remove the cluster.
RecorderUsable ==
  Undisturbed => \A c \in Clusters : fleet[c] # NoEntry =>
    Disengaging(c) \/ (recLive[c] /\ fleet[c].rec = recGen[c])

\* "creating cluster-scoped broadcasters on engagement and stopping them on
\* disengagement" (provider.go:146-147): when one endpoint's callbacks are
\* done, only engaged clusters have a broadcaster that was not stopped.
RecorderStoppedWithCluster ==
  Undisturbed /\ Quiet => \A c \in Clusters : recLive[c] => fleet[c] # NoEntry

\* The provider's end stops the recorders (provider.go:235-239): one that lives
\* on, or is made after it, is of a callback the end did not wait for.
RecordersEndWithProvider ==
  provider = "stopped" /\ late = {} => \A c \in Clusters : ~recLive[c]

\* The recorders follow the clusters (provider.go:146-147, 235-239, 517-518,
\* 544-555): an engaged cluster's recorder records, and none is left when the
\* cluster, or the provider, has come to its end.
RecordersFollowClusters ==
  RecorderUsable /\ RecorderStoppedWithCluster /\ RecordersEndWithProvider

\* The handlers' view (handlers.go:27-41): when one endpoint's callbacks are done,
\* the handlers were last told of a deletion for exactly the clusters that have
\* no object left (or none that ever passed the filter), so that a store fed
\* by OnAdd and OnDelete names no deleted cluster.
HooksMatchEndpoints ==
  Undisturbed /\ Quiet => \A c \in Clusters :
    /\ fleet[c] # NoEntry => c \in hooks
    /\ c \in hooks => \E w \in Watchers : IndexKeys(w, c) # {}

\* The clusters heal: under the informers' periodic resync, once objects and
\* endpoints stop changing and calls stop failing, every cluster with a ready
\* object behind a running endpoint is engaged under a running watcher, after
\* endpoints were replaced and engagements failed (provider.go:466-483,
\* 536-560).
EventuallyEngaged ==
  <>[](\A c \in Clusters : Exposed(c) =>
         fleet[c] # NoEntry /\ Running(fleet[c].by))

\* A cluster that lost its last object, its endpoint or the provider is
\* disengaged (provider.go:233-234, 513-518; cluster.go:192-195), as long as no
\* index lookup fails: a failed one (provider.go:501-511) is not made up for,
\* and the run has none.
EventuallyDisengaged ==
  <>[](\A c \in Clusters : fleet[c] # NoEntry =>
         \E w \in Watchers : Running(w) /\ IndexKeys(w, c) # {})
=============================================================================
