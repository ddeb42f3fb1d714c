------------------------------ MODULE PathAware ------------------------------
(***************************************************************************)
(* Lookup of clusters by workspace path (path-aware/provider.go and        *)
(* pkg/paths/paths.go): the lifecycle handler pathHandler is called by the *)
(* informer callbacks of every watched endpoint and maintains a locked     *)
(* path store and, beside it, the unlocked set registeredPaths.            *)
(*                                                                         *)
(* One object stands for one logical cluster.  The kcp server gives a      *)
(* workspace path to at most one existing cluster and may annotate an      *)
(* object with its path after it was created.                              *)
(***************************************************************************)
EXTENDS Naturals, Sequences, FiniteSets, SequencesExt

CONSTANTS
  Watchers,    \* watched endpoints, one callback goroutine each
  Clusters,    \* logical clusters, also values of the path store
  Paths,       \* workspace paths
  Home,        \* the endpoint that exposes a cluster
  PathOf,      \* the path of a cluster's workspace
  Absent,      \* the object does not exist
  NoCluster,   \* the path store has no entry
  MaxChanges,  \* bound: changes of objects on the server
  MaxBreaks,   \* bound: watches that break and are followed by a relist
  MaxFaults,   \* bound: engagements that fail
  MaxMissed    \* bound: clusters with a deletion whose check failed

ASSUME ClustersAssumption == IsFiniteSet(Clusters)
ASSUME HomeAssumption == Home \in [Clusters -> Watchers]
ASSUME PathOfAssumption == PathOf \in [Clusters -> Paths]
ASSUME MarksAssumption == NoCluster \notin Clusters
ASSUME BoundsAssumption == {MaxChanges, MaxBreaks, MaxFaults, MaxMissed} \subseteq Nat

VARIABLES
  server,      \* the objects behind the endpoints
  used,        \* clusters that ever had an object
  indexer,     \* the objects in the informers' stores
  watching,    \* endpoints whose watch is established
  pending,     \* notifications each endpoint's handler has not handled yet
  pc,          \* where each endpoint's callback is
  engaged,     \* p.Clusters of the wrapped provider
  paths,       \* Store.paths
  registered,  \* pathHandler.registeredPaths
  budget       \* changes, breaks and faults so far, and the clusters of
               \* which a deletion was missed

envVars == <<server, used, indexer, watching>>
vars == <<envVars, pending, pc, engaged, paths, registered, budget>>

\* What the callbacks look at: the Ready condition and the path annotation.
Versions == [ready : BOOLEAN, path : BOOLEAN]
Objects == Versions \union {Absent}
Events == [kind : {"add", "update", "delete"}, cluster : Clusters,
           version : Versions]

Exists(c) == server[c] # Absent
Event(w) == Head(pending[w])
Path(w) == PathOf[Event(w).cluster]
Idle(w) == pc[w] = "idle" /\ pending[w] # <<>>

\* The callback goes on, or it returns and the next notification is handled.
Goto(w, place) == pc' = [pc EXCEPT ![w] = place] /\ UNCHANGED pending
Return(w) ==
  /\ pc' = [pc EXCEPT ![w] = "idle"]
  /\ pending' = [pending EXCEPT ![w] = Tail(@)]

-----------------------------------------------------------------------------
(* Faulty variants of actions below, used by no specification.             *)

\* OnDelete leaves registeredPaths alone.
UnmarkPathForgotten(w) ==
  /\ pc[w] = "unmark"
  /\ Return(w)
  /\ UNCHANGED <<envVars, engaged, paths, registered, budget>>

\* OnUpdate never adds a path.
HasPathOnAdd(w) ==
  Event(w).version.path /\ Event(w).kind = "add"

-----------------------------------------------------------------------------
Init ==
  /\ server \in [Clusters -> Objects]
  /\ \A c, d \in Clusters :
       Exists(c) /\ Exists(d) /\ PathOf[c] = PathOf[d] => c = d
  /\ used = {c \in Clusters : Exists(c)}
  /\ indexer = [c \in Clusters |-> Absent]
  /\ watching = {}
  /\ pending = [w \in Watchers |-> <<>>]
  /\ pc = [w \in Watchers |-> "idle"]
  /\ engaged = {}
  /\ paths = [p \in Paths |-> NoCluster]
  /\ registered = {}
  /\ budget = [changes |-> 0, breaks |-> 0, faults |-> 0, missed |-> {}]

-----------------------------------------------------------------------------
(* The server and the informers.                                           *)

\* What an informer tells its handlers when an object it stores as old is
\* now new; a deletion carries the last version it knew.
Notice(c, old, new) ==
  [kind |-> IF old = Absent THEN "add"
            ELSE IF new = Absent THEN "delete" ELSE "update",
   cluster |-> c,
   version |-> IF new = Absent THEN old ELSE new]

\* An object is created, changed or deleted.  A path is free before it is
\* used again, an annotation stays, and an object created again in the same
\* cluster is annotated at once.  An established watch delivers.
Change(c, v) ==
  /\ budget.changes < MaxChanges
  /\ v # server[c]
  /\ IF Exists(c)
       THEN v # Absent /\ server[c].path => v.path
       ELSE /\ c \in used => v.path
            /\ \A d \in Clusters : PathOf[d] = PathOf[c] => ~Exists(d)
  /\ server' = [server EXCEPT ![c] = v]
  /\ used' = used \union {c}
  /\ IF Home[c] \in watching
       THEN /\ indexer' = [indexer EXCEPT ![c] = v]
            /\ pending' = [pending EXCEPT ![Home[c]] =
                             Append(@, Notice(c, server[c], v))]
       ELSE UNCHANGED <<indexer, pending>>
  /\ budget' = [budget EXCEPT !.changes = @ + 1]
  /\ UNCHANGED <<watching, pc, engaged, paths, registered>>

\* The watch is interrupted: changes from now on are seen by the relist.
Break(w) ==
  /\ budget.breaks < MaxBreaks
  /\ w \in watching
  /\ watching' = watching \ {w}
  /\ budget' = [budget EXCEPT !.breaks = @ + 1]
  /\ UNCHANGED <<server, used, indexer, pending, pc, engaged, paths,
                 registered>>

\* The informer lists and replaces its store: the listed objects are
\* announced first, the ones that are gone last.
Relist(w) ==
  /\ w \notin watching
  /\ watching' = watching \union {w}
  /\ LET mine   == {c \in Clusters : Home[c] = w}
         listed == SetToSeq({c \in mine : Exists(c)})
         gone   == SetToSeq({c \in mine : ~Exists(c) /\ indexer[c] # Absent})
         all    == listed \o gone
     IN  /\ indexer' = [c \in Clusters |-> IF c \in mine THEN server[c]
                                           ELSE indexer[c]]
         /\ pending' = [pending EXCEPT ![w] = @ \o [i \in DOMAIN all |->
              Notice(all[i], indexer[all[i]], server[all[i]])]]
  /\ UNCHANGED <<server, used, pc, engaged, paths, registered, budget>>

\* The informer's periodic resync repeats its store as updates.
Resync(w) ==
  /\ pc[w] = "idle" /\ pending[w] = <<>>
  /\ LET stored == SetToSeq({c \in Clusters : Home[c] = w
                                               /\ indexer[c] # Absent})
     IN  /\ stored # <<>>
         /\ pending' = [pending EXCEPT ![w] = [i \in DOMAIN stored |->
              Notice(stored[i], indexer[stored[i]], indexer[stored[i]])]]
  /\ UNCHANGED <<envVars, pc, engaged, paths, registered, budget>>

-----------------------------------------------------------------------------
(* The callbacks of watchedEndpoint.start with the path handler's hooks.   *)

\* The Ready filter rejects the object: no hook runs.
FilterRejects(w) ==
  /\ Idle(w) /\ Event(w).kind # "delete" /\ ~Event(w).version.ready
  /\ Return(w)
  /\ UNCHANGED <<envVars, engaged, paths, registered, budget>>

\* we.update engages the cluster unless it is engaged, then the hook runs.
Engage(w) ==
  /\ Idle(w) /\ Event(w).kind # "delete" /\ Event(w).version.ready
  /\ engaged' = engaged \union {Event(w).cluster}
  /\ Goto(w, "hook")
  /\ UNCHANGED <<envVars, paths, registered, budget>>

\* we.update fails, which is logged; the hook runs nevertheless.
EngageFails(w) ==
  /\ Idle(w) /\ Event(w).kind # "delete" /\ Event(w).version.ready
  /\ Event(w).cluster \notin engaged
  /\ budget.faults < MaxFaults
  /\ budget' = [budget EXCEPT !.faults = @ + 1]
  /\ Goto(w, "hook")
  /\ UNCHANGED <<envVars, engaged, paths, registered>>

\* OnAdd wants a path, OnUpdate one that is not registered.
HasPathToAdd(w) ==
  /\ Event(w).version.path
  /\ Event(w).kind = "update" => Path(w) \notin registered

\* The early returns of OnAdd and OnUpdate.
SkipPath(w) ==
  /\ pc[w] = "hook" /\ ~HasPathToAdd(w)
  /\ Return(w)
  /\ UNCHANGED <<envVars, engaged, paths, registered, budget>>

\* p.pathStore.Add(path, cluster)
AddPath(w) ==
  /\ pc[w] = "hook" /\ HasPathToAdd(w)
  /\ paths' = [paths EXCEPT ![Path(w)] = Event(w).cluster]
  /\ Goto(w, "mark")
  /\ UNCHANGED <<envVars, engaged, registered, budget>>

\* p.registeredPaths[path] = struct{}{}
MarkPath(w) ==
  /\ pc[w] = "mark"
  /\ registered' = registered \union {Path(w)}
  /\ Return(w)
  /\ UNCHANGED <<envVars, engaged, paths, budget>>

\* DeleteFunc cannot get the informer or its index keys, logs it and returns:
\* the cluster stays engaged and its path stored, although it may be gone.
LookupFails(w) ==
  /\ Idle(w) /\ Event(w).kind = "delete"
  /\ Cardinality(budget.missed) < MaxMissed
  /\ budget' = [budget EXCEPT !.missed = @ \union {Event(w).cluster}]
  /\ Return(w)
  /\ UNCHANGED <<envVars, engaged, paths, registered>>

\* DeleteFunc finds the cluster's object in the indexer again.
KeepCluster(w) ==
  /\ Idle(w) /\ Event(w).kind = "delete"
  /\ indexer[Event(w).cluster] # Absent
  /\ Return(w)
  /\ UNCHANGED <<envVars, engaged, paths, registered, budget>>

\* we.removeCluster, then OnDelete, which returns if there is no path.
RemoveCluster(w) ==
  /\ Idle(w) /\ Event(w).kind = "delete"
  /\ indexer[Event(w).cluster] = Absent
  /\ engaged' = engaged \ {Event(w).cluster}
  /\ IF Event(w).version.path THEN Goto(w, "unhook") ELSE Return(w)
  /\ UNCHANGED <<envVars, paths, registered, budget>>

\* p.pathStore.Remove(path)
RemovePath(w) ==
  /\ pc[w] = "unhook"
  /\ paths' = [paths EXCEPT ![Path(w)] = NoCluster]
  /\ Goto(w, "unmark")
  /\ UNCHANGED <<envVars, engaged, registered, budget>>

\* delete(p.registeredPaths, path)
UnmarkPath(w) ==
  /\ pc[w] = "unmark"
  /\ registered' = registered \ {Path(w)}
  /\ Return(w)
  /\ UNCHANGED <<envVars, engaged, paths, budget>>

-----------------------------------------------------------------------------
Callback(w) ==
  \/ FilterRejects(w) \/ Engage(w) \/ EngageFails(w)
  \/ SkipPath(w) \/ AddPath(w) \/ MarkPath(w)
  \/ LookupFails(w) \/ KeepCluster(w) \/ RemoveCluster(w)
  \/ RemovePath(w) \/ UnmarkPath(w)

Next ==
  \/ \E c \in Clusters, v \in Objects : Change(c, v)
  \/ \E w \in Watchers : Break(w) \/ Relist(w) \/ Resync(w) \/ Callback(w)

Spec == Init /\ [][Next]_vars

\* Callbacks run, an interrupted watch is established again, and informers
\* resync; the server and faults owe nothing.
FairSpec ==
  /\ Spec
  /\ \A w \in Watchers : /\ WF_vars(Callback(w))
                         /\ WF_vars(Relist(w))
                         /\ WF_vars(Resync(w))

-----------------------------------------------------------------------------
(* Properties.                                                             *)

\* "registeredPaths tracks which paths have already been added to pathStore"
\* (path-aware/provider.go:95): whenever no hook is between its two writes,
\* the set and the store agree; a path in the set but not in the store would
\* never be added again by OnUpdate.
RegisteredPathsAreStored ==
  (\A w \in Watchers : pc[w] \notin {"mark", "unmark"}) =>
     registered = {p \in Paths : paths[p] # NoCluster}

\* Provider.Get called with a path: the store's cluster, if it is engaged.
Get(p) == IF paths[p] \in engaged THEN paths[p] ELSE NoCluster

\* Path-awareness of the wrapper (path-aware/provider.go:73-81, 98-135): once
\* the server stops changing, Get finds every ready and annotated cluster by
\* its path, and finds no cluster that is gone or has another path, also when
\* the path was another cluster's before, when the annotation came late, when
\* changes were only seen by a relist and when engaging failed once.  A
\* deletion whose check failed (provider.go:501-511) is not made up for: its
\* cluster may be found for ever, and may keep the next cluster of the same
\* path, annotated late, from being found.
EventuallyResolved ==
  <>[](/\ \A c \in Clusters :
            Exists(c) /\ server[c] = [ready |-> TRUE, path |-> TRUE]
              => \/ Get(PathOf[c]) = c
                 \/ \E d \in budget.missed \ {c} : PathOf[d] = PathOf[c]
       /\ \A p \in Paths : Get(p) # NoCluster =>
            /\ PathOf[Get(p)] = p
            /\ Exists(Get(p)) \/ Get(p) \in budget.missed)

=============================================================================
