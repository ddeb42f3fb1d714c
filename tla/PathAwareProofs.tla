--------------------------- MODULE PathAwareProofs ---------------------------
(***************************************************************************)
(* Proofs about PathAware: for any endpoints, clusters and paths, as long  *)
(* as no path is used behind two endpoints, the set registeredPaths and    *)
(* the path store agree.  The hypothesis is the point: MCPathAwareShards   *)
(* shows that a path that moves between two endpoints breaks it.           *)
(***************************************************************************)
EXTENDS PathAware, FiniteSetTheorems, TLAPS

\* Clusters that use the same path, one after the other, are behind the same
\* endpoint.
PathsStayHome ==
  \A c, d \in Clusters : PathOf[c] = PathOf[d] => Home[c] = Home[d]

-----------------------------------------------------------------------------
(* The inductive invariant.                                                *)

\* The notifications of an endpoint are about its own clusters.
OwnEvents(w) == {e \in Events : Home[e.cluster] = w}

Places == {"idle", "hook", "mark", "unhook", "unmark"}

TypeShape ==
  /\ server \in [Clusters -> Objects]
  /\ indexer \in [Clusters -> Objects]
  /\ DOMAIN pending = Watchers
  /\ \A w \in Watchers : pending[w] \in Seq(OwnEvents(w))
  /\ pc \in [Watchers -> Places]
  /\ paths \in [Paths -> Clusters \union {NoCluster}]
  /\ registered \subseteq Paths

\* A callback is about the first notification, and between the two writes of
\* a hook the first one is done.
CallbackShape ==
  \A w \in Watchers :
    /\ pc[w] # "idle" => pending[w] # <<>>
    /\ pc[w] = "mark" => paths[Path(w)] # NoCluster
    /\ pc[w] = "unmark" => paths[Path(w)] = NoCluster

\* Set and store differ only in the path of a hook between its two writes.
PathShape ==
  \A p \in Paths :
    \/ p \in registered <=> paths[p] # NoCluster
    \/ \E w \in Watchers : pc[w] \in {"mark", "unmark"} /\ Path(w) = p

IInv == TypeShape /\ CallbackShape /\ PathShape

-----------------------------------------------------------------------------
(* Facts about the operators.                                              *)

\* SetToSeq of clusters is a sequence of them.
LEMMA SequenceOfClusters ==
  ASSUME NEW S \in SUBSET Clusters
  PROVE  SetToSeq(S) \in Seq(S)
<1>1. IsFiniteSet(S)
  BY ClustersAssumption, FS_Subset
<1>2. Cardinality(S) \in Nat /\ ExistsBijection(1..Cardinality(S), S)
  BY <1>1, FS_CardinalityType
<1>3. \E f \in [1..Cardinality(S) -> S] : IsInjective(f)
  BY <1>2 DEF ExistsBijection, Bijection, Injection
<1>4. SetToSeq(S) \in [1..Cardinality(S) -> S]
  BY <1>3 DEF SetToSeq
<1> QED  BY <1>2, <1>4

\* What an informer announces about an object it has or had is a notification.
LEMMA NoticeType ==
  ASSUME NEW c \in Clusters, NEW old \in Objects, NEW new \in Objects,
         old # Absent \/ new # Absent
  PROVE  Notice(c, old, new) \in OwnEvents(Home[c])
<1>1. (IF new = Absent THEN old ELSE new) \in Versions
  BY DEF Objects
<1> QED  BY <1>1 DEF Notice, OwnEvents, Events

\* The endpoint of a callback's path is the callback's own.
LEMMA PathsApart ==
  ASSUME PathsStayHome, TypeShape, NEW v \in Watchers, NEW w \in Watchers,
         pending[v] # <<>>, pending[w] # <<>>, v # w
  PROVE  Path(v) # Path(w)
<1>1. Event(v) \in OwnEvents(v) /\ Event(w) \in OwnEvents(w)
  BY DEF TypeShape, Event
<1>2. /\ Event(v).cluster \in Clusters /\ Home[Event(v).cluster] = v
      /\ Event(w).cluster \in Clusters /\ Home[Event(w).cluster] = w
  BY <1>1 DEF OwnEvents, Events
<1> QED  BY <1>2 DEF PathsStayHome, Path

\* A callback's event and path have their types.
LEMMA EventType ==
  ASSUME TypeShape, NEW w \in Watchers, pending[w] # <<>>
  PROVE  /\ Event(w).cluster \in Clusters
         /\ Path(w) \in Paths
         /\ Tail(pending[w]) \in Seq(OwnEvents(w))
<1>1. Event(w) \in OwnEvents(w)
  BY DEF TypeShape, Event
<1>2. Event(w).cluster \in Clusters
  BY <1>1 DEF OwnEvents, Events
<1>3. Tail(pending[w]) \in Seq(OwnEvents(w))
  BY DEF TypeShape
<1> QED  BY <1>2, <1>3, PathOfAssumption DEF Path

-----------------------------------------------------------------------------
(* The steps of the server and the informers.                              *)

\* They append notifications and leave the callbacks and paths alone.
EnvStep ==
  /\ UNCHANGED <<pc, paths, registered>>
  /\ server' \in [Clusters -> Objects] /\ indexer' \in [Clusters -> Objects]
  /\ DOMAIN pending' = Watchers
  /\ \A w \in Watchers :
       /\ pending'[w] \in Seq(OwnEvents(w))
       /\ pending[w] # <<>> =>
            pending'[w] # <<>> /\ Head(pending'[w]) = Head(pending[w])

LEMMA ChangeIsEnv ==
  ASSUME TypeShape, NEW c \in Clusters, NEW v \in Objects, Change(c, v)
  PROVE  EnvStep
<1> USE DEF TypeShape
<1>1. Home[c] \in Watchers
  BY HomeAssumption
<1>2. Notice(c, server[c], v) \in OwnEvents(Home[c])
  BY NoticeType DEF Change
<1>3. /\ UNCHANGED <<pc, paths, registered>>
      /\ server' \in [Clusters -> Objects] /\ indexer' \in [Clusters -> Objects]
  BY DEF Change
<1>4. CASE Home[c] \in watching
  <2> DEFINE w == Home[c]
             e == Notice(c, server[c], v)
  <2>1. pending' = [pending EXCEPT ![w] = Append(@, e)]
    BY <1>4 DEF Change
  <2>2. w \in Watchers /\ e \in OwnEvents(w)
    BY <1>1, <1>2
  <2> HIDE DEF w, e
  <2>3. /\ pending'[w] = Append(pending[w], e)
        /\ \A u \in Watchers : u # w => pending'[u] = pending[u]
    BY <2>1, <2>2
  <2>4. /\ Append(pending[w], e) \in Seq(OwnEvents(w))
        /\ Append(pending[w], e) # <<>>
        /\ pending[w] # <<>> => Head(Append(pending[w], e)) = Head(pending[w])
    <3> DEFINE s == pending[w]
               S == OwnEvents(w)
    <3>1. s \in Seq(S) /\ e \in S
      BY <2>2
    <3> HIDE DEF s, S
    <3>2. Append(s, e) \in Seq(S) /\ Len(Append(s, e)) = Len(s) + 1
      BY <3>1
    <3>3. Append(s, e) # <<>>
      <4>1. Len(s) \in Nat
        BY <3>1
      <4>2. Len(Append(s, e)) # 0
        BY <3>2, <4>1
      <4>3. \A t : Len(t) # 0 => t # <<>>
        OBVIOUS
      <4> QED  BY <4>2, <4>3, Zenon
    <3>4. ASSUME s # <<>>  PROVE Head(Append(s, e)) = Head(s)
      <4>1. 1 \in 1..Len(s)
        BY <3>1, <3>4
      <4>2. Append(s, e)[1] = s[1]
        BY <3>1, <4>1
      <4> QED  BY <3>1, <3>2, <3>3, <3>4, <4>2
    <3> QED  BY <3>2, <3>3, <3>4 DEF s, S
  <2> QED  BY <1>3, <2>1, <2>2, <2>3, <2>4 DEF EnvStep
<1>5. CASE Home[c] \notin watching
  BY <1>3, <1>5 DEF Change, EnvStep
<1> QED  BY <1>4, <1>5

LEMMA RelistIsEnv ==
  ASSUME TypeShape, NEW w \in Watchers, Relist(w)
  PROVE  EnvStep
<1> USE DEF TypeShape
<1> DEFINE mine   == {c \in Clusters : Home[c] = w}
           listed == SetToSeq({c \in mine : Exists(c)})
           gone   == SetToSeq({c \in mine : ~Exists(c) /\ indexer[c] # Absent})
           all    == listed \o gone
           news   == [i \in DOMAIN all |->
                        Notice(all[i], indexer[all[i]], server[all[i]])]
           told   == {c \in mine : server[c] # Absent \/ indexer[c] # Absent}
<1>1. listed \in Seq(told) /\ gone \in Seq(told)
  <2>1. listed \in Seq({c \in mine : Exists(c)})
    BY SequenceOfClusters
  <2>2. gone \in Seq({c \in mine : ~Exists(c) /\ indexer[c] # Absent})
    BY SequenceOfClusters
  <2> HIDE DEF listed, gone
  <2> QED  BY <2>1, <2>2 DEF Exists
<1>2. all \in Seq(told)
  <2> HIDE DEF listed, gone, told
  <2> QED  BY <1>1
<1>3. \A c \in told : Notice(c, indexer[c], server[c]) \in OwnEvents(w)
  BY NoticeType
<1> HIDE DEF all, told
<1>4. news \in Seq(OwnEvents(w))
  BY <1>2, <1>3
<1>5. /\ pending' = [pending EXCEPT ![w] = @ \o news]
      /\ UNCHANGED <<pc, paths, registered, server>>
      /\ indexer' \in [Clusters -> Objects]
  BY DEF Relist, all
<1> HIDE DEF news
<1> QED  BY <1>4, <1>5 DEF EnvStep

LEMMA ResyncIsEnv ==
  ASSUME TypeShape, NEW w \in Watchers, Resync(w)
  PROVE  EnvStep
<1> USE DEF TypeShape
<1> DEFINE mine == {c \in Clusters : Home[c] = w /\ indexer[c] # Absent}
           stored == SetToSeq(mine)
           news == [i \in DOMAIN stored |->
                      Notice(stored[i], indexer[stored[i]], indexer[stored[i]])]
<1>1. stored \in Seq(mine)
  BY SequenceOfClusters
<1>2. \A c \in mine : Notice(c, indexer[c], indexer[c]) \in OwnEvents(w)
  BY NoticeType
<1> HIDE DEF stored, mine
<1>3. news \in Seq(OwnEvents(w))
  BY <1>1, <1>2
<1>4. /\ pending[w] = <<>> /\ pending' = [pending EXCEPT ![w] = news]
      /\ UNCHANGED <<pc, paths, registered, server, indexer>>
  BY DEF Resync, stored, mine, envVars
<1> HIDE DEF news
<1> QED  BY <1>3, <1>4 DEF EnvStep

LEMMA EnvKeepsIInv ==
  ASSUME IInv, EnvStep
  PROVE  IInv'
<1>1. TypeShape'
  BY DEF IInv, TypeShape, EnvStep
<1>2. \A w \in Watchers : pending[w] # <<>> => Path(w)' = Path(w)
  BY DEF EnvStep, Path, Event
<1>3. CallbackShape'
  BY <1>2 DEF IInv, CallbackShape, EnvStep
<1>4. PathShape'
  BY <1>2 DEF IInv, CallbackShape, PathShape, EnvStep
<1> QED  BY <1>1, <1>3, <1>4 DEF IInv

-----------------------------------------------------------------------------
(* The steps of the callbacks.                                             *)

\* The other callbacks keep their event; w moves on or returns.
LEMMA OthersKeepPath ==
  ASSUME TypeShape, NEW w \in Watchers, NEW place \in Places,
         pending[w] # <<>>, Goto(w, place) \/ Return(w)
  PROVE  /\ \A v \in Watchers : v # w => /\ pc'[v] = pc[v]
                                         /\ pending'[v] = pending[v]
                                         /\ Path(v)' = Path(v)
         /\ DOMAIN pending' = Watchers /\ pc' \in [Watchers -> Places]
         /\ \A v \in Watchers : pending'[v] \in Seq(OwnEvents(v))
         /\ Return(w) => pc'[w] = "idle"
         /\ Goto(w, place) => pc'[w] = place /\ pending'[w] = pending[w]
                              /\ Path(w)' = Path(w)
<1> USE DEF TypeShape, Places
<1>1. CASE Goto(w, place)
  BY <1>1 DEF Goto, Return, Path, Event
<1>2. CASE Return(w)
  <2>1. Tail(pending[w]) \in Seq(OwnEvents(w))
    BY EventType
  <2> QED  BY <2>1, <1>2 DEF Goto, Return, Path, Event
<1> QED  BY <1>1, <1>2

\* A callback step that writes neither the path store nor the set.
LEMMA QuietStep ==
  ASSUME IInv, NEW w \in Watchers, pending[w] # <<>>,
         pc[w] \notin {"mark", "unmark"},
         UNCHANGED <<server, indexer, paths, registered>>,
         Goto(w, "hook") \/ Goto(w, "unhook") \/ Return(w)
  PROVE  IInv'
<1> USE DEF IInv
<1>1. PICK place \in {"hook", "unhook"} : Goto(w, place) \/ Return(w)
  OBVIOUS
<1>2. /\ \A v \in Watchers : v # w => /\ pc'[v] = pc[v]
                                      /\ pending'[v] = pending[v]
                                      /\ Path(v)' = Path(v)
      /\ DOMAIN pending' = Watchers /\ pc' \in [Watchers -> Places]
      /\ \A v \in Watchers : pending'[v] \in Seq(OwnEvents(v))
      /\ \/ pc'[w] = "idle"
         \/ pc'[w] = place /\ pending'[w] = pending[w]
  BY <1>1, OthersKeepPath DEF Places
<1>3. TypeShape'
  BY <1>2 DEF TypeShape
<1>4. CallbackShape'
  BY <1>2 DEF CallbackShape
<1>5. PathShape'
  BY <1>2 DEF PathShape
<1> QED  BY <1>3, <1>4, <1>5

\* A hook writes the path store and goes on to the set.
LEMMA StoreStep ==
  ASSUME IInv, PathsStayHome, NEW w \in Watchers,
         NEW value \in Clusters \union {NoCluster}, NEW place \in {"mark", "unmark"},
         pc[w] \in {"hook", "unhook"},
         place = "mark" <=> value # NoCluster,
         paths' = [paths EXCEPT ![Path(w)] = value], Goto(w, place),
         UNCHANGED <<server, indexer, registered>>
  PROVE  IInv'
<1> USE DEF IInv
<1>1. pending[w] # <<>>
  BY DEF CallbackShape
<1>2. /\ \A v \in Watchers : v # w => /\ pc'[v] = pc[v]
                                      /\ pending'[v] = pending[v]
                                      /\ Path(v)' = Path(v)
      /\ DOMAIN pending' = Watchers /\ pc' \in [Watchers -> Places]
      /\ \A v \in Watchers : pending'[v] \in Seq(OwnEvents(v))
      /\ pc'[w] = place /\ pending'[w] = pending[w] /\ Path(w)' = Path(w)
  BY <1>1, OthersKeepPath DEF Places
<1>3. Path(w) \in Paths
  BY <1>1, EventType
<1>4. \A v \in Watchers : v # w /\ pc[v] # "idle" => Path(v) # Path(w)
  BY <1>1, PathsApart DEF CallbackShape
<1>5. /\ paths'[Path(w)] = value
      /\ \A p \in Paths : p # Path(w) => paths'[p] = paths[p]
  BY <1>3 DEF TypeShape
<1>6. TypeShape'
  BY <1>2 DEF TypeShape
<1>7. CallbackShape'
  <2> SUFFICES ASSUME NEW v \in Watchers
               PROVE  /\ pc'[v] # "idle" => pending'[v] # <<>>
                      /\ pc'[v] = "mark" => paths'[Path(v)'] # NoCluster
                      /\ pc'[v] = "unmark" => paths'[Path(v)'] = NoCluster
    BY DEF CallbackShape
  <2>1. CASE v = w
    BY <2>1, <1>1, <1>2, <1>5
  <2>2. CASE v # w
    <3>1. pc[v] # "idle" => paths'[Path(v)] = paths[Path(v)]
      BY <2>2, <1>4, <1>5, EventType DEF CallbackShape
    <3> QED  BY <3>1, <2>2, <1>2 DEF CallbackShape
  <2> QED  BY <2>1, <2>2
<1>8. PathShape'
  BY <1>2, <1>5 DEF PathShape
<1> QED  BY <1>6, <1>7, <1>8

\* A hook writes the set and returns.
LEMMA MarkStep ==
  ASSUME IInv, PathsStayHome, NEW w \in Watchers,
         \/ pc[w] = "mark" /\ registered' = registered \union {Path(w)}
         \/ pc[w] = "unmark" /\ registered' = registered \ {Path(w)},
         Return(w), UNCHANGED <<server, indexer, paths>>
  PROVE  IInv'
<1> USE DEF IInv
<1>1. pending[w] # <<>>
  BY DEF CallbackShape
<1>2. /\ \A v \in Watchers : v # w => /\ pc'[v] = pc[v]
                                      /\ pending'[v] = pending[v]
                                      /\ Path(v)' = Path(v)
      /\ DOMAIN pending' = Watchers /\ pc' \in [Watchers -> Places]
      /\ \A v \in Watchers : pending'[v] \in Seq(OwnEvents(v))
      /\ pc'[w] = "idle"
  BY <1>1, OthersKeepPath DEF Places
<1>3. Path(w) \in Paths
  BY <1>1, EventType
<1>4. TypeShape'
  BY <1>2, <1>3 DEF TypeShape
<1>5. CallbackShape'
  BY <1>2 DEF CallbackShape
<1>6. PathShape'
  <2> SUFFICES ASSUME NEW p \in Paths
               PROVE  \/ p \in registered' <=> paths'[p] # NoCluster
                      \/ \E v \in Watchers : pc'[v] \in {"mark", "unmark"}
                                             /\ Path(v)' = p
    BY DEF PathShape
  <2>1. CASE p = Path(w)
    BY <2>1 DEF CallbackShape
  <2>2. CASE p # Path(w)
    BY <2>2, <1>2 DEF PathShape
  <2> QED  BY <2>1, <2>2
<1> QED  BY <1>4, <1>5, <1>6

LEMMA CallbackKeepsIInv ==
  ASSUME IInv, PathsStayHome, NEW w \in Watchers, Callback(w)
  PROVE  IInv'
<1> USE DEF envVars
<1>1. pending[w] # <<>>
  BY DEF IInv, CallbackShape, Callback, FilterRejects, Engage, EngageFails,
         SkipPath, AddPath, MarkPath, LookupFails, KeepCluster, RemoveCluster,
         RemovePath, UnmarkPath, Idle
<1>2. CASE FilterRejects(w) \/ Engage(w) \/ EngageFails(w) \/ SkipPath(w)
           \/ LookupFails(w) \/ KeepCluster(w) \/ RemoveCluster(w)
  BY <1>1, <1>2, QuietStep
     DEF FilterRejects, Engage, EngageFails, SkipPath, LookupFails,
         KeepCluster, RemoveCluster, Idle
<1>3. CASE AddPath(w)
  <2>1. Event(w).cluster \in Clusters /\ Event(w).cluster # NoCluster
    BY <1>1, EventType, MarksAssumption DEF IInv
  <2> QED  BY <2>1, <1>3, StoreStep DEF AddPath
<1>4. CASE RemovePath(w)
  BY <1>4, StoreStep DEF RemovePath
<1>5. CASE MarkPath(w) \/ UnmarkPath(w)
  BY <1>5, MarkStep DEF MarkPath, UnmarkPath
<1> QED  BY <1>2, <1>3, <1>4, <1>5 DEF Callback

-----------------------------------------------------------------------------
(* The theorem.                                                            *)

LEMMA InitIInv == Init => IInv
<1> SUFFICES ASSUME Init PROVE IInv
  OBVIOUS
<1>1. TypeShape
  BY DEF Init, TypeShape, Places, Objects
<1>2. CallbackShape
  BY DEF Init, CallbackShape
<1>3. PathShape
  BY DEF Init, PathShape
<1> QED  BY <1>1, <1>2, <1>3 DEF IInv

LEMMA NextIInv ==
  ASSUME PathsStayHome, IInv, [Next]_vars
  PROVE  IInv'
<1>1. CASE UNCHANGED vars
  BY <1>1, EnvKeepsIInv
     DEF vars, envVars, IInv, TypeShape, EnvStep
<1>2. ASSUME NEW c \in Clusters, NEW v \in Objects, Change(c, v)  PROVE IInv'
  BY <1>2, ChangeIsEnv, EnvKeepsIInv DEF IInv
<1>3. ASSUME NEW w \in Watchers, Break(w)  PROVE IInv'
  BY <1>3, EnvKeepsIInv DEF Break, IInv, TypeShape, EnvStep
<1>4. ASSUME NEW w \in Watchers, Relist(w)  PROVE IInv'
  BY <1>4, RelistIsEnv, EnvKeepsIInv DEF IInv
<1>5. ASSUME NEW w \in Watchers, Resync(w)  PROVE IInv'
  BY <1>5, ResyncIsEnv, EnvKeepsIInv DEF IInv
<1>6. ASSUME NEW w \in Watchers, Callback(w)  PROVE IInv'
  BY <1>6, CallbackKeepsIInv
<1> QED  BY <1>1, <1>2, <1>3, <1>4, <1>5, <1>6 DEF Next

\* "registeredPaths tracks which paths have already been added to pathStore"
\* (path-aware/provider.go:95): true of any number of endpoints, clusters and
\* paths whenever no hook is between its two writes, if the clusters that use
\* a path are all behind one endpoint, although callbacks of all endpoints
\* write the set without a lock.
THEOREM SetAndStoreAgree ==
  ASSUME PathsStayHome
  PROVE  Spec => []RegisteredPathsAreStored
<1>1. IInv /\ [Next]_vars => IInv'
  BY NextIInv
<1>2. IInv => RegisteredPathsAreStored
  BY DEF IInv, TypeShape, PathShape, RegisteredPathsAreStored
<1> QED  BY InitIInv, <1>1, <1>2, PTL DEF Spec
=============================================================================
