----------------------------- MODULE CacheReader -----------------------------
(***************************************************************************)
(* Reads of one logical cluster from a cache of all of them (pkg/cache):   *)
(* the wildcard cache keeps the objects of all clusters in one indexer,    *)
(* scopedCache and cacheReader build lookup keys that begin with a cluster *)
(* name, IndexField adds field indexes whose values begin with one too,    *)
(* and scopedInformer passes on the events of its cluster only.            *)
(*                                                                         *)
(* A key is a string of tokens joined by separators.  It is modelled as    *)
(* the sequence of its tokens, so that joining is concatenation and a      *)
(* field value that contains separators is a sequence of several tokens.   *)
(***************************************************************************)
EXTENDS Integers, Sequences, FiniteSets, Functions

CONSTANTS
  Clusters,       \* names of logical clusters
  Namespaces,     \* namespaces of objects
  Objects,        \* the objects and their versions, records, see below
  Fields,         \* fields somebody may index
  Values,         \* field values, sequences of tokens
  Star,           \* the token "*"
  AllNamespaces,  \* the token "__all_namespaces"
  Empty,          \* the empty string: no namespace, no cluster
  Callers,        \* goroutines that call IndexField
  MaxEvents,      \* bound: notifications not yet delivered
  MaxFaults       \* bound: failures of Cache.IndexField

\* An object: cluster, namespace, name, the values each field has
\* (extractValue) and whether the label selector in use matches it.
ASSUME ObjectsAssumption ==
  \A o \in Objects :
    /\ o.cluster \in Clusters /\ o.ns \in Namespaces \union {Empty}
    /\ o.fields \in [Fields -> SUBSET Values] /\ o.labelled \in BOOLEAN
ASSUME TokensAssumption ==
  /\ Star \notin Clusters /\ AllNamespaces \notin Namespaces
  /\ Empty \notin Namespaces \union Clusters \union {Star}
  /\ \A v \in Values : v \in Seq(UNION {Range(w) : w \in Values})
ASSUME BoundsAssumption == MaxEvents \in Nat /\ MaxFaults \in Nat

VARIABLES
  store,    \* the indexer's objects
  tracker,  \* wildcardCache.indexTracker: fields somebody asked to index
  indexes,  \* fields with an index in the informer
  added,    \* how often Cache.IndexField was called for a field
  pc,       \* callers of IndexField: "idle", "adding"
  field,    \* callers: the field they index
  faults,   \* failures of Cache.IndexField so far
  events,   \* notifications on their way to the handlers
  view      \* what a handler on each cluster's scoped informer has been told

vars == <<store, tracker, indexes, added, pc, field, faults, events, view>>

-----------------------------------------------------------------------------
(* Faulty variants of definitions below.  No specification uses them: each *)
(* is a plausible mistake that one of the properties has to detect.        *)

\* The store key is not prefixed with the cluster.
StoreKeyWithoutCluster(cluster, ns, name) ==
  (IF ns = Empty THEN <<>> ELSE <<ns>>) \o <<name>>

\* Only a field that has its index is left alone.
BeginIndexFieldUnindexed(k, f) ==
  /\ pc[k] = "idle"
  /\ f \notin indexes
  /\ tracker' = tracker \union {f}
  /\ pc' = [pc EXCEPT ![k] = "adding"]
  /\ field' = [field EXCEPT ![k] = f]
  /\ UNCHANGED <<store, indexes, added, faults, events, view>>

\* Deletions of other clusters reach the handler.
ForClusterUnlessDeleted(c, e) == e.kind = "delete" \/ e.obj.cluster = c

-----------------------------------------------------------------------------
(* Keys.                                                                   *)

\* clusterName + "|" + objectKeyToStoreKey(key), the key of the informer.
StoreKey(cluster, ns, name) ==
  <<cluster>> \o (IF ns = Empty THEN <<>> ELSE <<ns>>) \o <<name>>

KeyOf(o) == StoreKey(o.cluster, o.ns, o.name)

\* keyToClusteredKey, the value a reader looks for in a field index.
ClusteredKey(cluster, ns, value) ==
  (IF ns # Empty THEN <<ns>> ELSE <<AllNamespaces>>)
    \o <<cluster>> \o value

\* The keys of the two indexes the wildcard cache adds to every informer.
ClusterIndexKey(cluster) == <<cluster>>
ClusterAndNamespaceIndexKey(cluster, ns) == <<cluster, ns>>

\* The values of an object in a field index: IndexField of the wildcard
\* cache puts the cluster and "*" in front of what extractValue returns, and
\* IndexField of controller-runtime the namespace and "all namespaces".
FieldKeys(o, f) ==
  LET clustered == {<<p>> \o v : p \in {o.cluster, Star}, v \in o.fields[f]}
      spaces == {AllNamespaces} \union
                  (IF o.ns = Empty THEN {} ELSE {o.ns})
  IN  {<<s>> \o k : s \in spaces, k \in clustered}

-----------------------------------------------------------------------------
(* cacheReader for the reader's cluster, or "*" for wildcardCache.List.    *)

Failed == [err |-> TRUE, objs |-> {}]
Found(objs) == [err |-> FALSE, objs |-> objs]

GetByKey(key) == {o \in store : KeyOf(o) = key}

\* Get: at most one object; the namespace of a cluster-scoped kind is dropped.
Get(cluster, rootScoped, ns, name) ==
  IF cluster = Empty THEN Failed
  ELSE Found(GetByKey(StoreKey(cluster, IF rootScoped THEN Empty ELSE ns, name)))

\* byIndexes: the first requirement is looked up, each other one filters what
\* the ones before it left; nothing left is an answer before an unknown index
\* is an error.
ByIndexes(cluster, ns, requires) ==
  LET Key(r) == ClusteredKey(cluster, ns, r.value)
      Left(n) == {o \in store : \A i \in 1..n :
                    Key(requires[i]) \in FieldKeys(o, requires[i].field)}
      failed == \E i \in DOMAIN requires :
                  /\ requires[i].field \notin indexes
                  /\ i = 1 \/ Left(i - 1) # {}
  IN  IF failed THEN Failed ELSE Found(Left(Len(requires)))

\* Without a field selector: by cluster and namespace, by namespace, by
\* cluster, or all objects.
ByScope(cluster, ns) ==
  {o \in store :
     CASE ns # Empty /\ cluster # Star ->
            ClusterAndNamespaceIndexKey(o.cluster, o.ns)
              = ClusterAndNamespaceIndexKey(cluster, ns)
       [] ns # Empty /\ cluster = Star -> o.ns = ns
       [] ns = Empty /\ cluster # Star ->
            ClusterIndexKey(o.cluster) = ClusterIndexKey(cluster)
       [] OTHER -> TRUE}

\* What List reads from the indexer; a field selector must be exact
\* (requiresExactMatch).
Candidates(cluster, opts) ==
  LET refused == \/ opts.continue \/ cluster = Empty
                 \/ opts.requires # <<>> /\ ~opts.exact
  IN  IF refused THEN Failed
      ELSE IF opts.requires # <<>>
           THEN ByIndexes(cluster, opts.ns, opts.requires)
           ELSE Found(ByScope(cluster, opts.ns))

\* List: the label selector filters, and reading stops at the limit (0 for
\* none); which objects come first is up to the indexer's maps.
List(cluster, opts) ==
  LET found == Candidates(cluster, opts)
      matching == {o \in found.objs : opts.labelled => o.labelled}
      full == opts.limit = 0 \/ Cardinality(matching) <= opts.limit
  IN  IF found.err THEN {Failed}
      ELSE {Found(objs) : objs \in
              IF full THEN {matching}
              ELSE {m \in SUBSET matching : Cardinality(m) = opts.limit}}

-----------------------------------------------------------------------------
Init ==
  /\ store = {} /\ tracker = {} /\ indexes = {}
  /\ added = [f \in Fields |-> 0]
  /\ pc = [k \in Callers |-> "idle"]
  /\ field = [k \in Callers |-> CHOOSE f \in Fields : TRUE]
  /\ faults = 0
  /\ events = <<>>
  /\ view = [c \in Clusters |-> {}]

\* The watch delivers an object, new or changed.
Put(o) ==
  /\ o \notin store /\ Len(events) < MaxEvents
  /\ LET old == GetByKey(KeyOf(o))
     IN  /\ store' = (store \ old) \union {o}
         /\ events' = Append(events,
              [kind |-> IF old = {} THEN "add" ELSE "update", obj |-> o])
  /\ UNCHANGED <<tracker, indexes, added, pc, field, faults, view>>

\* Or its deletion; a relist that missed it makes a tombstone with the object.
Delete(o) ==
  /\ o \in store /\ Len(events) < MaxEvents
  /\ store' = store \ {o}
  /\ events' = Append(events, [kind |-> "delete", obj |-> o])
  /\ UNCHANGED <<tracker, indexes, added, pc, field, faults, view>>

\* The filter of scopedInformer.AddEventHandlerWithOptions.
ForCluster(c, e) == e.obj.cluster = c

\* A notification reaches the scoped informers' handlers, each of which keeps
\* the objects of its cluster by namespace and name.
Deliver ==
  /\ events # <<>>
  /\ LET e == Head(events)
         Others(c) == {o \in view[c] : <<o.ns, o.name>> # <<e.obj.ns, e.obj.name>>}
         Told(c) == Others(c) \union (IF e.kind = "delete" THEN {} ELSE {e.obj})
     IN  view' = [c \in Clusters |-> IF ForCluster(c, e) THEN Told(c) ELSE view[c]]
  /\ events' = Tail(events)
  /\ UNCHANGED <<store, tracker, indexes, added, pc, field, faults>>

\* IndexField checks and sets the tracker under its lock; a field it has
\* seen is left alone.
BeginIndexField(k, f) ==
  /\ pc[k] = "idle"
  /\ f \notin tracker
  /\ tracker' = tracker \union {f}
  /\ pc' = [pc EXCEPT ![k] = "adding"]
  /\ field' = [field EXCEPT ![k] = f]
  /\ UNCHANGED <<store, indexes, added, faults, events, view>>

\* Cache.IndexField adds the index, to the objects in the store too.
AddIndex(k) ==
  /\ pc[k] = "adding"
  /\ added' = [added EXCEPT ![field[k]] = @ + 1]
  /\ indexes' = indexes \union {field[k]}
  /\ pc' = [pc EXCEPT ![k] = "idle"]
  /\ UNCHANGED <<store, tracker, field, faults, events, view>>

\* It fails; the tracker keeps the field.
AddIndexFails(k) ==
  /\ pc[k] = "adding"
  /\ faults < MaxFaults
  /\ faults' = faults + 1
  /\ added' = [added EXCEPT ![field[k]] = @ + 1]
  /\ pc' = [pc EXCEPT ![k] = "idle"]
  /\ UNCHANGED <<store, tracker, indexes, field, events, view>>

Next ==
  \/ \E o \in Objects : Put(o) \/ Delete(o)
  \/ Deliver
  \/ \E k \in Callers :
       AddIndex(k) \/ AddIndexFails(k) \/ \E f \in Fields : BeginIndexField(k, f)

Spec == Init /\ [][Next]_vars

-----------------------------------------------------------------------------
(* Properties.                                                             *)

\* What a read of one cluster ("*" for all) should see.
InScope(cluster, ns) ==
  {o \in store : /\ cluster # Star => o.cluster = cluster
                 /\ ns # Empty => o.ns = ns}

\* Get returns the object of the reader's own cluster, or none
\* (forked_cache_reader.go:69-102), also when other clusters have an object of
\* that namespace and name, and never one for a reader without a cluster.
GetReadsOwnCluster ==
  \A o \in Objects :
    /\ Get(Empty, FALSE, o.ns, o.name).err
    /\ \A c \in Clusters :
         /\ Get(c, FALSE, o.ns, o.name).objs
              = {x \in InScope(c, Empty) : x.ns = o.ns /\ x.name = o.name}
         /\ Get(c, TRUE, o.ns, o.name).objs
              = {x \in InScope(c, Empty) : x.ns = Empty /\ x.name = o.name}

Requirements == [field : Fields, value : Values]
Selectors ==
  {<<>>} \union {<<r>> : r \in Requirements}
    \union {<<r, q>> : r \in Requirements, q \in Requirements}

ListOptions ==
  [continue : {FALSE}, exact : {TRUE}, requires : Selectors,
   ns : Namespaces \union {Empty}, labelled : BOOLEAN, limit : 0..1]

\* List answers what a filter over the objects of the reader's cluster would
\* (forked_cache_reader.go:132-270, wildcard.go:204-229): the keys of field
\* indexes confuse neither clusters nor namespaces, also when a field value
\* looks like the key of another cluster, and only an unknown index fails.
\* What the cache cannot answer is an error, never a partial answer.
ListReadsOwnCluster ==
  \A c \in Clusters \union {Star}, opts \in ListOptions :
    LET requires == opts.requires
        expected == {o \in InScope(c, opts.ns) :
                       /\ opts.labelled => o.labelled
                       /\ \A i \in DOMAIN requires :
                            requires[i].value \in o.fields[requires[i].field]}
        known == \A i \in DOMAIN requires : requires[i].field \in indexes
    IN  /\ \A answer \in List(c, opts) :
             /\ known => ~answer.err
             /\ ~answer.err =>
                  /\ answer.objs \subseteq expected
                  /\ opts.limit = 0 => answer.objs = expected
                  /\ opts.limit = 1 => (answer.objs = {} <=> expected = {})
        /\ List(c, [opts EXCEPT !.continue = TRUE]) = {Failed}
        /\ requires # <<>> => List(c, [opts EXCEPT !.exact = FALSE]) = {Failed}

\* A read of one cluster sees that cluster (forked_cache_reader.go:69-102,
\* 132-270), whatever is in the store and indexed meanwhile.
ReadsSeeOwnCluster == GetReadsOwnCluster /\ ListReadsOwnCluster

\* An index is added once (wildcard.go:210-217), because adding it again is an
\* error of the informer, whichever clusters' managers ask for it, even at
\* the same time.
IndexedOnce == \A f \in Fields : added[f] <= 1

\* Handlers on a scoped informer learn of their cluster's objects only
\* (cache.go:134-158): once everything is delivered, what they know by
\* namespace and name is what the store has of their cluster.
HandlersSeeOwnCluster ==
  events = <<>> => \A c \in Clusters : view[c] = InScope(c, Empty)
=============================================================================
