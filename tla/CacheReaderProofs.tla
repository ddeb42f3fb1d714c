-------------------------- MODULE CacheReaderProofs --------------------------
(***************************************************************************)
(* Proofs about CacheReader: for any clusters, objects, fields, values and *)
(* callers, reads and handlers of a cluster see that cluster's objects and *)
(* an index is added at most once.                                         *)
(***************************************************************************)
EXTENDS CacheReader, FiniteSetTheorems, SequenceTheorems, TLAPS

-----------------------------------------------------------------------------
(* Keys tell apart what they are built from.                               *)

\* The key of the store determines cluster, namespace and name
\* (forked_cache_reader.go:78-88, 272-281).
LEMMA StoreKeyInjective ==
  ASSUME NEW c, NEW n, NEW a, NEW d, NEW m, NEW b
  PROVE  StoreKey(c, n, a) = StoreKey(d, m, b) <=> c = d /\ n = m /\ a = b
<1> DEFINE U == {c, n, a, d, m, b}
           Shape(x, y, z, k) ==
             /\ y # Empty => Len(k) = 3 /\ k[1] = x /\ k[2] = y /\ k[3] = z
             /\ y = Empty => Len(k) = 2 /\ k[1] = x /\ k[2] = z
<1>1. ASSUME NEW x \in U, NEW y \in U, NEW z \in U
      PROVE  Shape(x, y, z, StoreKey(x, y, z))
  <2>1. CASE y = Empty
    <3>1. StoreKey(x, y, z) = (<<x>> \o <<>>) \o <<z>>
      BY <2>1 DEF StoreKey
    <3>2. <<x>> \in Seq(U) /\ <<z>> \in Seq(U) /\ <<>> \in Seq(U)
      OBVIOUS
    <3>3. /\ <<x>> \o <<>> \in Seq(U)
          /\ Len(<<x>> \o <<>>) = 1
          /\ (<<x>> \o <<>>)[1] = x
      BY <3>2
    <3> QED  BY <2>1, <3>1, <3>2, <3>3
  <2>2. CASE y # Empty
    <3>1. StoreKey(x, y, z) = (<<x>> \o <<y>>) \o <<z>>
      BY <2>2 DEF StoreKey
    <3>2. <<x>> \in Seq(U) /\ <<y>> \in Seq(U) /\ <<z>> \in Seq(U)
      OBVIOUS
    <3>3. /\ <<x>> \o <<y>> \in Seq(U)
          /\ Len(<<x>> \o <<y>>) = 2
          /\ (<<x>> \o <<y>>)[1] = x
          /\ (<<x>> \o <<y>>)[2] = y
      BY <3>2
    <3> DEFINE xy == <<x>> \o <<y>>
               end == <<z>>
    <3>7. end \in Seq(U) /\ Len(end) = 1 /\ end[1] = z
      OBVIOUS
    <3> HIDE DEF xy, end, U
    <3>4. /\ xy \in Seq(U) /\ Len(xy) = 2 /\ xy[1] = x /\ xy[2] = y
          /\ StoreKey(x, y, z) = xy \o end
      BY <3>1, <3>3 DEF xy, end
    <3>5. /\ Len(xy \o end) = Len(xy) + Len(end)
          /\ \A i \in 1..(Len(xy) + Len(end)) :
               (xy \o end)[i] = IF i <= Len(xy) THEN xy[i] ELSE end[i - Len(xy)]
      BY <3>4, <3>7, ConcatProperties
    <3>6. Len(xy \o end) = 3 /\ (xy \o end)[1] = x /\ (xy \o end)[2] = y /\ (xy \o end)[3] = z
      BY <3>4, <3>5, <3>7
    <3> QED  BY <2>2, <3>4, <3>6
  <2> QED  BY <2>1, <2>2
<1> DEFINE j == StoreKey(c, n, a)
           k == StoreKey(d, m, b)
<1>2. Shape(c, n, a, j) /\ Shape(d, m, b, k)
  BY <1>1
<1>3. c = d /\ n = m /\ a = b => j = k
  OBVIOUS
<1> HIDE DEF j, k
<1>4. j = k => c = d /\ n = m /\ a = b
  BY <1>2
<1> QED  BY <1>3, <1>4 DEF j, k

\* A key of a field index as the indexer builds it and as a reader does.
IndexerKey(s, p, v) == <<s>> \o (<<p>> \o v)
ReaderKey(t, q, w) == (<<t>> \o <<q>>) \o w

\* The two are equal only if their three parts are.
LEMMA KeyPartsInjective ==
  ASSUME NEW T, NEW s, NEW p, NEW v \in Seq(T), NEW t, NEW q, NEW w \in Seq(T)
  PROVE  IndexerKey(s, p, v) = ReaderKey(t, q, w) <=> s = t /\ p = q /\ v = w
<1> DEFINE U == T \union {s, p, t, q}
           x == IndexerKey(s, p, v)
           y == ReaderKey(t, q, w)
<1>1. v \in Seq(U) /\ w \in Seq(U)
  OBVIOUS
<1>2. /\ x \in Seq(U) /\ Len(x) = 2 + Len(v) /\ x[1] = s /\ x[2] = p
      /\ \A i \in 1..Len(v) : x[i + 2] = v[i]
  BY <1>1 DEF IndexerKey
<1>3. /\ y \in Seq(U) /\ Len(y) = 2 + Len(w) /\ y[1] = t /\ y[2] = q
      /\ \A i \in 1..Len(w) : y[i + 2] = w[i]
  BY <1>1 DEF ReaderKey
<1> HIDE DEF x, y, U
<1>4. ASSUME x = y  PROVE  s = t /\ p = q /\ v = w
  <2>1. s = t /\ p = q /\ Len(v) = Len(w)
    BY <1>1, <1>2, <1>3, <1>4
  <2>2. \A i \in 1..Len(v) : v[i] = w[i]
    BY <2>1, <1>2, <1>3, <1>4
  <2> QED  BY <1>1, <2>1, <2>2
<1>5. ASSUME s = t, p = q, v = w  PROVE  x = y
  <2>1. Len(x) = Len(y)
    BY <1>1, <1>2, <1>3, <1>5
  <2>2. ASSUME NEW i \in 1..Len(x)  PROVE  x[i] = y[i]
    <3>1. CASE i = 1 \/ i = 2
      BY <3>1, <1>2, <1>3, <1>5
    <3>2. CASE i > 2
      <4>1. i - 2 \in 1..Len(v)
        BY <3>2, <1>1, <1>2
      <4>2. x[(i - 2) + 2] = v[i - 2] /\ y[(i - 2) + 2] = w[i - 2]
        BY <4>1, <1>2, <1>3, <1>5
      <4> QED  BY <4>2, <1>5
    <3> QED  BY <3>1, <3>2, <1>1, <1>2
  <2>3. x \in Seq(U) /\ y \in Seq(U)
    BY <1>2, <1>3
  <2> QED  BY <2>1, <2>2, <2>3
<1> QED  BY <1>4, <1>5 DEF x, y

\* A reader's key is among an object's keys exactly if the object is in the
\* reader's cluster and namespace and has the value (wildcard.go:219-229,
\* forked_cache_reader.go:290-308), whatever tokens the value has.
LEMMA KeyFindsScope ==
  ASSUME NEW o \in Objects, NEW f \in Fields, NEW value \in Values,
         NEW c \in Clusters \union {Star}, NEW ns \in Namespaces \union {Empty}
  PROVE  ClusteredKey(c, ns, value) \in FieldKeys(o, f)
           <=> /\ c # Star => o.cluster = c
               /\ ns # Empty => o.ns = ns
               /\ value \in o.fields[f]
<1> DEFINE T == UNION {Range(w) : w \in Values}
           spaces == {AllNamespaces} \union (IF o.ns = Empty THEN {} ELSE {o.ns})
           n == IF ns # Empty THEN ns ELSE AllNamespaces
<1>1. \A v \in Values : v \in Seq(T)
  BY TokensAssumption
<1>2. o.fields[f] \subseteq Values
  BY ObjectsAssumption
<1>3. ClusteredKey(c, ns, value) = ReaderKey(n, c, value)
  BY DEF ClusteredKey, ReaderKey
<1> DEFINE clustered == {<<p>> \o v : p \in {o.cluster, Star}, v \in o.fields[f]}
<1>4. \A e : e \in FieldKeys(o, f)
        <=> \E s \in spaces, p \in {o.cluster, Star}, v \in o.fields[f] :
              e = IndexerKey(s, p, v)
  <2>1. FieldKeys(o, f) = {<<s>> \o k : s \in spaces, k \in clustered}
    BY DEF FieldKeys
  <2>2. \A e : e \in FieldKeys(o, f)
          <=> \E s \in spaces, k \in clustered : e = <<s>> \o k
    BY <2>1
  <2>3. \A k : k \in clustered
          <=> \E p \in {o.cluster, Star}, v \in o.fields[f] : k = <<p>> \o v
    OBVIOUS
  <2> HIDE DEF clustered, spaces
  <2> TAKE e
  <2>4. ASSUME e \in FieldKeys(o, f)
        PROVE  \E s \in spaces, p \in {o.cluster, Star}, v \in o.fields[f] :
                 e = IndexerKey(s, p, v)
    <3>1. PICK s \in spaces, k \in clustered : e = <<s>> \o k
      BY <2>2, <2>4
    <3>2. PICK p \in {o.cluster, Star}, v \in o.fields[f] : k = <<p>> \o v
      BY <2>3
    <3>3. e = IndexerKey(s, p, v)
      BY <3>1, <3>2 DEF IndexerKey
    <3> QED  BY <3>3
  <2>5. ASSUME NEW s \in spaces, NEW p \in {o.cluster, Star},
               NEW v \in o.fields[f], e = IndexerKey(s, p, v)
        PROVE  e \in FieldKeys(o, f)
    <3>1. <<p>> \o v \in clustered
      BY <2>3
    <3> QED  BY <3>1, <2>2, <2>5 DEF IndexerKey
  <2> QED  BY <2>4, <2>5
<1> HIDE DEF T, n, spaces
<1>5. \A s, p : \A v \in o.fields[f] :
        IndexerKey(s, p, v) = ReaderKey(n, c, value)
          <=> s = n /\ p = c /\ v = value
  BY <1>1, <1>2, KeyPartsInjective
<1>6. ClusteredKey(c, ns, value) \in FieldKeys(o, f)
        <=> n \in spaces /\ c \in {o.cluster, Star} /\ value \in o.fields[f]
  BY <1>3, <1>4, <1>5
<1>7. n \in spaces <=> (ns # Empty => o.ns = ns)
  BY TokensAssumption DEF n, spaces
<1>8. c \in {o.cluster, Star} <=> (c # Star => o.cluster = c)
  BY ObjectsAssumption, TokensAssumption
<1> QED  BY <1>6, <1>7, <1>8

-----------------------------------------------------------------------------
(* Reads: facts about any state whose store holds objects.                 *)

\* An object in the store is found by the namespace and name it has in the
\* reader's cluster and by nothing else (forked_cache_reader.go:69-104).
LEMMA GetIsScoped ==
  ASSUME store \subseteq Objects
  PROVE  GetReadsOwnCluster
<1> SUFFICES ASSUME NEW o \in Objects, NEW c \in Clusters
             PROVE  /\ Get(Empty, FALSE, o.ns, o.name).err
                    /\ Get(c, FALSE, o.ns, o.name).objs
                         = {x \in InScope(c, Empty) : x.ns = o.ns /\ x.name = o.name}
                    /\ Get(c, TRUE, o.ns, o.name).objs
                         = {x \in InScope(c, Empty) : x.ns = Empty /\ x.name = o.name}
  BY DEF GetReadsOwnCluster, Get, Failed
<1>1. c # Star /\ c # Empty
  BY TokensAssumption
<1>2. InScope(c, Empty) = {x \in store : x.cluster = c}
  BY <1>1 DEF InScope
<1>3. ASSUME NEW ns
      PROVE  Found(GetByKey(StoreKey(c, ns, o.name))).objs
               = {x \in InScope(c, Empty) : x.ns = ns /\ x.name = o.name}
  <2>1. \A x \in store : KeyOf(x) = StoreKey(c, ns, o.name)
          <=> x.cluster = c /\ x.ns = ns /\ x.name = o.name
    BY StoreKeyInjective DEF KeyOf
  <2> QED  BY <2>1, <1>2 DEF GetByKey, Found
<1>4. Get(Empty, FALSE, o.ns, o.name).err
  BY DEF Get, Failed
<1>5. Get(c, FALSE, o.ns, o.name) = Found(GetByKey(StoreKey(c, o.ns, o.name)))
  BY <1>1 DEF Get
<1>6. Get(c, TRUE, o.ns, o.name) = Found(GetByKey(StoreKey(c, Empty, o.name)))
  BY <1>1 DEF Get
<1> QED  BY <1>3, <1>4, <1>5, <1>6

\* What a List with a field selector should find.
Matching(c, ns, requires) ==
  {o \in InScope(c, ns) :
     \A i \in DOMAIN requires : requires[i].value \in o.fields[requires[i].field]}

\* byIndexes finds it, for a selector of any length, unless an index is
\* missing (forked_cache_reader.go:222-270).
LEMMA ByIndexesIsScoped ==
  ASSUME store \subseteq Objects,
         NEW c \in Clusters \union {Star}, NEW ns \in Namespaces \union {Empty},
         NEW requires \in Seq(Requirements), requires # <<>>
  PROVE  LET answer == ByIndexes(c, ns, requires)
             known == \A i \in DOMAIN requires : requires[i].field \in indexes
         IN  \/ answer = Failed /\ ~known
             \/ answer = Found(Matching(c, ns, requires))
<1> DEFINE Key(r) == ClusteredKey(c, ns, r.value)
           Left(n) == {o \in store : \A i \in 1..n :
                         Key(requires[i]) \in FieldKeys(o, requires[i].field)}
           failed == \E i \in DOMAIN requires :
                       /\ requires[i].field \notin indexes
                       /\ i = 1 \/ Left(i - 1) # {}
<1>1. DOMAIN requires = 1..Len(requires)
  OBVIOUS
<1>2. \A i \in DOMAIN requires :
        requires[i].field \in Fields /\ requires[i].value \in Values
  <2> TAKE i \in DOMAIN requires
  <2>1. requires[i] \in Requirements
    OBVIOUS
  <2> QED  BY <2>1 DEF Requirements
<1>3. \A o \in store : \A i \in DOMAIN requires :
        Key(requires[i]) \in FieldKeys(o, requires[i].field)
          <=> /\ c # Star => o.cluster = c
              /\ ns # Empty => o.ns = ns
              /\ requires[i].value \in o.fields[requires[i].field]
  BY <1>2, KeyFindsScope
<1>4. ByIndexes(c, ns, requires)
        = IF failed THEN Failed ELSE Found(Left(Len(requires)))
  BY DEF ByIndexes
<1>5. Left(Len(requires)) = Matching(c, ns, requires)
  <2> HIDE DEF Key
  <2>1. 1 \in DOMAIN requires
    BY <1>1
  <2> QED  BY <2>1, <1>1, <1>3 DEF Matching, InScope
<1>6. failed => ~(\A i \in DOMAIN requires : requires[i].field \in indexes)
  OBVIOUS
<1> HIDE DEF failed, Left
<1> QED  BY <1>4, <1>5, <1>6

\* List of a reader answers what a filter over its cluster would
\* (forked_cache_reader.go:132-220).
LEMMA ListIsScoped ==
  ASSUME store \subseteq Objects
  PROVE  ListReadsOwnCluster
<1> SUFFICES ASSUME NEW c \in Clusters \union {Star}, NEW opts \in ListOptions
    PROVE
    LET requires == opts.requires
        expected == {o \in InScope(c, opts.ns) :
                       /\ opts.labelled => o.labelled
                       /\ \A i \in DOMAIN requires :
                            requires[i].value \in o.fields[requires[i].field]}
        known == \A i \in DOMAIN requires : requires[i].field \in indexes
    IN  /\ \A answer \in List(c, opts) :
             /\ known => ~answer.err
             /\ ~answer.err =>
                  /\ answer.objs \subseteq expected
                  /\ opts.limit = 0 => answer.objs = expected
                  /\ opts.limit = 1 => (answer.objs = {} <=> expected = {})
        /\ List(c, [opts EXCEPT !.continue = TRUE]) = {Failed}
        /\ requires # <<>> => List(c, [opts EXCEPT !.exact = FALSE]) = {Failed}
  BY DEF ListReadsOwnCluster
<1> DEFINE requires == opts.requires
           expected == {o \in InScope(c, opts.ns) :
                          /\ opts.labelled => o.labelled
                          /\ \A i \in DOMAIN requires :
                               requires[i].value \in o.fields[requires[i].field]}
           known == \A i \in DOMAIN requires : requires[i].field \in indexes
<1>1. /\ opts.continue = FALSE /\ opts.exact = TRUE
      /\ opts.ns \in Namespaces \union {Empty} /\ opts.limit \in 0..1
  BY DEF ListOptions
<1>2. requires \in Seq(Requirements)
  <2>1. requires \in Selectors
    BY DEF ListOptions
  <2>2. CASE requires = <<>>
    BY <2>2
  <2>3. CASE \E r \in Requirements : requires = <<r>>
    BY <2>3
  <2>4. CASE \E r, q \in Requirements : requires = <<r, q>>
    BY <2>4
  <2> QED  BY <2>1, <2>2, <2>3, <2>4 DEF Selectors
<1>3. c # Empty
  BY TokensAssumption
<1> DEFINE found == Candidates(c, opts)
           matching == {o \in found.objs : opts.labelled => o.labelled}
<1>4. \/ found = Failed /\ ~known
      \/ found = Found(Matching(c, opts.ns, requires))
  <2>1. CASE requires = <<>>
    <3>1. found = Found(ByScope(c, opts.ns))
      BY <1>1, <1>3, <2>1 DEF Candidates
    <3>2. ByScope(c, opts.ns) = InScope(c, opts.ns)
      BY DEF ByScope, InScope, ClusterAndNamespaceIndexKey, ClusterIndexKey
    <3>3. Matching(c, opts.ns, requires) = InScope(c, opts.ns)
      BY <2>1 DEF Matching
    <3> QED  BY <3>1, <3>2, <3>3
  <2>2. CASE requires # <<>>
    <3>1. found = ByIndexes(c, opts.ns, requires)
      BY <1>1, <1>3, <2>2 DEF Candidates
    <3> QED  BY <3>1, <2>2, <1>1, <1>2, ByIndexesIsScoped
  <2> QED  BY <2>1, <2>2
<1>5. ASSUME NEW answer \in List(c, opts)
      PROVE  /\ known => ~answer.err
             /\ ~answer.err =>
                  /\ answer.objs \subseteq expected
                  /\ opts.limit = 0 => answer.objs = expected
                  /\ opts.limit = 1 => (answer.objs = {} <=> expected = {})
  <2>1. CASE found = Failed /\ ~known
    BY <2>1 DEF List, Failed
  <2>2. CASE found = Found(Matching(c, opts.ns, requires))
    <3>1. matching = expected /\ ~found.err
      BY <2>2 DEF Found, Matching
    <3> HIDE DEF found, matching, expected, known
    <3>2. /\ answer.err = FALSE
          /\ \/ /\ opts.limit = 0 \/ Cardinality(matching) <= opts.limit
                /\ answer.objs = matching
             \/ /\ opts.limit # 0
                /\ answer.objs \in SUBSET matching
                /\ Cardinality(answer.objs) = opts.limit
      BY <3>1 DEF List, Found, found, matching
    <3>3. Cardinality({}) = 0
      BY FS_EmptySet
    <3> QED  BY <3>1, <3>2, <3>3
  <2> QED  BY <2>1, <2>2, <1>4
<1>6. List(c, [opts EXCEPT !.continue = TRUE]) = {Failed}
  <2>1. [opts EXCEPT !.continue = TRUE].continue
    BY DEF ListOptions
  <2>2. Candidates(c, [opts EXCEPT !.continue = TRUE]) = Failed
    BY <2>1 DEF Candidates
  <2> QED  BY <2>2 DEF List, Failed
<1>7. ASSUME requires # <<>>
      PROVE  List(c, [opts EXCEPT !.exact = FALSE]) = {Failed}
  <2> DEFINE inexact == [opts EXCEPT !.exact = FALSE]
  <2>1. inexact.requires = requires /\ ~inexact.exact /\ ~inexact.continue
    BY <1>1 DEF ListOptions
  <2> HIDE DEF inexact, requires
  <2>2. Candidates(c, inexact) = Failed
    BY <2>1, <1>3, <1>7 DEF Candidates
  <2> QED  BY <2>2 DEF List, Failed, inexact
<1> QED  BY <1>5, <1>6, <1>7

-----------------------------------------------------------------------------
(* The inductive invariant.                                                *)

Types ==
  /\ store \subseteq Objects
  /\ tracker \subseteq Fields
  /\ added \in [Fields -> Nat]
  /\ pc \in [Callers -> {"idle", "adding"}]
  /\ field \in [Callers -> Fields \union {CHOOSE f \in Fields : TRUE}]
  /\ events \in Seq([kind : {"add", "update", "delete"}, obj : Objects])
  /\ view \in [Clusters -> SUBSET Objects]

\* A caller between its two steps owns its field: it is in the tracker, was
\* never added before, and nobody else is adding it.
AddShape ==
  /\ \A k \in Callers : pc[k] = "adding" =>
       /\ field[k] \in tracker /\ added[field[k]] = 0
       /\ \A l \in Callers : pc[l] = "adding" /\ field[l] = field[k] => l = k
  /\ \A f \in Fields : added[f] <= 1 /\ (f \notin tracker => added[f] = 0)

\* Notification i is about the object o, in whichever version.
About(i, o) == KeyOf(events[i].obj) = KeyOf(o)

\* It is the last one on its way.
LastAbout(i, o) ==
  About(i, o) /\ \A j \in DOMAIN events : j > i => ~About(j, o)

\* The store has one version of an object.
StoreShape == \A o \in store, p \in store : KeyOf(o) = KeyOf(p) => o = p

\* The last notification about an object says what the store has of it.
EventShape ==
  \A o \in Objects, i \in DOMAIN events : LastAbout(i, o) =>
    (o \in store <=> events[i].kind # "delete" /\ o = events[i].obj)

\* A handler knows objects of its cluster; of one that no notification is
\* about it knows what the store has.
ViewShape ==
  /\ \A c \in Clusters : \A o \in view[c] : o.cluster = c
  /\ \A o \in Objects : (\A i \in DOMAIN events : ~About(i, o)) =>
       (o \in store <=> o \in view[o.cluster])

IInv == Types /\ AddShape /\ StoreShape /\ EventShape /\ ViewShape

\* Two objects are versions of one if cluster, namespace and name agree.
LEMMA KeyOfInjective ==
  \A o, p : KeyOf(o) = KeyOf(p)
              <=> o.cluster = p.cluster /\ o.ns = p.ns /\ o.name = p.name
BY StoreKeyInjective DEF KeyOf

LEMMA InitIInv == Init => IInv
<1> SUFFICES ASSUME Init PROVE IInv
  OBVIOUS
<1>1. Types
  BY DEF Init, Types
<1>2. AddShape
  BY DEF Init, AddShape
<1>3. StoreShape
  BY DEF Init, StoreShape
<1>4. EventShape
  BY DEF Init, EventShape
<1>5. ViewShape
  <2>1. \A o \in Objects : o.cluster \in Clusters
    BY ObjectsAssumption
  <2> QED  BY <2>1 DEF Init, ViewShape
<1> QED  BY <1>1, <1>2, <1>3, <1>4, <1>5 DEF IInv

LEMMA NextTypes == IInv /\ [Next]_vars => Types'
<1> SUFFICES ASSUME IInv, [Next]_vars PROVE Types'
  OBVIOUS
<1> USE DEF IInv, Types
<1>1. ASSUME NEW o \in Objects, Put(o)  PROVE Types'
  <2>1. [kind |-> IF GetByKey(KeyOf(o)) = {} THEN "add" ELSE "update", obj |-> o]
          \in [kind : {"add", "update", "delete"}, obj : Objects]
    OBVIOUS
  <2> QED  BY <1>1, <2>1 DEF Put
<1>2. ASSUME NEW o \in Objects, Delete(o)  PROVE Types'
  BY <1>2 DEF Delete
<1>3. CASE Deliver
  <2>1. Head(events).obj \in Objects
    <3> DEFINE E == [kind : {"add", "update", "delete"}, obj : Objects]
    <3>1. events \in Seq(E) /\ events # <<>>
      BY <1>3 DEF Deliver
    <3>2. \A e \in E : e.obj \in Objects
      OBVIOUS
    <3> HIDE DEF E
    <3>3. Head(events) \in E
      BY <3>1
    <3> QED  BY <3>2, <3>3
  <2>2. Tail(events) \in Seq([kind : {"add", "update", "delete"}, obj : Objects])
    BY <1>3 DEF Deliver
  <2> QED  BY <1>3, <2>1, <2>2 DEF Deliver
<1>4. ASSUME NEW k \in Callers, NEW f \in Fields, BeginIndexField(k, f)
      PROVE  Types'
  BY <1>4 DEF BeginIndexField
<1>5. ASSUME NEW k \in Callers, AddIndex(k)  PROVE Types'
  BY <1>5 DEF AddIndex, AddShape
<1>6. ASSUME NEW k \in Callers, AddIndexFails(k)  PROVE Types'
  BY <1>6 DEF AddIndexFails, AddShape
<1>7. CASE UNCHANGED vars
  BY <1>7 DEF vars
<1> QED  BY <1>1, <1>2, <1>3, <1>4, <1>5, <1>6, <1>7 DEF Next

LEMMA NextAddShape == IInv /\ [Next]_vars => AddShape'
<1> SUFFICES ASSUME IInv, [Next]_vars PROVE AddShape'
  OBVIOUS
<1> USE DEF IInv, Types, AddShape
<1>1. ASSUME NEW o \in Objects, Put(o) \/ Delete(o)  PROVE AddShape'
  BY <1>1 DEF Put, Delete
<1>2. CASE Deliver
  BY <1>2 DEF Deliver
<1>3. ASSUME NEW k \in Callers, NEW f \in Fields, BeginIndexField(k, f)
      PROVE  AddShape'
  BY <1>3 DEF BeginIndexField
<1>4. ASSUME NEW k \in Callers, AddIndex(k) \/ AddIndexFails(k)
      PROVE  AddShape'
  BY <1>4 DEF AddIndex, AddIndexFails
<1>5. CASE UNCHANGED vars
  BY <1>5 DEF vars
<1> QED  BY <1>1, <1>2, <1>3, <1>4, <1>5 DEF Next

LEMMA NextStoreShape == IInv /\ [Next]_vars => StoreShape'
<1> SUFFICES ASSUME IInv, [Next]_vars PROVE StoreShape'
  OBVIOUS
<1> USE DEF IInv, StoreShape
<1>1. ASSUME NEW o \in Objects, Put(o)  PROVE StoreShape'
  <2>1. store' = {p \in store : KeyOf(p) # KeyOf(o)} \union {o}
    BY <1>1 DEF Put, GetByKey
  <2> QED  BY <2>1
<1>2. ASSUME NEW o \in Objects, Delete(o)  PROVE StoreShape'
  BY <1>2 DEF Delete
<1>3. CASE UNCHANGED store
  BY <1>3
<1> QED  BY <1>1, <1>2, <1>3
         DEF Next, vars, Deliver, AddIndex, AddIndexFails, BeginIndexField

\* A notification that is put on its way is the last one about its object and
\* leaves the ones about the others as they were.
LEMMA Notified ==
  ASSUME Types, NEW e \in [kind : {"add", "update", "delete"}, obj : Objects],
         events' = Append(events, e)
  PROVE  /\ DOMAIN events' = DOMAIN events \union {Len(events) + 1}
         /\ events'[Len(events) + 1] = e
         /\ \A i \in DOMAIN events : events'[i] = events[i] /\ i < Len(events) + 1
BY DEF Types

LEMMA NextEventShape == IInv /\ [Next]_vars => EventShape'
<1> SUFFICES ASSUME IInv, [Next]_vars PROVE EventShape'
  OBVIOUS
<1> USE DEF IInv
<1>1. ASSUME NEW e \in [kind : {"add", "update", "delete"}, obj : Objects],
             events' = Append(events, e),
             \A o \in Objects : KeyOf(o) # KeyOf(e.obj) => (o \in store' <=> o \in store),
             \A o \in Objects : KeyOf(o) = KeyOf(e.obj) =>
               (o \in store' <=> e.kind # "delete" /\ o = e.obj)
      PROVE  EventShape'
  <2> DEFINE n == Len(events) + 1
  <2>1. /\ DOMAIN events' = DOMAIN events \union {n}
        /\ events'[n] = e
        /\ \A i \in DOMAIN events : events'[i] = events[i] /\ i < n
    BY <1>1, Notified
  <2> HIDE DEF n
  <2> SUFFICES ASSUME NEW o \in Objects, NEW i \in DOMAIN events', LastAbout(i, o)'
               PROVE  o \in store' <=> events'[i].kind # "delete" /\ o = events'[i].obj
    BY DEF EventShape
  <2>2. CASE KeyOf(o) = KeyOf(e.obj)
    <3>1. i = n
      BY <2>1, <2>2 DEF LastAbout, About
    <3> QED  BY <3>1, <2>1, <2>2, <1>1
  <2>3. CASE KeyOf(o) # KeyOf(e.obj)
    <3>1. i \in DOMAIN events
      BY <2>1, <2>3 DEF LastAbout, About
    <3>2. LastAbout(i, o)
      BY <2>1, <3>1 DEF LastAbout, About
    <3> QED  BY <3>1, <3>2, <2>1, <2>3, <1>1 DEF EventShape
  <2> QED  BY <2>2, <2>3
<1>2. ASSUME NEW o \in Objects, Put(o)  PROVE EventShape'
  <2> DEFINE e == [kind |-> IF GetByKey(KeyOf(o)) = {} THEN "add" ELSE "update",
                   obj |-> o]
  <2>1. /\ e \in [kind : {"add", "update", "delete"}, obj : Objects]
        /\ e.kind # "delete" /\ e.obj = o
    OBVIOUS
  <2>2. events' = Append(events, e)
    BY <1>2 DEF Put
  <2>3. store' = {p \in store : KeyOf(p) # KeyOf(o)} \union {o}
    BY <1>2 DEF Put, GetByKey
  <2> HIDE DEF e
  <2> QED  BY <2>1, <2>2, <2>3, <1>1
<1>3. ASSUME NEW o \in Objects, Delete(o)  PROVE EventShape'
  <2> DEFINE e == [kind |-> "delete", obj |-> o]
  <2>1. /\ e \in [kind : {"add", "update", "delete"}, obj : Objects]
        /\ e.kind = "delete" /\ e.obj = o
    OBVIOUS
  <2>2. events' = Append(events, e)
    BY <1>3 DEF Delete
  <2>3. store' = store \ {o} /\ o \in store
    BY <1>3 DEF Delete
  <2> HIDE DEF e
  <2> QED  BY <2>1, <2>2, <2>3, <1>1 DEF StoreShape
<1>4. CASE Deliver
  <2> SUFFICES ASSUME NEW o \in Objects, NEW i \in DOMAIN events', LastAbout(i, o)'
               PROVE  o \in store' <=> events'[i].kind # "delete" /\ o = events'[i].obj
    BY DEF EventShape
  <2>1. /\ store' = store
        /\ i \in Nat /\ i + 1 \in DOMAIN events /\ events'[i] = events[i + 1]
    BY <1>4 DEF Deliver, Types
  <2>2. \A j \in DOMAIN events : j > i + 1 =>
          j - 1 \in DOMAIN events' /\ events'[j - 1] = events[j] /\ j - 1 > i
    BY <1>4 DEF Deliver, Types
  <2>3. LastAbout(i + 1, o)
    BY <2>1, <2>2 DEF LastAbout, About
  <2> QED  BY <2>1, <2>3 DEF EventShape
<1>5. CASE UNCHANGED <<store, events>>
  BY <1>5 DEF EventShape, LastAbout, About
<1> QED  BY <1>2, <1>3, <1>4, <1>5
         DEF Next, vars, AddIndex, AddIndexFails, BeginIndexField

LEMMA NextViewShape == IInv /\ [Next]_vars => ViewShape'
<1> SUFFICES ASSUME IInv, [Next]_vars PROVE ViewShape'
  OBVIOUS
<1> USE DEF IInv
<1>1. ASSUME NEW e \in [kind : {"add", "update", "delete"}, obj : Objects],
             events' = Append(events, e), view' = view,
             \A o \in Objects : KeyOf(o) # KeyOf(e.obj) => (o \in store' <=> o \in store)
      PROVE  ViewShape'
  <2> DEFINE n == Len(events) + 1
  <2>1. /\ DOMAIN events' = DOMAIN events \union {n}
        /\ events'[n] = e
        /\ \A i \in DOMAIN events : events'[i] = events[i] /\ i < n
    BY <1>1, Notified
  <2> HIDE DEF n
  <2>2. ASSUME NEW o \in Objects, \A i \in DOMAIN events' : ~About(i, o)'
        PROVE  o \in store' <=> o \in view'[o.cluster]
    <3>1. KeyOf(o) # KeyOf(e.obj) /\ \A i \in DOMAIN events : ~About(i, o)
      BY <2>1, <2>2 DEF About
    <3> QED  BY <3>1, <1>1 DEF ViewShape
  <2> QED  BY <2>2, <1>1 DEF ViewShape
<1>2. ASSUME NEW o \in Objects, Put(o)  PROVE ViewShape'
  <2> DEFINE e == [kind |-> IF GetByKey(KeyOf(o)) = {} THEN "add" ELSE "update",
                   obj |-> o]
  <2>1. e \in [kind : {"add", "update", "delete"}, obj : Objects] /\ e.obj = o
    OBVIOUS
  <2>2. events' = Append(events, e) /\ view' = view
    BY <1>2 DEF Put
  <2>3. store' = {p \in store : KeyOf(p) # KeyOf(o)} \union {o}
    BY <1>2 DEF Put, GetByKey
  <2> HIDE DEF e
  <2> QED  BY <2>1, <2>2, <2>3, <1>1
<1>3. ASSUME NEW o \in Objects, Delete(o)  PROVE ViewShape'
  <2> DEFINE e == [kind |-> "delete", obj |-> o]
  <2>1. e \in [kind : {"add", "update", "delete"}, obj : Objects] /\ e.obj = o
    OBVIOUS
  <2>2. events' = Append(events, e) /\ view' = view /\ store' = store \ {o}
    BY <1>3 DEF Delete
  <2> HIDE DEF e
  <2> QED  BY <2>1, <2>2, <1>1
<1>4. CASE Deliver
  <2> DEFINE e == events[1]
           E == [kind : {"add", "update", "delete"}, obj : Objects]
  <2>0. /\ events \in Seq(E) /\ events # <<>> /\ events' = Tail(events)
        /\ store' = store
    BY <1>4 DEF Deliver, Types
  <2>1. /\ store' = store /\ 1 \in DOMAIN events
        /\ \A j \in DOMAIN events : j # 1 =>
             j - 1 \in DOMAIN events' /\ events'[j - 1] = events[j]
    <3> HIDE DEF E
    <3> QED  BY <2>0
  <2>2. \A c \in Clusters : \A o :
          o \in view'[c] <=>
            IF e.obj.cluster = c
            THEN \/ o \in view[c] /\ <<o.ns, o.name>> # <<e.obj.ns, e.obj.name>>
                 \/ e.kind # "delete" /\ o = e.obj
            ELSE o \in view[c]
    BY <1>4 DEF Deliver, Types, ForCluster
  <2> HIDE DEF e
  <2>3. ASSUME NEW c \in Clusters, NEW o \in view'[c]  PROVE o.cluster = c
    BY <2>2, <2>3 DEF ViewShape
  <2>4. ASSUME NEW o \in Objects, \A i \in DOMAIN events' : ~About(i, o)'
        PROVE  o \in store' <=> o \in view'[o.cluster]
    <3>1. \A j \in DOMAIN events : j # 1 => ~About(j, o)
      BY <2>1, <2>4 DEF About
    <3>2. o.cluster \in Clusters
      BY ObjectsAssumption
    <3>3. CASE About(1, o)
      <4>1. LastAbout(1, o)
        BY <3>1, <3>3 DEF LastAbout
      <4>2. o \in store <=> e.kind # "delete" /\ o = e.obj
        BY <4>1, <2>1 DEF EventShape, e
      <4>3. e.obj.cluster = o.cluster /\ e.obj.ns = o.ns /\ e.obj.name = o.name
        BY <3>3, KeyOfInjective DEF About, e
      <4> QED  BY <4>2, <4>3, <3>2, <2>1, <2>2
    <3>4. CASE ~About(1, o)
      <4>1. o \in store <=> o \in view[o.cluster]
        BY <3>1, <3>4 DEF ViewShape
      <4>2. ~(e.obj.cluster = o.cluster /\ e.obj.ns = o.ns /\ e.obj.name = o.name)
        BY <3>4, KeyOfInjective DEF About, e
      <4> QED  BY <4>1, <4>2, <3>2, <2>1, <2>2
    <3> QED  BY <3>3, <3>4
  <2> QED  BY <2>3, <2>4 DEF ViewShape
<1>5. CASE UNCHANGED <<store, events, view>>
  BY <1>5 DEF ViewShape, About
<1> QED  BY <1>2, <1>3, <1>4, <1>5
         DEF Next, vars, AddIndex, AddIndexFails, BeginIndexField

LEMMA SpecIInv == Spec => []IInv
<1>1. IInv /\ [Next]_vars => IInv'
  BY NextTypes, NextAddShape, NextStoreShape, NextEventShape, NextViewShape
     DEF IInv
<1> QED  BY InitIInv, <1>1, PTL DEF Spec

-----------------------------------------------------------------------------
(* Theorems.                                                               *)

\* Get and List of a reader see the objects of its cluster (or of all, for
\* "*"), whatever is in the store and indexed: the keys that wildcard.go:219-229
\* and forked_cache_reader.go:69-308 build never confuse two clusters, for any
\* names, namespaces and field values.
THEOREM ReadersSeeTheirCluster == Spec => []ReadsSeeOwnCluster
<1>1. IInv => ReadsSeeOwnCluster
  BY GetIsScoped, ListIsScoped DEF IInv, Types, ReadsSeeOwnCluster
<1> QED  BY SpecIInv, <1>1, PTL

\* However many goroutines call IndexField (wildcard.go:204-229), no index is
\* added a second time.
THEOREM IndexesAreAddedOnce == Spec => []IndexedOnce
<1>1. IInv => IndexedOnce
  BY DEF IInv, AddShape, IndexedOnce
<1> QED  BY SpecIInv, <1>1, PTL

\* Once every notification is delivered, the handlers on a cluster's scoped
\* informer (cache.go:118-158) know what the store has of that cluster and
\* nothing else, in whichever order objects come, change and go.
THEOREM HandlersSeeTheirCluster == Spec => []HandlersSeeOwnCluster
<1>1. IInv => HandlersSeeOwnCluster
  <2> SUFFICES ASSUME IInv, events = <<>>, NEW c \in Clusters
               PROVE  view[c] = InScope(c, Empty)
    BY DEF HandlersSeeOwnCluster
  <2>1. InScope(c, Empty) = {o \in store : o.cluster = c}
    BY TokensAssumption DEF InScope
  <2>2. \A o \in Objects : o \in store <=> o \in view[o.cluster]
    BY DEF IInv, ViewShape
  <2>3. view[c] \subseteq Objects /\ \A o \in view[c] : o.cluster = c
    BY DEF IInv, Types, ViewShape
  <2> QED  BY <2>1, <2>2, <2>3 DEF IInv, Types
<1> QED  BY SpecIInv, <1>1, PTL
=============================================================================
