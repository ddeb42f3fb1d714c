---------------------- MODULE EndpointReconcilerProofs ----------------------
(***************************************************************************)
(* Proofs about EndpointReconciler for every set of URLs, every set of     *)
(* slice contents and every bound.                                         *)
(***************************************************************************)
EXTENDS EndpointReconciler, TLAPS

-----------------------------------------------------------------------------
(* The inductive invariant: TypeOK and the four parts below.               *)

\* Nothing has been watched before the worker goroutine exists.
Unstarted ==
  /\ main = "new" => pc = "off" /\ ~shutdown
  /\ main = "running" => pc # "off"
  /\ pc = "off" => /\ ~backedOff
                   /\ live = {}
                   /\ \A u \in URLs : watched[u] = 0 /\ caches[u] = 0

\* What the worker's local state means at each place of a pass.
PassShape ==
  /\ pc \in {"start", "starting"} => snap \in UrlLists /\ idx <= Len(snap) + 1
  /\ pc = "starting" => idx <= Len(snap) /\ watched[snap[idx]] = 0
  /\ pc \in {"stop", "drop"} =>
       /\ snap # Malformed
       /\ \A u \in left : watched[u] # 0 /\ ~Wants(snap, u)
  /\ pc = "drop" => /\ victim \in URLs
                    /\ victim \notin left
                    /\ watched[victim] # 0
                    /\ ~Wants(snap, victim)

\* Who owns which watcher and which registered cache.
Ownership ==
  /\ \A w \in live : w # 0 /\ w < nextId
  /\ \A u \in URLs : watched[u] < nextId
  /\ pc = "starting" => \A u \in URLs : watched[u] # nextId - 1
  /\ pc = "starting" => nextId > 1 /\ (nextId - 1 \in live \/ ctxDone)
  /\ \A w \in live : \/ pc = "starting" /\ w = nextId - 1
                     \/ \E u \in URLs : watched[u] = w
  /\ \A u \in URLs : watched[u] # 0 =>
        watched[u] \in live \/ BeingStopped(u) \/ ctxDone
  /\ \A u, v \in URLs : watched[u] # 0 /\ watched[u] = watched[v] => u = v
  /\ \A u \in URLs : BeingStopped(u) => watched[u] \notin live
  /\ \A u \in URLs : BeingStopped(u) \/ caches[u] = watched[u]
  /\ \A u \in URLs : BeingStopped(u) =>
        IF pc = "drop" /\ u = victim THEN caches[u] = watched[u]
        ELSE caches[u] = 0

\* With nothing pending the running pass works on the current slice and has
\* done its part so far, or it failed and will be retried.
Matches == \A u \in URLs : (watched[u] # 0) <=> Wants(slice, u)

Progress ==
  /\ Active => ~shutdown
  /\ pc = "exited" => shutdown
  /\ Active /\ ~dirty /\ ~delayed /\ events = 0 =>
       /\ pc \in {"wait", "done"} => slice # Malformed /\ Matches /\ ~backedOff
       /\ pc \in {"start", "starting"} =>
            /\ snap = slice
            /\ errs \/ \A j \in 1..(idx - 1) : watched[snap[j]] # 0
       /\ pc \in {"stop", "drop"} =>
            /\ snap = slice
            /\ errs \/ \A u \in URLs : Wants(snap, u) => watched[u] # 0
            /\ \A u \in URLs : watched[u] # 0 /\ ~Wants(snap, u) =>
                 u \in left \/ BeingStopped(u)
       /\ pc = "finish" => errs \/ (slice # Malformed /\ Matches)

IInv == TypeOK /\ Unstarted /\ PassShape /\ Ownership /\ Progress

-----------------------------------------------------------------------------
(* Lists of URLs.                                                          *)

\* The entries of a slice's list are URLs, numbered from 1.
LEMMA ListEntries ==
  ASSUME NEW s \in UrlLists
  PROVE  /\ Len(s) \in Nat
         /\ DOMAIN s = 1..Len(s)
         /\ \A i \in 1..Len(s) : s[i] \in URLs
<1>1. s \in Seq(URLs)
  BY UrlListsAssumption
<1> QED
  BY <1>1

\* slices.Contains finds a URL exactly when some index of the loop holds it.
LEMMA WantsByIndex ==
  ASSUME NEW s \in UrlLists, NEW u
  PROVE  Wants(s, u) <=> \E i \in 1..Len(s) : s[i] = u
BY ListEntries DEF Wants, Listed

\* A slice that is absent or cannot be parsed lists nothing.
LEMMA WantsNothing ==
  ASSUME NEW u
  PROVE  ~Wants(NoSlice, u) /\ ~Wants(Malformed, u)
BY SliceMarksAssumption DEF Wants

-----------------------------------------------------------------------------
(* The initial states satisfy the invariant.                               *)
LEMMA InitIInv == Init => IInv
<1> SUFFICES ASSUME Init
             PROVE  IInv
  OBVIOUS
<1>1. TypeOK
  <2>1. slice \in Slices /\ snap \in Slices /\ victim \in URLs \union {NoURL}
    BY DEF Init, Slices
  <2>2. /\ events \in Nat /\ changes \in Nat /\ faults \in Nat
        /\ idx \in Nat \ {0} /\ nextId \in Nat \ {0}
    BY DEF Init
  <2>3. /\ watched \in [URLs -> Nat] /\ caches \in [URLs -> Nat]
        /\ live \subseteq Nat /\ left \subseteq URLs
    BY DEF Init
  <2> QED
    BY <2>1, <2>2, <2>3 DEF Init, TypeOK
<1>2. Unstarted
  BY DEF Init, Unstarted
<1>3. PassShape
  BY DEF Init, PassShape
<1>4. Ownership
  BY DEF Init, Ownership, BeingStopped
<1>5. Progress
  BY DEF Init, Progress, Active
<1> QED
  BY <1>1, <1>2, <1>3, <1>4, <1>5 DEF IInv

-----------------------------------------------------------------------------
(* Every step preserves it, part by part and action by action.             *)

(* The flags and the data have their types for reasons of their own: the   *)
(* flags are only copied and combined.                                     *)
FlagTypes ==
  /\ ctxDone \in BOOLEAN /\ errs \in BOOLEAN
  /\ dirty \in BOOLEAN /\ delayed \in BOOLEAN
  /\ backedOff \in BOOLEAN /\ shutdown \in BOOLEAN

DataTypes ==
  /\ slice \in Slices /\ snap \in Slices
  /\ events \in Nat /\ changes \in Nat /\ faults \in Nat
  /\ main \in {"new", "running", "unregistered", "queueDown", "returned"}
  /\ pc \in {"off", "wait", "read", "start", "starting", "stop", "drop",
             "finish", "done", "exited"}
  /\ idx \in Nat \ {0}
  /\ left \subseteq URLs
  /\ victim \in URLs \union {NoURL}
  /\ watched \in [URLs -> Nat] /\ caches \in [URLs -> Nat]
  /\ live \subseteq Nat
  /\ nextId \in Nat \ {0}

\* The type invariant is the two together.
LEMMA TypeOKSplit == TypeOK <=> FlagTypes /\ DataTypes
BY Zenon DEF TypeOK, FlagTypes, DataTypes

\* Every step of the provider leaves the flags Boolean.
LEMMA FlagTypesStep == FlagTypes /\ [Next]_vars => FlagTypes'
<1> SUFFICES ASSUME FlagTypes, [Next]_vars
             PROVE  FlagTypes'
  OBVIOUS
<1> USE DEF FlagTypes, mainVars, queueVars, passVars
<1>1. CASE \E s \in Slices : ChangeSlice(s)
  BY <1>1, Zenon DEF ChangeSlice
<1>2. CASE Enqueue
  BY <1>2, Zenon DEF Enqueue
<1>3. CASE DelayPasses
  BY <1>3, Zenon DEF DelayPasses
<1>4. CASE StartProvider
  BY <1>4, Zenon DEF StartProvider
<1>5. CASE StartReturnsEarly
  BY <1>5, Zenon DEF StartReturnsEarly
<1>6. CASE CancelContext
  BY <1>6, Zenon DEF CancelContext
<1>7. CASE QueueShutDown
  BY <1>7, Zenon DEF QueueShutDown
<1>8. CASE CacheStartReturns
  BY <1>8, Zenon DEF CacheStartReturns
<1>9. CASE DeferredShutDown
  BY <1>9, Zenon DEF DeferredShutDown
<1>10. CASE DeferredCancel
  BY <1>10, Zenon DEF DeferredCancel
<1>11. CASE GetKey
  BY <1>11, Zenon DEF GetKey
<1>12. CASE WorkerExits
  BY <1>12, Zenon DEF WorkerExits
<1>13. CASE ReadFails
  BY <1>13, Zenon DEF ReadFails
<1>14. CASE ReadNotFound
  BY <1>14, Zenon DEF ReadNotFound
<1>15. CASE ReadMalformed
  BY <1>15, Zenon DEF ReadMalformed
<1>16. CASE ReadSlice
  BY <1>16, Zenon DEF ReadSlice
<1>17. CASE SkipWatched
  BY <1>17, Zenon DEF SkipWatched
<1>18. CASE BeginWatch
  BY <1>18, Zenon DEF BeginWatch
<1>19. CASE WatchFails
  BY <1>19, Zenon DEF WatchFails
<1>20. CASE WatchSucceeds
  BY <1>20, Zenon DEF WatchSucceeds
<1>21. CASE BeginPrune
  BY <1>21, Zenon DEF BeginPrune
<1>22. CASE \E u \in URLs : CancelWatcher(u)
  BY <1>22, Zenon DEF CancelWatcher
<1>23. CASE DropCache
  BY <1>23, Zenon DEF DropCache
<1>24. CASE EndStop
  BY <1>24, Zenon DEF EndStop
<1>25. CASE FinishKey
  BY <1>25, Zenon DEF FinishKey
<1>26. CASE DoneKey
  BY <1>26, Zenon DEF DoneKey
<1>27. CASE UNCHANGED vars
  BY <1>27, Zenon DEF vars
<1> QED
  BY <1>1, <1>2, <1>3, <1>4, <1>5, <1>6, <1>7, <1>8, <1>9, <1>10, <1>11,
     <1>12, <1>13, <1>14, <1>15, <1>16, <1>17, <1>18, <1>19, <1>20, <1>21,
     <1>22, <1>23, <1>24, <1>25, <1>26, <1>27
     DEF Next, Worker, Unwind

\* Every step of the provider leaves the data well typed.
LEMMA DataTypesStep == DataTypes /\ [Next]_vars => DataTypes'
<1> SUFFICES ASSUME DataTypes, [Next]_vars
             PROVE  DataTypes'
  OBVIOUS
<1> USE DEF DataTypes, Slices, envVars, mainVars, passVars, fleetVars
<1>1. CASE \E s \in Slices : ChangeSlice(s)
  BY <1>1 DEF ChangeSlice
<1>2. CASE Enqueue
  BY <1>2 DEF Enqueue
<1>3. CASE DelayPasses
  BY <1>3 DEF DelayPasses
<1>4. CASE StartProvider
  BY <1>4 DEF StartProvider
<1>5. CASE StartReturnsEarly
  BY <1>5 DEF StartReturnsEarly
<1>6. CASE CancelContext
  BY <1>6 DEF CancelContext
<1>7. CASE QueueShutDown
  BY <1>7 DEF QueueShutDown
<1>8. CASE CacheStartReturns
  BY <1>8 DEF CacheStartReturns
<1>9. CASE DeferredShutDown
  BY <1>9 DEF DeferredShutDown
<1>10. CASE DeferredCancel
  BY <1>10 DEF DeferredCancel
<1>11. CASE GetKey
  BY <1>11 DEF GetKey
<1>12. CASE WorkerExits
  BY <1>12 DEF WorkerExits
<1>13. CASE ReadFails
  BY <1>13 DEF ReadFails
<1>14. CASE ReadNotFound
  BY <1>14 DEF ReadNotFound, WatchedURLs
<1>15. CASE ReadMalformed
  BY <1>15 DEF ReadMalformed
<1>16. CASE ReadSlice
  BY <1>16 DEF ReadSlice
<1>17. CASE SkipWatched
  BY <1>17 DEF SkipWatched
<1>18. CASE BeginWatch
  BY <1>18 DEF BeginWatch
<1>19. CASE WatchFails
  BY <1>19 DEF WatchFails
<1>20. CASE WatchSucceeds
  <2>1. nextId - 1 \in Nat
    OBVIOUS
  <2>2. watched' = [watched EXCEPT ![snap[idx]] = nextId - 1]
    BY <1>20 DEF WatchSucceeds
  <2>3. caches' = [caches EXCEPT ![snap[idx]] = nextId - 1]
    BY <1>20 DEF WatchSucceeds
  <2>4. watched' \in [URLs -> Nat]
    BY <2>1, <2>2
  <2>5. caches' \in [URLs -> Nat]
    BY <2>1, <2>3
  <2>6. idx' \in Nat \ {0}
    BY <1>20 DEF WatchSucceeds
  <2> QED
    BY <1>20, <2>4, <2>5, <2>6 DEF WatchSucceeds
<1>21. CASE BeginPrune
  BY <1>21 DEF BeginPrune, WatchedURLs
<1>22. CASE \E u \in URLs : CancelWatcher(u)
  BY <1>22 DEF CancelWatcher
<1>23. CASE DropCache
  BY <1>23 DEF DropCache
<1>24. CASE EndStop
  BY <1>24 DEF EndStop
<1>25. CASE FinishKey
  BY <1>25 DEF FinishKey
<1>26. CASE DoneKey
  BY <1>26 DEF DoneKey
<1>27. CASE UNCHANGED vars
  BY <1>27 DEF vars
<1> QED
  BY <1>1, <1>2, <1>3, <1>4, <1>5, <1>6, <1>7, <1>8, <1>9, <1>10, <1>11,
     <1>12, <1>13, <1>14, <1>15, <1>16, <1>17, <1>18, <1>19, <1>20, <1>21,
     <1>22, <1>23, <1>24, <1>25, <1>26, <1>27
     DEF Next, Worker, Unwind

\* Types are preserved on their own.
LEMMA TypeOKStep == TypeOK /\ [Next]_vars => TypeOK'
<1>1. TypeOK' <=> FlagTypes' /\ DataTypes'
  BY Zenon DEF TypeOK, FlagTypes, DataTypes
<1> QED
  BY <1>1, TypeOKSplit, FlagTypesStep, DataTypesStep

\* Before the worker exists nothing is watched.
LEMMA UnstartedStep == IInv /\ TypeOK' /\ [Next]_vars => Unstarted'
<1> SUFFICES ASSUME IInv, TypeOK', [Next]_vars
             PROVE  Unstarted'
  OBVIOUS
<1> USE
        DEF IInv, TypeOK, Unstarted, envVars, mainVars, queueVars, passVars,
           fleetVars
<1>1. CASE \E s \in Slices : ChangeSlice(s)
  BY <1>1 DEF ChangeSlice
<1>2. CASE Enqueue
  BY <1>2 DEF Enqueue
<1>3. CASE DelayPasses
  BY <1>3 DEF DelayPasses
<1>4. CASE StartProvider
  BY <1>4 DEF StartProvider
<1>5. CASE StartReturnsEarly
  BY <1>5 DEF StartReturnsEarly
<1>6. CASE CancelContext
  BY <1>6 DEF CancelContext
<1>7. CASE QueueShutDown
  BY <1>7 DEF QueueShutDown
<1>8. CASE CacheStartReturns
  BY <1>8 DEF CacheStartReturns
<1>9. CASE DeferredShutDown
  BY <1>9 DEF DeferredShutDown
<1>10. CASE DeferredCancel
  BY <1>10 DEF DeferredCancel
<1>11. CASE GetKey
  BY <1>11 DEF GetKey
<1>12. CASE WorkerExits
  BY <1>12 DEF WorkerExits
<1>13. CASE ReadFails
  BY <1>13 DEF ReadFails
<1>14. CASE ReadNotFound
  BY <1>14 DEF ReadNotFound
<1>15. CASE ReadMalformed
  BY <1>15 DEF ReadMalformed
<1>16. CASE ReadSlice
  BY <1>16 DEF ReadSlice
<1>17. CASE SkipWatched
  BY <1>17 DEF SkipWatched
<1>18. CASE BeginWatch
  BY <1>18 DEF BeginWatch
<1>19. CASE WatchFails
  BY <1>19 DEF WatchFails
<1>20. CASE WatchSucceeds
  BY <1>20 DEF WatchSucceeds
<1>21. CASE BeginPrune
  BY <1>21 DEF BeginPrune
<1>22. CASE \E u \in URLs : CancelWatcher(u)
  BY <1>22 DEF CancelWatcher
<1>23. CASE DropCache
  BY <1>23 DEF DropCache
<1>24. CASE EndStop
  BY <1>24 DEF EndStop
<1>25. CASE FinishKey
  BY <1>25 DEF FinishKey
<1>26. CASE DoneKey
  BY <1>26 DEF DoneKey
<1>27. CASE UNCHANGED vars
  BY <1>27 DEF vars
<1> QED
  BY <1>1, <1>2, <1>3, <1>4, <1>5, <1>6, <1>7, <1>8, <1>9, <1>10, <1>11,
     <1>12, <1>13, <1>14, <1>15, <1>16, <1>17, <1>18, <1>19, <1>20, <1>21,
     <1>22, <1>23, <1>24, <1>25, <1>26, <1>27
     DEF Next, Worker, Unwind

\* The worker's local state stays meaningful.
LEMMA PassShapeStep == IInv /\ TypeOK' /\ [Next]_vars => PassShape'
<1> SUFFICES ASSUME IInv, TypeOK', [Next]_vars
             PROVE  PassShape'
  OBVIOUS
<1> USE ListEntries
        DEF IInv, TypeOK, Slices, PassShape, envVars, mainVars, queueVars,
           passVars, fleetVars
<1>1. CASE \E s \in Slices : ChangeSlice(s)
  BY <1>1 DEF ChangeSlice
<1>2. CASE Enqueue
  BY <1>2 DEF Enqueue
<1>3. CASE DelayPasses
  BY <1>3 DEF DelayPasses
<1>4. CASE StartProvider
  BY <1>4 DEF StartProvider
<1>5. CASE StartReturnsEarly
  BY <1>5 DEF StartReturnsEarly
<1>6. CASE CancelContext
  BY <1>6 DEF CancelContext
<1>7. CASE QueueShutDown
  BY <1>7 DEF QueueShutDown
<1>8. CASE CacheStartReturns
  BY <1>8 DEF CacheStartReturns
<1>9. CASE DeferredShutDown
  BY <1>9 DEF DeferredShutDown
<1>10. CASE DeferredCancel
  BY <1>10 DEF DeferredCancel
<1>11. CASE GetKey
  BY <1>11 DEF GetKey
<1>12. CASE WorkerExits
  BY <1>12 DEF WorkerExits
<1>13. CASE ReadFails
  BY <1>13 DEF ReadFails
<1>14. CASE ReadNotFound
  <2>1. \A u \in left' : watched'[u] # 0 /\ ~Wants(snap', u)
    BY <1>14, WantsNothing DEF ReadNotFound, WatchedURLs
  <2> QED
    BY <1>14, <2>1, SliceMarksAssumption DEF ReadNotFound
<1>15. CASE ReadMalformed
  BY <1>15 DEF ReadMalformed
<1>16. CASE ReadSlice
  BY <1>16 DEF ReadSlice
<1>17. CASE SkipWatched
  BY <1>17 DEF SkipWatched
<1>18. CASE BeginWatch
  BY <1>18 DEF BeginWatch
<1>19. CASE WatchFails
  BY <1>19 DEF WatchFails
<1>20. CASE WatchSucceeds
  BY <1>20 DEF WatchSucceeds
<1>21. CASE BeginPrune
  <2>1. \A u \in left' : watched'[u] # 0 /\ ~Wants(snap', u)
    BY <1>21 DEF BeginPrune, WatchedURLs
  <2> QED
    BY <1>21, <2>1, SliceMarksAssumption DEF BeginPrune
<1>22. CASE \E u \in URLs : CancelWatcher(u)
  BY <1>22 DEF CancelWatcher
<1>23. CASE DropCache
  BY <1>23 DEF DropCache
<1>24. CASE EndStop
  BY <1>24 DEF EndStop
<1>25. CASE FinishKey
  BY <1>25 DEF FinishKey
<1>26. CASE DoneKey
  BY <1>26 DEF DoneKey
<1>27. CASE UNCHANGED vars
  BY <1>27 DEF vars
<1> QED
  BY <1>1, <1>2, <1>3, <1>4, <1>5, <1>6, <1>7, <1>8, <1>9, <1>10, <1>11,
     <1>12, <1>13, <1>14, <1>15, <1>16, <1>17, <1>18, <1>19, <1>20, <1>21,
     <1>22, <1>23, <1>24, <1>25, <1>26, <1>27
     DEF Next, Worker, Unwind

\* Watchers keep one owner, and caches follow them.
LEMMA OwnershipStep == IInv /\ TypeOK' /\ [Next]_vars => Ownership'
<1> SUFFICES ASSUME IInv, TypeOK', [Next]_vars
             PROVE  Ownership'
  OBVIOUS
<1> USE ListEntries
        DEF IInv, TypeOK, Slices, PassShape, Ownership, BeingStopped,
           WatchedURLs, envVars, mainVars, queueVars, passVars, fleetVars
<1>1. CASE \E s \in Slices : ChangeSlice(s)
  BY <1>1 DEF ChangeSlice
<1>2. CASE Enqueue
  BY <1>2 DEF Enqueue
<1>3. CASE DelayPasses
  BY <1>3 DEF DelayPasses
<1>4. CASE StartProvider
  <2>1. \A u \in URLs : watched'[u] = 0 /\ caches'[u] = 0
    BY <1>4 DEF StartProvider, Unstarted
  <2>2. live' = {} /\ pc' = "wait"
    BY <1>4 DEF StartProvider, Unstarted
  <2> QED
    BY <1>4, <2>1, <2>2 DEF StartProvider
<1>5. CASE StartReturnsEarly
  BY <1>5 DEF StartReturnsEarly
<1>6. CASE CancelContext
  BY <1>6 DEF CancelContext
<1>7. CASE QueueShutDown
  BY <1>7 DEF QueueShutDown
<1>8. CASE CacheStartReturns
  BY <1>8 DEF CacheStartReturns
<1>9. CASE DeferredShutDown
  BY <1>9 DEF DeferredShutDown
<1>10. CASE DeferredCancel
  BY <1>10 DEF DeferredCancel
<1>11. CASE GetKey
  BY <1>11 DEF GetKey
<1>12. CASE WorkerExits
  BY <1>12 DEF WorkerExits
<1>13. CASE ReadFails
  BY <1>13 DEF ReadFails
<1>14. CASE ReadNotFound
  BY <1>14 DEF ReadNotFound
<1>15. CASE ReadMalformed
  BY <1>15 DEF ReadMalformed
<1>16. CASE ReadSlice
  BY <1>16 DEF ReadSlice
<1>17. CASE SkipWatched
  BY <1>17 DEF SkipWatched
<1>18. CASE BeginWatch
  BY <1>18 DEF BeginWatch
<1>19. CASE WatchFails
  BY <1>19 DEF WatchFails
<1>20. CASE WatchSucceeds
  <2> DEFINE url == snap[idx]
  <2>1. url \in URLs /\ watched[url] = 0 /\ nextId - 1 \in Nat /\ nextId - 1 # 0
    BY <1>20 DEF WatchSucceeds
  <2>2. \A u \in URLs :
          /\ watched'[u] = IF u = url THEN nextId - 1 ELSE watched[u]
          /\ caches'[u] = IF u = url THEN nextId - 1 ELSE caches[u]
    BY <1>20, <2>1 DEF WatchSucceeds
  <2>3. /\ pc = "starting" /\ pc' = "start"
        /\ live' = live /\ nextId' = nextId /\ ctxDone' = ctxDone
    BY <1>20 DEF WatchSucceeds
  <2>4. \A u \in URLs : ~BeingStopped(u) /\ ~BeingStopped(u)'
    BY <2>3
  <2>5. \A u \in URLs : watched[u] # nextId - 1
    BY <2>3
  <2> HIDE ListEntries DEF url, BeingStopped, PassShape, Slices, TypeOK
  <2>6. \A w \in live' : \E u \in URLs : watched'[u] = w
    BY <2>1, <2>2, <2>3
  <2>7. \A u \in URLs : watched'[u] # 0 => watched'[u] \in live' \/ ctxDone'
    BY <2>1, <2>2, <2>3, <2>4
  <2> QED
    BY <2>1, <2>2, <2>3, <2>4, <2>5, <2>6, <2>7 DEF TypeOK
<1>21. CASE BeginPrune
  BY <1>21, SliceMarksAssumption DEF BeginPrune
<1>22. CASE \E u \in URLs : CancelWatcher(u)
  BY <1>22 DEF CancelWatcher
<1>23. CASE DropCache
  BY <1>23 DEF DropCache
<1>24. CASE EndStop
  BY <1>24 DEF EndStop
<1>25. CASE FinishKey
  BY <1>25 DEF FinishKey
<1>26. CASE DoneKey
  BY <1>26 DEF DoneKey
<1>27. CASE UNCHANGED vars
  BY <1>27 DEF vars
<1> QED
  BY <1>1, <1>2, <1>3, <1>4, <1>5, <1>6, <1>7, <1>8, <1>9, <1>10, <1>11,
     <1>12, <1>13, <1>14, <1>15, <1>16, <1>17, <1>18, <1>19, <1>20, <1>21,
     <1>22, <1>23, <1>24, <1>25, <1>26, <1>27
     DEF Next, Worker, Unwind

\* A pass that nothing interrupts makes progress towards the slice.
LEMMA ProgressStep == IInv /\ TypeOK' /\ [Next]_vars => Progress'
<1> SUFFICES ASSUME IInv, TypeOK', [Next]_vars
             PROVE  Progress'
  OBVIOUS
<1> USE ListEntries, WantsByIndex, WantsNothing
        DEF IInv, TypeOK, Slices, Unstarted, PassShape, Progress, Matches,
           Active, BeingStopped, WatchedURLs, envVars, mainVars, queueVars,
           passVars, fleetVars
<1>1. CASE \E s \in Slices : ChangeSlice(s)
  BY <1>1 DEF ChangeSlice
<1>2. CASE Enqueue
  BY <1>2 DEF Enqueue
<1>3. CASE DelayPasses
  BY <1>3 DEF DelayPasses
<1>4. CASE StartProvider
  <2>1. pc' = "wait" /\ ~backedOff' /\ (\A u \in URLs : watched'[u] = 0)
    BY <1>4 DEF StartProvider
  <2>2. events' = 0 => slice' = NoSlice
    BY <1>4 DEF StartProvider
  <2>3. Active' => ~shutdown'
    BY <1>4 DEF StartProvider
  <2> QED
    BY <2>1, <2>2, <2>3, SliceMarksAssumption
<1>5. CASE StartReturnsEarly
  BY <1>5 DEF StartReturnsEarly
<1>6. CASE CancelContext
  BY <1>6 DEF CancelContext
<1>7. CASE QueueShutDown
  BY <1>7 DEF QueueShutDown
<1>8. CASE CacheStartReturns
  BY <1>8 DEF CacheStartReturns
<1>9. CASE DeferredShutDown
  BY <1>9 DEF DeferredShutDown
<1>10. CASE DeferredCancel
  BY <1>10 DEF DeferredCancel
<1>11. CASE GetKey
  BY <1>11 DEF GetKey
<1>12. CASE WorkerExits
  BY <1>12 DEF WorkerExits
<1>13. CASE ReadFails
  BY <1>13 DEF ReadFails
<1>14. CASE ReadNotFound
  BY <1>14 DEF ReadNotFound
<1>15. CASE ReadMalformed
  BY <1>15 DEF ReadMalformed
<1>16. CASE ReadSlice
  BY <1>16 DEF ReadSlice
<1>17. CASE SkipWatched
  BY <1>17 DEF SkipWatched
<1>18. CASE BeginWatch
  BY <1>18 DEF BeginWatch
<1>19. CASE WatchFails
  BY <1>19 DEF WatchFails
<1>20. CASE WatchSucceeds
  <2>1. /\ snap[idx] \in URLs
        /\ \A j \in 1..idx : snap[j] \in URLs
        /\ nextId - 1 \in Nat /\ nextId - 1 # 0
    BY <1>20 DEF WatchSucceeds, Ownership
  <2>2. \A u \in URLs :
          watched'[u] = IF u = snap[idx] THEN nextId - 1 ELSE watched[u]
    BY <1>20, <2>1 DEF WatchSucceeds
  <2>3. (\A j \in 1..(idx - 1) : watched[snap[j]] # 0)
          => \A j \in 1..(idx' - 1) : watched'[snap'[j]] # 0
    BY <1>20, <2>1, <2>2 DEF WatchSucceeds
  <2> QED
    BY <1>20, <2>3 DEF WatchSucceeds
<1>21. CASE BeginPrune
  BY <1>21 DEF BeginPrune
<1>22. CASE \E u \in URLs : CancelWatcher(u)
  BY <1>22 DEF CancelWatcher
<1>23. CASE DropCache
  BY <1>23 DEF DropCache
<1>24. CASE EndStop
  BY <1>24 DEF EndStop
<1>25. CASE FinishKey
  BY <1>25 DEF FinishKey
<1>26. CASE DoneKey
  BY <1>26 DEF DoneKey
<1>27. CASE UNCHANGED vars
  BY <1>27 DEF vars
<1> QED
  BY <1>1, <1>2, <1>3, <1>4, <1>5, <1>6, <1>7, <1>8, <1>9, <1>10, <1>11,
     <1>12, <1>13, <1>14, <1>15, <1>16, <1>17, <1>18, <1>19, <1>20, <1>21,
     <1>22, <1>23, <1>24, <1>25, <1>26, <1>27
     DEF Next, Worker, Unwind

-----------------------------------------------------------------------------
(* The results.                                                            *)

\* The conjunction of the parts is an invariant of every behaviour.
THEOREM InductiveInvariant == Spec => []IInv
<1>1. IInv /\ [Next]_vars => IInv'
  BY TypeOKStep, UnstartedStep, PassShapeStep, OwnershipStep, ProgressStep
     DEF IInv
<1> QED
  BY InitIInv, <1>1, PTL DEF Spec

\* Every variable keeps its type.
THEOREM TypeCorrect == Spec => []TypeOK
<1>1. IInv => TypeOK
  BY DEF IInv
<1> QED
  BY InductiveInvariant, <1>1, PTL

\* No update of the slice and no failed start is lost: when nothing is
\* pending, processNextEndpointSlice has made the watched URLs those of the
\* slice.
THEOREM NoUpdateIsLost == Spec => []NoLostUpdate
<1>1. IInv => NoLostUpdate
  BY DEF IInv, Progress, Matches, NoLostUpdate, Settled
<1> QED
  BY InductiveInvariant, <1>1, PTL

\* endpointSliceUpdate leaks no watcher and shares none between URLs.
THEOREM WatchersAreOwned == Spec => []NoOrphanWatcher
<1>1. IInv => NoOrphanWatcher
  BY DEF IInv, Ownership, NoOrphanWatcher
<1> QED
  BY InductiveInvariant, <1>1, PTL

\* The aggregate cache serves a URL from its recorded watcher only.
THEOREM AggregateFollowsWatchers == Spec => []AggregateMatchesWatched
<1>1. IInv => AggregateMatchesWatched
  BY DEF IInv, Ownership, AggregateMatchesWatched
<1> QED
  BY InductiveInvariant, <1>1, PTL

\* The endpoints that did start are kept: no step of the provider stops the
\* watcher of a URL that the slice it read lists.
THEOREM ListedEndpointsAreKept == Spec => KeepsListedEndpoints
<1>1. IInv /\ [Next]_vars => [StopsOnlyUnlisted]_vars
  <2> SUFFICES ASSUME IInv, Next
               PROVE  StopsOnlyUnlisted
    OBVIOUS
  <2> USE ListEntries, WantsNothing
      DEF IInv, TypeOK, Unstarted, PassShape, Ownership, StopsOnlyUnlisted,
          envVars, mainVars, queueVars, passVars, fleetVars
  <2>1. CASE \E s \in Slices : ChangeSlice(s)
    BY <2>1 DEF ChangeSlice
  <2>2. CASE Enqueue
    BY <2>2 DEF Enqueue
  <2>3. CASE DelayPasses
    BY <2>3 DEF DelayPasses
  <2>4. CASE StartProvider
    BY <2>4 DEF StartProvider
  <2>5. CASE StartReturnsEarly
    BY <2>5 DEF StartReturnsEarly
  <2>6. CASE CancelContext
    BY <2>6 DEF CancelContext
  <2>7. CASE QueueShutDown
    BY <2>7 DEF QueueShutDown
  <2>8. CASE CacheStartReturns
    BY <2>8 DEF CacheStartReturns
  <2>9. CASE DeferredShutDown
    BY <2>9 DEF DeferredShutDown
  <2>10. CASE DeferredCancel
    BY <2>10 DEF DeferredCancel
  <2>11. CASE GetKey
    BY <2>11 DEF GetKey
  <2>12. CASE WorkerExits
    BY <2>12 DEF WorkerExits
  <2>13. CASE ReadFails
    BY <2>13 DEF ReadFails
  <2>14. CASE ReadNotFound
    BY <2>14 DEF ReadNotFound
  <2>15. CASE ReadMalformed
    BY <2>15 DEF ReadMalformed
  <2>16. CASE ReadSlice
    BY <2>16 DEF ReadSlice
  <2>17. CASE SkipWatched
    BY <2>17 DEF SkipWatched
  <2>18. CASE BeginWatch
    BY <2>18 DEF BeginWatch
  <2>19. CASE WatchFails
    BY <2>19 DEF WatchFails
  <2>20. CASE WatchSucceeds
    BY <2>20 DEF WatchSucceeds
  <2>21. CASE BeginPrune
    BY <2>21 DEF BeginPrune
  <2>22. CASE \E u \in URLs : CancelWatcher(u)
    BY <2>22 DEF CancelWatcher
  <2>23. CASE DropCache
    BY <2>23 DEF DropCache
  <2>24. CASE EndStop
    BY <2>24 DEF EndStop
  <2>25. CASE FinishKey
    BY <2>25 DEF FinishKey
  <2>26. CASE DoneKey
    BY <2>26 DEF DoneKey
  <2> QED
    BY <2>1, <2>2, <2>3, <2>4, <2>5, <2>6, <2>7, <2>8, <2>9, <2>10, <2>11,
       <2>12, <2>13, <2>14, <2>15, <2>16, <2>17, <2>18, <2>19, <2>20, <2>21,
       <2>22, <2>23, <2>24, <2>25, <2>26
       DEF Next, Worker, Unwind
<1> QED
  BY InductiveInvariant, <1>1, PTL DEF Spec, KeepsListedEndpoints

\* The reconciliation implements EndpointService: every step of the worker, of
\* Start and of the slice is one of its steps or leaves what it shows alone.
THEOREM ReconcilerImplementsService == Spec => ServesTheSlice
<1>1. Init => Service!Init
  BY DEF Init, Slices, Service!Init
<1>2. IInv /\ [Next]_vars => [Service!Next]_(Service!vars)
  <2> SUFFICES ASSUME IInv, [Next]_vars
               PROVE  Service!Next \/ UNCHANGED Service!vars
    OBVIOUS
  <2> USE DEF envVars, passVars, fleetVars
  <2>1. CASE \E s \in Slices : ChangeSlice(s)
    <3>1. Service!Publish
      BY <2>1 DEF ChangeSlice, Slices, Service!Publish
    <3> QED
      BY <3>1 DEF Service!Next
  <2>2. CASE ReadNotFound \/ ReadMalformed \/ ReadSlice
    <3>1. Service!Look
      BY <2>2 DEF ReadNotFound, ReadMalformed, ReadSlice, Service!Look
    <3> QED
      BY <3>1 DEF Service!Next
  <2>3. CASE WatchSucceeds
    <3> DEFINE u == snap[idx]
    <3>1. u \in URLs /\ snap \in UrlLists /\ idx \in DOMAIN snap
      BY <2>3, ListEntries DEF WatchSucceeds, IInv, TypeOK, PassShape
    <3>2. caches[u] = 0
      BY <2>3, <3>1
         DEF WatchSucceeds, IInv, PassShape, Ownership, BeingStopped
    <3>3. caches' = [caches EXCEPT ![u] = nextId - 1] /\ nextId - 1 # 0
      BY <2>3 DEF WatchSucceeds, IInv, TypeOK, Ownership
    <3>4. Service!Serve(u)
      BY <2>3, <3>1, <3>2, <3>3
         DEF WatchSucceeds, IInv, TypeOK, Service!Serve, Service!Lists
    <3> QED
      BY <3>1, <3>4 DEF Service!Next, Service!Serve
  <2>4. CASE DropCache
    <3>1. /\ victim \in URLs /\ watched[victim] # 0
          /\ ~Wants(snap, victim) /\ snap # Malformed
      BY <2>4 DEF DropCache, IInv, PassShape
    <3>2. caches[victim] # 0
      BY <2>4, <3>1 DEF DropCache, IInv, Ownership, BeingStopped
    <3>3. ~Service!Lists(snap, victim)
      BY <3>1 DEF Wants, Listed, Service!Lists
    <3>4. Service!Withdraw(victim)
      BY <2>4, <3>1, <3>2, <3>3 DEF DropCache, IInv, TypeOK, Service!Withdraw
    <3> QED
      BY <3>1, <3>4 DEF Service!Next, Service!Withdraw
  <2>5. CASE \/ Enqueue \/ DelayPasses \/ StartProvider \/ StartReturnsEarly
             \/ CancelContext \/ QueueShutDown \/ CacheStartReturns \/ Unwind
    BY <2>5 DEF Enqueue, DelayPasses, StartProvider, StartReturnsEarly,
         CancelContext, QueueShutDown, CacheStartReturns, Unwind,
         DeferredShutDown, DeferredCancel, Service!vars
  <2>6. CASE \/ GetKey \/ WorkerExits \/ ReadFails \/ SkipWatched
             \/ BeginWatch \/ WatchFails \/ BeginPrune
             \/ (\E u \in URLs : CancelWatcher(u)) \/ EndStop
             \/ FinishKey \/ DoneKey
    BY <2>6 DEF GetKey, WorkerExits, ReadFails, SkipWatched, BeginWatch,
         WatchFails, BeginPrune, CancelWatcher, EndStop, FinishKey, DoneKey,
         Service!vars
  <2>7. CASE UNCHANGED vars
    BY <2>7 DEF vars, mainVars, queueVars, Service!vars
  <2> QED
    BY <2>1, <2>2, <2>3, <2>4, <2>5, <2>6, <2>7 DEF Next, Worker
<1> QED
  BY <1>1, <1>2, InductiveInvariant, PTL DEF Spec, ServesTheSlice, Service!Spec

=============================================================================
