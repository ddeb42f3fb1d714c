----------------------- MODULE ClusterEngagementProofs -----------------------
(***************************************************************************)
(* Proofs about ClusterEngagement, for any number of endpoints, objects    *)
(* and clusters.                                                           *)
(***************************************************************************)
EXTENDS ClusterEngagement, FiniteSetTheorems, SequenceTheorems, TLAPS

USE DEF control

-----------------------------------------------------------------------------
(* The inductive invariant.                                                *)

Kinds == {"add", "update", "delete"}
Notifications == [kind : Kinds, obj : Objects, state : ObjectStates]

\* Beside TypeOK: notifications come in sequences, and budgets are counters.
Types ==
  /\ TypeOK
  /\ pending \in [Watchers -> Seq(Notifications)]
  /\ budget \in [{"changes", "passes", "cancels", "engage", "lookup"} -> Nat]

\* Notification i of w, or a later one about its object, says what the store
\* has of the object.
CatchesUp(w, i) ==
  \E j \in DOMAIN pending[w] :
    /\ j >= i /\ pending[w][j].obj = pending[w][i].obj
    /\ pending[w][j].state = store[w][pending[w][i].obj]

\* A notification is a deletion exactly if it says that the object is gone,
\* and the notifications about an object catch up with the store.
QueueShape ==
  \A w \in Watchers : \A i \in DOMAIN pending[w] :
    /\ pending[w][i].kind = "delete" <=> pending[w][i].state = "absent"
    /\ CatchesUp(w, i)

Engaging == {"recorder", "engage", "hooks"}
Removing == {"stopRecorder", "remove", "deleteHooks"}

\* A callback is where its event leads to; a watcher that was never started
\* has seen nothing; while nothing was cancelled all the others run.
PlaceShape ==
  \A w \in Watchers :
    /\ pc[w] \in Engaging => Event(w).kind # "delete" /\ Accepts(Event(w).state)
    /\ pc[w] \in Removing => Event(w).kind = "delete"
    /\ wstate[w] = "new" =>
         pending[w] = <<>> /\ \A o \in Objects : store[w][o] = "absent"
    /\ budget.cancels = 0 => wstate[w] # "cancelled" /\ provider = "runs"

\* A notification about o comes behind the first one.
Follows(w, o) == \E i \in DOMAIN pending[w] : i > 1 /\ pending[w][i].obj = o

\* What came into an index after it was found empty is still announced.
RemovalShape ==
  \A w \in Watchers : pc[w] \in Removing \ {"deleteHooks"} =>
    \A o \in IndexKeys(w, ClusterIn(w)) : Follows(w, o)

\* w has a deletion in the cluster to handle, and has not come to its end.
DeletionDue(w, c) ==
  \E i \in DOMAIN pending[w] :
    pending[w][i].kind = "delete" /\ ClusterOf[pending[w][i].obj] = c

\* Who engaged a cluster was started.
FleetShape == \A c \in Clusters : fleet[c] # NoEntry => wstate[fleet[c].by] # "new"

\* Without failed lookups a cluster engaged by w is in the index of w, or w
\* will find out.
GhostShape ==
  budget.lookup = 0 => \A c \in Clusters, w \in Watchers :
    fleet[c] # NoEntry /\ fleet[c].by = w /\ Running(w) =>
      /\ IndexKeys(w, c) # {} \/ DeletionDue(w, c)
      /\ pc[w] = "deleteHooks" => ClusterIn(w) # c

\* w will engage the cluster if it has to be: it is about to, or has still to
\* look at every object that asks for it.
WillEngage(w, c) ==
  \/ pc[w] \in {"recorder", "engage"} /\ ClusterIn(w) = c
  \/ \A o \in Objects : ClusterOf[o] = c /\ Accepts(store[w][o]) =>
       \E i \in DOMAIN pending[w] :
         pending[w][i].obj = o /\ (i = 1 => pc[w] = "idle")

\* Without cancellations and failed engagements, one of the running watchers
\* will engage a cluster that is not engaged.
EngagedShape ==
  budget.cancels = 0 /\ budget.engage = 0 =>
    \A c \in Clusters : fleet[c] = NoEntry =>
      \/ \A w \in Watchers : ~Running(w)
      \/ \E w \in Watchers : Running(w) /\ WillEngage(w, c)

\* After an end that left nobody behind nothing happens.
EndShape ==
  provider = "stopped" /\ late = {} =>
    /\ \A w \in Watchers : ~Running(w) /\ Drained(w)
    /\ \A c \in Clusters : ~recLive[c]

\* Nobody was ever started; only w was, and it was not disturbed.
Untouched == \A w \in Watchers : wstate[w] = "new"
Solo(w) ==
  /\ budget.engage = 0 /\ provider = "runs"
  /\ Running(w) /\ \A v \in Watchers \ {w} : wstate[v] = "new"

FreshShape ==
  Untouched => /\ \A c \in Clusters : fleet[c] = NoEntry /\ ~recLive[c]
               /\ hooks = {}

\* w works on a notification about the cluster.
At(w, place, c) == pc[w] = place /\ ClusterIn(w) = c

\* The recorders under a single watcher.
SoloRecorders ==
  \A w \in Watchers : Solo(w) => \A c \in Clusters :
    /\ At(w, "recorder", c) \/ At(w, "engage", c) => fleet[c] = NoEntry
    /\ At(w, "engage", c) => recLive[c] /\ rec[w] = recGen[c]
    /\ At(w, "remove", c) => ~recLive[c]
    /\ At(w, "deleteHooks", c) => fleet[c] = NoEntry
    /\ fleet[c] # NoEntry =>
         At(w, "remove", c) \/ (recLive[c] /\ fleet[c].rec = recGen[c])
    /\ recLive[c] => fleet[c] # NoEntry \/ At(w, "engage", c)

\* The lifecycle handlers under a single watcher.
SoloHooks ==
  \A w \in Watchers : Solo(w) => \A c \in Clusters :
    /\ fleet[c] # NoEntry => c \in hooks \/ At(w, "hooks", c)
    /\ budget.lookup = 0 /\ c \in hooks => IndexKeys(w, c) # {} \/ DeletionDue(w, c)

\* Faults and cancellations stay within their bounds.
BudgetShape ==
  /\ budget.cancels <= MaxCancels /\ budget.engage <= MaxEngageFaults
  /\ budget.lookup <= MaxLookupFaults

IInv ==
  /\ Types /\ QueueShape /\ PlaceShape /\ FleetShape
  /\ RemovalShape /\ GhostShape /\ EngagedShape
  /\ EndShape /\ FreshShape /\ SoloRecorders /\ SoloHooks /\ BudgetShape

-----------------------------------------------------------------------------
(* Facts about the operators.                                              *)

\* SetToSeq of objects is a sequence of them.
LEMMA SequenceOfObjects ==
  ASSUME NEW S \in SUBSET Objects
  PROVE  SetToSeq(S) \in Seq(S)
<1>1. IsFiniteSet(S)
  BY ObjectsAssumption, FS_Subset
<1>2. Cardinality(S) \in Nat /\ ExistsBijection(1..Cardinality(S), S)
  BY <1>1, FS_CardinalityType
<1>3. \E f \in [1..Cardinality(S) -> S] : IsInjective(f)
  BY <1>2 DEF ExistsBijection, Bijection, Injection
<1>4. SetToSeq(S) \in [1..Cardinality(S) -> S]
  BY <1>3 DEF SetToSeq
<1> QED  BY <1>2, <1>4

\* The event of a callback and its cluster.
LEMMA EventType ==
  ASSUME Types, NEW w \in Watchers, pending[w] # <<>>
  PROVE  /\ 1 \in DOMAIN pending[w] /\ Event(w) = pending[w][1]
         /\ Event(w) \in Notifications
         /\ Event(w).obj \in Objects /\ Event(w).state \in ObjectStates
         /\ ClusterIn(w) \in Clusters
<1>1. pending[w] \in Seq(Notifications)
  BY DEF Types
<1>2. 1 \in DOMAIN pending[w] /\ Event(w) = pending[w][1] /\ Event(w) \in Notifications
  BY <1>1 DEF Event
<1>3. Event(w).obj \in Objects /\ Event(w).state \in ObjectStates
  BY <1>2 DEF Notifications
<1> QED  BY <1>2, <1>3, ClusterOfAssumption DEF ClusterIn

\* The notification that Sync appends.
Announcement(w, o) ==
  [kind |-> IF server[o] = "absent" THEN "delete"
            ELSE IF store[w][o] = "absent" THEN "add" ELSE "update",
   obj |-> o, state |-> server[o]]

\* Appending, for a watcher's notifications.
LEMMA Appended ==
  ASSUME NEW s \in Seq(Notifications), NEW e \in Notifications
  PROVE  /\ Append(s, e) \in Seq(Notifications) /\ Append(s, e) # <<>>
         /\ DOMAIN Append(s, e) = DOMAIN s \union {Len(s) + 1}
         /\ Append(s, e)[Len(s) + 1] = e
         /\ \A i \in DOMAIN s : Append(s, e)[i] = s[i] /\ i \in Nat /\ i < Len(s) + 1
         /\ Len(s) \in Nat
         /\ s # <<>> => 1 \in DOMAIN s /\ Head(Append(s, e)) = Head(s)
<1>1. /\ Append(s, e) \in Seq(Notifications)
      /\ Len(Append(s, e)) = Len(s) + 1 /\ Len(s) \in Nat
      /\ DOMAIN s = 1..Len(s)
      /\ DOMAIN Append(s, e) = 1..(Len(s) + 1)
      /\ Append(s, e)[Len(s) + 1] = e
      /\ \A i \in 1..Len(s) : Append(s, e)[i] = s[i]
  OBVIOUS
<1>2. Append(s, e) # <<>>
  <2>1. Len(Append(s, e)) # 0
    BY <1>1
  <2>2. \A t : Len(t) # 0 => t # <<>>
    OBVIOUS
  <2> QED  BY <2>1, <2>2, Zenon
<1>3. ASSUME s # <<>>  PROVE 1 \in DOMAIN s /\ Head(Append(s, e)) = Head(s)
  <2>1. 1 \in 1..Len(s)
    BY <1>3
  <2> QED  BY <2>1, <1>1, <1>2, <1>3
<1> QED  BY <1>1, <1>2, <1>3

\* Handling the first one.
LEMMA Handled ==
  ASSUME NEW s \in Seq(Notifications), s # <<>>
  PROVE  /\ Tail(s) \in Seq(Notifications)
         /\ \A i \in DOMAIN Tail(s) : i \in Nat /\ i + 1 \in DOMAIN s
                                      /\ i >= 1 /\ Tail(s)[i] = s[i + 1]
         /\ \A i \in DOMAIN s : /\ i \in Nat /\ i >= 1
                                /\ i # 1 => /\ i - 1 \in DOMAIN Tail(s)
                                            /\ Tail(s)[i - 1] = s[i]
OBVIOUS

-----------------------------------------------------------------------------
(* What the steps do to the queues: every lemma below has one case for     *)
(* each of these.                                                          *)

\* Nothing, for the steps of the server, the reconciliation and the end.
Elsewhere == UNCHANGED <<store, pending, pc>>

\* A callback goes on, or it returns and its event is handled.
GoesOn(w, place) ==
  pending[w] # <<>> /\ Goto(w, place) /\ UNCHANGED <<store, pending>>
Returns(w) == pending[w] # <<>> /\ Return(w) /\ UNCHANGED store

LEMMA SyncAppends ==
  ASSUME Types, NEW w \in Watchers, NEW o \in Objects, Sync(w, o)
  PROVE  /\ Announcement(w, o) \in Notifications
         /\ Announcement(w, o).obj = o /\ Announcement(w, o).state = server[o]
         /\ Announcement(w, o).kind = "delete" <=> server[o] = "absent"
         /\ pending' = [pending EXCEPT ![w] = Append(@, Announcement(w, o))]
         /\ pending'[w] = Append(pending[w], Announcement(w, o))
         /\ \A v \in Watchers \ {w} : pending'[v] = pending[v]
         /\ store'[w][o] = server[o]
         /\ \A p \in Objects \ {o} : store'[w][p] = store[w][p]
         /\ \A v \in Watchers \ {w} : store'[v] = store[v]
<1>1. server[o] \in ObjectStates
  BY DEF Types, TypeOK
<1>2. pending' = [pending EXCEPT ![w] = Append(@, Announcement(w, o))]
  BY DEF Sync, Announcement
<1>3. store' = [store EXCEPT ![w][o] = server[o]]
  BY DEF Sync
<1>4. /\ Announcement(w, o) \in Notifications
      /\ Announcement(w, o).obj = o /\ Announcement(w, o).state = server[o]
      /\ Announcement(w, o).kind = "delete" <=> server[o] = "absent"
  BY <1>1 DEF Announcement, Notifications, Kinds
<1>5. /\ store'[w][o] = server[o]
      /\ \A p \in Objects \ {o} : store'[w][p] = store[w][p]
      /\ \A v \in Watchers \ {w} : store'[v] = store[v]
  BY <1>3 DEF Types, TypeOK
<1>6. /\ pending'[w] = Append(pending[w], Announcement(w, o))
      /\ \A v \in Watchers \ {w} : pending'[v] = pending[v]
  BY <1>2 DEF Types
<1> QED  BY <1>2, <1>4, <1>5, <1>6

\* The notifications of a resync repeat the store.
Repeats(w) ==
  {e \in Notifications : /\ e.kind = "update" /\ e.state # "absent"
                         /\ e.state = store[w][e.obj]}

LEMMA ResyncFills ==
  ASSUME Types, NEW w \in Watchers, Resync(w)
  PROVE  /\ pending[w] = <<>> /\ pc[w] = "idle" /\ Running(w)
         /\ pending'[w] \in Seq(Repeats(w)) /\ pending'[w] # <<>>
         /\ DOMAIN pending' = Watchers
         /\ \A v \in Watchers \ {w} : pending'[v] = pending[v]
<1> DEFINE S == {o \in Objects : store[w][o] # "absent"}
           stored == SetToSeq(S)
           news == [i \in DOMAIN stored |-> [kind |-> "update", obj |-> stored[i],
                                             state |-> store[w][stored[i]]]]
<1>1. stored \in Seq(S)
  BY SequenceOfObjects
<1>2. \A o \in S : [kind |-> "update", obj |-> o, state |-> store[w][o]] \in Repeats(w)
  BY DEF Types, TypeOK, Repeats, Notifications, Kinds
<1>3. /\ pending' = [pending EXCEPT ![w] = news] /\ stored # <<>>
      /\ pending[w] = <<>> /\ pc[w] = "idle" /\ Running(w)
  BY DEF Resync, Drained, Idle
<1> HIDE DEF stored, S
<1>4. news \in Seq(Repeats(w)) /\ news # <<>>
  BY <1>1, <1>2, <1>3
<1> HIDE DEF news
<1> QED  BY <1>3, <1>4 DEF Types

LEMMA CallbackMoves ==
  ASSUME Types, NEW w \in Watchers, Callback(w) \/ EngageFails(w) \/ LookupFails(w)
  PROVE  /\ \/ \E place \in Engaging \union Removing : GoesOn(w, place)
            \/ Returns(w)
         /\ UNCHANGED <<server, wstate, ending>>
<1> USE DEF Types, TypeOK, GoesOn, Returns, Engaging, Removing, Idle, ending
<1>1. CASE FilterRejects(w) \/ ClusterStillServed(w) \/ LookupFails(w)
           \/ RunHooks(w) \/ RunDeleteHooks(w)
  BY <1>1 DEF FilterRejects, ClusterStillServed, LookupFails, RunHooks,
              RunDeleteHooks
<1>2. CASE CheckCluster(w) \/ ClusterGone(w)
  BY <1>2 DEF CheckCluster, ClusterGone
<1>3. CASE GetRecorder(w) \/ Engage(w) \/ EngageFails(w)
  BY <1>3 DEF GetRecorder, Engage, EngageFails
<1>4. CASE StopRecorder(w) \/ RemoveCluster(w)
  BY <1>4 DEF StopRecorder, RemoveCluster
<1> QED  BY <1>1, <1>2, <1>3, <1>4 DEF Callback

LEMMA GoesOnEffect ==
  ASSUME Types, NEW w \in Watchers, NEW place \in Engaging \union Removing,
         GoesOn(w, place)
  PROVE  /\ pc'[w] = place /\ \A v \in Watchers \ {w} : pc'[v] = pc[v]
         /\ pc' \in [Watchers -> {"idle"} \union Engaging \union Removing]
         /\ UNCHANGED <<store, pending>> /\ pending[w] # <<>>
         /\ \A v \in Watchers : Event(v)' = Event(v) /\ ClusterIn(v)' = ClusterIn(v)
BY DEF GoesOn, Goto, Types, TypeOK, Event, ClusterIn, Engaging, Removing

LEMMA ReturnsEffect ==
  ASSUME Types, NEW w \in Watchers, Returns(w)
  PROVE  /\ pc'[w] = "idle" /\ \A v \in Watchers \ {w} : pc'[v] = pc[v]
         /\ pc' \in [Watchers -> {"idle"} \union Engaging \union Removing]
         /\ UNCHANGED store /\ pending[w] # <<>>
         /\ pending' = [pending EXCEPT ![w] = Tail(pending[w])]
         /\ pending'[w] = Tail(pending[w])
         /\ \A v \in Watchers \ {w} : pending'[v] = pending[v]
         /\ \A v \in Watchers \ {w} : Event(v)' = Event(v) /\ ClusterIn(v)' = ClusterIn(v)
BY DEF Returns, Return, Goto, Types, TypeOK, Event, ClusterIn, Engaging, Removing

LEMMA OtherSteps ==
  ASSUME Types, Next
  PROVE  \/ Elsewhere
         \/ \E w \in Watchers, o \in Objects : Sync(w, o)
         \/ \E w \in Watchers : Resync(w) \/ DropPending(w)
         \/ \E w \in Watchers : Callback(w) \/ EngageFails(w) \/ LookupFails(w)
BY DEF Next, Elsewhere, ServerChange, NewPass, StartFails, StartWatcher,
       CancelWatcher, Reap, CacheReturns, StopRecorders

-----------------------------------------------------------------------------
(* The types, and the queues.                                              *)

\* The part of Types about the queues and callbacks.
QueueTypes ==
  /\ store \in [Watchers -> [Objects -> ObjectStates]]
  /\ pending \in [Watchers -> Seq(Notifications)]
  /\ pc \in [Watchers -> {"idle"} \union Engaging \union Removing]
  /\ \A w \in Watchers : pc[w] # "idle" => pending[w] # <<>>

\* And the part about everything else.
OtherTypes ==
  /\ server \in [Objects -> ObjectStates]
  /\ wstate \in [Watchers -> {"new", "running", "cancelled"}]
  /\ rec \in [Watchers -> Nat]
  /\ fleet \in [Clusters -> [by : Watchers, rec : Nat] \union {NoEntry}]
  /\ recGen \in [Clusters -> Nat] /\ recLive \in [Clusters -> BOOLEAN]
  /\ hooks \subseteq Clusters
  /\ provider \in {"runs", "returns", "stopped"} /\ late \subseteq Watchers
  /\ listed \subseteq Watchers
  /\ budget \in [{"changes", "passes", "cancels", "engage", "lookup"} -> Nat]

LEMMA TypesSplit == Types <=> QueueTypes /\ OtherTypes
<1>1. ASSUME QueueTypes
      PROVE  \A w \in Watchers : \A i \in DOMAIN pending[w] :
               pending[w][i] \in Notifications
  BY <1>1 DEF QueueTypes
<1>2. QueueTypes /\ OtherTypes => Types
  BY <1>1 DEF QueueTypes, OtherTypes, Types, TypeOK, Engaging, Removing,
              Notifications, Kinds
<1>3. Types => QueueTypes /\ OtherTypes
  BY DEF QueueTypes, OtherTypes, Types, TypeOK, Engaging, Removing
<1> QED  BY <1>2, <1>3

LEMMA NextQueueTypes == Types /\ [Next]_vars => QueueTypes'
<1> SUFFICES ASSUME Types, [Next]_vars PROVE QueueTypes'
  OBVIOUS
<1>0. QueueTypes /\ OtherTypes
  BY TypesSplit
<1> USE DEF QueueTypes
<1>1. CASE Elsewhere
  BY <1>0, <1>1 DEF Elsewhere
<1>2. ASSUME NEW w \in Watchers, NEW o \in Objects, Sync(w, o)  PROVE QueueTypes'
  <2>1. store' \in [Watchers -> [Objects -> ObjectStates]] /\ pc' = pc
    BY <1>0, <1>2 DEF Sync, OtherTypes
  <2>2. pending'[w] \in Seq(Notifications) /\ pending'[w] # <<>>
    <3>1. /\ pending'[w] = Append(pending[w], Announcement(w, o))
          /\ Announcement(w, o) \in Notifications
      BY <1>2, SyncAppends
    <3>2. pending[w] \in Seq(Notifications)
      BY <1>0
    <3> QED  BY <3>1, <3>2, Appended
  <2>3. /\ pending' = [pending EXCEPT ![w] = pending'[w]]
        /\ \A v \in Watchers \ {w} : pending'[v] = pending[v]
    BY <1>0, <1>2, SyncAppends
  <2>4. pending' \in [Watchers -> Seq(Notifications)]
    BY <1>0, <2>2, <2>3
  <2> QED  BY <1>0, <2>1, <2>2, <2>3, <2>4
<1>3. ASSUME NEW w \in Watchers, Resync(w)  PROVE QueueTypes'
  <2>1. pending'[w] \in Seq(Repeats(w))
    BY <1>3, ResyncFills
  <2>2. pending'[w] \in Seq(Notifications)
    BY <2>1 DEF Repeats
  <2>3. pending' = [pending EXCEPT ![w] = pending'[w]] /\ UNCHANGED <<store, pc>>
    BY <1>0, <1>3 DEF Resync
  <2> QED  BY <1>0, <1>3, <2>2, <2>3, ResyncFills
<1>4. ASSUME NEW w \in Watchers, DropPending(w)  PROVE QueueTypes'
  BY <1>0, <1>4 DEF DropPending, Idle
<1>5. ASSUME NEW w \in Watchers, NEW place \in Engaging \union Removing,
             GoesOn(w, place)
      PROVE  QueueTypes'
  BY <1>0, <1>5, GoesOnEffect
<1>6. ASSUME NEW w \in Watchers, Returns(w)  PROVE QueueTypes'
  <2>1. Tail(pending[w]) \in Seq(Notifications)
    BY <1>0, <1>6 DEF Returns
  <2> QED  BY <1>0, <1>6, <2>1, ReturnsEffect
<1>7. CASE UNCHANGED vars
  BY <1>1, <1>7 DEF vars, Elsewhere
<1> QED  BY <1>1, <1>2, <1>3, <1>4, <1>5, <1>6, <1>7, OtherSteps, CallbackMoves

LEMMA NextOtherTypes == Types /\ [Next]_vars => OtherTypes'
<1> SUFFICES ASSUME Types, [Next]_vars PROVE OtherTypes'
  OBVIOUS
<1>0. QueueTypes /\ OtherTypes
  BY TypesSplit
<1> USE DEF OtherTypes, Spend, ending
<1>1. CASE UNCHANGED vars
  BY <1>0, <1>1 DEF vars
<1>2. ASSUME NEW o \in Objects, NEW state \in ObjectStates, ServerChange(o, state)
      PROVE  OtherTypes'
  BY <1>0, <1>2 DEF ServerChange
<1>3. ASSUME NEW w \in Watchers,
             \/ \E o \in Objects : Sync(w, o)
             \/ Resync(w) \/ DropPending(w)
      PROVE  OtherTypes'
  BY <1>0, <1>3 DEF Sync, Resync, DropPending
<1>4. ASSUME NEW w \in Watchers, StartWatcher(w) \/ CancelWatcher(w)
      PROVE  OtherTypes'
  BY <1>0, <1>4 DEF StartWatcher, CancelWatcher
<1>10. ASSUME NEW urls \in SUBSET Watchers, NewPass(urls)  PROVE OtherTypes'
  BY <1>0, <1>10 DEF NewPass
<1>11. ASSUME NEW w \in Watchers, StartFails(w)  PROVE OtherTypes'
  BY <1>0, <1>11 DEF StartFails
<1>5. ASSUME NEW c \in Clusters, Reap(c)  PROVE OtherTypes'
  BY <1>0, <1>5 DEF Reap
<1>6. CASE CacheReturns \/ StopRecorders
  <2>1. ContextEnds => wstate' \in [Watchers -> {"new", "running", "cancelled"}]
    BY <1>0 DEF ContextEnds
  <2>2. CASE CacheReturns
    BY <1>0, <2>1, <2>2 DEF CacheReturns
  <2>3. CASE StopRecorders
    BY <1>0, <2>1, <2>3 DEF StopRecorders
  <2> QED  BY <1>6, <2>2, <2>3
<1>7. ASSUME NEW w \in Watchers,
             \/ FilterRejects(w) \/ CheckCluster(w) \/ ClusterStillServed(w)
             \/ ClusterGone(w) \/ EngageFails(w) \/ LookupFails(w)
      PROVE  OtherTypes'
  BY <1>0, <1>7 DEF FilterRejects, CheckCluster, ClusterStillServed, ClusterGone,
                    EngageFails, LookupFails
<1>8. ASSUME NEW w \in Watchers, pending[w] # <<>>,
             \/ GetRecorder(w) \/ Engage(w) \/ RunHooks(w) \/ StopRecorder(w)
             \/ RemoveCluster(w) \/ RunDeleteHooks(w)
      PROVE  OtherTypes'
  <2>1. ClusterIn(w) \in Clusters
    BY <1>8, EventType
  <2>2. CASE GetRecorder(w)
    BY <1>0, <2>1, <2>2 DEF GetRecorder
  <2>3. CASE Engage(w)
    BY <1>0, <2>1, <2>3 DEF Engage
  <2>4. CASE RunHooks(w) \/ RunDeleteHooks(w)
    BY <1>0, <2>1, <2>4 DEF RunHooks, RunDeleteHooks
  <2>5. CASE StopRecorder(w) \/ RemoveCluster(w)
    BY <1>0, <2>1, <2>5 DEF StopRecorder, RemoveCluster
  <2> QED  BY <1>8, <2>2, <2>3, <2>4, <2>5
<1>9. ASSUME NEW w \in Watchers, Callback(w)  PROVE pending[w] # <<>>
  BY <1>9, CallbackMoves DEF GoesOn, Returns
<1> QED  BY <1>1, <1>2, <1>3, <1>4, <1>5, <1>6, <1>7, <1>8, <1>9, <1>10, <1>11
         DEF Next, Callback

LEMMA NextTypes == Types /\ [Next]_vars => Types'
<1> SUFFICES ASSUME Types, [Next]_vars PROVE Types'
  OBVIOUS
<1>1. QueueTypes' /\ OtherTypes'
  BY NextQueueTypes, NextOtherTypes
<1> QED  BY <1>1, TypesSplit, PTL

\* The queues of the watchers, one by one.
QueueOK(w) ==
  \A i \in DOMAIN pending[w] :
    /\ pending[w][i].kind = "delete" <=> pending[w][i].state = "absent"
    /\ CatchesUp(w, i)

LEMMA NextQueueShape == Types /\ QueueShape /\ [Next]_vars => QueueShape'
<1> SUFFICES ASSUME Types, QueueShape, [Next]_vars PROVE QueueShape'
  OBVIOUS
<1>0. \A w \in Watchers : QueueOK(w)
  BY DEF QueueShape, QueueOK
<1>1. ASSUME NEW v \in Watchers, pending'[v] = pending[v], store'[v] = store[v]
      PROVE  QueueOK(v)'
  BY <1>0, <1>1 DEF QueueOK, CatchesUp
<1>2. ASSUME NEW w \in Watchers, NEW o \in Objects, Sync(w, o)
      PROVE  \A v \in Watchers : QueueOK(v)'
  <2> DEFINE e == Announcement(w, o)
             n == Len(pending[w]) + 1
  <2>1. /\ e \in Notifications /\ e.obj = o /\ e.state = server[o]
        /\ e.kind = "delete" <=> server[o] = "absent"
        /\ pending'[w] = Append(pending[w], e)
        /\ \A v \in Watchers \ {w} : pending'[v] = pending[v]
        /\ store'[w][o] = server[o]
        /\ \A p \in Objects \ {o} : store'[w][p] = store[w][p]
        /\ \A v \in Watchers \ {w} : store'[v] = store[v]
    BY <1>2, SyncAppends
  <2>2. pending[w] \in Seq(Notifications)
    BY DEF Types
  <2> HIDE DEF e
  <2>3. /\ DOMAIN pending'[w] = DOMAIN pending[w] \union {n}
        /\ pending'[w][n] = e
        /\ \A i \in DOMAIN pending[w] :
             pending'[w][i] = pending[w][i] /\ i \in Nat /\ i < n
        /\ n \in Nat
    BY <2>1, <2>2, Appended
  <2>4. \A i \in DOMAIN pending[w] : pending[w][i].obj \in Objects
    <3>1. \A i \in DOMAIN pending[w] : pending[w][i] \in Notifications
      BY <2>2
    <3> QED  BY <3>1 DEF Notifications
  <2> HIDE DEF n
  <2>5. QueueOK(w)'
    <3> SUFFICES ASSUME NEW i \in DOMAIN pending'[w]
                 PROVE  /\ pending'[w][i].kind = "delete"
                             <=> pending'[w][i].state = "absent"
                        /\ CatchesUp(w, i)'
      BY DEF QueueOK
    <3>1. CASE i = n
      BY <3>1, <2>1, <2>3 DEF CatchesUp
    <3>2. CASE i # n
      <4>1. i \in DOMAIN pending[w] /\ pending'[w][i] = pending[w][i]
        BY <3>2, <2>3
      <4>2. CatchesUp(w, i)
        BY <4>1, <1>0 DEF QueueOK
      <4>3. pending[w][i].kind = "delete" <=> pending[w][i].state = "absent"
        BY <4>1, <1>0 DEF QueueOK
      <4>4. CASE pending[w][i].obj = o
        <5>1. /\ n >= i /\ n \in DOMAIN pending'[w]
              /\ pending'[w][n].obj = pending'[w][i].obj
              /\ pending'[w][n].state = store'[w][pending'[w][i].obj]
          BY <4>1, <4>4, <2>1, <2>3
        <5> QED  BY <4>1, <4>3, <5>1 DEF CatchesUp
      <4>5. CASE pending[w][i].obj # o
        <5>1. PICK j \in DOMAIN pending[w] :
                /\ j >= i /\ pending[w][j].obj = pending[w][i].obj
                /\ pending[w][j].state = store[w][pending[w][i].obj]
          BY <4>2 DEF CatchesUp
        <5>2. /\ j \in DOMAIN pending'[w] /\ pending'[w][j] = pending[w][j]
              /\ store'[w][pending[w][i].obj] = store[w][pending[w][i].obj]
          BY <4>1, <4>5, <2>1, <2>3, <2>4
        <5> QED  BY <4>1, <4>3, <5>1, <5>2 DEF CatchesUp
      <4> QED  BY <4>4, <4>5
    <3> QED  BY <3>1, <3>2
  <2> QED  BY <1>1, <2>1, <2>5
<1>3. ASSUME NEW w \in Watchers, Resync(w)
      PROVE  \A v \in Watchers : QueueOK(v)'
  <2>1. /\ pending'[w] \in Seq(Repeats(w)) /\ store' = store
        /\ \A v \in Watchers \ {w} : pending'[v] = pending[v]
    BY <1>3, ResyncFills DEF Resync
  <2>2. \A i \in DOMAIN pending'[w] : pending'[w][i] \in Repeats(w)
    BY <2>1
  <2>3. QueueOK(w)'
    BY <2>1, <2>2 DEF Repeats, QueueOK, CatchesUp
  <2> QED  BY <1>1, <2>1, <2>3
<1>4. ASSUME NEW w \in Watchers, DropPending(w)
      PROVE  \A v \in Watchers : QueueOK(v)'
  <2>1. /\ pending'[w] = <<>> /\ store' = store
        /\ \A v \in Watchers \ {w} : pending'[v] = pending[v]
    BY <1>4 DEF DropPending, Types
  <2> QED  BY <1>1, <2>1 DEF QueueOK
<1>5. ASSUME NEW w \in Watchers, Returns(w)
      PROVE  \A v \in Watchers : QueueOK(v)'
  <2>1. /\ pending'[w] = Tail(pending[w]) /\ pending[w] # <<>> /\ store' = store
        /\ \A v \in Watchers \ {w} : pending'[v] = pending[v]
    BY <1>5, ReturnsEffect
  <2>2. pending[w] \in Seq(Notifications)
    BY DEF Types
  <2>3. /\ \A i \in DOMAIN pending'[w] :
             i \in Nat /\ i + 1 \in DOMAIN pending[w]
             /\ i >= 1 /\ pending'[w][i] = pending[w][i + 1]
        /\ \A i \in DOMAIN pending[w] :
             /\ i \in Nat /\ i >= 1
             /\ i # 1 => /\ i - 1 \in DOMAIN pending'[w]
                         /\ pending'[w][i - 1] = pending[w][i]
    BY <2>1, <2>2, Handled
  <2>4. ASSUME NEW i \in DOMAIN pending'[w]
        PROVE  CatchesUp(w, i)'
    <3>1. i + 1 \in DOMAIN pending[w] /\ pending'[w][i] = pending[w][i + 1]
          /\ i \in Nat /\ i >= 1
      BY <2>3
    <3>2. PICK j \in DOMAIN pending[w] :
            /\ j >= i + 1 /\ pending[w][j].obj = pending[w][i + 1].obj
            /\ pending[w][j].state = store[w][pending[w][i + 1].obj]
      BY <3>1, <1>0 DEF QueueOK, CatchesUp
    <3>3. /\ j - 1 \in DOMAIN pending'[w] /\ pending'[w][j - 1] = pending[w][j]
          /\ j - 1 >= i
      BY <2>3, <3>1, <3>2
    <3> QED  BY <2>1, <3>1, <3>2, <3>3 DEF CatchesUp
  <2>5. QueueOK(w)'
    BY <1>0, <2>1, <2>3, <2>4 DEF QueueOK
  <2> QED  BY <1>1, <2>1, <2>5
<1>6. ASSUME UNCHANGED <<pending, store>>
      PROVE  \A v \in Watchers : QueueOK(v)'
  BY <1>1, <1>6
<1>7. \A v \in Watchers : QueueOK(v)'
  BY <1>2, <1>3, <1>4, <1>5, <1>6, OtherSteps, CallbackMoves
     DEF Elsewhere, GoesOn, vars
<1> QED  BY <1>7 DEF QueueShape, QueueOK

\* A callback under way keeps its event while others work.
LEMMA EventStays ==
  ASSUME Types, [Next]_vars, NEW v \in Watchers, pc[v] # "idle", pc'[v] # "idle"
  PROVE  Event(v)' = Event(v) /\ ClusterIn(v)' = ClusterIn(v)
<1>1. pending[v] # <<>>
  BY DEF Types, TypeOK
<1>2. SUFFICES Head(pending'[v]) = Head(pending[v])
  BY DEF Event, ClusterIn
<1>3. CASE pending'[v] = pending[v]
  BY <1>3
<1>4. ASSUME NEW w \in Watchers, NEW o \in Objects, Sync(w, o)
      PROVE  Head(pending'[v]) = Head(pending[v])
  <2>1. CASE v # w
    BY <1>4, <2>1, <1>3, SyncAppends
  <2>2. CASE v = w
    <3>1. /\ pending'[w] = Append(pending[w], Announcement(w, o))
          /\ Announcement(w, o) \in Notifications
      BY <1>4, SyncAppends
    <3>2. pending[w] \in Seq(Notifications)
      BY DEF Types
    <3> QED  BY <3>1, <3>2, <2>2, <1>1, Appended
  <2> QED  BY <2>1, <2>2
<1>5. ASSUME NEW w \in Watchers, Resync(w)
      PROVE  Head(pending'[v]) = Head(pending[v])
  BY <1>1, <1>3, <1>5, ResyncFills
<1>6. ASSUME NEW w \in Watchers, DropPending(w)
      PROVE  Head(pending'[v]) = Head(pending[v])
  BY <1>3, <1>6 DEF DropPending, Idle, Types
<1>7. ASSUME NEW w \in Watchers, Returns(w)
      PROVE  Head(pending'[v]) = Head(pending[v])
  BY <1>3, <1>7, ReturnsEffect
<1> QED  BY <1>3, <1>4, <1>5, <1>6, <1>7, OtherSteps, CallbackMoves
         DEF Elsewhere, GoesOn, vars

\* Faults and changes are counted one at a time.
LEMMA BudgetSteps ==
  ASSUME [Next]_vars
  PROVE  \/ UNCHANGED budget
         \/ Spend("changes", MaxChanges) \/ Spend("passes", MaxPasses)
         \/ Spend("cancels", MaxCancels) \/ Spend("engage", MaxEngageFaults)
         \/ Spend("lookup", MaxLookupFaults)
BY DEF Next, vars, ServerChange, Sync, Resync, NewPass, StartFails,
     StartWatcher, CancelWatcher, DropPending, Callback, EngageFails, LookupFails, FilterRejects,
     CheckCluster, GetRecorder, Engage, RunHooks, ClusterStillServed,
     ClusterGone, StopRecorder, RemoveCluster, RunDeleteHooks, Reap,
     CacheReturns, StopRecorders

\* Who starts and ends watchers, and that faults are never forgotten.
LEMMA LifeSteps ==
  ASSUME Types, [Next]_vars
  PROVE  /\ \/ UNCHANGED <<wstate, ending>>
            \/ \E w \in Watchers : StartWatcher(w) \/ CancelWatcher(w)
            \/ CacheReturns \/ StopRecorders
         /\ budget'.cancels >= budget.cancels /\ budget'.engage >= budget.engage
         /\ budget'.lookup >= budget.lookup
         /\ {budget.cancels, budget.engage, budget.lookup, budget'.cancels,
             budget'.engage, budget'.lookup} \subseteq Nat
<1>2. \/ UNCHANGED <<wstate, ending>>
      \/ \E w \in Watchers : StartWatcher(w) \/ CancelWatcher(w)
      \/ CacheReturns \/ StopRecorders
  BY DEF Next, vars, ServerChange, Sync, Resync, DropPending, Callback,
       EngageFails, LookupFails, FilterRejects, CheckCluster, GetRecorder,
       Engage, RunHooks, ClusterStillServed, ClusterGone, StopRecorder,
       RemoveCluster, RunDeleteHooks, Reap, NewPass, StartFails
<1>3. /\ budget'.cancels >= budget.cancels /\ budget'.engage >= budget.engage
      /\ budget'.lookup >= budget.lookup
      /\ {budget.cancels, budget.engage, budget.lookup, budget'.cancels,
          budget'.engage, budget'.lookup} \subseteq Nat
  BY BudgetSteps DEF Spend, Types
<1> QED  BY <1>2, <1>3

LEMMA NextBudgetShape == Types /\ BudgetShape /\ [Next]_vars => BudgetShape'
BY BudgetSteps, BoundsAssumption DEF BudgetShape, Spend, Types

LEMMA NextPlaceShape == Types /\ PlaceShape /\ [Next]_vars => PlaceShape'
<1> SUFFICES ASSUME Types, PlaceShape, [Next]_vars, NEW v \in Watchers
    PROVE  /\ pc'[v] \in Engaging =>
                Event(v)'.kind # "delete" /\ Accepts(Event(v)'.state)
           /\ pc'[v] \in Removing => Event(v)'.kind = "delete"
           /\ wstate'[v] = "new" =>
                pending'[v] = <<>> /\ \A o \in Objects : store'[v][o] = "absent"
           /\ budget'.cancels = 0 => wstate'[v] # "cancelled" /\ provider' = "runs"
  BY DEF PlaceShape, Accepts
<1>1. /\ pc'[v] \in Engaging => Event(v)'.kind # "delete" /\ Accepts(Event(v)'.state)
      /\ pc'[v] \in Removing => Event(v)'.kind = "delete"
  <2> USE DEF Engaging, Removing, PlaceShape
  <2>1. CASE pc'[v] = pc[v]
    BY <2>1, EventStays
  <2>2. CASE Callback(v) \/ EngageFails(v) \/ LookupFails(v)
    <3>1. CASE pc[v] # "idle"
      <4>1. \/ pc'[v] = "idle"
            \/ pc[v] \in Engaging /\ pc'[v] \in Engaging
            \/ pc[v] \in Removing /\ pc'[v] \in Removing
        BY <2>2, <3>1 DEF Callback, EngageFails, LookupFails, FilterRejects,
             CheckCluster, GetRecorder, Engage, RunHooks, ClusterStillServed,
             ClusterGone, StopRecorder, RemoveCluster, RunDeleteHooks, Idle,
             Goto, Return, Types, TypeOK
      <4> QED  BY <3>1, <4>1, EventStays
    <3>2. CASE pc[v] = "idle"
      <4>1. \/ pc'[v] = "idle"
            \/ /\ pc'[v] \in Engaging /\ pending' = pending
               /\ Event(v).kind # "delete" /\ Accepts(Event(v).state)
            \/ /\ pc'[v] \in Removing /\ pending' = pending
               /\ Event(v).kind = "delete"
        BY <2>2, <3>2 DEF Callback, EngageFails, LookupFails, FilterRejects,
             CheckCluster, GetRecorder, Engage, RunHooks, ClusterStillServed,
             ClusterGone, StopRecorder, RemoveCluster, RunDeleteHooks, Idle,
             Goto, Return, Types, TypeOK
      <4> QED  BY <4>1 DEF Event, Accepts
    <3> QED  BY <3>1, <3>2
  <2>3. ASSUME NEW w \in Watchers, Returns(w), w # v  PROVE pc'[v] = pc[v]
    BY <2>3, ReturnsEffect
  <2>4. ASSUME NEW w \in Watchers, NEW place \in Engaging \union Removing,
               GoesOn(w, place), w # v
        PROVE  pc'[v] = pc[v]
    BY <2>4, GoesOnEffect
  <2> QED  BY <2>1, <2>2, <2>3, <2>4, OtherSteps, CallbackMoves
           DEF Elsewhere, Sync, Resync, DropPending, vars
<1>2. ASSUME wstate'[v] = "new"
      PROVE  pending'[v] = <<>> /\ \A o \in Objects : store'[v][o] = "absent"
  <2>1. wstate[v] = "new"
    BY <1>2 DEF Next, vars, ServerChange, Sync, Resync, NewPass, StartFails,
         StartWatcher, CancelWatcher, DropPending, Callback, EngageFails, LookupFails,
         FilterRejects, CheckCluster, GetRecorder, Engage, RunHooks,
         ClusterStillServed, ClusterGone, StopRecorder, RemoveCluster,
         RunDeleteHooks, Reap, CacheReturns, StopRecorders, ContextEnds,
         Types, TypeOK
  <2>2. pending[v] = <<>> /\ \A o \in Objects : store[v][o] = "absent"
    BY <2>1 DEF PlaceShape
  <2>3. ~Running(v)
    BY <2>1 DEF Running
  <2>4. pending'[v] = pending[v] /\ store'[v] = store[v]
    <3>1. ASSUME NEW w \in Watchers, NEW o \in Objects, Sync(w, o)
          PROVE  pending'[v] = pending[v] /\ store'[v] = store[v]
      BY <2>3, <3>1, SyncAppends DEF Sync
    <3>2. ASSUME NEW w \in Watchers, Resync(w)
          PROVE  pending'[v] = pending[v] /\ store'[v] = store[v]
      BY <2>3, <3>2, ResyncFills DEF Resync
    <3>3. ASSUME NEW w \in Watchers, DropPending(w)
          PROVE  pending'[v] = pending[v] /\ store'[v] = store[v]
      BY <2>1, <3>3 DEF DropPending, Types
    <3>4. ASSUME NEW w \in Watchers, Returns(w)
          PROVE  pending'[v] = pending[v] /\ store'[v] = store[v]
      BY <2>2, <3>4, ReturnsEffect
    <3> QED  BY <3>1, <3>2, <3>3, <3>4, OtherSteps, CallbackMoves
             DEF Elsewhere, GoesOn, vars
  <2> QED  BY <2>2, <2>4
<1>3. ASSUME budget'.cancels = 0
      PROVE  wstate'[v] # "cancelled" /\ provider' = "runs"
  <2>1. budget.cancels = 0
    BY <1>3, LifeSteps
  <2>2. wstate[v] # "cancelled" /\ provider = "runs"
    BY <2>1 DEF PlaceShape
  <2>3. CASE UNCHANGED <<wstate, ending>>
    BY <2>2, <2>3 DEF ending
  <2>4. ASSUME NEW w \in Watchers, StartWatcher(w)
        PROVE  wstate'[v] # "cancelled" /\ provider' = "runs"
    BY <2>2, <2>4 DEF StartWatcher, ending, Types, TypeOK
  <2>5. CASE CacheReturns \/ \E w \in Watchers : CancelWatcher(w)
    BY <2>1, <2>5, <1>3 DEF CacheReturns, CancelWatcher, Spend, Types
  <2>6. ~StopRecorders
    BY <2>2 DEF StopRecorders
  <2> QED  BY <2>3, <2>4, <2>5, <2>6, LifeSteps
<1> QED  BY <1>1, <1>2, <1>3

-----------------------------------------------------------------------------
(* Removals of clusters.                                                   *)

LEMMA NextRemovalShape ==
  Types /\ RemovalShape /\ [Next]_vars => RemovalShape'
<1> SUFFICES ASSUME Types, RemovalShape, [Next]_vars, NEW v \in Watchers,
                    pc'[v] \in {"stopRecorder", "remove"},
                    NEW o \in IndexKeys(v, ClusterIn(v))'
             PROVE  Follows(v, o)'
  BY DEF RemovalShape, Removing
<1> USE DEF IndexKeys
<1>1. CASE Callback(v) /\ pc[v] = "idle"
  <2>1. ClusterGone(v)
    BY <1>1 DEF Callback, FilterRejects, CheckCluster, GetRecorder, Engage,
         RunHooks, ClusterStillServed, StopRecorder, RemoveCluster,
         RunDeleteHooks, Idle, Goto, Return, Types, TypeOK
  <2> QED  BY <2>1 DEF ClusterGone, ClusterIn, Event
<1>2. CASE pc[v] \in {"stopRecorder", "remove"} /\ pending'[v] = pending[v]
           /\ store'[v] = store[v]
  BY <1>2, EventStays DEF RemovalShape, Removing, Follows
<1>3. ASSUME NEW w \in Watchers, NEW p \in Objects, Sync(w, p), w = v
      PROVE  Follows(v, o)'
  <2> DEFINE e == Announcement(w, p)
             n == Len(pending[w]) + 1
  <2>1. /\ e \in Notifications /\ e.obj = p
        /\ pending'[w] = Append(pending[w], e)
        /\ \A q \in Objects \ {p} : store'[w][q] = store[w][q]
        /\ pc' = pc
    <3>1. pc' = pc
      BY <1>3 DEF Sync
    <3> QED  BY <1>3, <3>1, SyncAppends
  <2>2. pending[w] \in Seq(Notifications) /\ pending[w] # <<>>
    BY <2>1, <1>3 DEF Types, TypeOK
  <2> HIDE DEF e
  <2>3. /\ DOMAIN pending'[w] = DOMAIN pending[w] \union {n}
        /\ pending'[w][n] = e /\ 1 \in DOMAIN pending[w]
        /\ \A i \in DOMAIN pending[w] :
             pending'[w][i] = pending[w][i] /\ i \in Nat /\ i < n
        /\ n \in Nat
    BY <2>1, <2>2, Appended
  <2> HIDE DEF n
  <2>4. CASE o = p
    BY <1>3, <2>1, <2>3, <2>4 DEF Follows
  <2>5. CASE o # p
    <3>1. ClusterIn(v)' = ClusterIn(v)
      BY <2>1, EventStays
    <3>2. o \in IndexKeys(v, ClusterIn(v))
      BY <1>3, <2>1, <2>5, <3>1
    <3>3. Follows(v, o)
      BY <2>1, <3>2 DEF RemovalShape, Removing
    <3> QED  BY <1>3, <2>3, <3>3 DEF Follows
  <2> QED  BY <2>4, <2>5
<1>4. CASE UNCHANGED vars \/ Elsewhere
  BY <1>2, <1>4 DEF vars, Elsewhere
<1>5. ASSUME NEW w \in Watchers, NEW p \in Objects, Sync(w, p), w # v
      PROVE  Follows(v, o)'
  BY <1>2, <1>5, SyncAppends DEF Sync
<1>6. ASSUME NEW w \in Watchers, Resync(w)  PROVE Follows(v, o)'
  BY <1>2, <1>6, ResyncFills DEF Resync
<1>7. ASSUME NEW w \in Watchers, DropPending(w)  PROVE Follows(v, o)'
  BY <1>2, <1>7 DEF DropPending, Idle, Types
<1>8. ASSUME NEW w \in Watchers, w # v,
             Callback(w) \/ EngageFails(w) \/ LookupFails(w)
      PROVE  Follows(v, o)'
  BY <1>2, <1>8, CallbackMoves, GoesOnEffect, ReturnsEffect
<1>9. CASE Callback(v) /\ pc[v] # "idle"
  <2>1. StopRecorder(v)
    BY <1>9 DEF Callback, FilterRejects, CheckCluster, GetRecorder, Engage,
         RunHooks, ClusterStillServed, ClusterGone, RemoveCluster,
         RunDeleteHooks, Idle, Goto, Return, Types, TypeOK
  <2> QED  BY <1>2, <2>1 DEF StopRecorder
<1>10. ~EngageFails(v) /\ ~LookupFails(v)
  BY DEF EngageFails, LookupFails, Goto, Return, Types, TypeOK
<1> QED  BY <1>1, <1>3, <1>4, <1>5, <1>6, <1>7, <1>8, <1>9, <1>10, OtherSteps

\* An object that asks for its cluster is in the index, or its deletion is due.
LEMMA ServedOrDue ==
  ASSUME Types, QueueShape, NEW w \in Watchers, pending[w] # <<>>,
         Accepts(Event(w).state)
  PROVE  IndexKeys(w, ClusterIn(w)) # {} \/ DeletionDue(w, ClusterIn(w))
<1>1. /\ 1 \in DOMAIN pending[w] /\ Event(w) = pending[w][1]
      /\ Event(w).obj \in Objects /\ ClusterIn(w) \in Clusters
  BY EventType
<1>2. PICK j \in DOMAIN pending[w] :
        /\ pending[w][j].obj = Event(w).obj
        /\ pending[w][j].state = store[w][Event(w).obj]
  BY <1>1 DEF QueueShape, CatchesUp
<1>3. CASE store[w][Event(w).obj] = "absent"
  <2>1. pending[w][j].kind = "delete"
    BY <1>2, <1>3 DEF QueueShape
  <2> QED  BY <1>2, <2>1 DEF DeletionDue, ClusterIn
<1>4. CASE store[w][Event(w).obj] # "absent"
  BY <1>1, <1>4 DEF IndexKeys, ClusterIn
<1> QED  BY <1>3, <1>4

\* What is in the index or due stays so, until the callback has handled it.
LEMMA ServedOrDueStays ==
  ASSUME Types, [Next]_vars, NEW w \in Watchers, NEW c \in Clusters, Running(w),
         IndexKeys(w, c) # {} \/ DeletionDue(w, c)
  PROVE  \/ IndexKeys(w, c)' # {} \/ DeletionDue(w, c)'
         \/ /\ Callback(w) \/ EngageFails(w) \/ LookupFails(w)
            /\ Returns(w) /\ IndexKeys(w, c) = {}
            /\ Event(w).kind = "delete" /\ ClusterIn(w) = c
<1> DEFINE Steps == Callback(w) \/ EngageFails(w) \/ LookupFails(w)
           Goal == \/ IndexKeys(w, c)' # {} \/ DeletionDue(w, c)'
                   \/ /\ Steps /\ Returns(w) /\ IndexKeys(w, c) = {}
                      /\ Event(w).kind = "delete" /\ ClusterIn(w) = c
<1> HIDE DEF Steps
<1>1. ASSUME pending'[w] = pending[w] /\ store'[w] = store[w]  PROVE Goal
  BY <1>1 DEF IndexKeys, DeletionDue
<1>2. ASSUME NEW o \in Objects, Sync(w, o)  PROVE Goal
  <2> DEFINE e == Announcement(w, o)
             n == Len(pending[w]) + 1
  <2>1. /\ e \in Notifications /\ e.obj = o
        /\ e.kind = "delete" <=> server[o] = "absent"
        /\ pending'[w] = Append(pending[w], e)
        /\ store'[w][o] = server[o]
        /\ \A q \in Objects \ {o} : store'[w][q] = store[w][q]
    BY <1>2, SyncAppends
  <2>2. pending[w] \in Seq(Notifications)
    BY DEF Types
  <2> HIDE DEF e
  <2>3. /\ DOMAIN pending'[w] = DOMAIN pending[w] \union {n}
        /\ pending'[w][n] = e
        /\ \A i \in DOMAIN pending[w] : pending'[w][i] = pending[w][i]
    BY <2>1, <2>2, Appended
  <2> HIDE DEF n
  <2>4. CASE DeletionDue(w, c)
    BY <2>3, <2>4 DEF DeletionDue
  <2>5. CASE IndexKeys(w, c) # {}
    <3>1. PICK p \in Objects : ClusterOf[p] = c /\ store[w][p] # "absent"
      BY <2>5 DEF IndexKeys
    <3>2. CASE p # o \/ server[o] # "absent"
      BY <2>1, <3>1, <3>2 DEF IndexKeys
    <3>3. CASE p = o /\ server[o] = "absent"
      BY <2>1, <2>3, <3>1, <3>3 DEF DeletionDue
    <3> QED  BY <3>2, <3>3
  <2> QED  BY <2>4, <2>5
<1>3. CASE Resync(w)
  <2>1. pending[w] = <<>> /\ store' = store
    BY <1>3, ResyncFills DEF Resync
  <2>2. ~DeletionDue(w, c)
    BY <2>1 DEF DeletionDue
  <2> QED  BY <2>1, <2>2 DEF IndexKeys
<1>4. ASSUME Steps, Returns(w)  PROVE Goal
  <2>1. /\ pending'[w] = Tail(pending[w]) /\ pending[w] # <<>> /\ store' = store
    BY <1>4, ReturnsEffect
  <2>2. pending[w] \in Seq(Notifications)
    BY DEF Types
  <2>3. \A i \in DOMAIN pending[w] : i # 1 =>
          i - 1 \in DOMAIN pending'[w] /\ pending'[w][i - 1] = pending[w][i]
    BY <2>1, <2>2, Handled
  <2>4. CASE IndexKeys(w, c) # {}
    BY <2>1, <2>4 DEF IndexKeys
  <2>5. CASE IndexKeys(w, c) = {}
    <3>1. PICK i \in DOMAIN pending[w] :
            pending[w][i].kind = "delete" /\ ClusterOf[pending[w][i].obj] = c
      BY <2>5 DEF DeletionDue
    <3>2. CASE i # 1
      BY <2>3, <3>1, <3>2 DEF DeletionDue
    <3>3. CASE i = 1
      BY <1>4, <2>1, <2>2, <2>5, <3>1, <3>3 DEF ClusterIn, Event
    <3> QED  BY <3>2, <3>3
  <2> QED  BY <2>4, <2>5
<1>5. ASSUME NEW v \in Watchers, v # w, NEW o \in Objects, Sync(v, o)  PROVE Goal
  BY <1>1, <1>5, SyncAppends
<1>6. ASSUME NEW v \in Watchers, v # w, Resync(v)  PROVE Goal
  BY <1>1, <1>6, ResyncFills DEF Resync
<1>7. ASSUME NEW v \in Watchers, DropPending(v)  PROVE Goal
  BY <1>1, <1>7 DEF DropPending, Running, Types
<1>8. ASSUME NEW v \in Watchers, v # w, Returns(v)  PROVE Goal
  BY <1>1, <1>8, ReturnsEffect
<1> QED  BY <1>1, <1>2, <1>3, <1>4, <1>5, <1>6, <1>7, <1>8, OtherSteps,
            CallbackMoves
         DEF Elsewhere, GoesOn, vars, Steps

-----------------------------------------------------------------------------
(* The fleet.                                                              *)

\* Which step took a callback where it is.
LEMMA PlaceSteps ==
  ASSUME Types, [Next]_vars, NEW w \in Watchers, pc'[w] # pc[w]
  PROVE  /\ Callback(w) \/ EngageFails(w) \/ LookupFails(w)
         /\ pc'[w] = "deleteHooks" => RemoveCluster(w)
         /\ pc'[w] = "remove" => StopRecorder(w)
         /\ pc'[w] = "stopRecorder" => ClusterGone(w)
         /\ pc'[w] = "engage" => GetRecorder(w)
         /\ pc'[w] = "recorder" => CheckCluster(w) /\ fleet[ClusterIn(w)] = NoEntry
         /\ pc'[w] = "hooks" =>
              \/ Engage(w) \/ EngageFails(w)
              \/ CheckCluster(w) /\ fleet[ClusterIn(w)] # NoEntry
<1>1. Callback(w) \/ EngageFails(w) \/ LookupFails(w)
  <2>1. ASSUME NEW v \in Watchers, v # w,
               Callback(v) \/ EngageFails(v) \/ LookupFails(v)
        PROVE  FALSE
    BY <2>1, CallbackMoves, GoesOnEffect, ReturnsEffect
  <2> QED  BY <2>1, OtherSteps DEF Elsewhere, Sync, Resync, DropPending, vars
<1>2. CASE Callback(w)
  BY <1>2 DEF Callback, FilterRejects, CheckCluster, GetRecorder, Engage, RunHooks,
       ClusterStillServed, ClusterGone, StopRecorder, RemoveCluster,
       RunDeleteHooks, Goto, Return, Types, TypeOK
<1>3. CASE EngageFails(w) \/ LookupFails(w)
  BY <1>3 DEF EngageFails, LookupFails, Goto, Return, Types, TypeOK
<1> QED  BY <1>1, <1>2, <1>3

\* Who adds and drops an entry of p.Clusters.
LEMMA FleetSteps ==
  ASSUME Types, [Next]_vars, NEW c \in Clusters
  PROVE  \/ fleet'[c] = fleet[c]
         \/ fleet'[c] = NoEntry /\ Reap(c)
         \/ fleet'[c] = NoEntry /\ \E w \in Watchers :
                                     RemoveCluster(w) /\ ClusterIn(w) = c
         \/ \E w \in Watchers :
              /\ Engage(w) /\ ClusterIn(w) = c /\ fleet[c] = NoEntry
              /\ fleet'[c] = [by |-> w, rec |-> rec[w]]
<1> USE DEF Types, TypeOK
<1>1. ASSUME NEW d \in Clusters, Reap(d)
      PROVE  fleet'[c] = fleet[c] \/ (fleet'[c] = NoEntry /\ Reap(c))
  BY <1>1 DEF Reap
<1>2. ASSUME NEW w \in Watchers, RemoveCluster(w)
      PROVE  \/ fleet'[c] = fleet[c]
             \/ fleet'[c] = NoEntry /\ ClusterIn(w) = c
  BY <1>2 DEF RemoveCluster
<1>3. ASSUME NEW w \in Watchers, Engage(w)
      PROVE  \/ fleet'[c] = fleet[c]
             \/ /\ ClusterIn(w) = c /\ fleet[c] = NoEntry
                /\ fleet'[c] = [by |-> w, rec |-> rec[w]]
  BY <1>3 DEF Engage
<1>4. \/ UNCHANGED fleet
      \/ \E d \in Clusters : Reap(d)
      \/ \E w \in Watchers : RemoveCluster(w) \/ Engage(w)
  BY DEF Next, vars, ServerChange, Sync, Resync, NewPass, StartFails,
     StartWatcher, CancelWatcher,   DropPending, Callback, EngageFails, LookupFails, FilterRejects,
       CheckCluster, GetRecorder, RunHooks, ClusterStillServed, ClusterGone,
       StopRecorder, RunDeleteHooks, CacheReturns, StopRecorders
<1> QED  BY <1>1, <1>2, <1>3, <1>4

\* A watcher is started once and never again, and runs only after that.
LEMMA RunsOnce ==
  ASSUME Types, [Next]_vars, NEW w \in Watchers
  PROVE  /\ wstate[w] # "new" => wstate'[w] # "new"
         /\ wstate[w] # "new" /\ Running(w)' => Running(w)
<1> USE DEF Types, TypeOK, Running
<1>1. CASE UNCHANGED <<wstate, ending>>
  BY <1>1
<1>2. ASSUME NEW v \in Watchers, StartWatcher(v) \/ CancelWatcher(v)
      PROVE  /\ wstate[w] # "new" => wstate'[w] # "new"
             /\ wstate[w] # "new" /\ Running(w)' => Running(w)
  BY <1>2 DEF NewPass, StartFails, StartWatcher, CancelWatcher
<1>3. CASE CacheReturns \/ StopRecorders
  BY <1>3 DEF CacheReturns, StopRecorders, ContextEnds
<1> QED  BY <1>1, <1>2, <1>3, LifeSteps

LEMMA NextFleetShape ==
  Types /\ PlaceShape /\ FleetShape /\ [Next]_vars => FleetShape'
<1> SUFFICES ASSUME Types, PlaceShape, FleetShape, [Next]_vars,
                    NEW c \in Clusters, fleet'[c] # NoEntry
             PROVE  wstate'[fleet'[c].by] # "new"
  BY DEF FleetShape
<1>1. CASE fleet'[c] = fleet[c]
  <2>1. fleet[c].by \in Watchers
    BY <1>1 DEF Types, TypeOK
  <2> QED  BY <1>1, <2>1, RunsOnce DEF FleetShape
<1>2. ASSUME NEW w \in Watchers, Engage(w), fleet'[c] = [by |-> w, rec |-> rec[w]]
      PROVE  wstate'[fleet'[c].by] # "new"
  <2>1. pending[w] # <<>>
    BY <1>2 DEF Engage, Types, TypeOK
  <2>2. wstate[w] # "new"
    BY <2>1 DEF PlaceShape
  <2> QED  BY <1>2, <2>2, RunsOnce
<1> QED  BY <1>1, <1>2, FleetSteps

LEMMA NextGhostShape ==
  ASSUME Types, QueueShape, PlaceShape, FleetShape, GhostShape, [Next]_vars
  PROVE  GhostShape'
<1> SUFFICES ASSUME budget'.lookup = 0, NEW c \in Clusters, NEW w \in Watchers,
                    fleet'[c] # NoEntry, fleet'[c].by = w, Running(w)'
             PROVE  /\ IndexKeys(w, c)' # {} \/ DeletionDue(w, c)'
                    /\ pc'[w] = "deleteHooks" => ClusterIn(w)' # c
  BY DEF GhostShape
<1>1. budget.lookup = 0
  BY LifeSteps
<1>2. CASE fleet'[c] = fleet[c]
  <2>1. Running(w)
    BY <1>2, RunsOnce DEF FleetShape
  <2>2. /\ IndexKeys(w, c) # {} \/ DeletionDue(w, c)
        /\ pc[w] = "deleteHooks" => ClusterIn(w) # c
    BY <1>1, <1>2, <2>1 DEF GhostShape
  <2>3. ASSUME Returns(w), Event(w).kind = "delete", ClusterIn(w) = c,
               Callback(w) \/ EngageFails(w) \/ LookupFails(w)
        PROVE  IndexKeys(w, c) # {}
    <3>1. pc[w] \notin Engaging
      BY <2>3 DEF PlaceShape
    <3>2. ~LookupFails(w)
      BY <1>1 DEF LookupFails, Spend, Types
    <3>3. ~EngageFails(w) /\ ~RunHooks(w) /\ ~FilterRejects(w) /\ ~GetRecorder(w)
          /\ ~Engage(w) /\ ~CheckCluster(w)
      BY <2>3, <3>1 DEF EngageFails, Engaging, RunHooks, FilterRejects, GetRecorder,
           Engage, CheckCluster
    <3>4. pc'[w] = "idle"
      BY <2>3, ReturnsEffect
    <3>5. ~ClusterGone(w) /\ ~StopRecorder(w) /\ ~RemoveCluster(w)
      BY <3>4 DEF ClusterGone, StopRecorder, RemoveCluster, Goto, Types, TypeOK
    <3>6. ~RunDeleteHooks(w)
      BY <2>2, <2>3 DEF RunDeleteHooks
    <3> QED  BY <2>3, <3>2, <3>3, <3>5, <3>6 DEF Callback, ClusterStillServed
  <2>4. IndexKeys(w, c)' # {} \/ DeletionDue(w, c)'
    BY <2>1, <2>2, <2>3, ServedOrDueStays
  <2>5. ASSUME pc'[w] = "deleteHooks"  PROVE ClusterIn(w)' # c
    <3>1. CASE pc[w] = "deleteHooks"
      BY <2>2, <2>5, <3>1, EventStays
    <3>2. CASE pc[w] # "deleteHooks"
      <4>1. RemoveCluster(w)
        BY <2>5, <3>2, PlaceSteps
      <4>2. fleet' = [fleet EXCEPT ![ClusterIn(w)] = NoEntry] /\ pc[w] = "remove"
        BY <4>1 DEF RemoveCluster
      <4>3. ClusterIn(w) # c
        BY <4>2 DEF Types, TypeOK
      <4> QED  BY <4>2, <4>3, <2>5, EventStays
    <3> QED  BY <3>1, <3>2
  <2> QED  BY <2>4, <2>5
<1>3. ASSUME Engage(w), ClusterIn(w) = c
      PROVE  /\ IndexKeys(w, c)' # {} \/ DeletionDue(w, c)'
             /\ pc'[w] = "deleteHooks" => ClusterIn(w)' # c
  <2>1. pending[w] # <<>> /\ UNCHANGED <<store, pending>> /\ pc'[w] = "hooks"
    BY <1>3 DEF Engage, Goto, Types, TypeOK
  <2>2. Accepts(Event(w).state)
    BY <1>3 DEF Engage, Engaging, PlaceShape
  <2> QED  BY <1>3, <2>1, <2>2, ServedOrDue DEF IndexKeys, DeletionDue
<1>4. ASSUME NEW v \in Watchers, Engage(v), ClusterIn(v) = c,
             fleet'[c] = [by |-> v, rec |-> rec[v]]
      PROVE  Engage(w) /\ ClusterIn(w) = c
  BY <1>4
<1> QED  BY <1>2, <1>3, <1>4, FleetSteps

-----------------------------------------------------------------------------
(* Clusters that ask to be engaged.                                        *)

\* w has still to look at o.
ToLookAt(w, o) ==
  \E i \in DOMAIN pending[w] : pending[w][i].obj = o /\ (i = 1 => pc[w] = "idle")

\* It is not done with o when it handles something else, or something that
\* does not engage.
LEMMA LooksLater ==
  ASSUME Types, QueueShape, NEW w \in Watchers, NEW o \in Objects,
         pending[w] # <<>>, Accepts(store[w][o]), ToLookAt(w, o),
         pc[w] # "idle" \/ Event(w).obj # o \/ ~Accepts(Event(w).state)
  PROVE  Follows(w, o)
<1>1. Event(w) = pending[w][1] /\ \A i \in DOMAIN pending[w] : i \in Nat /\ i >= 1
  <2>1. pending[w] \in Seq(Notifications)
    BY DEF Types
  <2> QED  BY <2>1, EventType
<1>2. PICK i \in DOMAIN pending[w] :
        pending[w][i].obj = o /\ (i = 1 => pc[w] = "idle")
  BY DEF ToLookAt
<1>3. CASE i # 1
  BY <1>1, <1>2, <1>3 DEF Follows
<1>4. CASE i = 1
  <2>1. PICK j \in DOMAIN pending[w] :
          /\ pending[w][j].obj = o /\ pending[w][j].state = store[w][o]
    BY <1>2 DEF QueueShape, CatchesUp
  <2>2. j # 1
    BY <1>1, <1>2, <1>4, <2>1
  <2> QED  BY <1>1, <2>1, <2>2 DEF Follows
<1> QED  BY <1>3, <1>4

\* What w has still to look at it will look at, whatever the others do.
LEMMA LooksStay ==
  ASSUME Types, QueueShape, [Next]_vars, NEW w \in Watchers, Running(w),
         NEW c \in Clusters, fleet[c] = NoEntry,
         \A o \in Objects : ClusterOf[o] = c /\ Accepts(store[w][o]) => ToLookAt(w, o)
  PROVE  \/ \A o \in Objects :
              ClusterOf[o] = c /\ Accepts(store[w][o])' => ToLookAt(w, o)'
         \/ pc'[w] = "recorder" /\ ClusterIn(w)' = c
<1> DEFINE Stay == \A o \in Objects :
                     ClusterOf[o] = c /\ Accepts(store[w][o])' => ToLookAt(w, o)'
<1> USE DEF Accepts
<1>1. ASSUME pending'[w] = pending[w], store'[w] = store[w], pc'[w] = pc[w]
      PROVE  Stay
  BY <1>1 DEF ToLookAt
<1>2. ASSUME NEW p \in Objects, Sync(w, p)  PROVE Stay
  <2> DEFINE e == Announcement(w, p)
             n == Len(pending[w]) + 1
  <2>1. /\ e \in Notifications /\ e.obj = p
        /\ pending'[w] = Append(pending[w], e)
        /\ \A q \in Objects \ {p} : store'[w][q] = store[w][q]
    BY <1>2, SyncAppends
  <2>2. pending[w] \in Seq(Notifications) /\ pc' = pc
    BY <1>2 DEF Types, Sync
  <2> HIDE DEF e
  <2>3. /\ DOMAIN pending'[w] = DOMAIN pending[w] \union {n}
        /\ pending'[w][n] = e
        /\ \A i \in DOMAIN pending[w] : pending'[w][i] = pending[w][i]
    BY <2>1, <2>2, Appended
  <2>4. n = 1 => pc[w] = "idle"
    BY <2>2 DEF Types, TypeOK
  <2> HIDE DEF n
  <2> TAKE o \in Objects
  <2>5. CASE o = p
    BY <2>1, <2>2, <2>3, <2>4, <2>5 DEF ToLookAt
  <2>6. CASE o # p
    BY <2>1, <2>2, <2>3, <2>6 DEF ToLookAt
  <2> QED  BY <2>5, <2>6
<1>3. ASSUME Resync(w)  PROVE Stay
  <2>1. pending[w] = <<>> /\ store' = store
    BY <1>3, ResyncFills DEF Resync
  <2>2. \A o \in Objects : ~ToLookAt(w, o)
    BY <2>1 DEF ToLookAt
  <2> QED  BY <2>1, <2>2
<1>4. ASSUME pending[w] # <<>>, store' = store,
             \/ pending' = pending
             \/ pending'[w] = Tail(pending[w]) /\ pc'[w] = "idle",
             \/ pc[w] # "idle"
             \/ ~Accepts(Event(w).state)
             \/ ClusterIn(w) # c
      PROVE  Stay
  <2> TAKE o \in Objects
  <2> HAVE ClusterOf[o] = c /\ Accepts(store[w][o])'
  <2>1. Accepts(store[w][o]) /\ ToLookAt(w, o)
    BY <1>4
  <2>2. Follows(w, o)
    BY <1>4, <2>1, LooksLater DEF ClusterIn
  <2>3. PICK i \in DOMAIN pending[w] : i > 1 /\ pending[w][i].obj = o
    BY <2>2 DEF Follows
  <2>4. CASE pending' = pending
    BY <2>3, <2>4 DEF ToLookAt
  <2>5. CASE pending'[w] = Tail(pending[w]) /\ pc'[w] = "idle"
    <3>1. pending[w] \in Seq(Notifications)
      BY DEF Types
    <3>2. i - 1 \in DOMAIN pending'[w] /\ pending'[w][i - 1] = pending[w][i]
      BY <1>4, <2>3, <2>5, <3>1, Handled
    <3> QED  BY <2>3, <2>5, <3>2 DEF ToLookAt
  <2> QED  BY <1>4, <2>4, <2>5
<1>5. ASSUME Callback(w) \/ EngageFails(w) \/ LookupFails(w)
      PROVE  Stay \/ (pc'[w] = "recorder" /\ ClusterIn(w)' = c)
  <2>1. /\ pending[w] # <<>> /\ store' = store
        /\ \/ pending' = pending
           \/ pending'[w] = Tail(pending[w]) /\ pc'[w] = "idle"
    BY <1>5, CallbackMoves, GoesOnEffect, ReturnsEffect
  <2>2. CASE pc[w] # "idle" \/ ~Accepts(Event(w).state) \/ ClusterIn(w) # c
    BY <1>4, <2>1, <2>2
  <2>3. CASE pc[w] = "idle" /\ Accepts(Event(w).state) /\ ClusterIn(w) = c
    <3>1. Event(w).kind # "delete"
      BY <2>1, <2>3, EventType DEF QueueShape
    <3>2. CheckCluster(w)
      BY <1>5, <2>3, <3>1 DEF Callback, EngageFails, LookupFails, FilterRejects,
           GetRecorder, Engage, RunHooks, ClusterStillServed, ClusterGone,
           StopRecorder, RemoveCluster, RunDeleteHooks
    <3>3. pc'[w] = "recorder" /\ pending' = pending
      BY <2>3, <3>2 DEF CheckCluster, Goto, Types, TypeOK
    <3> QED  BY <2>3, <3>3 DEF ClusterIn, Event
  <2> QED  BY <2>2, <2>3
<1>6. ASSUME NEW v \in Watchers, v # w, NEW o \in Objects, Sync(v, o)  PROVE Stay
  BY <1>1, <1>6, SyncAppends DEF Sync
<1>7. ASSUME NEW v \in Watchers, v # w, Resync(v)  PROVE Stay
  BY <1>1, <1>7, ResyncFills DEF Resync
<1>8. ASSUME NEW v \in Watchers, DropPending(v)  PROVE Stay
  BY <1>1, <1>8 DEF DropPending, Running, Types
<1>9. ASSUME NEW v \in Watchers, v # w,
             Callback(v) \/ EngageFails(v) \/ LookupFails(v)
      PROVE  Stay
  BY <1>1, <1>9, CallbackMoves, GoesOnEffect, ReturnsEffect
<1>10. ASSUME Elsewhere \/ UNCHANGED vars  PROVE Stay
  BY <1>1, <1>10 DEF Elsewhere, vars
<1> QED  BY <1>2, <1>3, <1>5, <1>6, <1>7, <1>8, <1>9, <1>10, OtherSteps

LEMMA NextEngagedShape ==
  ASSUME Types, QueueShape, PlaceShape, RemovalShape, EngagedShape, [Next]_vars
  PROVE  EngagedShape'
<1> SUFFICES ASSUME budget'.cancels = 0, budget'.engage = 0,
                    NEW c \in Clusters, fleet'[c] = NoEntry
             PROVE  \/ \A w \in Watchers : ~Running(w)'
                    \/ \E w \in Watchers : Running(w)' /\ WillEngage(w, c)'
  BY DEF EngagedShape
<1>1. budget.cancels = 0 /\ budget.engage = 0
  BY LifeSteps
<1>2. /\ \A w \in Watchers : wstate[w] # "cancelled"
      /\ \A w \in Watchers : Running(w) => Running(w)'
  <2>1. PlaceShape' /\ Types'
    BY NextPlaceShape, NextTypes
  <2>2. \A w \in Watchers : wstate[w] # "cancelled" /\ wstate'[w] # "cancelled"
    BY <1>1, <2>1 DEF PlaceShape
  <2> QED  BY <2>1, <2>2, RunsOnce DEF Running, Types, TypeOK
<1>3. CASE fleet[c] # NoEntry
  <2>1. ~Reap(c)
    BY <1>2, <1>3 DEF Reap, Types, TypeOK
  <2>2. PICK w \in Watchers : RemoveCluster(w) /\ ClusterIn(w) = c
    <3>1. \A v \in Watchers : [by |-> v, rec |-> rec[v]] # NoEntry
      BY NoEntryAssumption DEF Types, TypeOK
    <3> QED  BY <1>3, <2>1, <3>1, FleetSteps
  <2>3. /\ pc[w] = "remove" /\ pc'[w] = "deleteHooks"
        /\ UNCHANGED <<pending, store>> /\ pending[w] # <<>>
    BY <2>2 DEF RemoveCluster, Goto, Types, TypeOK
  <2>4. Running(w)
    BY <1>2, <2>3 DEF PlaceShape, Running, Types, TypeOK
  <2>5. \A o \in Objects : ClusterOf[o] = c /\ Accepts(store[w][o]) => Follows(w, o)
    BY <2>2, <2>3 DEF RemovalShape, Removing, IndexKeys, Accepts
  <2>6. WillEngage(w, c)'
    BY <2>3, <2>5 DEF WillEngage, Follows, Accepts
  <2> QED  BY <1>2, <2>4, <2>6
<1>4. CASE fleet[c] = NoEntry /\ \A w \in Watchers : ~Running(w)
  <2>1. ASSUME NEW w \in Watchers, Running(w)'  PROVE WillEngage(w, c)'
    <3>1. wstate[w] = "new"
      BY <1>4, <2>1, RunsOnce
    <3>2. StartWatcher(w)
      BY <1>4, <2>1, <3>1, LifeSteps
         DEF NewPass, StartFails, StartWatcher, CancelWatcher, CacheReturns,
             StopRecorders, ContextEnds, Running, Types, TypeOK
    <3>3. \A o \in Objects : store'[w][o] = "absent"
      BY <3>1, <3>2 DEF PlaceShape, StartWatcher
    <3> QED  BY <3>3 DEF WillEngage, Accepts
  <2> QED  BY <2>1
<1>5. CASE fleet[c] = NoEntry /\ \E w \in Watchers : Running(w) /\ WillEngage(w, c)
  <2>1. PICK w \in Watchers : Running(w) /\ WillEngage(w, c)
    BY <1>5
  <2>2. CASE pc[w] \in {"recorder", "engage"} /\ ClusterIn(w) = c
    <3>1. CASE pc'[w] = pc[w]
      BY <1>2, <2>1, <2>2, <3>1, EventStays DEF WillEngage
    <3>2. CASE pc'[w] # pc[w]
      <4>1. ~EngageFails(w)
        BY <1>1 DEF EngageFails, Spend, Types
      <4>2. ~Engage(w)
        <5>1. [by |-> w, rec |-> rec[w]] # NoEntry
          BY NoEntryAssumption DEF Types, TypeOK
        <5> QED  BY <1>5, <2>2, <5>1 DEF Engage, Types, TypeOK
      <4>3. GetRecorder(w)
        BY <2>2, <3>2, <4>1, <4>2, PlaceSteps
           DEF Callback, LookupFails, FilterRejects, CheckCluster, RunHooks,
               ClusterStillServed, ClusterGone, StopRecorder, RemoveCluster,
               RunDeleteHooks, Idle
      <4>4. pc'[w] = "engage"
        BY <4>3 DEF GetRecorder, Goto, Types, TypeOK
      <4> QED  BY <1>2, <2>1, <2>2, <4>4, EventStays DEF WillEngage
    <3> QED  BY <1>2, <2>1, <3>1, <3>2
  <2>3. CASE \A o \in Objects :
               ClusterOf[o] = c /\ Accepts(store[w][o]) => ToLookAt(w, o)
    <3>1. WillEngage(w, c)'
      BY <1>5, <2>1, <2>3, LooksStay DEF WillEngage, ToLookAt
    <3> QED  BY <1>2, <2>1, <3>1
  <2> QED  BY <2>1, <2>2, <2>3 DEF WillEngage, ToLookAt
<1> QED  BY <1>1, <1>3, <1>4, <1>5 DEF EngagedShape

-----------------------------------------------------------------------------
(* The end of the provider.                                                *)

\* Who makes and stops recorders.
LEMMA RecorderSteps ==
  ASSUME Types, [Next]_vars
  PROVE  \/ UNCHANGED <<recLive, recGen>>
         \/ \E w \in Watchers : GetRecorder(w) \/ StopRecorder(w)
         \/ StopRecorders
BY DEF Next, vars, ServerChange, Sync, Resync, NewPass, StartFails,
     StartWatcher, CancelWatcher, DropPending, Callback, EngageFails,
     LookupFails, FilterRejects, CheckCluster,
     Engage, RunHooks, ClusterStillServed, ClusterGone, RemoveCluster,
     RunDeleteHooks, Reap, CacheReturns

LEMMA NextEndShape == Types /\ EndShape /\ [Next]_vars => EndShape'
<1> SUFFICES ASSUME Types, EndShape, [Next]_vars, provider' = "stopped", late' = {}
             PROVE  /\ \A w \in Watchers : ~Running(w)' /\ Drained(w)'
                    /\ \A c \in Clusters : ~recLive'[c]
  BY DEF EndShape
<1> USE DEF Drained, Idle, Running, Types, TypeOK
<1>1. CASE StopRecorders
  BY <1>1 DEF StopRecorders, ContextEnds
<1>2. CASE ~StopRecorders
  <2>1. provider = "stopped" /\ late = {} /\ UNCHANGED wstate
    BY <1>2, LifeSteps DEF StartWatcher, CancelWatcher, CacheReturns, ending,
         EndShape
  <2>2. /\ \A w \in Watchers : ~Running(w) /\ Drained(w)
        /\ \A c \in Clusters : ~recLive[c]
    BY <2>1 DEF EndShape
  <2>3. ASSUME NEW w \in Watchers
        PROVE  ~(Callback(w) \/ EngageFails(w) \/ LookupFails(w))
    BY <2>2, CallbackMoves DEF GoesOn, Returns
  <2>4. UNCHANGED <<pc, pending>>
    BY <2>2, <2>3, OtherSteps DEF Elsewhere, Sync, Resync, DropPending, vars
  <2>5. UNCHANGED recLive
    BY <1>2, <2>2, RecorderSteps DEF GetRecorder, StopRecorder
  <2> QED  BY <2>1, <2>2, <2>4, <2>5
<1> QED  BY <1>1, <1>2

LEMMA NextFreshShape ==
  Types /\ PlaceShape /\ FreshShape /\ [Next]_vars => FreshShape'
<1> SUFFICES ASSUME Types, PlaceShape, FreshShape, [Next]_vars, Untouched'
             PROVE  /\ \A c \in Clusters : fleet'[c] = NoEntry /\ ~recLive'[c]
                    /\ hooks' = {}
  BY DEF FreshShape
<1>1. Untouched
  BY RunsOnce DEF Untouched
<1>2. \A w \in Watchers : pending[w] = <<>> /\ pc[w] = "idle"
  BY <1>1 DEF Untouched, PlaceShape, Types, TypeOK
<1>3. ASSUME NEW w \in Watchers
      PROVE  ~(Callback(w) \/ EngageFails(w) \/ LookupFails(w))
  BY <1>2, CallbackMoves DEF GoesOn, Returns
<1>4. \A c \in Clusters : fleet[c] = NoEntry /\ ~recLive[c]
  BY <1>1 DEF FreshShape
<1>5. UNCHANGED hooks
  BY <1>3 DEF Next, vars, ServerChange, Sync, Resync, NewPass, StartFails,
       StartWatcher, CancelWatcher, DropPending, Reap, CacheReturns, StopRecorders
<1>6. \A c \in Clusters : fleet'[c] = NoEntry
  BY <1>3, <1>4, FleetSteps DEF Callback
<1>7. \A c \in Clusters : ~recLive'[c]
  BY <1>3, <1>4, RecorderSteps DEF Callback, StopRecorders
<1> QED  BY <1>1, <1>5, <1>6, <1>7 DEF FreshShape

-----------------------------------------------------------------------------
(* A single watcher.                                                       *)

\* A watcher that is alone was so before, or nobody had been started.
LEMMA SoloBefore ==
  ASSUME Types, [Next]_vars, NEW w \in Watchers, Solo(w)'
  PROVE  /\ \/ Solo(w)
            \/ Untouched /\ StartWatcher(w)
         /\ ~EngageFails(w) /\ ~StopRecorders /\ \A c \in Clusters : ~Reap(c)
         /\ \A v \in Watchers \ {w} : wstate[v] = "new"
<1> USE DEF Types, TypeOK, Running
<1>1. /\ \A v \in Watchers \ {w} : wstate'[v] = "new"
      /\ budget'.engage = 0 /\ provider' = "runs" /\ wstate'[w] = "running"
  BY DEF Solo
<1>2. \A v \in Watchers \ {w} : wstate[v] = "new"
  BY <1>1, RunsOnce
<1>3. budget.engage = 0
  BY <1>1, LifeSteps
<1>4. provider = "runs"
  BY <1>1, LifeSteps
     DEF CacheReturns, StopRecorders, NewPass, StartFails, StartWatcher,
         CancelWatcher, ending
<1>5. wstate[w] \in {"new", "running"}
  BY <1>1, RunsOnce
<1>6. ASSUME wstate[w] = "new"  PROVE Untouched /\ StartWatcher(w)
  <2>1. Untouched
    BY <1>2, <1>6 DEF Untouched
  <2>2. ~CacheReturns /\ ~StopRecorders /\ wstate' # wstate
    BY <1>1, <1>6 DEF CacheReturns, StopRecorders
  <2>3. PICK v \in Watchers : StartWatcher(v) \/ CancelWatcher(v)
    BY <2>2, LifeSteps
  <2>4. v = w
    BY <1>1, <1>6, <2>3 DEF NewPass, StartFails, StartWatcher, CancelWatcher
  <2> QED  BY <1>6, <2>1, <2>3, <2>4 DEF CancelWatcher
<1>7. ~EngageFails(w) /\ ~StopRecorders
  BY <1>1, <1>3 DEF EngageFails, Spend, StopRecorders
<1>8. \A c \in Clusters : ~Reap(c)
  BY <1>2, <1>5 DEF Reap
<1>9. wstate[w] = "running" => Solo(w)
  BY <1>2, <1>3, <1>4 DEF Solo
<1> QED  BY <1>2, <1>5, <1>6, <1>7, <1>8, <1>9

\* Nobody else has anything to do.
LEMMA SoloActs ==
  ASSUME Types, PlaceShape, [Next]_vars, NEW w \in Watchers, Solo(w)'
  PROVE  \/ Callback(w) \/ LookupFails(w)
         \/ /\ UNCHANGED <<fleet, recLive, recGen, rec, hooks, pc>>
            /\ pc[w] # "idle" => ClusterIn(w)' = ClusterIn(w)
<1>1. ASSUME NEW v \in Watchers, v # w
      PROVE  ~(Callback(v) \/ EngageFails(v) \/ LookupFails(v))
  <2>1. pending[v] = <<>>
    BY <1>1, SoloBefore DEF PlaceShape
  <2> QED  BY <2>1, CallbackMoves DEF GoesOn, Returns
<1>2. \/ Callback(w) \/ LookupFails(w)
      \/ UNCHANGED <<fleet, recLive, recGen, rec, hooks, pc>>
  BY <1>1, SoloBefore
     DEF Next, vars, ServerChange, Sync, Resync, NewPass, StartFails,
         StartWatcher, CancelWatcher, DropPending, CacheReturns
<1> QED  BY <1>2, EventStays

\* The steps of a callback, without the queues.
LEMMA CallbackEffect ==
  ASSUME Types, NEW w \in Watchers
  PROVE  /\ CheckCluster(w) =>
              /\ pc[w] = "idle"
              /\ pc'[w] = IF fleet[ClusterIn(w)] = NoEntry THEN "recorder" ELSE "hooks"
         /\ ClusterGone(w) => pc[w] = "idle" /\ pc'[w] = "stopRecorder"
         /\ GetRecorder(w) => pc'[w] = "engage"
         /\ Engage(w) => pc'[w] = "hooks"
         /\ StopRecorder(w) => pc'[w] = "remove"
         /\ RemoveCluster(w) => pc'[w] = "deleteHooks"
         /\ RunHooks(w) \/ RunDeleteHooks(w) \/ FilterRejects(w)
              \/ ClusterStillServed(w) \/ LookupFails(w) => pc'[w] = "idle"
BY DEF CheckCluster, ClusterGone, GetRecorder, Engage, StopRecorder, RemoveCluster,
     RunHooks, RunDeleteHooks, FilterRejects, ClusterStillServed, LookupFails,
     Idle, Goto, Return, Types, TypeOK

\* The part of SoloRecorders about one watcher and one cluster.
RecorderOK(w, c) ==
  /\ At(w, "recorder", c) \/ At(w, "engage", c) => fleet[c] = NoEntry
  /\ At(w, "engage", c) => recLive[c] /\ rec[w] = recGen[c]
  /\ At(w, "remove", c) => ~recLive[c]
  /\ At(w, "deleteHooks", c) => fleet[c] = NoEntry
  /\ fleet[c] # NoEntry =>
       At(w, "remove", c) \/ (recLive[c] /\ fleet[c].rec = recGen[c])
  /\ recLive[c] => fleet[c] # NoEntry \/ At(w, "engage", c)

LEMMA NextSoloRecorders ==
  ASSUME Types, PlaceShape, FreshShape, SoloRecorders, [Next]_vars
  PROVE  SoloRecorders'
<1> SUFFICES ASSUME NEW w \in Watchers, Solo(w)', NEW c \in Clusters
             PROVE  RecorderOK(w, c)'
  BY DEF SoloRecorders, RecorderOK
<1>1. CASE Untouched /\ StartWatcher(w)
  <2>1. pc'[w] = "idle" /\ UNCHANGED <<fleet, recLive>>
    BY <1>1 DEF Untouched, StartWatcher, PlaceShape, Types, TypeOK
  <2>2. fleet[c] = NoEntry /\ ~recLive[c]
    BY <1>1 DEF FreshShape
  <2> QED  BY <2>1, <2>2 DEF RecorderOK, At
<1>2. CASE Solo(w)
  <2>1. RecorderOK(w, c)
    BY <1>2 DEF SoloRecorders, RecorderOK
  <2>2. CASE UNCHANGED <<fleet, recLive, recGen, rec, pc>>
             /\ (pc[w] # "idle" => ClusterIn(w)' = ClusterIn(w))
    BY <2>1, <2>2 DEF RecorderOK, At
  <2>3. CASE LookupFails(w) \/ FilterRejects(w) \/ ClusterStillServed(w)
    <3>1. pc'[w] = "idle" /\ pc[w] = "idle" /\ UNCHANGED <<fleet, recLive, recGen>>
      BY <2>3, CallbackEffect DEF LookupFails, FilterRejects, ClusterStillServed, Idle
    <3> QED  BY <2>1, <3>1 DEF RecorderOK, At
  <2>4. CASE RunHooks(w) \/ RunDeleteHooks(w)
    <3>1. /\ pc'[w] = "idle" /\ pc[w] \in {"hooks", "deleteHooks"}
          /\ UNCHANGED <<fleet, recLive, recGen>>
      BY <2>4, CallbackEffect DEF RunHooks, RunDeleteHooks
    <3> QED  BY <2>1, <3>1 DEF RecorderOK, At
  <2>5. ASSUME UNCHANGED pending  PROVE ClusterIn(w)' = ClusterIn(w)
    BY <2>5 DEF ClusterIn, Event
  <2>6. CASE CheckCluster(w) \/ ClusterGone(w)
    <3>1. /\ pc[w] = "idle" /\ pc'[w] \in {"recorder", "hooks", "stopRecorder"}
          /\ pc'[w] = "recorder" => fleet[ClusterIn(w)] = NoEntry
          /\ UNCHANGED <<fleet, recLive, recGen, pending>>
      BY <2>6, CallbackEffect DEF CheckCluster, ClusterGone
    <3> QED  BY <2>1, <2>5, <3>1 DEF RecorderOK, At
  <2>7. CASE GetRecorder(w)
    <3>1. pc[w] = "recorder" /\ pc'[w] = "engage" /\ UNCHANGED <<fleet, pending>>
      BY <2>7, CallbackEffect DEF GetRecorder
    <3>2. CASE ClusterIn(w) = c
      <4>1. recLive'[c] /\ rec'[w] = recGen'[c]
        BY <2>7, <3>2 DEF GetRecorder, Types, TypeOK
      <4> QED  BY <2>1, <2>5, <3>1, <3>2, <4>1 DEF RecorderOK, At
    <3>3. CASE ClusterIn(w) # c
      <4>1. recLive'[c] = recLive[c] /\ recGen'[c] = recGen[c]
        BY <2>7, <3>3 DEF GetRecorder, Types, TypeOK
      <4> QED  BY <2>1, <2>5, <3>1, <3>3, <4>1 DEF RecorderOK, At
    <3> QED  BY <3>2, <3>3
  <2>8. CASE Engage(w)
    <3>1. /\ pc[w] = "engage" /\ pc'[w] = "hooks"
          /\ UNCHANGED <<recLive, recGen, pending>>
      BY <2>8, CallbackEffect DEF Engage
    <3>2. CASE ClusterIn(w) = c
      <4>1. fleet[c] = NoEntry /\ recLive[c] /\ rec[w] = recGen[c]
        BY <2>1, <3>1, <3>2 DEF RecorderOK, At
      <4>2. fleet'[c] = [by |-> w, rec |-> rec[w]]
        BY <2>8, <3>2, <4>1 DEF Engage, Types, TypeOK
      <4>3. fleet'[c] # NoEntry /\ fleet'[c].rec = rec[w]
        BY <4>2, NoEntryAssumption DEF Types, TypeOK
      <4> QED  BY <3>1, <4>1, <4>3 DEF RecorderOK, At
    <3>3. CASE ClusterIn(w) # c
      <4>1. fleet'[c] = fleet[c]
        BY <2>8, <3>3 DEF Engage, Types, TypeOK
      <4> QED  BY <2>1, <2>5, <3>1, <3>3, <4>1 DEF RecorderOK, At
    <3> QED  BY <3>2, <3>3
  <2>9. CASE StopRecorder(w)
    <3>1. /\ pc[w] = "stopRecorder" /\ pc'[w] = "remove"
          /\ UNCHANGED <<fleet, recGen, pending>>
          /\ recLive' = [recLive EXCEPT ![ClusterIn(w)] = FALSE]
      BY <2>9, CallbackEffect DEF StopRecorder
    <3>2. recLive'[c] = IF ClusterIn(w) = c THEN FALSE ELSE recLive[c]
      BY <3>1 DEF Types, TypeOK
    <3> QED  BY <2>1, <2>5, <3>1, <3>2 DEF RecorderOK, At
  <2>10. CASE RemoveCluster(w)
    <3>1. /\ pc[w] = "remove" /\ pc'[w] = "deleteHooks"
          /\ UNCHANGED <<recLive, recGen, pending>>
          /\ fleet' = [fleet EXCEPT ![ClusterIn(w)] = NoEntry]
      BY <2>10, CallbackEffect DEF RemoveCluster
    <3>2. fleet'[c] = IF ClusterIn(w) = c THEN NoEntry ELSE fleet[c]
      BY <3>1 DEF Types, TypeOK
    <3> QED  BY <2>1, <2>5, <3>1, <3>2 DEF RecorderOK, At
  <2> QED  BY <2>2, <2>3, <2>4, <2>6, <2>7, <2>8, <2>9, <2>10, SoloActs
           DEF Callback
<1> QED  BY <1>1, <1>2, SoloBefore

\* What a callback does to what the handlers know.
LEMMA HookSteps ==
  ASSUME Types, PlaceShape, [Next]_vars, NEW w \in Watchers, Solo(w)'
  PROVE  \/ UNCHANGED hooks /\ ~RunHooks(w) /\ ~RunDeleteHooks(w)
         \/ RunHooks(w) /\ hooks' = hooks \union {ClusterIn(w)}
         \/ RunDeleteHooks(w) /\ hooks' = hooks \ {ClusterIn(w)}
<1>1. CASE RunHooks(w) \/ RunDeleteHooks(w)
  BY <1>1 DEF RunHooks, RunDeleteHooks
<1>2. CASE ~RunHooks(w) /\ ~RunDeleteHooks(w)
  BY <1>2, SoloActs
     DEF Callback, LookupFails, FilterRejects, CheckCluster, GetRecorder, Engage,
         ClusterStillServed, ClusterGone, StopRecorder, RemoveCluster
<1> QED  BY <1>1, <1>2

\* An engaged cluster has been announced to the handlers, or is about to be.
LEMMA EngagedIsTold ==
  ASSUME Types, PlaceShape, SoloRecorders, SoloHooks, [Next]_vars,
         NEW w \in Watchers, Solo(w), Solo(w)', NEW c \in Clusters,
         fleet'[c] # NoEntry
  PROVE  c \in hooks' \/ At(w, "hooks", c)'
<1>1. /\ fleet[c] # NoEntry => c \in hooks \/ At(w, "hooks", c)
      /\ At(w, "deleteHooks", c) => fleet[c] = NoEntry
  BY DEF SoloHooks, SoloRecorders
<1>2. CASE fleet'[c] = fleet[c]
  <2>1. CASE c \in hooks
    <3>1. ~(RunDeleteHooks(w) /\ ClusterIn(w) = c)
      BY <1>1, <1>2 DEF RunDeleteHooks, At
    <3> QED  BY <2>1, <3>1, HookSteps
  <2>2. CASE At(w, "hooks", c)
    <3>1. CASE RunHooks(w)
      BY <2>2, <3>1 DEF RunHooks, At
    <3>2. CASE ~RunHooks(w)
      <4>1. ~Callback(w) /\ ~LookupFails(w)
        BY <2>2, <3>2
           DEF At, Callback, LookupFails, FilterRejects, CheckCluster, GetRecorder,
               Engage, ClusterStillServed, ClusterGone, StopRecorder,
               RemoveCluster, RunDeleteHooks, Idle
      <4> QED  BY <2>2, <4>1, SoloActs DEF At
    <3> QED  BY <3>1, <3>2
  <2> QED  BY <1>1, <1>2, <2>1, <2>2
<1>3. ASSUME NEW v \in Watchers, Engage(v), ClusterIn(v) = c
      PROVE  At(w, "hooks", c)'
  <2>1. pending[v] # <<>>
    BY <1>3 DEF Engage, Types, TypeOK
  <2>2. v = w
    BY <2>1 DEF Solo, PlaceShape
  <2>3. pc'[w] = "hooks" /\ UNCHANGED pending
    BY <1>3, <2>2, CallbackEffect DEF Engage
  <2> QED  BY <1>3, <2>2, <2>3 DEF At, ClusterIn, Event
<1> QED  BY <1>2, <1>3, FleetSteps

\* The handlers know of no cluster that is gone for good.
LEMMA ToldIsServedOrDue ==
  ASSUME Types, QueueShape, PlaceShape, SoloHooks, [Next]_vars,
         NEW w \in Watchers, Solo(w), Solo(w)', NEW c \in Clusters,
         budget'.lookup = 0, c \in hooks'
  PROVE  IndexKeys(w, c)' # {} \/ DeletionDue(w, c)'
<1>1. budget.lookup = 0 /\ Running(w)
  BY LifeSteps DEF Solo
<1>2. IndexKeys(w, c) # {} \/ DeletionDue(w, c)
  <2>1. CASE c \in hooks
    BY <1>1, <2>1 DEF SoloHooks
  <2>2. CASE c \notin hooks
    <3>1. RunHooks(w) /\ ClusterIn(w) = c
      BY <2>2, HookSteps
    <3>2. pending[w] # <<>> /\ Accepts(Event(w).state)
      BY <3>1 DEF RunHooks, Engaging, PlaceShape, Types, TypeOK
    <3> QED  BY <3>1, <3>2, ServedOrDue
  <2> QED  BY <2>1, <2>2
<1>3. ASSUME Returns(w), IndexKeys(w, c) = {}, Event(w).kind = "delete",
             ClusterIn(w) = c, Callback(w) \/ EngageFails(w) \/ LookupFails(w)
      PROVE  FALSE
  <2>1. pc[w] \notin Engaging
    BY <1>3 DEF PlaceShape
  <2>2. ~LookupFails(w)
    BY <1>1 DEF LookupFails, Spend, Types
  <2>3. ~EngageFails(w) /\ ~RunHooks(w) /\ ~FilterRejects(w) /\ ~GetRecorder(w)
        /\ ~Engage(w) /\ ~CheckCluster(w) /\ ~ClusterStillServed(w)
    BY <1>3, <2>1 DEF EngageFails, Engaging, RunHooks, FilterRejects, GetRecorder,
         Engage, CheckCluster, ClusterStillServed
  <2>4. pc'[w] = "idle"
    BY <1>3, ReturnsEffect
  <2>5. ~ClusterGone(w) /\ ~StopRecorder(w) /\ ~RemoveCluster(w)
    BY <2>4, CallbackEffect
  <2>6. ~RunDeleteHooks(w)
    BY <1>3 DEF RunDeleteHooks
  <2> QED  BY <1>3, <2>2, <2>3, <2>5, <2>6 DEF Callback
<1> QED  BY <1>1, <1>2, <1>3, ServedOrDueStays

LEMMA NextSoloHooks ==
  ASSUME Types, QueueShape, PlaceShape, FreshShape, SoloRecorders, SoloHooks,
         [Next]_vars
  PROVE  SoloHooks'
<1> SUFFICES ASSUME NEW w \in Watchers, Solo(w)', NEW c \in Clusters
             PROVE  /\ fleet'[c] # NoEntry => c \in hooks' \/ At(w, "hooks", c)'
                    /\ budget'.lookup = 0 /\ c \in hooks' =>
                         IndexKeys(w, c)' # {} \/ DeletionDue(w, c)'
  BY DEF SoloHooks
<1>1. CASE Untouched /\ StartWatcher(w)
  <2>1. fleet'[c] = NoEntry /\ hooks' = {}
    BY <1>1 DEF FreshShape, StartWatcher
  <2> QED  BY <2>1
<1>2. CASE Solo(w)
  BY <1>2, EngagedIsTold, ToldIsServedOrDue
<1> QED  BY <1>1, <1>2, SoloBefore

-----------------------------------------------------------------------------
(* The theorems.                                                           *)

LEMMA InitIInv == Init => IInv
<1> SUFFICES ASSUME Init  PROVE IInv
  OBVIOUS
<1>1. Types
  BY BoundsAssumption, WatchersAssumption DEF Init, Types, TypeOK, ObjectStates
<1>2. \A w \in Watchers : /\ pending[w] = <<>> /\ pc[w] = "idle"
                          /\ \A o \in Objects : store[w][o] = "absent"
  BY DEF Init
<1>3. /\ \A c \in Clusters : fleet[c] = NoEntry /\ ~recLive[c]
      /\ hooks = {} /\ provider = "runs"
      /\ budget.cancels = 0 /\ budget.engage = 0 /\ budget.lookup = 0
      /\ \A w \in Watchers : wstate[w] # "cancelled"
  BY DEF Init
<1>4. QueueShape /\ RemovalShape
  BY <1>2 DEF QueueShape, RemovalShape, Removing
<1>5. PlaceShape
  BY <1>2, <1>3 DEF PlaceShape, Engaging, Removing
<1>6. FleetShape /\ GhostShape /\ EndShape /\ FreshShape
  BY <1>3 DEF FleetShape, GhostShape, EndShape, FreshShape
<1>7. EngagedShape
  BY <1>2 DEF EngagedShape, WillEngage, Accepts
<1>8. SoloRecorders /\ SoloHooks
  BY <1>2, <1>3 DEF SoloRecorders, SoloHooks, At
<1>9. BudgetShape
  BY <1>3, BoundsAssumption DEF BudgetShape
<1> QED  BY <1>1, <1>4, <1>5, <1>6, <1>7, <1>8, <1>9 DEF IInv

LEMMA NextIInv == IInv /\ [Next]_vars => IInv'
<1> SUFFICES ASSUME IInv, [Next]_vars  PROVE IInv'
  OBVIOUS
<1>1. /\ Types /\ QueueShape /\ PlaceShape /\ FleetShape /\ RemovalShape
      /\ GhostShape /\ EngagedShape /\ EndShape /\ FreshShape /\ SoloRecorders
      /\ SoloHooks /\ BudgetShape
  BY DEF IInv
<1>2. Types' /\ QueueShape' /\ PlaceShape' /\ FleetShape' /\ RemovalShape'
  BY <1>1, NextTypes, NextQueueShape, NextPlaceShape, NextFleetShape,
     NextRemovalShape
<1>3. GhostShape' /\ EngagedShape'
  BY <1>1, NextGhostShape, NextEngagedShape
<1>4. EndShape' /\ FreshShape' /\ SoloRecorders' /\ SoloHooks' /\ BudgetShape'
  BY <1>1, NextEndShape, NextFreshShape, NextSoloRecorders, NextSoloHooks,
     NextBudgetShape
<1> QED  BY <1>2, <1>3, <1>4 DEF IInv

LEMMA SpecIInv == Spec => []IInv
BY InitIInv, NextIInv, PTL DEF Spec

\* Every variable of the watched endpoints (provider.go:441-560) keeps its
\* type, and a callback in progress has its event, for any number of endpoints.
THEOREM EngagementTypeCorrect == Spec => []TypeOK
<1>1. IInv => TypeOK
  BY DEF IInv, Types
<1> QED  BY <1>1, SpecIInv, PTL

\* DeleteFunc leaves no ghost cluster (provider.go:484-520): as long as no
\* index lookup failed, whatever else fails and whoever is cancelled, a cluster
\* engaged by a running endpoint that has nothing left to handle has an object
\* in its index.
THEOREM NoGhostUntilLookupFails == Spec => [](budget.lookup = 0 => NoGhostCluster)
<1>1. IInv => (budget.lookup = 0 => NoGhostCluster)
  <2> SUFFICES ASSUME IInv, budget.lookup = 0, NEW c \in Clusters,
                      fleet[c] # NoEntry, Running(fleet[c].by),
                      Drained(fleet[c].by)
               PROVE  IndexKeys(fleet[c].by, c) # {}
    BY DEF NoGhostCluster
  <2>1. fleet[c].by \in Watchers
    BY DEF IInv, Types, TypeOK
  <2>2. IndexKeys(fleet[c].by, c) # {} \/ DeletionDue(fleet[c].by, c)
    BY <2>1 DEF IInv, GhostShape
  <2> QED  BY <2>2 DEF DeletionDue, Drained
<1> QED  BY <1>1, SpecIInv, PTL

\* The same of an informer whose index lookups do not fail.
COROLLARY NoGhosts ==
  ASSUME MaxLookupFaults = 0
  PROVE  Spec => []NoGhostCluster
<1>1. IInv => budget.lookup = 0
  BY DEF IInv, Types, BudgetShape
<1> QED  BY <1>1, SpecIInv, NoGhostUntilLookupFails, PTL

\* "yields each logical cluster exposed via a virtual workspace as a cluster"
\* (provider.go:130-132, 466-483, 536-560): until an endpoint is cancelled or an
\* engagement fails, any number of endpoints that share clusters, whose
\* callbacks add and remove them under each other's hands, engage every exposed
\* cluster by the time they have handled everything.
THEOREM EngagedUntilDisturbed ==
  Spec => [](budget.cancels = 0 /\ budget.engage = 0 => EngagedWhenQuiet)
<1>1. IInv => (budget.cancels = 0 /\ budget.engage = 0 => EngagedWhenQuiet)
  <2> SUFFICES ASSUME IInv, budget.cancels = 0, budget.engage = 0, Quiet,
                      NEW c \in Clusters, Exposed(c), fleet[c] = NoEntry
               PROVE  FALSE
    BY DEF EngagedWhenQuiet
  <2>1. PICK w \in Watchers, o \in Objects :
          Running(w) /\ ClusterOf[o] = c /\ Accepts(store[w][o])
    BY DEF Exposed
  <2>2. PICK v \in Watchers : Running(v) /\ WillEngage(v, c)
    BY <2>1 DEF IInv, EngagedShape
  <2>3. store[v] = store[w] /\ pc[v] = "idle" /\ pending[v] = <<>>
    BY <2>1, <2>2 DEF Quiet, Drained, Idle
  <2> QED  BY <2>1, <2>2, <2>3 DEF WillEngage
<1> QED  BY <1>1, SpecIInv, PTL

\* The same of endpoints that stay, in the absence of engagement failures.
COROLLARY ExposedClustersAreEngaged ==
  ASSUME MaxCancels = 0, MaxEngageFaults = 0
  PROVE  Spec => []EngagedWhenQuiet
<1>1. IInv => budget.cancels = 0 /\ budget.engage = 0
  BY DEF IInv, Types, BudgetShape
<1> QED  BY <1>1, SpecIInv, EngagedUntilDisturbed, PTL

LEMMA UndisturbedIsSolo ==
  ASSUME Undisturbed
  PROVE  \E w \in Watchers : Solo(w)
BY DEF Undisturbed, Solo

\* "creating cluster-scoped broadcasters on engagement and stopping them on
\* disengagement" (provider.go:146-147, 235-239, 517-518, 544-555): under one
\* endpoint an engaged cluster's recorder records and no other is left, and an
\* end of the provider that left no callback behind leaves no recorder.
THEOREM RecordersFollow == Spec => []RecordersFollowClusters
<1>1. IInv => RecorderUsable
  <2> SUFFICES ASSUME IInv, Undisturbed, NEW c \in Clusters, fleet[c] # NoEntry
               PROVE  Disengaging(c) \/ (recLive[c] /\ fleet[c].rec = recGen[c])
    BY DEF RecorderUsable
  <2>1. PICK w \in Watchers : Solo(w)
    BY UndisturbedIsSolo
  <2> QED  BY <2>1 DEF IInv, SoloRecorders, At, Disengaging
<1>2. IInv => RecorderStoppedWithCluster
  <2> SUFFICES ASSUME IInv, Undisturbed, Quiet, NEW c \in Clusters, recLive[c]
               PROVE  fleet[c] # NoEntry
    BY DEF RecorderStoppedWithCluster
  <2>1. PICK w \in Watchers : Solo(w)
    BY UndisturbedIsSolo
  <2>2. pc[w] = "idle"
    BY DEF Quiet, Drained, Idle
  <2> QED  BY <2>1, <2>2 DEF IInv, SoloRecorders, At
<1>3. IInv => RecordersEndWithProvider
  BY DEF IInv, EndShape, RecordersEndWithProvider
<1>4. IInv => RecordersFollowClusters
  BY <1>1, <1>2, <1>3 DEF RecordersFollowClusters
<1> QED  BY <1>4, SpecIInv, PTL

\* The lifecycle handlers' view (handlers.go:27-41): until an index lookup
\* fails, the handlers of one endpoint that is done were told of every engaged
\* cluster, and of the deletion of every cluster without objects.
THEOREM HooksMatchUntilLookupFails ==
  Spec => [](budget.lookup = 0 => HooksMatchEndpoints)
<1>1. IInv => (budget.lookup = 0 => HooksMatchEndpoints)
  <2> SUFFICES ASSUME IInv, budget.lookup = 0, Undisturbed, Quiet,
                      NEW c \in Clusters
               PROVE  /\ fleet[c] # NoEntry => c \in hooks
                      /\ c \in hooks => \E w \in Watchers : IndexKeys(w, c) # {}
    BY DEF HooksMatchEndpoints
  <2>1. PICK w \in Watchers : Solo(w)
    BY UndisturbedIsSolo
  <2>2. pc[w] = "idle" /\ pending[w] = <<>>
    BY DEF Quiet, Drained, Idle
  <2>3. ~DeletionDue(w, c) /\ ~At(w, "hooks", c)
    BY <2>2 DEF DeletionDue, At
  <2> QED  BY <2>1, <2>3 DEF IInv, SoloHooks
<1> QED  BY <1>1, SpecIInv, PTL

\* The same of an informer whose index lookups do not fail.
COROLLARY HooksMatch ==
  ASSUME MaxLookupFaults = 0
  PROVE  Spec => []HooksMatchEndpoints
<1>1. IInv => budget.lookup = 0
  BY DEF IInv, Types, BudgetShape
<1> QED  BY <1>1, SpecIInv, HooksMatchUntilLookupFails, PTL
=============================================================================
