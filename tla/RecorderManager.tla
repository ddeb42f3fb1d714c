--------------------------- MODULE RecorderManager ---------------------------
(***************************************************************************)
(* The per-cluster event recorders (pkg/events/recorder): Manager keeps    *)
(* one Provider per logical cluster under one mutex, GetProvider and       *)
(* StopProvider are called from the callbacks of all endpoints, Stop from  *)
(* the end of Provider.Start, and the recorders a Provider handed out are  *)
(* used by controllers at any time, before, during and after its Stop.     *)
(***************************************************************************)
EXTENDS Integers, FiniteSets

CONSTANTS
  Clusters,      \* logical clusters
  Callers,       \* goroutines that call the manager
  Emitters,      \* goroutines that emit events through a recorder
  None,          \* no caller holds Manager.lock; an emitter has no provider
  MaxProviders,  \* bound: providers ever created
  MaxEmits       \* bound: events ever emitted

ASSUME BoundsAssumption == MaxProviders \in Nat /\ MaxEmits \in Nat
ASSUME NoneAssumption == None \notin Callers /\ None \notin 1..MaxProviders

Ids == 1..MaxProviders

VARIABLES
  providers,  \* Manager.providers: a cluster's provider, 0 for none
  mlock,      \* Manager.lock: the caller that holds it
  created,    \* providers 1..created exist
  kpc,        \* callers: "idle" or "stopping"
  todo,       \* callers: providers still to stop
  cur,        \* callers: the provider whose Stop they wait for, 0 for none
  ctxDone,    \* callers: the context passed to Stop is done
  started,    \* providers: broadcasterOnce has run
  readers,    \* providers: emitters that hold lock for reading
  writer,     \* providers: lock is held for writing
  spc,        \* providers: where the goroutine of Stop is
  shut,       \* providers: both broadcasters are shut down
  stopped,    \* providers: the stopped flag
  queued,     \* providers: events recorded and not yet written to the sink
  epc,        \* emitters: where the call of Eventf is
  using,      \* emitters: the provider of their recorder
  emits       \* events emitted so far

mgrVars  == <<providers, mlock, created, kpc, todo, cur, ctxDone>>
provVars == <<started, readers, writer, spc, shut, stopped, queued>>
emitVars == <<epc, using, emits>>
vars == <<mgrVars, provVars, emitVars>>

Init ==
  /\ providers = [c \in Clusters |-> 0]
  /\ mlock = None /\ created = 0
  /\ kpc = [k \in Callers |-> "idle"]
  /\ todo = [k \in Callers |-> {}]
  /\ cur = [k \in Callers |-> 0]
  /\ ctxDone = [k \in Callers |-> FALSE]
  /\ started = [p \in Ids |-> FALSE]
  /\ readers = [p \in Ids |-> {}]
  /\ writer = [p \in Ids |-> FALSE]
  /\ spc = [p \in Ids |-> "none"]
  /\ shut = [p \in Ids |-> FALSE]
  /\ stopped = [p \in Ids |-> FALSE]
  /\ queued = [p \in Ids |-> 0]
  /\ epc = [e \in Emitters |-> "idle"]
  /\ using = [e \in Emitters |-> None]
  /\ emits = 0

-----------------------------------------------------------------------------
(* Faulty variants of actions below.  No specification uses them: each is  *)
(* a plausible mistake that one of the properties has to detect.           *)

ReturnFromStop(k, when, kept) ==
  /\ kpc[k] = "stopping" /\ cur[k] # 0
  /\ when
  /\ todo' = [todo EXCEPT ![k] = @ \ {cur[k]}]
  /\ cur' = [cur EXCEPT ![k] = 0]
  /\ providers' = [c \in Clusters |->
                     IF providers[c] = cur[k] /\ ~kept THEN 0 ELSE providers[c]]
  /\ UNCHANGED <<mlock, created, kpc, ctxDone, provVars, emitVars>>

\* The stopped provider stays in the map.
StopReturnsKept(k) ==
  ReturnFromStop(k, spc[cur[k]] = "done" \/ ctxDone[k], TRUE)

\* A provider whose Stop was cut short stays in the map.
StopReturnsCutShort(k) ==
  ReturnFromStop(k, spc[cur[k]] = "done" \/ ctxDone[k], spc[cur[k]] # "done")

\* The context is ignored.
StopReturnsDone(k) == ReturnFromStop(k, spc[cur[k]] = "done", FALSE)

\* The lock is not released.
StopUnlocksNot(p) ==
  /\ spc[p] = "flag"
  /\ stopped' = [stopped EXCEPT ![p] = TRUE]
  /\ spc' = [spc EXCEPT ![p] = "done"]
  /\ UNCHANGED <<mgrVars, started, readers, writer, shut, queued, emitVars>>

\* An event is written although none is queued.
SinkWritesAgain(p) ==
  /\ queued[p] >= 0 /\ started[p]
  /\ queued' = [queued EXCEPT ![p] = @ - 1]
  /\ UNCHANGED <<mgrVars, started, readers, writer, spc, shut, stopped, emitVars>>

\* The stopped flag is read without the lock.
EmitWithoutLock(e) ==
  /\ epc[e] = "rlock"
  /\ ~stopped[using[e]]
  /\ epc' = [epc EXCEPT ![e] = "check"]
  /\ UNCHANGED <<mgrVars, provVars, using, emits>>

-----------------------------------------------------------------------------
(* Manager.                                                                *)

\* GetProvider returns the cluster's provider or creates it, under the lock.
\* (A provider that exists is returned without a change of state.)
GetProvider(k, c) ==
  /\ kpc[k] = "idle" /\ mlock = None
  /\ providers[c] = 0
  /\ created < MaxProviders
  /\ created' = created + 1
  /\ providers' = [providers EXCEPT ![c] = created + 1]
  /\ UNCHANGED <<mlock, kpc, todo, cur, ctxDone, provVars, emitVars>>

BeginStopping(k, which) ==
  /\ kpc[k] = "idle" /\ mlock = None
  /\ which # {}
  /\ mlock' = k
  /\ kpc' = [kpc EXCEPT ![k] = "stopping"]
  /\ todo' = [todo EXCEPT ![k] = which]
  /\ ctxDone' = [ctxDone EXCEPT ![k] = FALSE]
  /\ UNCHANGED <<providers, created, cur, provVars, emitVars>>

\* StopProvider of a cluster that has a provider.
StopProvider(k, c) == BeginStopping(k, {providers[c]} \ {0})

\* Stop, for all providers one after the other.
StopManager(k) == BeginStopping(k, {providers[c] : c \in Clusters} \ {0})

\* provider.Stop(ctx) starts its goroutine.
CallStop(k, p) ==
  /\ kpc[k] = "stopping" /\ cur[k] = 0 /\ p \in todo[k]
  /\ cur' = [cur EXCEPT ![k] = p]
  /\ spc' = [spc EXCEPT ![p] = "once"]
  /\ UNCHANGED <<providers, mlock, created, kpc, todo, ctxDone, started,
                 readers, writer, shut, stopped, queued, emitVars>>

\* The context given to Stop is cancelled or times out.
ContextDone(k) ==
  /\ kpc[k] = "stopping" /\ ~ctxDone[k]
  /\ ctxDone' = [ctxDone EXCEPT ![k] = TRUE]
  /\ UNCHANGED <<providers, mlock, created, kpc, todo, cur, provVars, emitVars>>

\* provider.Stop returns: its goroutine is done, or the context is; the
\* provider leaves the map.  (Manager.Stop replaces the map after the last
\* one; nobody sees the map in between.)
StopReturns(k) ==
  /\ kpc[k] = "stopping" /\ cur[k] # 0
  /\ spc[cur[k]] = "done" \/ ctxDone[k]
  /\ todo' = [todo EXCEPT ![k] = @ \ {cur[k]}]
  /\ cur' = [cur EXCEPT ![k] = 0]
  /\ providers' = [c \in Clusters |->
                     IF providers[c] = cur[k] THEN 0 ELSE providers[c]]
  /\ UNCHANGED <<mlock, created, kpc, ctxDone, provVars, emitVars>>

\* The map no longer holds what was stopped; the lock is released.
EndStopping(k) ==
  /\ kpc[k] = "stopping" /\ cur[k] = 0 /\ todo[k] = {}
  /\ kpc' = [kpc EXCEPT ![k] = "idle"]
  /\ mlock' = None
  /\ UNCHANGED <<providers, created, todo, cur, ctxDone, provVars, emitVars>>

-----------------------------------------------------------------------------
(* The goroutine of Provider.Stop.                                         *)

\* getBroadcaster, which may start the broadcasters only now; then the
\* goroutine waits in lock.Lock, and a waiting writer keeps new readers out.
StopGetsBroadcaster(p) ==
  /\ spc[p] = "once"
  /\ started' = [started EXCEPT ![p] = TRUE]
  /\ spc' = [spc EXCEPT ![p] = "lock"]
  /\ UNCHANGED <<mgrVars, readers, writer, shut, stopped, queued, emitVars>>

StopLocks(p) ==
  /\ spc[p] = "lock" /\ readers[p] = {} /\ ~writer[p]
  /\ writer' = [writer EXCEPT ![p] = TRUE]
  /\ spc' = [spc EXCEPT ![p] = "shutdown"]
  /\ UNCHANGED <<mgrVars, started, readers, shut, stopped, queued, emitVars>>

\* Shutdown of the broadcasters "doesn't return until all queued events are
\* flushed"; the sink recording is cancelled.
StopShutsDown(p) ==
  /\ spc[p] = "shutdown" /\ queued[p] = 0
  /\ shut' = [shut EXCEPT ![p] = TRUE]
  /\ spc' = [spc EXCEPT ![p] = "flag"]
  /\ UNCHANGED <<mgrVars, started, readers, writer, stopped, queued, emitVars>>

\* p.stopped = true; p.lock.Unlock(); close(doneCh)
StopUnlocks(p) ==
  /\ spc[p] = "flag"
  /\ stopped' = [stopped EXCEPT ![p] = TRUE]
  /\ writer' = [writer EXCEPT ![p] = FALSE]
  /\ spc' = [spc EXCEPT ![p] = "done"]
  /\ UNCHANGED <<mgrVars, started, readers, shut, queued, emitVars>>

\* The recording goroutine writes an event to the API server.
SinkWrites(p) ==
  /\ queued[p] > 0
  /\ queued' = [queued EXCEPT ![p] = @ - 1]
  /\ UNCHANGED <<mgrVars, started, readers, writer, spc, shut, stopped, emitVars>>

-----------------------------------------------------------------------------
(* lazyRecorder.Eventf and its siblings, on a recorder of any provider ever *)
(* handed out.                                                             *)

\* ensureRecording: the first event of all starts the broadcasters.
EnsureRecording(e, p) ==
  /\ epc[e] = "idle"
  /\ p <= created
  /\ emits < MaxEmits
  /\ emits' = emits + 1
  /\ started' = [started EXCEPT ![p] = TRUE]
  /\ using' = [using EXCEPT ![e] = p]
  /\ epc' = [epc EXCEPT ![e] = "rlock"]
  /\ UNCHANGED <<mgrVars, readers, writer, spc, shut, stopped, queued>>

EmitRLock(e) ==
  /\ epc[e] = "rlock"
  /\ ~writer[using[e]] /\ spc[using[e]] # "lock"
  /\ readers' = [readers EXCEPT ![using[e]] = @ \union {e}]
  /\ epc' = [epc EXCEPT ![e] = "check"]
  /\ UNCHANGED <<mgrVars, started, writer, spc, shut, stopped, queued, using,
                 emits>>

\* if !stopped { rec.Eventf(...) }: the event reaches the broadcaster.
EmitSend(e) ==
  /\ epc[e] = "check" /\ ~stopped[using[e]]
  /\ queued' = [queued EXCEPT ![using[e]] = @ + 1]
  /\ epc' = [epc EXCEPT ![e] = "runlock"]
  /\ UNCHANGED <<mgrVars, started, readers, writer, spc, shut, stopped, using,
                 emits>>

\* A stopped provider drops the event.
EmitDrop(e) ==
  /\ epc[e] = "check" /\ stopped[using[e]]
  /\ epc' = [epc EXCEPT ![e] = "runlock"]
  /\ UNCHANGED <<mgrVars, provVars, using, emits>>

EmitRUnlock(e) ==
  /\ epc[e] = "runlock"
  /\ readers' = [readers EXCEPT ![using[e]] = @ \ {e}]
  /\ using' = [using EXCEPT ![e] = None]
  /\ epc' = [epc EXCEPT ![e] = "idle"]
  /\ UNCHANGED <<mgrVars, started, writer, spc, shut, stopped, queued, emits>>

-----------------------------------------------------------------------------
Stopping(k) ==
  (\E p \in Ids : CallStop(k, p)) \/ StopReturns(k) \/ EndStopping(k)

StopGoroutine(p) ==
  StopGetsBroadcaster(p) \/ StopLocks(p) \/ StopShutsDown(p) \/ StopUnlocks(p)

Emitting(e) == EmitRLock(e) \/ EmitSend(e) \/ EmitDrop(e) \/ EmitRUnlock(e)

Next ==
  \/ \E k \in Callers :
       \/ \E c \in Clusters : GetProvider(k, c) \/ StopProvider(k, c)
       \/ StopManager(k) \/ Stopping(k) \/ ContextDone(k)
  \/ \E p \in Ids : StopGoroutine(p) \/ SinkWrites(p)
  \/ \E e \in Emitters : Emitting(e) \/ \E p \in Ids : EnsureRecording(e, p)

Spec == Init /\ [][Next]_vars

\* Goroutines run; nothing makes a caller call, a context end or the API
\* server answer.
FairSpec ==
  /\ Spec
  /\ \A k \in Callers : WF_vars(Stopping(k))
  /\ \A p \in Ids : WF_vars(StopGoroutine(p))
  /\ \A e \in Emitters : WF_vars(Emitting(e))

\* The API server takes the events.
SinkWorks == \A p \in Ids : WF_vars(SinkWrites(p))

-----------------------------------------------------------------------------
(* Properties.                                                             *)

\* Every variable has its type.
TypeOK ==
  /\ providers \in [Clusters -> 0..created]
  /\ mlock \in Callers \union {None}
  /\ created \in 0..MaxProviders
  /\ kpc \in [Callers -> {"idle", "stopping"}]
  /\ todo \in [Callers -> SUBSET Ids]
  /\ cur \in [Callers -> 0..MaxProviders]
  /\ ctxDone \in [Callers -> BOOLEAN]
  /\ started \in [Ids -> BOOLEAN]
  /\ readers \in [Ids -> SUBSET Emitters]
  /\ writer \in [Ids -> BOOLEAN]
  /\ spc \in [Ids -> {"none", "once", "lock", "shutdown", "flag", "done"}]
  /\ shut \in [Ids -> BOOLEAN] /\ stopped \in [Ids -> BOOLEAN]
  /\ queued \in [Ids -> Nat]
  /\ epc \in [Emitters -> {"idle", "rlock", "check", "runlock"}]
  /\ using \in [Emitters -> Ids \union {None}]
  /\ emits \in 0..MaxEmits

\* No event reaches a broadcaster that is shut down, which would panic
\* (forked_recorder.go:86-97, 203-207): an emitter that saw the provider not
\* stopped keeps it from shutting down until the event is recorded, and events
\* of a stopped provider's recorders are dropped.  Recorded means that the
\* recorder's method was called: what client-go does in a goroutine of its own
\* after that is not covered by the lock.
NoEventAfterShutdown ==
  \A p \in Ids : shut[p] =>
    queued[p] = 0 /\ \A e \in readers[p] : epc[e] = "check" => stopped[p]

\* A provider is not stopped twice (provider_manager.go:126-145): a second
\* Stop would shut the broadcasters down again.  Stop may have returned early
\* because of its context while its goroutine still works.
StopsOnce == [][\A p \in Ids : spc'[p] = "once" => spc[p] \in {"none", "once"}]_vars

\* Whoever gets a provider from the manager gets one that nobody has begun to
\* stop, and every other provider is being stopped (provider_manager.go:73-101,
\* 136-145): the manager neither hands out a dead recorder nor loses one.
MapHoldsTheUnstopped ==
  mlock = None =>
    \A p \in 1..created :
      (\E c \in Clusters : providers[c] = p) <=> spc[p] = "none"

\* While the API server takes events, every Stop ends with its goroutine and
\* every call of Eventf returns, although Stop holds the provider's lock while
\* events are flushed (forked_recorder.go:79-104, 200-208).
EverythingReturns ==
  SinkWorks =>
    /\ \A k \in Callers : kpc[k] = "stopping" ~> kpc[k] = "idle"
    /\ \A p \in Ids : spc[p] = "once" ~> stopped[p]
    /\ \A e \in Emitters : epc[e] = "rlock" ~> epc[e] = "idle"

\* "It kinda tries to honor the given context" (forked_recorder.go:72-77):
\* also when the API server hangs and events are never flushed, Stop returns
\* once its context is done, and the manager's lock becomes free again.
StopHonoursContext ==
  \A k \in Callers : kpc[k] = "stopping" /\ ctxDone[k] ~> mlock # k
=============================================================================
