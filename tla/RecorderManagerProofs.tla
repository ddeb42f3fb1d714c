------------------------ MODULE RecorderManagerProofs ------------------------
(***************************************************************************)
(* Proofs about RecorderManager, for any number of clusters, callers,      *)
(* emitters, providers and events.                                         *)
(***************************************************************************)
EXTENDS RecorderManager, TLAPS

-----------------------------------------------------------------------------
(* The inductive invariant.                                                *)

\* A caller that stops providers holds the manager's lock, and the provider it
\* waits for is one it has still to stop.
LockHeld ==
  \A k \in Callers :
    /\ kpc[k] = "stopping" <=> mlock = k
    /\ kpc[k] = "idle" => todo[k] = {}
    /\ cur[k] # 0 => cur[k] \in todo[k]

InMap(p) == \E c \in Clusters : providers[c] = p
BeingStopped(p) == \E k \in Callers : cur[k] = p

\* What the manager's map, the callers' lists and the goroutines of Stop say
\* of a provider.
MapShape ==
  /\ \A k \in Callers :
       /\ \A p \in todo[k] : p <= created /\ (p # cur[k] => spc[p] = "none")
       /\ cur[k] # 0 => spc[cur[k]] # "none"
  /\ \A p \in Ids : p > created => spc[p] = "none"
  /\ \A p \in Ids : p <= created =>
       (InMap(p) <=> spc[p] = "none" \/ BeingStopped(p))

\* A provider's lock, flags and queue at each place of its Stop.
StopShape ==
  \A p \in Ids :
    /\ writer[p] <=> spc[p] \in {"shutdown", "flag"}
    /\ writer[p] => readers[p] = {}
    /\ shut[p] <=> spc[p] \in {"flag", "done"}
    /\ stopped[p] <=> spc[p] = "done"
    /\ shut[p] => queued[p] = 0

\* The read locks are held by the emitters between RLock and RUnlock.
EmitShape ==
  \A e \in Emitters :
    /\ epc[e] # "idle" => using[e] \in Ids
    /\ \A p \in Ids : e \in readers[p] <=>
                        using[e] = p /\ epc[e] \in {"check", "runlock"}

IInv == TypeOK /\ LockHeld /\ MapShape /\ StopShape /\ EmitShape

-----------------------------------------------------------------------------
LEMMA InitInv == Init => IInv
<1> SUFFICES ASSUME Init PROVE IInv
  OBVIOUS
<1>1. TypeOK
  BY BoundsAssumption DEF Init, TypeOK, Ids
<1>2. LockHeld /\ MapShape
  BY NoneAssumption DEF Init, LockHeld, MapShape, InMap, BeingStopped, Ids
<1>3. StopShape /\ EmitShape
  BY NoneAssumption DEF Init, StopShape, EmitShape, Ids
<1> QED
  BY <1>1, <1>2, <1>3 DEF IInv

-----------------------------------------------------------------------------
(* Steps of the callers.                                                   *)

LEMMA GetProviderInv ==
  ASSUME IInv, NEW k \in Callers, NEW c \in Clusters, GetProvider(k, c)
  PROVE  IInv'
<1> USE BoundsAssumption, NoneAssumption DEF IInv, GetProvider, Ids
<1>1. TypeOK'
  BY DEF TypeOK, provVars, emitVars
<1>2. LockHeld'
  BY DEF LockHeld
<1>3. MapShape'
  <2>1. \A p \in Ids : p <= created => (InMap(p)' <=> InMap(p))
    BY DEF TypeOK, InMap
  <2>2. \A p \in Ids : p = created + 1 => InMap(p)'
    BY DEF TypeOK, InMap
  <2>3. \A p \in Ids : BeingStopped(p)' <=> BeingStopped(p)
    BY DEF BeingStopped
  <2>4. spc' = spc /\ todo' = todo /\ cur' = cur /\ created' = created + 1
    BY DEF provVars
  <2>5. created \in Nat
    BY DEF TypeOK
  <2> QED
    BY <2>1, <2>2, <2>3, <2>4, <2>5 DEF TypeOK, MapShape
<1>4. StopShape' /\ EmitShape'
  BY DEF StopShape, EmitShape, provVars, emitVars
<1> QED
  BY <1>1, <1>2, <1>3, <1>4

LEMMA BeginStoppingInv ==
  ASSUME IInv, NEW k \in Callers, NEW which \in SUBSET Ids,
         \A p \in which : InMap(p), BeginStopping(k, which)
  PROVE  IInv'
<1> USE BoundsAssumption, NoneAssumption DEF IInv, BeginStopping, Ids
<1>1. TypeOK'
  BY DEF TypeOK, provVars, emitVars
<1>2. LockHeld'
  BY DEF TypeOK, LockHeld
<1>3. \A j \in Callers : cur[j] = 0
  BY DEF TypeOK, LockHeld
<1>4. \A p \in which : p <= created /\ spc[p] = "none"
  <2>1. \A p \in which : p <= created
    BY DEF TypeOK, InMap
  <2>2. \A p \in which : ~BeingStopped(p)
    BY <1>3 DEF BeingStopped
  <2> QED
    BY <2>1, <2>2 DEF MapShape
<1>5. MapShape'
  BY <1>3, <1>4 DEF TypeOK, MapShape, InMap, BeingStopped, provVars
<1>6. StopShape' /\ EmitShape'
  BY DEF StopShape, EmitShape, provVars, emitVars
<1> QED
  BY <1>1, <1>2, <1>5, <1>6

LEMMA CallStopInv ==
  ASSUME IInv, NEW k \in Callers, NEW p \in Ids, CallStop(k, p)
  PROVE  IInv' /\ spc[p] = "none"
<1> USE BoundsAssumption, NoneAssumption DEF IInv, CallStop, Ids
<1>1. TypeOK'
  BY DEF TypeOK, emitVars
<1>2. LockHeld'
  BY DEF TypeOK, LockHeld
<1>3. spc[p] = "none" /\ p <= created
  BY DEF MapShape
<1>4. \A j \in Callers : j # k => todo[j] = {} /\ cur[j] = 0
  BY DEF TypeOK, LockHeld
<1>5. MapShape'
  <2>1. \A q \in Ids : InMap(q)' <=> InMap(q)
    BY DEF InMap
  <2>2. \A q \in Ids : BeingStopped(q)' <=> q = p
    <3>1. cur'[k] = p /\ \A j \in Callers : j # k => cur'[j] = 0
      BY <1>4 DEF TypeOK
    <3> QED
      BY <3>1 DEF BeingStopped
  <2>3. \A q \in Ids : ~BeingStopped(q)
    BY <1>4 DEF BeingStopped
  <2>4. \A q \in Ids : q # p => spc'[q] = spc[q]
    BY DEF TypeOK
  <2>5. spc'[p] = "once"
    BY DEF TypeOK
  <2> QED
    BY <1>3, <1>4, <2>1, <2>2, <2>3, <2>4, <2>5 DEF TypeOK, MapShape
<1>6. StopShape' /\ EmitShape'
  BY <1>3 DEF TypeOK, StopShape, EmitShape, emitVars
<1> QED
  BY <1>1, <1>2, <1>3, <1>5, <1>6

LEMMA StopReturnsInv ==
  ASSUME IInv, NEW k \in Callers, StopReturns(k)
  PROVE  IInv'
<1> USE BoundsAssumption, NoneAssumption DEF IInv, StopReturns, Ids
<1>1. TypeOK'
  BY DEF TypeOK, provVars, emitVars
<1>2. LockHeld'
  BY DEF TypeOK, LockHeld
<1>3. \A j \in Callers : j # k => todo[j] = {} /\ cur[j] = 0
  BY DEF TypeOK, LockHeld
<1>4. MapShape'
  <2>1. \A q \in Ids : InMap(q)' <=> InMap(q) /\ q # cur[k]
    BY DEF TypeOK, InMap
  <2>2. \A q \in Ids : ~BeingStopped(q)'
    <3>1. \A j \in Callers : cur'[j] = 0
      BY <1>3 DEF TypeOK
    <3> QED
      BY <3>1 DEF BeingStopped
  <2>3. \A q \in Ids : BeingStopped(q) <=> q = cur[k]
    BY <1>3 DEF BeingStopped
  <2> QED
    BY <1>3, <2>1, <2>2, <2>3 DEF TypeOK, MapShape, provVars
<1>5. StopShape' /\ EmitShape'
  BY DEF StopShape, EmitShape, provVars, emitVars
<1> QED
  BY <1>1, <1>2, <1>4, <1>5

LEMMA OtherCallerInv ==
  ASSUME IInv, NEW k \in Callers, ContextDone(k) \/ EndStopping(k)
  PROVE  IInv'
<1> USE BoundsAssumption, NoneAssumption
    DEF IInv, ContextDone, EndStopping, Ids
<1>1. TypeOK'
  BY DEF TypeOK, provVars, emitVars
<1>2. LockHeld'
  BY DEF TypeOK, LockHeld
<1>3. MapShape'
  <2>1. UNCHANGED <<providers, created, todo, cur, spc>>
    BY DEF provVars
  <2> QED
    BY <2>1 DEF MapShape, InMap, BeingStopped
<1>4. StopShape' /\ EmitShape'
  BY DEF StopShape, EmitShape, provVars, emitVars
<1> QED
  BY <1>1, <1>2, <1>3, <1>4
-----------------------------------------------------------------------------
(* Steps of the goroutines of Stop, of the sink and of the emitters, which *)
(* leave the manager alone.                                                *)

\* A step that begins no Stop leaves the manager's part of the invariant.
LEMMA ManagerUnchanged ==
  ASSUME TypeOK, LockHeld, MapShape, UNCHANGED mgrVars,
         \A p \in Ids : spc'[p] = "none" <=> spc[p] = "none"
  PROVE  LockHeld' /\ MapShape'
<1> USE DEF mgrVars
<1>1. LockHeld'
  BY DEF LockHeld
<1>2. \A p \in Ids : (InMap(p)' <=> InMap(p))
                   /\ (BeingStopped(p)' <=> BeingStopped(p))
  BY DEF InMap, BeingStopped
<1>3. \A k \in Callers : todo[k] \subseteq Ids /\ (cur[k] # 0 => cur[k] \in Ids)
  BY DEF TypeOK, LockHeld
<1>4. MapShape'
  BY <1>2, <1>3 DEF MapShape
<1> QED
  BY <1>1, <1>4

LEMMA StopGoroutineInv ==
  ASSUME IInv, NEW p \in Ids, StopGoroutine(p)
  PROVE  IInv'
<1> USE DEF IInv
<1>1. CASE StopGetsBroadcaster(p)
  BY <1>1, ManagerUnchanged
  DEF StopGetsBroadcaster, TypeOK, StopShape, EmitShape, mgrVars, emitVars
<1>2. CASE StopLocks(p)
  BY <1>2, ManagerUnchanged
  DEF StopLocks, TypeOK, StopShape, EmitShape, mgrVars, emitVars
<1>3. CASE StopShutsDown(p)
  BY <1>3, ManagerUnchanged
  DEF StopShutsDown, TypeOK, StopShape, EmitShape, mgrVars, emitVars
<1>4. CASE StopUnlocks(p)
  BY <1>4, ManagerUnchanged
  DEF StopUnlocks, TypeOK, StopShape, EmitShape, mgrVars, emitVars
<1> QED
  BY <1>1, <1>2, <1>3, <1>4 DEF StopGoroutine

LEMMA SinkWritesInv ==
  ASSUME IInv, NEW p \in Ids, SinkWrites(p)
  PROVE  IInv'
<1> USE DEF IInv, SinkWrites
<1>1. TypeOK'
  BY DEF TypeOK, mgrVars, emitVars
<1>2. LockHeld' /\ MapShape'
  BY ManagerUnchanged
<1>3. StopShape'
  BY DEF TypeOK, StopShape
<1>4. EmitShape'
  BY DEF EmitShape, emitVars
<1> QED
  BY <1>1, <1>2, <1>3, <1>4

LEMMA EmitterInv ==
  ASSUME IInv, NEW e \in Emitters,
         Emitting(e) \/ \E p \in Ids : EnsureRecording(e, p)
  PROVE  IInv'
<1> USE NoneAssumption DEF IInv
<1>1. CASE EmitRLock(e)
  <2> USE <1>1 DEF EmitRLock
  <2>1. TypeOK'
    BY DEF TypeOK, mgrVars, EmitShape
  <2>2. LockHeld' /\ MapShape'
    BY ManagerUnchanged
  <2>3. StopShape'
    BY DEF TypeOK, StopShape, EmitShape
  <2>4. EmitShape'
    BY DEF TypeOK, EmitShape
  <2> QED
    BY <2>1, <2>2, <2>3, <2>4
<1>2. CASE EmitSend(e)
  <2> USE <1>2 DEF EmitSend
  <2>1. TypeOK'
    BY DEF TypeOK, mgrVars, EmitShape
  <2>2. LockHeld' /\ MapShape'
    BY ManagerUnchanged
  <2>3. StopShape'
    BY DEF TypeOK, StopShape, EmitShape
  <2>4. EmitShape'
    BY DEF TypeOK, EmitShape
  <2> QED
    BY <2>1, <2>2, <2>3, <2>4
<1>3. CASE EmitDrop(e)
  <2> USE <1>3 DEF EmitDrop, provVars
  <2>1. TypeOK'
    BY DEF TypeOK, mgrVars, EmitShape
  <2>2. LockHeld' /\ MapShape'
    BY ManagerUnchanged
  <2>3. StopShape'
    BY DEF TypeOK, StopShape, EmitShape
  <2>4. EmitShape'
    BY DEF TypeOK, EmitShape
  <2> QED
    BY <2>1, <2>2, <2>3, <2>4
<1>4. CASE EmitRUnlock(e)
  <2> USE <1>4 DEF EmitRUnlock
  <2>1. TypeOK'
    BY DEF TypeOK, mgrVars, EmitShape
  <2>2. LockHeld' /\ MapShape'
    BY ManagerUnchanged
  <2>3. StopShape'
    BY DEF TypeOK, StopShape, EmitShape
  <2>4. EmitShape'
    BY DEF TypeOK, EmitShape
  <2> QED
    BY <2>1, <2>2, <2>3, <2>4
<1>5. ASSUME NEW p \in Ids, EnsureRecording(e, p) PROVE IInv'
  <2> USE <1>5 DEF EnsureRecording
  <2>1. TypeOK'
    BY BoundsAssumption DEF TypeOK, mgrVars
  <2>2. LockHeld' /\ MapShape'
    BY ManagerUnchanged
  <2>3. StopShape' /\ EmitShape'
    BY DEF TypeOK, StopShape, EmitShape
  <2> QED
    BY <2>1, <2>2, <2>3
<1> QED
  BY <1>1, <1>2, <1>3, <1>4, <1>5 DEF Emitting

-----------------------------------------------------------------------------
(* The theorems.                                                           *)

LEMMA StepInv == IInv /\ [Next]_vars => IInv'
<1> SUFFICES ASSUME IInv, [Next]_vars PROVE IInv'
  OBVIOUS
<1>1. ASSUME NEW k \in Callers, NEW c \in Clusters, StopProvider(k, c)
      PROVE  IInv'
  <2>1. {providers[c]} \ {0} \in SUBSET Ids
    BY BoundsAssumption DEF IInv, TypeOK, Ids
  <2>2. \A p \in {providers[c]} \ {0} : InMap(p)
    BY DEF InMap
  <2> QED
    BY <1>1, <2>1, <2>2, BeginStoppingInv DEF StopProvider
<1>2. ASSUME NEW k \in Callers, StopManager(k) PROVE IInv'
  <2>1. {providers[c] : c \in Clusters} \ {0} \in SUBSET Ids
    BY BoundsAssumption DEF IInv, TypeOK, Ids
  <2>2. \A p \in {providers[c] : c \in Clusters} \ {0} : InMap(p)
    BY DEF InMap
  <2> QED
    BY <1>2, <2>1, <2>2, BeginStoppingInv DEF StopManager
<1>3. ASSUME NEW k \in Callers, Stopping(k) PROVE IInv'
  BY <1>3, CallStopInv, StopReturnsInv, OtherCallerInv DEF Stopping
<1>4. CASE UNCHANGED vars
  <2>1. UNCHANGED <<mgrVars, provVars, emitVars>>
    BY <1>4 DEF vars
  <2>2. LockHeld' /\ MapShape'
    BY <2>1, ManagerUnchanged DEF IInv, provVars
  <2>3. TypeOK' /\ StopShape' /\ EmitShape'
    BY <2>1 DEF IInv, TypeOK, StopShape, EmitShape, mgrVars, provVars, emitVars
  <2> QED
    BY <2>2, <2>3 DEF IInv
<1> QED
  BY <1>1, <1>2, <1>3, <1>4, GetProviderInv, OtherCallerInv, StopGoroutineInv,
     SinkWritesInv, EmitterInv DEF Next

LEMMA InductiveInvariant == Spec => []IInv
  BY InitInv, StepInv, PTL DEF Spec

\* Every variable of the recorder manager keeps its type.
THEOREM RecorderTypeCorrect == Spec => []TypeOK
<1>1. IInv => TypeOK
  BY DEF IInv
<1> QED
  BY <1>1, InductiveInvariant, PTL

\* No event reaches a broadcaster that is shut down (forked_recorder.go:86-97,
\* 203-207), however emitters and the goroutine of Stop interleave.
THEOREM EventsComeBeforeShutdown == Spec => []NoEventAfterShutdown
<1>1. IInv => NoEventAfterShutdown
  BY DEF IInv, TypeOK, StopShape, NoEventAfterShutdown
<1> QED
  BY <1>1, InductiveInvariant, PTL

\* While nobody holds its lock the manager holds exactly the providers that
\* nobody has begun to stop (provider_manager.go:73-101, 136-145).
THEOREM ManagerHoldsTheUnstopped == Spec => []MapHoldsTheUnstopped
<1>1. IInv => MapHoldsTheUnstopped
  <2> SUFFICES ASSUME IInv, mlock = None, NEW p \in 1..created
               PROVE  InMap(p) <=> spc[p] = "none"
    BY DEF MapHoldsTheUnstopped, InMap
  <2>1. p \in Ids /\ p <= created
    BY BoundsAssumption DEF IInv, TypeOK, Ids
  <2>2. \A k \in Callers : cur[k] = 0
    BY NoneAssumption DEF IInv, TypeOK, LockHeld
  <2>3. ~BeingStopped(p)
    BY <2>1, <2>2 DEF BeingStopped, Ids
  <2> QED
    BY <2>1, <2>3 DEF IInv, MapShape
<1> QED
  BY <1>1, InductiveInvariant, PTL

\* No step begins the Stop of a provider again (provider_manager.go:126-145).
THEOREM ProvidersStopOnce == Spec => StopsOnce
<1>1. IInv /\ [Next]_vars =>
        [\A p \in Ids : spc'[p] = "once" => spc[p] \in {"none", "once"}]_vars
  <2> SUFFICES ASSUME IInv, Next, NEW p \in Ids, spc'[p] = "once",
                      spc[p] \notin {"none", "once"}
               PROVE  FALSE
    OBVIOUS
  <2>1. ASSUME NEW k \in Callers, NEW q \in Ids, CallStop(k, q) PROVE FALSE
    <3>1. spc[q] = "none" /\ spc' = [spc EXCEPT ![q] = "once"]
      BY <2>1, CallStopInv DEF CallStop
    <3> QED
      BY <3>1 DEF IInv, TypeOK
  <2>2. ASSUME NEW q \in Ids, StopGoroutine(q) PROVE FALSE
    BY <2>2 DEF StopGoroutine, StopGetsBroadcaster, StopLocks, StopShutsDown,
       StopUnlocks, IInv, TypeOK
  <2>3. CASE UNCHANGED spc
    BY <2>3
  <2> QED
    BY <2>1, <2>2, <2>3 DEF Next, GetProvider, StopProvider, StopManager,
       BeginStopping, Stopping, StopReturns, EndStopping, ContextDone,
       SinkWrites, Emitting, EmitRLock, EmitSend, EmitDrop, EmitRUnlock,
       EnsureRecording, provVars
<1> QED
  BY <1>1, InductiveInvariant, PTL DEF Spec, StopsOnce
=============================================================================
