-------------------------- MODULE ShardedSuiteProofs --------------------------
(***************************************************************************)
(* Proofs about ShardedSuite: the server's part, for any number of shards  *)
(* and faults, and the fixtures' part, for any set of fixtures.            *)
(***************************************************************************)
EXTENDS ShardedSuite, FiniteSetTheorems, TLAPS

-----------------------------------------------------------------------------
(* The server.                                                             *)

\* Before the launch there is no process and nothing to wait for; afterwards
\* the Sharded holds the process until Wait has reported its end.
HandleHeld ==
  /\ pc \in {"new", "launch"} => ~handle /\ leader = "none"
  /\ leader = "running" => handle
  /\ waitDone => leader = "ended"

\* Where the log is open, and where a process is certain.
CallShape ==
  /\ pc \in {"stat", "select", "config", "stopWait", "killWait"} => handle
  /\ pc = "new" => ~log
  /\ pc = "down" => ~log /\ ~handle

ServerInv == HandleHeld /\ CallShape

LEMMA ServerInitInv == ServerInit => ServerInv
  BY DEF ServerInit, ServerInv, HandleHeld, CallShape

\* Every step of the test's goroutine, the Wait goroutine and the processes.
LEMMA ServerStepInv == ServerInv /\ ServerStep => ServerInv'
<1> SUFFICES ASSUME ServerInv, ServerStep PROVE ServerInv'
  OBVIOUS
<1> USE DEF ServerInv, HandleHeld, CallShape, sharded, processes
<1>1. CASE InStart
  BY <1>1 DEF InStart, Prepare, CannotLaunch, Launch, Stat, Tick, StartGivesUp,
     StartErrors, LoadConfig, Mishap
<1>2. CASE SuiteStops
  BY <1>2 DEF SuiteStops, CallStop
<1>3. CASE InStop
  BY <1>3 DEF InStop, StopNothing, StopExited, Terminate, StopKills, StopKilled,
     Return
<1>4. CASE WaitReturns
  BY <1>4 DEF WaitReturns
<1>5. CASE Processes
  <2>1. CASE BecomesReady
    BY <2>1 DEF BecomesReady
  <2>2. CASE leader = "running" /\ leader' = "ended"
             /\ UNCHANGED <<pc, handle, log, waitDone>>
    BY <2>2
  <2>3. CASE GroupEnds
    BY <2>3 DEF GroupEnds
  <2> QED
    BY <1>5, <2>1, <2>2, <2>3 DEF Processes, LeaderEnds, LeaderCrashes
<1> QED
  BY <1>1, <1>2, <1>3, <1>4, <1>5 DEF ServerStep

\* Nothing of the server is left behind when Start has failed or Stop has
\* returned (sharded.go:145-158, 199-246), whatever the fixtures, the kernel
\* and the server do.
THEOREM ServerIsNotLeftBehind == Spec => []NoServerLeftBehind
<1>1. Init => ServerInv
  BY ServerInitInv DEF Init
<1>2. ServerInv /\ [Next]_vars => ServerInv'
  <2> SUFFICES ASSUME ServerInv, [Next]_vars PROVE ServerInv'
    OBVIOUS
  <2>1. CASE ServerStep
    BY <2>1, ServerStepInv
  <2>2. CASE UNCHANGED serverVars
    BY <2>2 DEF serverVars, sharded, processes, ServerInv, HandleHeld, CallShape
  <2> QED
    BY <2>1, <2>2 DEF Next, vars
<1>3. ServerInv => NoServerLeftBehind
  BY DEF ServerInv, HandleHeld, CallShape, NoServerLeftBehind
<1> QED
  BY <1>1, <1>2, <1>3, PTL DEF Spec

-----------------------------------------------------------------------------
(* The fixtures.                                                           *)

Steps == {"idle", "create", "phase", "stuck", "access", "shard", "returned",
          "failed", "done"}
Phases == {"none", "scheduling", "initializing", "ready", "gone"}

\* A fixture is a test of its own: its place and its workspace are functions
\* of the fixture, and a test that is done has nothing left but what it may.
FixtureInv ==
  /\ step \in [Fixtures -> Steps]
  /\ phase \in [Fixtures -> Phases]
  /\ deletion \in [Fixtures -> {"none", "forbidden", "error"}]
  /\ WorkspacesCleanedUp

LEMMA FixtureInitInv == Fixture!FixtureInit => FixtureInv
  BY DEF Fixture!FixtureInit, FixtureInv, Steps, Phases,
     WorkspacesCleanedUp, Fixture!WorkspacesCleanedUp, Fixture!Exists

\* Every step of a fixture, of kcp on its workspace, and of the timeout.
LEMMA FixtureStepInv ==
  ASSUME NEW f \in Fixtures, FixtureInv, TestStep(f)
  PROVE  FixtureInv'
<1> USE DEF FixtureInv, Steps, Phases, WorkspacesCleanedUp,
      Fixture!WorkspacesCleanedUp, Fixture!Exists
<1>1. CASE Fixture!ApplyOptions(f)
  BY <1>1 DEF Fixture!ApplyOptions
<1>2. CASE Fixture!Create(f)
  BY <1>2 DEF Fixture!Create
<1>3. CASE Fixture!Created(f)
  BY <1>3 DEF Fixture!Created
<1>4. CASE Fixture!PhaseSeen(f)
  BY <1>4 DEF Fixture!PhaseSeen
<1>5. CASE Fixture!GetFails(f)
  BY <1>5 DEF Fixture!GetFails
<1>6. CASE Fixture!Accessible(f)
  BY <1>6 DEF Fixture!Accessible
<1>7. CASE Fixture!ShardOrDie(f)
  BY <1>7 DEF Fixture!ShardOrDie
<1>8. CASE Fixture!Cleanup(f)
  BY <1>8 DEF Fixture!Cleanup
<1>9. CASE Fixture!TimesOut(f)
  BY <1>9 DEF Fixture!TimesOut
<1>10. CASE Fixture!ServerCreates(f)
  BY <1>10 DEF Fixture!ServerCreates
<1>11. CASE Fixture!CreateError(f)
  BY <1>11 DEF Fixture!CreateError
<1>12. CASE Fixture!PhaseAdvances(f)
  BY <1>12 DEF Fixture!PhaseAdvances
<1>13. CASE Fixture!Disappears(f)
  BY <1>13 DEF Fixture!Disappears
<1> QED
  BY <1>1, <1>2, <1>3, <1>4, <1>5, <1>6, <1>7, <1>8, <1>9, <1>10, <1>11,
     <1>12, <1>13
  DEF TestStep, Fixture!FixtureStep, Fixture!KcpStep

\* A workspace whose creation was answered does not outlive its test
\* (workspaces.go:173-187), for any number of fixtures on any number of
\* shards, wherever a fixture or the server failed.
THEOREM AnsweredWorkspacesAreCleanedUp == Spec => []WorkspacesCleanedUp
<1>1. Init => FixtureInv
  BY FixtureInitInv DEF Init
<1>2. FixtureInv /\ [Next]_vars => FixtureInv'
  <2> SUFFICES ASSUME FixtureInv, [Next]_vars PROVE FixtureInv'
    OBVIOUS
  <2>1. CASE \E f \in Fixtures : TestStep(f)
    BY <2>1, FixtureStepInv
  <2>2. CASE UNCHANGED fixtures
    BY <2>2 DEF fixtures, FixtureInv, WorkspacesCleanedUp,
       Fixture!WorkspacesCleanedUp, Fixture!Exists
  <2> QED
    BY <2>1, <2>2 DEF Next, vars
<1>3. FixtureInv => WorkspacesCleanedUp
  BY DEF FixtureInv
<1> QED
  BY <1>1, <1>2, <1>3, PTL DEF Spec

-----------------------------------------------------------------------------
(* The spreading of workspaces over the shards.                            *)

\* The fixtures whose workspace goes to the shard with this index.
OnShard(i) == {f \in Fixtures : location[f] = i}

\* Its turns so far: with those that a later option made void.
Turns(i) == Cardinality(OnShard(i)) + void[i]

\* The counter has gone round the shards some number of times, and is in the
\* middle of a round; a call that has not begun has no location yet.
SpreadInv ==
  /\ counter \in Nat /\ location \in [Fixtures -> 0..ShardNames]
  /\ void \in [1..ShardNames -> Nat]
  /\ \A f \in Fixtures : step[f] = "idle" => location[f] = 0
  /\ \E round \in Nat : \A i \in 1..ShardNames :
       Turns(i) = IF i <= counter % ShardNames THEN round + 1 ELSE round

\* Counting modulo the shards.
LEMMA NextRemainder ==
  ASSUME NEW n \in Nat, NEW k \in Nat \ {0}
  PROVE  /\ n % k \in 0..(k - 1)
         /\ (n + 1) % k = IF n % k = k - 1 THEN 0 ELSE (n % k) + 1
<1> DEFINE q == n \div k
           p == (n + 1) \div k
           r == n % k
           s == (n + 1) % k
<1>1. /\ q \in Int /\ p \in Int /\ r \in 0..(k - 1) /\ s \in 0..(k - 1)
      /\ n = k * q + r /\ n + 1 = k * p + s
  OBVIOUS
<1> HIDE DEF q, p, r, s
<1>2. k * (p - q) = r + 1 - s
  BY <1>1
<1>3. CASE p = q
  BY <1>1, <1>2, <1>3 DEF r, s
<1>4. CASE p > q
  <2>1. k * (p - q) >= k
    BY <1>1, <1>4
  <2> QED  BY <1>1, <1>2, <2>1 DEF r, s
<1>5. CASE p < q
  <2>1. k * (p - q) <= -k
    BY <1>1, <1>5
  <2> QED  BY <1>1, <1>2, <2>1
<1> QED  BY <1>1, <1>3, <1>4, <1>5

\* The counting of the fixtures' module is that of the finite sets.
LEMMA SameCardinality ==
  ASSUME NEW S
  PROVE  Fixture!Cardinality(S) = Cardinality(S)
BY DEF Fixture!Cardinality, Cardinality

\* A fixture that applies its options takes the next place of the round, or
\* none.
LEMMA OptionsSpread ==
  ASSUME NEW f \in Fixtures, step \in [Fixtures -> Steps], SpreadInv,
         Fixture!ApplyOptions(f)
  PROVE  SpreadInv'
<1>1. PICK round \in Nat : \A i \in 1..ShardNames :
        Turns(i) = IF i <= counter % ShardNames THEN round + 1 ELSE round
  BY DEF SpreadInv
<1>2. /\ step[f] = "idle" /\ step' = [step EXCEPT ![f] = "create"]
      /\ Fixture!Place(f) \/ UNCHANGED <<counter, location, void>>
  BY DEF Fixture!ApplyOptions, Fixture!placing
<1>3. ASSUME UNCHANGED <<counter, location, void>>  PROVE SpreadInv'
  BY <1>2, <1>3 DEF SpreadInv, OnShard, Turns, ShardNames
<1>4. ASSUME Fixture!Place(f)  PROVE SpreadInv'
  <2> DEFINE N == ShardNames
             r == counter % N
  <2>1. N \in Nat \ {0} /\ counter \in Nat
    BY ServerBoundsAssumption DEF ShardNames, SpreadInv
  <2>2. r \in 0..(N - 1) /\ (counter + 1) % N = IF r = N - 1 THEN 0 ELSE r + 1
    BY <2>1, NextRemainder
  <2>3. /\ counter' = counter + 1
        /\ \/ void' = [void EXCEPT ![r + 1] = @ + 1] /\ location' = location
           \/ location' = [location EXCEPT ![f] = r + 1] /\ void' = void
    BY <1>4 DEF Fixture!Place
  <2>4. /\ location \in [Fixtures -> 0..N] /\ location[f] = 0
        /\ void \in [1..N -> Nat]
        /\ \A g \in Fixtures : step[g] = "idle" => location[g] = 0
    BY <1>2 DEF SpreadInv
  <2> HIDE DEF N, r
  <2>5. /\ counter' \in Nat /\ location' \in [Fixtures -> 0..N]
        /\ void' \in [1..N -> Nat]
        /\ \A g \in Fixtures : step'[g] = "idle" => location'[g] = 0
    <3>1. /\ counter' \in Nat /\ r + 1 \in 1..N
          /\ \A g \in Fixtures : step'[g] = "idle" => step[g] = "idle" /\ g # f
      BY <1>2, <2>1, <2>2, <2>3
    <3>2. CASE void' = [void EXCEPT ![r + 1] = @ + 1] /\ location' = location
      BY <2>4, <3>1, <3>2
    <3>3. CASE location' = [location EXCEPT ![f] = r + 1] /\ void' = void
      BY <2>1, <2>4, <3>1, <3>3
    <3> QED  BY <2>3, <3>2, <3>3
  <2>6. ASSUME NEW i \in 1..N
        PROVE  Turns(i)' = IF i = r + 1 THEN Turns(i) + 1 ELSE Turns(i)
    <3>1. /\ IsFiniteSet(OnShard(i)) /\ Cardinality(OnShard(i)) \in Nat
          /\ f \notin OnShard(i)
      BY <2>4, <2>6, FixtureAssumption, FS_Subset, FS_CardinalityType DEF OnShard
    <3>2. CASE void' = [void EXCEPT ![r + 1] = @ + 1] /\ location' = location
      <4>1. OnShard(i)' = OnShard(i)
        BY <3>2 DEF OnShard
      <4> QED  BY <2>4, <2>6, <3>1, <3>2, <4>1 DEF Turns
    <3>3. CASE location' = [location EXCEPT ![f] = r + 1] /\ void' = void
      <4>1. CASE i = r + 1
        <5>1. OnShard(i)' = OnShard(i) \union {f}
          BY <2>4, <3>3, <4>1 DEF OnShard
        <5>2. Cardinality(OnShard(i)') = Cardinality(OnShard(i)) + 1
          BY <3>1, <5>1, FS_AddElement
        <5> QED  BY <2>4, <2>6, <3>1, <3>3, <4>1, <5>2 DEF Turns
      <4>2. CASE i # r + 1
        <5>1. OnShard(i)' = OnShard(i)
          BY <2>4, <2>6, <3>3, <4>2 DEF OnShard
        <5> QED  BY <3>3, <4>2, <5>1 DEF Turns
      <4> QED  BY <4>1, <4>2
    <3> QED  BY <2>3, <3>2, <3>3
  <2>7. \A i \in 1..N : Turns(i) = IF i <= r THEN round + 1 ELSE round
    BY <1>1 DEF N, r
  <2> DEFINE next == IF r = N - 1 THEN round + 1 ELSE round
  <2>8. \A i \in 1..N : Turns(i)' =
          IF i <= counter' % N THEN next + 1 ELSE next
    BY <2>1, <2>2, <2>3, <2>6, <2>7
  <2>9. next \in Nat
    OBVIOUS
  <2> HIDE DEF next
  <2> QED  BY <2>5, <2>8, <2>9 DEF SpreadInv, N, ShardNames
<1> QED  BY <1>2, <1>3, <1>4

\* Nobody else touches the counter or a location.
LEMMA OthersSpread ==
  ASSUME NEW f \in Fixtures, step \in [Fixtures -> Steps], SpreadInv,
         Fixture!FixtureStep(f) \/ Fixture!TimesOut(f) \/ Fixture!KcpStep(f)
  PROVE  SpreadInv'
<1>1. UNCHANGED <<counter, location, void>>
  BY DEF Fixture!FixtureStep, Fixture!TimesOut, Fixture!KcpStep, Fixture!Create,
     Fixture!Created, Fixture!PhaseSeen, Fixture!GetFails, Fixture!Accessible,
     Fixture!ShardOrDie, Fixture!Cleanup, Fixture!ServerCreates,
     Fixture!CreateError, Fixture!PhaseAdvances, Fixture!Disappears,
     Fixture!placing, Fixture!fixtureVars
<1>2. \A g \in Fixtures : step'[g] = "idle" => step[g] = "idle"
  BY DEF Fixture!FixtureStep, Fixture!TimesOut, Fixture!KcpStep, Fixture!Create,
     Fixture!Created, Fixture!PhaseSeen, Fixture!GetFails, Fixture!Accessible,
     Fixture!ShardOrDie, Fixture!Cleanup, Fixture!ServerCreates,
     Fixture!CreateError, Fixture!PhaseAdvances, Fixture!Disappears
<1> QED  BY <1>1, <1>2 DEF SpreadInv, OnShard, Turns, ShardNames

LEMMA SpreadInitInv == Fixture!FixtureInit => SpreadInv
<1> SUFFICES ASSUME Fixture!FixtureInit  PROVE SpreadInv
  OBVIOUS
<1>1. ShardNames \in Nat \ {0}
  BY ServerBoundsAssumption DEF ShardNames
<1>2. /\ counter = 0 /\ location = [f \in Fixtures |-> 0]
      /\ void = [i \in 1..ShardNames |-> 0]
  BY DEF Fixture!FixtureInit
<1>3. ASSUME NEW i \in 1..ShardNames  PROVE Turns(i) = 0
  <2>1. OnShard(i) = {}
    BY <1>1, <1>2 DEF OnShard
  <2> QED  BY <1>2, <2>1, FS_EmptySet DEF Turns
<1>4. counter % ShardNames = 0
  BY <1>1, <1>2
<1>5. \A i \in 1..ShardNames :
        Turns(i) = IF i <= counter % ShardNames THEN 0 + 1 ELSE 0
  BY <1>1, <1>3, <1>4
<1> QED  BY <1>1, <1>2, <1>5 DEF SpreadInv

\* WithSpreadAcrossShards goes round the shards (workspaces.go:96-105): for any
\* number of fixtures that begin in any order, on any number of shards, all
\* shards have had equally many turns, or the first ones one more.
THEOREM WorkspacesAreSpread == Spec => []SpreadEvenly
<1> DEFINE Inv == FixtureInv /\ SpreadInv
<1>1. Init => Inv
  BY FixtureInitInv, SpreadInitInv DEF Init
<1>2. Inv /\ [Next]_vars => Inv'
  <2> SUFFICES ASSUME FixtureInv, SpreadInv, [Next]_vars  PROVE Inv'
    OBVIOUS
  <2>1. ASSUME NEW f \in Fixtures, TestStep(f)  PROVE Inv'
    <3>1. step \in [Fixtures -> Steps]
      BY DEF FixtureInv
    <3>2. SpreadInv'
      BY <2>1, <3>1, OptionsSpread, OthersSpread DEF TestStep
    <3> QED  BY <2>1, <3>2, FixtureStepInv
  <2>2. CASE UNCHANGED fixtures
    BY <2>2 DEF fixtures, placing, FixtureInv, WorkspacesCleanedUp, SpreadInv,
       OnShard, Turns, Fixture!WorkspacesCleanedUp, Fixture!Exists, ShardNames
  <2> QED
    BY <2>1, <2>2 DEF Next, vars
<1>3. SpreadInv => SpreadEvenly
  <2> SUFFICES ASSUME SpreadInv PROVE SpreadEvenly
    OBVIOUS
  <2>1. PICK round \in Nat : \A i \in 1..ShardNames :
          Turns(i) = IF i <= counter % ShardNames THEN round + 1 ELSE round
    BY DEF SpreadInv
  <2>2. counter % ShardNames \in Int /\ ShardNames \in Nat
    BY ServerBoundsAssumption, NextRemainder DEF ShardNames, SpreadInv
  <2>3. ASSUME NEW i \in 1..ShardNames, NEW j \in 1..ShardNames, i < j
        PROVE  Turns(i) - Turns(j) \in {0, 1}
    BY <2>1, <2>2, <2>3
  <2> QED
    BY <2>3, SameCardinality DEF SpreadEvenly, Fixture!SpreadEvenly, OnShard,
       Turns
<1> QED
  BY <1>1, <1>2, <1>3, PTL DEF Spec
=============================================================================
