--------------------------- MODULE WorkspaceFixture ---------------------------
(***************************************************************************)
(* The workspace helpers of the tests (envtest/workspaces.go, Eventually   *)
(* of envtest/eventually.go): every fixture creates a workspace, retrying  *)
(* until an answer says it was created, registers its deletion, waits for  *)
(* its phase and for access to it, and deletes it when the test ends.      *)
(*                                                                         *)
(* Eventually runs its condition in a goroutine: when the time is up, the  *)
(* call in flight goes on, and a require that fails inside the condition   *)
(* ends that goroutine only.                                               *)
(***************************************************************************)
EXTENDS Integers, FiniteSets

CONSTANTS
  Fixtures,      \* calls of New*WorkspaceFixture, of one test
  Initializing,  \* those of NewInitializingWorkspaceFixture
  Named,         \* those with WithName
  Located,       \* those with WithShard or WithLocation as their last option
  Shards,        \* len(shardNames) given to WithSpreadAcrossShards
  Preserve,      \* PRESERVE is set
  MaxUnseen      \* bound: workspaces created by requests of unseen answer

VARIABLES
  up,         \* the API server answers (of the server, only read here)
  step,       \* where each fixture is
  counter,    \* the counter of testWorkspaceCount
  location,   \* index in shardNames of ws.Spec.Location, 0: not set or explicit
  void,       \* turns of each shard that a later option made void
  request,    \* the Create in flight
  unseen,     \* number of workspaces created whose fixture has seen no answer
  phase,      \* the workspace the fixture knows of: its phase, or none or gone
  deletion    \* how the Delete of the cleanup went wrong, if it did

placing == <<counter, location, void>>
fixtureVars == <<step, placing, request, unseen, phase, deletion>>

Exists(f) == phase[f] \notin {"none", "gone"}

-----------------------------------------------------------------------------
(* Faulty variants of definitions below, used by no specification.         *)

\* The counter is stored, not advanced.
PlaceStale(f) ==
  /\ counter' = 1
  /\ \/ f \in Located /\ void' = [void EXCEPT ![1] = @ + 1] /\ UNCHANGED location
     \/ f \notin Located /\ location' = [location EXCEPT ![f] = 1] /\ UNCHANGED void

\* A fixture that failed has registered no deletion.
CleanupOnlyReturned(f) ==
  /\ step[f] \in {"returned", "failed"}
  /\ phase' = IF step[f] = "returned" /\ up /\ ~Preserve /\ Exists(f)
              THEN [phase EXCEPT ![f] = "gone"] ELSE phase
  /\ deletion' = [deletion EXCEPT ![f] =
       IF step[f] = "returned" /\ Exists(f) /\ ~up THEN "error" ELSE @]
  /\ step' = [step EXCEPT ![f] = "done"]
  /\ UNCHANGED <<placing, request, unseen>>

\* Waiting has no limit.
NeverTimesOut(f) == step[f] = "never" /\ UNCHANGED fixtureVars

-----------------------------------------------------------------------------
FixtureInit ==
  /\ step = [f \in Fixtures |-> "idle"]
  /\ counter = 0
  /\ location = [f \in Fixtures |-> 0]
  /\ void = [i \in 1..Shards |-> 0]
  /\ request = [f \in Fixtures |-> "none"]
  /\ unseen = [f \in Fixtures |-> 0]
  /\ phase = [f \in Fixtures |-> "none"]
  /\ deletion = [f \in Fixtures |-> "none"]

\* The option of WithSpreadAcrossShards: counter.Add(1) - 1, modulo the shards,
\* is the workspace's location.  WithShard or WithLocation after it replaces
\* the location; the turn is used up.
Place(f) ==
  LET turn == (counter % Shards) + 1
  IN  /\ counter' = counter + 1
      /\ \/ /\ f \in Located
            /\ void' = [void EXCEPT ![turn] = @ + 1]
            /\ UNCHANGED location
         \/ /\ f \notin Located
            /\ location' = [location EXCEPT ![f] = turn]
            /\ UNCHANGED void

\* The call begins: the options are applied in order.  After a location was
\* set, or without WithSpreadAcrossShards, no turn is taken.
ApplyOptions(f) ==
  /\ step[f] = "idle"
  /\ Place(f) \/ UNCHANGED placing
  /\ step' = [step EXCEPT ![f] = "create"]
  /\ UNCHANGED <<request, unseen, phase, deletion>>

-----------------------------------------------------------------------------
(* Eventually Create succeeds.                                             *)

Create(f) ==
  /\ step[f] = "create" /\ request[f] = "none"
  /\ request' = [request EXCEPT ![f] = "sent"]
  /\ UNCHANGED <<step, placing, unseen, phase, deletion>>

\* The server gives the workspace a name of its own unless it is named.
ServerCreates(f) ==
  /\ request[f] = "sent" /\ up
  /\ f \in Named => unseen[f] = 0
  /\ unseen[f] <= MaxUnseen
  /\ unseen' = [unseen EXCEPT ![f] = @ + 1]
  /\ request' = [request EXCEPT ![f] = "created"]
  /\ UNCHANGED <<step, placing, phase, deletion>>

\* No server answers, it refuses (a type not known yet, a name that exists) or
\* the answer is lost: the next tick tries again.
CreateError(f) ==
  /\ \/ request[f] = "sent"
     \/ request[f] = "created" /\ unseen[f] <= MaxUnseen
  /\ request' = [request EXCEPT ![f] = "none"]
  /\ UNCHANGED <<step, placing, unseen, phase, deletion>>

\* Create returned without an error; the deletion is registered.
Created(f) ==
  /\ step[f] = "create" /\ request[f] = "created"
  /\ step' = [step EXCEPT ![f] = "phase"]
  /\ request' = [request EXCEPT ![f] = "none"]
  /\ unseen' = [unseen EXCEPT ![f] = @ - 1]
  /\ phase' = [phase EXCEPT ![f] = "scheduling"]
  /\ UNCHANGED <<placing, deletion>>

-----------------------------------------------------------------------------
(* Eventually the workspace has the phase and can be reached.              *)

Expected(f) == IF f \in Initializing THEN "initializing" ELSE "ready"

\* Get shows the phase; the initializing fixture does not wait for access.
PhaseSeen(f) ==
  /\ step[f] = "phase"
  /\ up /\ phase[f] = Expected(f)
  /\ step' = [step EXCEPT ![f] = IF f \in Initializing THEN "shard" ELSE "access"]
  /\ UNCHANGED <<placing, request, unseen, phase, deletion>>

\* Get fails, if only once: require ends the condition's goroutine, which never
\* reports.
GetFails(f) ==
  /\ step[f] = "phase"
  /\ step' = [step EXCEPT ![f] = "stuck"]
  /\ UNCHANGED <<placing, request, unseen, phase, deletion>>

\* Both Gets of the logical cluster succeed.
Accessible(f) ==
  /\ step[f] = "access"
  /\ up /\ phase[f] = "ready"
  /\ step' = [step EXCEPT ![f] = "shard"]
  /\ UNCHANGED <<placing, request, unseen, phase, deletion>>

\* Eventually fails the test at its timeout.
TimesOut(f) ==
  /\ step[f] \in {"create", "phase", "stuck", "access"}
  /\ step' = [step EXCEPT ![f] = "failed"]
  /\ UNCHANGED <<placing, request, unseen, phase, deletion>>

\* WorkspaceShardOrDie: the shard's hash is found, or the test fails.
ShardOrDie(f) ==
  /\ step[f] = "shard"
  /\ \/ up /\ step' = [step EXCEPT ![f] = "returned"]
     \/ step' = [step EXCEPT ![f] = "failed"]
  /\ UNCHANGED <<placing, request, unseen, phase, deletion>>

\* The test ends: the deletion, if one was registered.  Not found is no error;
\* Forbidden is none either, though the workspace may be there.
Cleanup(f) ==
  /\ step[f] \in {"returned", "failed"}
  /\ \/ /\ Preserve \/ phase[f] = "none"
        /\ UNCHANGED <<phase, deletion>>
     \/ /\ ~Preserve /\ phase[f] # "none"
        /\ up /\ phase' = [phase EXCEPT ![f] = "gone"]
        /\ UNCHANGED deletion
     \/ /\ ~Preserve /\ phase[f] # "none"
        /\ \/ up /\ deletion' = [deletion EXCEPT ![f] = "forbidden"]
           \/ deletion' = [deletion EXCEPT ![f] = "error"]
        /\ UNCHANGED phase
  /\ step' = [step EXCEPT ![f] = "done"]
  /\ UNCHANGED <<placing, request, unseen>>

-----------------------------------------------------------------------------
(* kcp.                                                                    *)

PhaseAdvances(f) ==
  /\ up
  /\ \/ phase[f] = "scheduling" /\ phase' = [phase EXCEPT ![f] = "initializing"]
     \/ phase[f] = "initializing" /\ phase' = [phase EXCEPT ![f] = "ready"]
  /\ UNCHANGED <<step, placing, request, unseen, deletion>>

\* Somebody else deletes the workspace, or its parent.
Disappears(f) ==
  /\ up /\ Exists(f)
  /\ phase' = [phase EXCEPT ![f] = "gone"]
  /\ UNCHANGED <<step, placing, request, unseen, deletion>>

FixtureStep(f) ==
  \/ Create(f) \/ Created(f)
  \/ PhaseSeen(f) \/ GetFails(f) \/ Accessible(f) \/ ShardOrDie(f) \/ Cleanup(f)
KcpStep(f) ==
  ServerCreates(f) \/ CreateError(f) \/ PhaseAdvances(f) \/ Disappears(f)

FixtureFairness ==
  \A f \in Fixtures :
    /\ WF_fixtureVars(TimesOut(f))
    /\ WF_fixtureVars(ShardOrDie(f)) /\ WF_fixtureVars(Cleanup(f))

-----------------------------------------------------------------------------
(* Properties.                                                             *)

\* A workspace whose creation was answered does not outlive the test
\* (workspaces.go:173-187), wherever the fixture failed in between, unless
\* PRESERVE says so, Delete failed, which fails the test, or was forbidden,
\* which fails nothing (183-185).  The ones of unseen answers (lost, or late
\* for the timeout) are out of its reach.
WorkspacesCleanedUp ==
  \A f \in Fixtures :
    step[f] = "done" /\ Exists(f) =>
      Preserve \/ deletion[f] \in {"forbidden", "error"}

\* WithSpreadAcrossShards spreads evenly, the first shards first
\* (workspaces.go:96-105), however the fixtures interleave: the workspaces on
\* a shard, with the turns of it that a later option made void, are as many as
\* on any later shard or one more.
SpreadEvenly ==
  LET Turns(i) == Cardinality({f \in Fixtures : location[f] = i}) + void[i]
  IN  \A i, j \in 1..Shards : i < j => Turns(i) - Turns(j) \in {0, 1}

\* A fixture's call returns or fails (eventually.go:36-55), and its test ends
\* with the cleanup, whatever the server does.
FixtureCallsReturn ==
  \A f \in Fixtures : step[f] # "idle" ~> step[f] = "done"
=============================================================================
