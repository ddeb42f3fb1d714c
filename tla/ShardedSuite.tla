----------------------------- MODULE ShardedSuite -----------------------------
(***************************************************************************)
(* A test suite on the sharded test server (test/e2e/suite_test.go with    *)
(* envtest): its Sharded serves the workspace fixtures of its tests.       *)
(*                                                                         *)
(* Start may return before the server answers (a ready-to-test of an       *)
(* earlier server), the server may crash under the fixtures, and Stop is   *)
(* called when the fixtures' cleanups have run.                            *)
(***************************************************************************)
EXTENDS ShardedServer, FiniteSets

CONSTANTS Fixtures, Initializing, Named, Located, Preserve, MaxUnseen

ASSUME FixtureAssumption ==
  /\ IsFiniteSet(Fixtures)
  /\ Initializing \union Named \union Located \subseteq Fixtures
  /\ MaxUnseen \in Nat /\ Preserve \in BOOLEAN

VARIABLES step, counter, location, void, request, unseen, phase, deletion

Fixture == INSTANCE WorkspaceFixture WITH up <- Serving, Shards <- ShardNames

placing == <<counter, location, void>>
fixtures == <<step, placing, request, unseen, phase, deletion>>
vars == <<serverVars, fixtures>>

-----------------------------------------------------------------------------
Init == ServerInit /\ Fixture!FixtureInit

\* The suite's own cleanup comes after those of its tests.
SuiteStops ==
  /\ \A f \in Fixtures : step[f] \in {"idle", "done"}
  /\ CallStop

ServerStep == InStart \/ SuiteStops \/ InStop \/ WaitReturns \/ Processes

\* The tests run while the Sharded is up; a Create in flight ends when it may.
TestStep(f) ==
  \/ pc = "up" /\ Fixture!ApplyOptions(f)
  \/ Fixture!FixtureStep(f)
  \/ Fixture!TimesOut(f)
  \/ Fixture!KcpStep(f)

Next ==
  \/ ServerStep /\ UNCHANGED fixtures
  \/ \E f \in Fixtures : TestStep(f) /\ UNCHANGED serverVars

Spec == Init /\ [][Next]_vars

FairSpec == Spec /\ ServerFairness /\ Fixture!FixtureFairness

-----------------------------------------------------------------------------
(* Properties.                                                             *)

\* Workspaces whose creation was answered are deleted (workspaces.go:173-187),
\* or the server was gone or refused when the test tried, or PRESERVE is set.
WorkspacesCleanedUp == Fixture!WorkspacesCleanedUp

\* The workspaces without a location of their own go round the shards
\* (workspaces.go:96-105), but for the turns a later option made void.
SpreadEvenly == Fixture!SpreadEvenly

\* Start, Stop and the fixtures return (sharded.go:166-193, 226-245,
\* eventually.go:36-55), whatever the server does to them.
CallsReturn == ServerCallsReturn /\ Fixture!FixtureCallsReturn
=============================================================================
